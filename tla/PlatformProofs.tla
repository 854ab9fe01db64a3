--------------------------- MODULE PlatformProofs ---------------------------
(***************************************************************************)
(* Proofs about the services around the queue, for every value of their     *)
(* constants.  Each part states the inductive invariant of one component,   *)
(* proves it action by action and concludes the property that the component *)
(* promises.                                                                *)
(***************************************************************************)
EXTENDS Idempotency, Transactions, DirectUpload, DelegatedJobs, Remember, Pages, Migrations,
    FiniteSetTheorems, SequenceTheorems, WellFoundedInduction, TLAPS

(***************************************************************************)
(* Idempotency.  A call that has not lost its lease holds the record, so    *)
(* nobody else can write it; and while a finished record is kept, it is the *)
(* source of every successful answer of its period.                         *)
(***************************************************************************)
Successful == {"result", "replay"}

\* A record belongs to the call that wrote it; a processing one is kept as long as its lease
\* lives, and a completed one has the response of a request with the same fingerprint.
RecordIsSound ==
    /\ record.live => record.state = "processing"
    /\ record.state = "processing" =>
          /\ record.token \in Requests
          /\ record.fingerprint = FingerprintOf[record.token]
          /\ record.kept = record.live
    /\ record.state = "completed" =>
          /\ record.response \in Requests
          /\ FingerprintOf[record.response] = record.fingerprint

\* Before its answer is stored, a call whose lease did not lapse holds the record.
HoldersHoldTheRecord ==
    \A r \in Requests :
        request[r].pc \in {"running", "completing"} /\ r \notin lapsed => HeldBy(record, r)

\* Only a call that has ended has succeeded, with the response of its own fingerprint; a success
\* of the current period is the response of the record, which is completed and kept.
AnswersComeFromTheRecord ==
    \A r \in Requests :
        request[r].answer \in Successful =>
            /\ request[r].pc = "ended"
            /\ request[r].response \in Requests
            /\ FingerprintOf[request[r].response] = FingerprintOf[r]
            /\ request[r].period <= period
            /\ request[r].period = period =>
                  record.state = "completed" /\ record.kept /\ record.response = request[r].response

OneResponsePerPeriod ==
    \A r, s \in Requests :
        /\ request[r].answer \in Successful /\ request[s].answer \in Successful
        /\ request[r].period = request[s].period
        => request[r].response = request[s].response

IdempotencyInv ==
    /\ IdempotencyTypeOK
    /\ RecordIsSound
    /\ HoldersHoldTheRecord
    /\ AnswersComeFromTheRecord
    /\ OneResponsePerPeriod

\* The record keeps its type under what the store writes.
LEMMA RecordTypes ==
    ASSUME record \in Record, NEW r \in Requests
    PROVE  /\ Processing(r) \in Record
           /\ Complete(r) \in Record
           /\ Fail(r) \in Record
  BY IdempotencyAssumption DEF Processing, Complete, Fail, Finished, Record

\* So do the calls, wherever they go.
LEMMA CallTypes ==
    ASSUME request \in [Requests -> Call], NEW r \in Requests
    PROVE  /\ \A answer \in Answers : End(r, answer) \in Call /\ Failing(r, answer) \in Call
           /\ \A pc \in {"running", "completing", "ended"} : [request[r] EXCEPT !.pc = pc] \in Call
           /\ [request[r] EXCEPT !.ownershipLost = TRUE] \in Call
           /\ \A answer \in Answers, s \in Requests \cup {None}, p \in Nat :
                 [End(r, answer) EXCEPT !.response = s, !.period = p] \in Call
  BY DEF End, Failing, Call

\* What a call looks like when it has ended, or is about to record its failure.
LEMMA CallFields ==
    ASSUME request \in [Requests -> Call], NEW r \in Requests, NEW answer
    PROVE  /\ End(r, answer).pc = "ended" /\ End(r, answer).answer = answer
           /\ Failing(r, answer).pc = "failing" /\ Failing(r, answer).answer = answer
           /\ \A s, p :
                 LET e == [End(r, answer) EXCEPT !.response = s, !.period = p]
                 IN  e.pc = "ended" /\ e.answer = answer /\ e.response = s /\ e.period = p
  BY DEF End, Failing, Call

\* acquire: the call runs with a record of its own, answers with the kept response, or is refused.
LEMMA AcquireEnds ==
    ASSUME request \in [Requests -> Call], NEW r \in Requests, Acquire(r)
    PROVE  \/ /\ AcquireOutcome(record, FingerprintOf[r]) = "acquired" /\ record' = Processing(r)
              /\ request'[r].pc = "running" /\ request'[r].answer = request[r].answer
           \/ /\ AcquireOutcome(record, FingerprintOf[r]) = "replay" /\ record' = record
              /\ request'[r].pc = "ended" /\ request'[r].answer = "replay"
              /\ request'[r].response = record.response /\ request'[r].period = period
           \/ /\ request'[r].pc = "ended" /\ record' = record
              /\ request'[r].answer \in {"conflict", "processing", "failed"}
<1> DEFINE outcome == AcquireOutcome(record, FingerprintOf[r])
<1>1. outcome \in {"acquired", "replay", "conflict", "processing", "failed"}
  BY DEF AcquireOutcome
<1>2. CASE outcome = "acquired"
  BY <1>2 DEF Acquire, Call
<1>3. CASE outcome = "replay"
  <2>1. request'[r] = [End(r, "replay") EXCEPT !.response = record.response, !.period = period]
    BY <1>3 DEF Acquire
  <2> QED  BY <1>3, <2>1, CallFields DEF Acquire
<1>4. CASE outcome \in {"conflict", "processing", "failed"}
  <2>1. request'[r] = End(r, outcome) /\ record' = record
    BY <1>4 DEF Acquire
  <2> HIDE DEF outcome
  <2> QED  BY <1>4, <2>1, CallFields
<1> QED  BY <1>1, <1>2, <1>3, <1>4

\* complete: the call answers with its own result when it holds the record, and else is lost.
LEMMA CompleteEnds ==
    ASSUME request \in [Requests -> Call], NEW r \in Requests, StoreCompletes(r)
    PROVE  \/ /\ HeldBy(record, r) /\ record' = Finished(record, "completed", r)
              /\ request'[r].pc = "ended" /\ request'[r].answer = "result"
              /\ request'[r].response = r /\ request'[r].period = period
           \/ /\ record' = record /\ request'[r].pc = "failing" /\ request'[r].answer = "lost"
  BY CallFields DEF StoreCompletes, Complete

\* Every step keeps the types of the record and of the calls (IdempotencyMiddleware.handle,
\* acquire, complete and fail of the store, and the passing of time).
LEMMA IdempotencyTypes ==
    ASSUME IdempotencyTypeOK, RecordIsSound, IdempotencyNext
    PROVE  IdempotencyTypeOK'
<1> USE IdempotencyAssumption
<1> USE DEF IdempotencyTypeOK
<1>1. ASSUME NEW r \in Requests, Acquire(r)
      PROVE  IdempotencyTypeOK'
  <2>1. record' \in Record
    BY <1>1, RecordTypes DEF Acquire
  <2>2. request' \in [Requests -> Call]
    <3> DEFINE outcome == AcquireOutcome(record, FingerprintOf[r])
    <3>1. outcome \in {"acquired", "replay"} \cup Answers /\ "replay" \in Answers
      BY DEF AcquireOutcome, Answers
    <3>2. record.response \in Requests \cup {None}
      BY DEF Record
    <3> HIDE DEF outcome
    <3> QED  BY <1>1, <3>1, <3>2, CallTypes DEF Acquire, outcome
  <2> QED  BY <1>1, <2>1, <2>2 DEF Acquire
<1>2. ASSUME NEW r \in Requests, AcquireFails(r)
      PROVE  IdempotencyTypeOK'
  <2>1. record' \in Record
    BY <1>2, RecordTypes DEF AcquireFails
  <2>2. request' \in [Requests -> Call]
    BY <1>2, CallTypes DEF AcquireFails, Answers
  <2> QED  BY <1>2, <2>1, <2>2 DEF AcquireFails, Fault
<1>3. ASSUME NEW r \in Requests, RenewFails(r) \/ HandlerReturns(r) \/ HandlerThrows(r)
      PROVE  IdempotencyTypeOK'
  <2>1. request' \in [Requests -> Call]
    BY <1>3, CallTypes DEF RenewFails, HandlerReturns, HandlerThrows, Answers
  <2>2. faults' \in 0..MaxFaults
    BY <1>3 DEF RenewFails, HandlerReturns, HandlerThrows, Fault
  <2> QED  BY <1>3, <2>1, <2>2 DEF RenewFails, HandlerReturns, HandlerThrows
<1>4. ASSUME NEW r \in Requests, StoreCompletes(r)
      PROVE  IdempotencyTypeOK'
  <2>1. record' \in Record
    BY <1>4, RecordTypes DEF StoreCompletes
  <2>2. request' \in [Requests -> Call]
    BY <1>4, CallTypes DEF StoreCompletes, Answers
  <2> QED  BY <1>4, <2>1, <2>2 DEF StoreCompletes
<1>5. ASSUME NEW r \in Requests, CompleteFails(r) \/ StoreFails(r) \/ FailFails(r) \/ Crash(r)
      PROVE  IdempotencyTypeOK'
  <2>1. record' \in Record
    BY <1>5, RecordTypes DEF CompleteFails, StoreFails, FailFails, Crash
  <2>2. request' \in [Requests -> Call]
    BY <1>5, CallTypes DEF CompleteFails, StoreFails, FailFails, Crash, Answers
  <2>3. faults' \in 0..MaxFaults
    BY <1>5 DEF CompleteFails, StoreFails, FailFails, Crash, Fault
  <2> QED  BY <1>5, <2>1, <2>2, <2>3 DEF CompleteFails, StoreFails, FailFails, Crash
<1>6. ASSUME LeaseExpires
      PROVE  IdempotencyTypeOK'
  <2>1. record' \in Record
    BY <1>6 DEF LeaseExpires, Record
  <2>2. faults' \in 0..MaxFaults
    BY <1>6 DEF LeaseExpires, Fault
  <2>3. lapsed' \subseteq Requests
    BY <1>6 DEF LeaseExpires, RecordIsSound
  <2> QED  BY <1>6, <2>1, <2>2, <2>3 DEF LeaseExpires
<1>7. ASSUME RetentionEnds
      PROVE  IdempotencyTypeOK'
  <2>1. record' \in Record
    BY <1>7 DEF RetentionEnds, Record
  <2> QED  BY <1>7, <2>1 DEF RetentionEnds
<1> QED  BY <1>1, <1>2, <1>3, <1>4, <1>5, <1>6, <1>7 DEF IdempotencyNext

\* The store hands a record over only when no live call holds it and no finished one is kept.
LEMMA AcquiredIsFree ==
    ASSUME IdempotencyInv, NEW r \in Requests, AcquireOutcome(record, FingerprintOf[r]) = "acquired"
    PROVE  /\ \A s \in Requests : ~HeldBy(record, s)
           /\ ~(record.state = "completed" /\ record.kept)
  BY DEF IdempotencyInv, RecordIsSound, AcquireOutcome, HeldBy

\* The record stays sound under what the store writes.
LEMMA RecordSteps ==
    ASSUME IdempotencyInv, IdempotencyNext
    PROVE  RecordIsSound'
<1> USE IdempotencyAssumption DEF RecordIsSound, IdempotencyInv
<1>1. ASSUME NEW r \in Requests, record' = Processing(r)
      PROVE  RecordIsSound'
  BY <1>1 DEF Processing
<1>2. ASSUME NEW r \in Requests, record' = Complete(r) \/ record' = Fail(r)
      PROVE  RecordIsSound'
  <2>1. CASE record' = record
    BY <2>1
  <2>2. CASE HeldBy(record, r) /\ record' = Finished(record, "completed", r)
    <3>1. /\ record'.live = FALSE /\ record'.state = "completed" /\ record'.response = r
          /\ record'.fingerprint = record.fingerprint
      BY <2>2 DEF Finished, IdempotencyTypeOK, Record
    <3> QED  BY <2>2, <3>1 DEF HeldBy
  <2>3. CASE HeldBy(record, r) /\ record' = Finished(record, "failed", None)
    <3>1. record'.live = FALSE /\ record'.state = "failed"
      BY <2>3 DEF Finished, IdempotencyTypeOK, Record
    <3> QED  BY <3>1
  <2> QED  BY <1>2, <2>1, <2>2, <2>3 DEF Complete, Fail
<1>3. ASSUME record' = record
      PROVE  RecordIsSound'
  BY <1>3
<1>4. ASSUME NEW r \in Requests,
             \/ Acquire(r) \/ AcquireFails(r) \/ RenewFails(r)
             \/ HandlerReturns(r) \/ HandlerThrows(r)
             \/ StoreCompletes(r) \/ CompleteFails(r) \/ StoreFails(r) \/ FailFails(r)
             \/ Crash(r)
      PROVE  RecordIsSound'
  <2>1. record' \in {record, Processing(r), Complete(r), Fail(r)}
    BY <1>4 DEF Acquire, AcquireFails, RenewFails, HandlerReturns, HandlerThrows, StoreCompletes,
                CompleteFails, StoreFails, FailFails, Crash
  <2> QED  BY <2>1, <1>1, <1>2, <1>3
<1>5. ASSUME LeaseExpires
      PROVE  RecordIsSound'
  BY <1>5 DEF LeaseExpires, IdempotencyTypeOK, Record
<1>6. ASSUME RetentionEnds
      PROVE  RecordIsSound'
  BY <1>6 DEF RetentionEnds, IdempotencyTypeOK, Record
<1> QED  BY <1>4, <1>5, <1>6 DEF IdempotencyNext

\* No step takes the record from a call that holds it without making the call one that lapsed.
LEMMA HolderSteps ==
    ASSUME IdempotencyInv, IdempotencyNext
    PROVE  HoldersHoldTheRecord'
<1> SUFFICES ASSUME NEW s \in Requests,
                    request'[s].pc \in {"running", "completing"}, s \notin lapsed'
             PROVE  HeldBy(record', s)
  BY DEF HoldersHoldTheRecord, HeldBy
<1>0. request \in [Requests -> Call]
  BY DEF IdempotencyInv, IdempotencyTypeOK
<1>1. ASSUME request[s].pc \in {"running", "completing"}, s \notin lapsed
      PROVE  HeldBy(record, s)
  BY <1>1 DEF HoldersHoldTheRecord, IdempotencyInv
<1>2. ASSUME NEW r \in Requests, r # s, HeldBy(record, s)
      PROVE  Complete(r) = record /\ Fail(r) = record
  BY <1>2 DEF Complete, Fail, HeldBy
<1>3. ASSUME NEW r \in Requests, Acquire(r) \/ AcquireFails(r)
      PROVE  HeldBy(record', s)
  <2>1. CASE s = r
    <3> DEFINE outcome == AcquireOutcome(record, FingerprintOf[r])
    <3>1. request'[r].pc = "ended" \/ (Acquire(r) /\ outcome = "acquired")
      BY <1>0, <1>3, AcquireEnds, CallFields DEF AcquireFails
    <3>2. Acquire(r) /\ outcome = "acquired" => record' = Processing(r)
      BY DEF Acquire
    <3> HIDE DEF outcome
    <3> QED  BY <2>1, <3>1, <3>2 DEF Processing, HeldBy
  <2>2. CASE s # r
    <3>1. HeldBy(record, s)
      BY <1>0, <1>1, <1>3, <2>2 DEF Acquire, AcquireFails
    <3> QED  BY <1>3, <3>1, AcquiredIsFree DEF Acquire, AcquireFails
  <2> QED  BY <2>1, <2>2
<1>4. ASSUME NEW r \in Requests, RenewFails(r) \/ HandlerReturns(r) \/ HandlerThrows(r)
      PROVE  HeldBy(record', s)
  BY <1>0, <1>4, <1>1 DEF RenewFails, HandlerReturns, HandlerThrows, Failing, Call
<1>5. ASSUME NEW r \in Requests, StoreCompletes(r) \/ CompleteFails(r)
      PROVE  HeldBy(record', s)
  <2>1. s # r
    <3>1. request'[r].pc \in {"ended", "failing"}
      BY <1>0, <1>5, CompleteEnds, CallFields DEF CompleteFails
    <3> QED  BY <3>1
  <2>2. HeldBy(record, s)
    BY <1>0, <1>1, <1>5, <2>1 DEF StoreCompletes, CompleteFails
  <2> QED  BY <1>2, <1>5, <2>1, <2>2 DEF StoreCompletes, CompleteFails
<1>6. ASSUME NEW r \in Requests, StoreFails(r) \/ FailFails(r) \/ Crash(r)
      PROVE  HeldBy(record', s)
  <2>1. s # r
    BY <1>0, <1>6, CallFields DEF StoreFails, FailFails, Crash, Call
  <2>2. HeldBy(record, s)
    BY <1>0, <1>1, <1>6, <2>1 DEF StoreFails, FailFails, Crash
  <2> QED  BY <1>2, <1>6, <2>1, <2>2 DEF StoreFails, FailFails, Crash
<1>7. ASSUME LeaseExpires \/ RetentionEnds
      PROVE  HeldBy(record', s)
  BY <1>7, <1>1 DEF LeaseExpires, RetentionEnds, HeldBy
<1> QED  BY <1>3, <1>4, <1>5, <1>6, <1>7 DEF IdempotencyNext

\* A step that gives no success and keeps a finished record leaves the answers as they are.
LEMMA QuietSteps ==
    ASSUME IdempotencyInv,
           \A s \in Requests : request'[s] = request[s] \/ request'[s].answer \notin Successful,
           period' = period,
           record.state = "completed" /\ record.kept => record' = record
    PROVE  AnswersComeFromTheRecord' /\ OneResponsePerPeriod'
<1>1. AnswersComeFromTheRecord'
  <2> SUFFICES ASSUME NEW s \in Requests, request'[s].answer \in Successful
               PROVE  /\ request'[s].pc = "ended"
                      /\ request'[s].response \in Requests
                      /\ FingerprintOf[request'[s].response] = FingerprintOf[s]
                      /\ request'[s].period <= period'
                      /\ request'[s].period = period' =>
                            record'.state = "completed" /\ record'.kept /\ record'.response = request'[s].response
    BY DEF AnswersComeFromTheRecord, Successful
  <2>1. request'[s] = request[s]
    OBVIOUS
  <2> QED  BY <2>1 DEF IdempotencyInv, AnswersComeFromTheRecord
<1>2. OneResponsePerPeriod'
  <2> SUFFICES ASSUME NEW q \in Requests, NEW s \in Requests,
                      request'[q].answer \in Successful, request'[s].answer \in Successful,
                      request'[q].period = request'[s].period
               PROVE  request'[q].response = request'[s].response
    BY DEF OneResponsePerPeriod, Successful
  <2>1. request'[q] = request[q] /\ request'[s] = request[s]
    OBVIOUS
  <2> QED  BY <2>1 DEF IdempotencyInv, OneResponsePerPeriod
<1> QED  BY <1>1, <1>2

\* A new success agrees with the others when the record it leaves is its source and theirs.
LEMMA SuccessSteps ==
    ASSUME IdempotencyInv, NEW r \in Requests, NEW x \in Requests,
           \A s \in Requests \ {r} : request'[s] = request[s],
           request'[r].pc = "ended", request'[r].response = x, request'[r].period = period,
           FingerprintOf[x] = FingerprintOf[r],
           period' = period,
           record'.state = "completed", record'.kept, record'.response = x,
           \A s \in Requests : request[s].answer \in Successful /\ request[s].period = period =>
                                  request[s].response = x
    PROVE  AnswersComeFromTheRecord' /\ OneResponsePerPeriod'
<1>0. period \in Nat
  BY DEF IdempotencyInv, IdempotencyTypeOK
<1>1. AnswersComeFromTheRecord'
  <2> SUFFICES ASSUME NEW s \in Requests, request'[s].answer \in Successful
               PROVE  /\ request'[s].pc = "ended"
                      /\ request'[s].response \in Requests
                      /\ FingerprintOf[request'[s].response] = FingerprintOf[s]
                      /\ request'[s].period <= period'
                      /\ request'[s].period = period' =>
                            record'.state = "completed" /\ record'.kept /\ record'.response = request'[s].response
    BY DEF AnswersComeFromTheRecord, Successful
  <2>1. CASE s = r
    BY <1>0, <2>1
  <2>2. CASE s # r
    <3>1. request'[s] = request[s]
      BY <2>2
    <3> QED  BY <3>1 DEF IdempotencyInv, AnswersComeFromTheRecord
  <2> QED  BY <2>1, <2>2
<1>2. OneResponsePerPeriod'
  <2> SUFFICES ASSUME NEW q \in Requests, NEW s \in Requests,
                      request'[q].answer \in Successful, request'[s].answer \in Successful,
                      request'[q].period = request'[s].period
               PROVE  request'[q].response = request'[s].response
    BY DEF OneResponsePerPeriod, Successful
  <2>1. CASE q # r /\ s # r
    <3>1. request'[q] = request[q] /\ request'[s] = request[s]
      BY <2>1
    <3> QED  BY <3>1 DEF IdempotencyInv, OneResponsePerPeriod
  <2>2. CASE q = r \/ s = r
    BY <2>2
  <2> QED  BY <2>1, <2>2
<1> QED  BY <1>1, <1>2

\* Every success comes from the record of its period, and there is one per period.
LEMMA AnswerSteps ==
    ASSUME IdempotencyInv, IdempotencyNext
    PROVE  AnswersComeFromTheRecord' /\ OneResponsePerPeriod'
<1>0. request \in [Requests -> Call] /\ record \in Record /\ period \in Nat
  BY DEF IdempotencyInv, IdempotencyTypeOK
<1>1. \A r \in Requests : request[r].pc # "ended" => request[r].answer \notin Successful
  BY DEF IdempotencyInv, AnswersComeFromTheRecord
<1>2. \A r \in Requests :
         record.state = "completed" => Complete(r) = record /\ Fail(r) = record
  BY DEF Complete, Fail, HeldBy
<1>3. ASSUME NEW r \in Requests, AcquireFails(r) \/ RenewFails(r) \/ HandlerReturns(r) \/ HandlerThrows(r)
      PROVE  AnswersComeFromTheRecord' /\ OneResponsePerPeriod'
  <2>1. \A s \in Requests \ {r} : request'[s] = request[s]
    BY <1>0, <1>3 DEF AcquireFails, RenewFails, HandlerReturns, HandlerThrows
  <2>2. request'[r].answer \in {request[r].answer, "error", "lost"}
    BY <1>0, <1>3, CallFields DEF AcquireFails, RenewFails, HandlerReturns, HandlerThrows, Call
  <2>3. request[r].pc # "ended"
    BY <1>3 DEF AcquireFails, RenewFails, HandlerReturns, HandlerThrows
  <2>4. record' = record \/ ~(record.state = "completed" /\ record.kept)
    BY <1>3, AcquiredIsFree DEF AcquireFails, RenewFails, HandlerReturns, HandlerThrows
  <2>5. period' = period
    BY <1>3 DEF AcquireFails, RenewFails, HandlerReturns, HandlerThrows
  <2>6. request'[r].answer \notin Successful
    BY <1>1, <2>2, <2>3 DEF Successful
  <2> QED  BY <2>1, <2>4, <2>5, <2>6, QuietSteps
<1>4. ASSUME NEW r \in Requests, CompleteFails(r) \/ StoreFails(r) \/ FailFails(r) \/ Crash(r)
      PROVE  AnswersComeFromTheRecord' /\ OneResponsePerPeriod'
  <2>1. \A s \in Requests \ {r} : request'[s] = request[s]
    BY <1>0, <1>4 DEF CompleteFails, StoreFails, FailFails, Crash
  <2>2. request'[r].answer \in {request[r].answer, "error"}
    BY <1>0, <1>4, CallFields DEF CompleteFails, StoreFails, FailFails, Crash, Call
  <2>3. request[r].pc # "ended"
    BY <1>4 DEF CompleteFails, StoreFails, FailFails, Crash
  <2>4. record' = record \/ record.state # "completed"
    BY <1>2, <1>4 DEF CompleteFails, StoreFails, FailFails, Crash
  <2>5. period' = period
    BY <1>4 DEF CompleteFails, StoreFails, FailFails, Crash
  <2>6. request'[r].answer \notin Successful
    BY <1>1, <2>2, <2>3 DEF Successful
  <2> QED  BY <2>1, <2>4, <2>5, <2>6, QuietSteps
<1>5. ASSUME LeaseExpires
      PROVE  AnswersComeFromTheRecord' /\ OneResponsePerPeriod'
  BY <1>5, QuietSteps DEF LeaseExpires
<1>6. ASSUME NEW r \in Requests, Acquire(r), request'[r].answer # "replay"
      PROVE  AnswersComeFromTheRecord' /\ OneResponsePerPeriod'
  <2>1. \A s \in Requests \ {r} : request'[s] = request[s]
    BY <1>0, <1>6 DEF Acquire
  <2>2. request'[r].answer \in {request[r].answer, "conflict", "processing", "failed"}
    BY <1>0, <1>6, AcquireEnds
  <2>3. request[r].pc # "ended" /\ period' = period
    BY <1>6 DEF Acquire
  <2>4. record' = record \/ ~(record.state = "completed" /\ record.kept)
    BY <1>6, AcquiredIsFree DEF Acquire
  <2>5. request'[r].answer \notin Successful
    BY <1>1, <2>2, <2>3 DEF Successful
  <2> QED  BY <2>1, <2>3, <2>4, <2>5, QuietSteps
<1>7. ASSUME NEW r \in Requests, Acquire(r), request'[r].answer = "replay"
      PROVE  AnswersComeFromTheRecord' /\ OneResponsePerPeriod'
  <2>1. \A s \in Requests \ {r} : request'[s] = request[s]
    BY <1>0, <1>7 DEF Acquire
  <2>2. request[r].pc # "ended" /\ period' = period
    BY <1>7 DEF Acquire
  <2>3. request[r].answer # "replay"
    BY <1>1, <2>2 DEF Successful
  <2>4. /\ AcquireOutcome(record, FingerprintOf[r]) = "replay" /\ record' = record
        /\ request'[r].pc = "ended" /\ request'[r].response = record.response /\ request'[r].period = period
    BY <1>0, <1>7, <2>3, AcquireEnds
  <2>5. record.state = "completed" /\ record.kept /\ record.fingerprint = FingerprintOf[r]
    BY <2>4 DEF AcquireOutcome
  <2>6. record.response \in Requests /\ FingerprintOf[record.response] = FingerprintOf[r]
    BY <2>5 DEF IdempotencyInv, RecordIsSound
  <2>7. \A s \in Requests : request[s].answer \in Successful /\ request[s].period = period =>
                               request[s].response = record.response
    BY DEF IdempotencyInv, AnswersComeFromTheRecord
  <2> QED  BY <2>1, <2>2, <2>4, <2>5, <2>6, <2>7, SuccessSteps
<1>8. ASSUME NEW r \in Requests, StoreCompletes(r)
      PROVE  AnswersComeFromTheRecord' /\ OneResponsePerPeriod'
  <2>1. (\A s \in Requests \ {r} : request'[s] = request[s]) /\ period' = period
    BY <1>0, <1>8 DEF StoreCompletes
  <2>2. CASE record' = record /\ request'[r].answer = "lost"
    BY <2>1, <2>2, QuietSteps DEF Successful
  <2>3. CASE /\ HeldBy(record, r) /\ record' = Finished(record, "completed", r)
             /\ request'[r].pc = "ended" /\ request'[r].response = r /\ request'[r].period = period
    <3>1. record.state = "processing" /\ record.kept
      BY <2>3 DEF HeldBy, IdempotencyInv, RecordIsSound
    <3>2. record'.state = "completed" /\ record'.kept /\ record'.response = r
      BY <1>0, <2>3, <3>1 DEF Finished, Record
    <3>3. \A s \in Requests : ~(request[s].answer \in Successful /\ request[s].period = period)
      BY <3>1 DEF IdempotencyInv, AnswersComeFromTheRecord
    <3> QED  BY <2>1, <2>3, <3>2, <3>3, SuccessSteps
  <2> QED  BY <1>0, <1>8, <2>2, <2>3, CompleteEnds
<1>9. ASSUME RetentionEnds
      PROVE  AnswersComeFromTheRecord' /\ OneResponsePerPeriod'
  <2>1. request' = request /\ period' = period + 1
    BY <1>9 DEF RetentionEnds
  <2>2. \A r \in Requests : request[r].period \in Nat
    BY <1>0 DEF Call
  <2>3. AnswersComeFromTheRecord'
    BY <1>0, <2>1, <2>2 DEF IdempotencyInv, AnswersComeFromTheRecord
  <2> QED  BY <2>1, <2>3 DEF IdempotencyInv, OneResponsePerPeriod
<1> QED  BY <1>3, <1>4, <1>5, <1>6, <1>7, <1>8, <1>9 DEF IdempotencyNext

\* One Idempotency-Key (IdempotencyMiddleware.handle over either store): every reachable state
\* satisfies the inductive invariant, so within a retention period all successful answers are
\* one execution's response to the same request, two calls run at once only after one of them
\* lost its lease, and the in-memory and the SQL store answer alike.
THEOREM KeysStayExclusive == IdempotencySpec => [](IdempotencyTypeOK /\ KeysAreExclusive)
<1>1. IdempotencyInit => IdempotencyInv
  <2> SUFFICES ASSUME IdempotencyInit
               PROVE  IdempotencyInv
    OBVIOUS
  <2>1. IdempotencyTypeOK
    BY IdempotencyAssumption DEF IdempotencyInit, IdempotencyTypeOK, Record, Call, Answers
  <2>2. RecordIsSound
    BY DEF IdempotencyInit, RecordIsSound
  <2>3. \A r \in Requests : request[r].pc = "new" /\ request[r].answer = "none"
    BY DEF IdempotencyInit
  <2> QED  BY <2>1, <2>2, <2>3 DEF IdempotencyInv, HoldersHoldTheRecord, AnswersComeFromTheRecord,
                                   OneResponsePerPeriod, Successful
<1>2. IdempotencyInv /\ [IdempotencyNext]_idempotencyVars => IdempotencyInv'
  <2>1. ASSUME IdempotencyInv, IdempotencyNext
        PROVE  IdempotencyInv'
    BY <2>1, IdempotencyTypes, RecordSteps, HolderSteps, AnswerSteps DEF IdempotencyInv
  <2>2. ASSUME IdempotencyInv, UNCHANGED idempotencyVars
        PROVE  IdempotencyInv'
    BY <2>2 DEF IdempotencyInv, idempotencyVars, IdempotencyTypeOK, RecordIsSound, HoldersHoldTheRecord,
                AnswersComeFromTheRecord, OneResponsePerPeriod, HeldBy
  <2> QED  BY <2>1, <2>2
<1>3. IdempotencyInv => IdempotencyTypeOK /\ KeysAreExclusive
  <2> SUFFICES ASSUME IdempotencyInv
               PROVE  IdempotencyTypeOK /\ KeysAreExclusive
    OBVIOUS
  <2>1. AnswersAgree
    BY DEF IdempotencyInv, AnswersAgree, AnswersComeFromTheRecord, OneResponsePerPeriod, Successful
  <2>2. OneOwnerRuns
    BY DEF IdempotencyInv, OneOwnerRuns, HoldersHoldTheRecord, HeldBy
  <2>3. StoresAgree
    BY DEF IdempotencyInv, StoresAgree, AcquireOutcome, DrizzleOutcome, Eligible, IdempotencyTypeOK, Record
  <2> QED  BY <2>1, <2>2, <2>3 DEF IdempotencyInv, KeysAreExclusive
<1> QED  BY <1>1, <1>2, <1>3, PTL DEF IdempotencySpec

(***************************************************************************)
(* Transactions.  Until the commit nothing is pushed; from the commit on     *)
(* exactly the hooks that ran are pushed, and nothing is written.            *)
(***************************************************************************)
TransactionRecord ==
    [kind : {"async", "sync"}, pc : {"working", "hooks", "ended"}, marked : {"no", "working", "hooks"},
     promise : BOOLEAN, hooks : 0..MaxHooks, ran : 0..MaxHooks,
     outcome : {"none", "rejected", "resolved", "dispatchFailed", "died"}]

DatabaseRecord == [open : 0..MaxWrites, committed : 0..MaxWrites, written : 0..MaxWrites]

\* The queue has an initial run of the hooks, each of them once.
PushedInOrder ==
    /\ pushed \in Seq(Nat) /\ Len(pushed) \in 0..MaxHooks
    /\ \A i \in 1..Len(pushed) : pushed[i] = i

\* Before the commit everything written is open and nothing was pushed.
NothingBeforeCommit ==
    transaction.pc = "working" =>
        /\ transaction.outcome = "none" /\ transaction.ran = 0 /\ pushed = <<>>
        /\ transaction.marked # "hooks"
        /\ database.committed = 0 /\ database.open = database.written

\* After it everything written is committed and the hooks that ran are pushed.
HooksAfterCommit ==
    transaction.pc = "hooks" =>
        /\ transaction.outcome = "none" /\ transaction.marked # "working"
        /\ database.open = 0 /\ database.committed = database.written
        /\ Len(pushed) = transaction.ran

\* What has ended was rolled back, or committed and its hooks pushed as far as they ran.
OutcomesAreFounded ==
    /\ transaction.marked = "working" => pushed = <<>> /\ database.committed = 0
    /\ transaction.outcome = "rejected" => pushed = <<>>
    /\ transaction.outcome = "resolved" => Len(pushed) = transaction.hooks
    /\ transaction.outcome \in {"resolved", "dispatchFailed"} => database.committed = database.written
    /\ detached > 0 => transaction.kind = "sync" /\ transaction.promise

TransactionsInv ==
    /\ transaction \in TransactionRecord /\ transaction.ran <= transaction.hooks
    /\ database \in DatabaseRecord
    /\ detached \in 0..MaxWrites
    /\ PushedInOrder
    /\ NothingBeforeCommit
    /\ HooksAfterCommit
    /\ OutcomesAreFounded

\* A hook's push continues the initial run.
LEMMA PushContinues ==
    ASSUME PushedInOrder, Len(pushed) < MaxHooks, pushed' = Append(pushed, Len(pushed) + 1)
    PROVE  PushedInOrder' /\ Len(pushed') = Len(pushed) + 1
<1>1. Len(pushed) + 1 \in Nat /\ pushed \in Seq(Nat)
  BY DEF PushedInOrder
<1>2. /\ pushed' \in Seq(Nat) /\ Len(pushed') = Len(pushed) + 1
      /\ \A i \in 1..Len(pushed) : pushed'[i] = pushed[i]
      /\ pushed'[Len(pushed) + 1] = Len(pushed) + 1
  BY <1>1, AppendProperties
<1> QED  BY <1>2, TransactionsAssumption DEF PushedInOrder

\* A write, a rollback and a commit of a transaction whose writes are all open.
LEMMA DatabaseSteps ==
    ASSUME database \in DatabaseRecord, database.committed = 0, database.open = database.written
    PROVE  /\ database.open < MaxWrites =>
                LET d == [database EXCEPT !.open = @ + 1, !.written = @ + 1]
                IN  d \in DatabaseRecord /\ d.open = d.written /\ d.committed = 0
           /\ Committed \in DatabaseRecord /\ Committed.open = 0 /\ Committed.committed = Committed.written
           /\ [database EXCEPT !.open = 0] \in DatabaseRecord
<1>1. /\ database.open \in 0..MaxWrites /\ database.written = database.open
      /\ database.committed + database.open = database.open
  BY TransactionsAssumption DEF DatabaseRecord
<1>2. ASSUME NEW a \in 0..MaxWrites, NEW b \in 0..MaxWrites
      PROVE  /\ LET d == [database EXCEPT !.open = a, !.written = b]
                IN  d \in DatabaseRecord /\ d.open = a /\ d.written = b /\ d.committed = database.committed
             /\ LET d == [database EXCEPT !.open = a, !.committed = b]
                IN  d \in DatabaseRecord /\ d.open = a /\ d.committed = b /\ d.written = database.written
             /\ [database EXCEPT !.open = a] \in DatabaseRecord
  BY DEF DatabaseRecord
<1>3. ASSUME database.open < MaxWrites
      PROVE  LET d == [database EXCEPT !.open = @ + 1, !.written = @ + 1]
             IN  d \in DatabaseRecord /\ d.open = d.written /\ d.committed = 0
  <2>1. database.open + 1 \in 0..MaxWrites
    BY <1>1, <1>3, TransactionsAssumption
  <2>2. [database EXCEPT !.open = @ + 1, !.written = @ + 1]
          = [database EXCEPT !.open = database.open + 1, !.written = database.open + 1]
    BY <1>1
  <2>3. PICK n \in 0..MaxWrites : n = database.open + 1
    BY <2>1
  <2> DEFINE e == [database EXCEPT !.open = n, !.written = n]
  <2>4. e \in DatabaseRecord /\ e.open = e.written /\ e.committed = 0
    BY DEF DatabaseRecord
  <2>5. [database EXCEPT !.open = @ + 1, !.written = @ + 1] = e
    BY <2>2, <2>3
  <2> HIDE DEF e
  <2> QED  BY <2>4, <2>5
<1>4. Committed = [database EXCEPT !.open = 0, !.committed = database.open]
  BY <1>1 DEF Committed
<1>5. 0 \in 0..MaxWrites
  BY TransactionsAssumption
<1> QED  BY <1>1, <1>2, <1>3, <1>4, <1>5

\* Every step of the manager, of the work and of the hooks keeps the invariant.
LEMMA TransactionSteps ==
    ASSUME TransactionsInv, TransactionsNext
    PROVE  TransactionsInv'
<1> USE TransactionsAssumption
<1> USE DEF TransactionsInv, NothingBeforeCommit, HooksAfterCommit, OutcomesAreFounded, TransactionRecord,
            InPhase, EndsWith, Rollback, Returns, CommitsUnlessMarked
<1>1. ASSUME pushed' = pushed
      PROVE  PushedInOrder'
  BY <1>1 DEF PushedInOrder
<1>2. CASE write
  <2>1. /\ database' \in DatabaseRecord
        /\ database'.open = database'.written /\ database'.committed = 0
    BY <1>2, DatabaseSteps DEF write
  <2> QED  BY <1>1, <1>2, <2>1 DEF write
<1>3. CASE afterCommit
  BY <1>1, <1>3 DEF afterCommit
<1>4. CASE markRollbackOnly
  BY <1>1, <1>4 DEF markRollbackOnly
<1>5. CASE workThrows \/ refusePromise
  BY <1>1, <1>5 DEF workThrows, refusePromise, DatabaseRecord
<1>6. CASE escapes
  BY <1>1, <1>6 DEF escapes
<1>7. CASE commit
  <2>1. /\ database' \in DatabaseRecord
        /\ database'.open = 0 /\ database'.committed = database'.written
    BY <1>7, DatabaseSteps DEF commit
  <2>2. /\ transaction' \in TransactionRecord /\ transaction'.pc = "hooks"
        /\ transaction'.marked = "no" /\ transaction'.outcome = "none" /\ transaction'.ran = 0
        /\ transaction'.hooks = transaction.hooks
        /\ transaction'.kind = transaction.kind /\ transaction'.promise = transaction.promise
    BY <1>7 DEF commit
  <2> QED  BY <1>1, <1>7, <2>1, <2>2 DEF commit
<1>8. CASE rollbackOnly
  BY <1>1, <1>8 DEF rollbackOnly, DatabaseRecord
<1>9. CASE commitFails
  <2>1. database' \in DatabaseRecord
    BY <1>9, DatabaseSteps DEF commitFails
  <2>2. /\ transaction' \in TransactionRecord /\ transaction'.pc = "ended"
        /\ transaction'.marked = "no" /\ transaction'.outcome = "rejected" /\ transaction'.ran = 0
        /\ transaction'.hooks = transaction.hooks
        /\ transaction'.kind = transaction.kind /\ transaction'.promise = transaction.promise
    BY <1>9 DEF commitFails
  <2> QED  BY <1>1, <1>9, <2>1, <2>2 DEF commitFails
<1>10. CASE runHook
  <2>1. PushedInOrder' /\ Len(pushed') = Len(pushed) + 1
    BY <1>10, PushContinues DEF runHook
  <2> QED  BY <1>10, <2>1 DEF runHook
<1>11. CASE dispatchFails
  <2>1. PushedInOrder'
    BY <1>1, <1>11, PushContinues DEF dispatchFails
  <2> QED  BY <1>11, <2>1 DEF dispatchFails
<1>12. CASE resolves
  BY <1>1, <1>12 DEF resolves
<1>13. CASE processDies
  BY <1>1, <1>13 DEF processDies, DatabaseRecord
<1> QED  BY <1>2, <1>3, <1>4, <1>5, <1>6, <1>7, <1>8, <1>9, <1>10, <1>11, <1>12, <1>13 DEF TransactionsNext

\* DrizzleTransactionManager.transaction with dispatchAfterCommit: for any number of hooks and
\* writes, jobs are pushed in the order of their hooks and only after a commit, a resolved
\* transaction has pushed them all, and a failed dispatch leaves the writes committed.
THEOREM HooksAlwaysFollowCommits == TransactionsSpec => [](TransactionsTypeOK /\ HooksFollowCommits)
<1>1. TransactionsInit => TransactionsInv
  BY TransactionsAssumption DEF TransactionsInit, TransactionsInv, NothingBeforeCommit, HooksAfterCommit,
     OutcomesAreFounded, TransactionRecord, DatabaseRecord, PushedInOrder
<1>2. TransactionsInv /\ [TransactionsNext]_transactionVars => TransactionsInv'
  <2>1. ASSUME TransactionsInv, UNCHANGED transactionVars
        PROVE  TransactionsInv'
    BY <2>1 DEF transactionVars, TransactionsInv, NothingBeforeCommit, HooksAfterCommit, OutcomesAreFounded, PushedInOrder
  <2> QED  BY <2>1, TransactionSteps
<1>3. TransactionsInv => TransactionsTypeOK /\ HooksFollowCommits
  <2> SUFFICES ASSUME TransactionsInv
               PROVE  TransactionsTypeOK /\ HooksFollowCommits
    OBVIOUS
  <2>1. pushed = SubSeq([i \in 1..MaxHooks |-> i], 1, Len(pushed))
    <3> DEFINE hooks == [i \in 1..MaxHooks |-> i]
               t == SubSeq(hooks, 1, Len(pushed))
    <3>1. \A i \in 1..Len(pushed) : hooks[i] = i
      BY TransactionsAssumption DEF TransactionsInv, PushedInOrder
    <3>2. /\ pushed \in Seq(Nat) /\ Len(pushed) \in Nat
          /\ \A i \in 1..Len(pushed) : pushed[i] = i
      BY TransactionsAssumption DEF TransactionsInv, PushedInOrder
    <3> HIDE DEF hooks
    <3>3. \A i \in 1..Len(pushed) : hooks[i] \in Nat
      BY <3>1, <3>2
    <3>4. /\ t \in Seq(Nat) /\ Len(t) = Len(pushed)
          /\ \A i \in 1..Len(pushed) : t[i] = hooks[i]
      BY <3>2, <3>3, SubSeqProperties
    <3> HIDE DEF t
    <3>5. pushed = t
      BY <3>1, <3>2, <3>4, SeqEqual
    <3> QED  BY <3>5 DEF t, hooks
  <2> QED  BY <2>1, TransactionsAssumption
              DEF TransactionsInv, TransactionsTypeOK, HooksFollowCommits, TransactionRecord, DatabaseRecord, OutcomesAreFounded
<1> QED  BY <1>1, <1>2, <1>3, PTL DEF TransactionsSpec

(***************************************************************************)
(* DirectUpload.  A record with a token is reserved, and its token is a      *)
(* confirmer's: so only the completion of one's own reservation removes an   *)
(* issued record before it expires, and what was removed never comes back.   *)
(***************************************************************************)
Issuance == [state : {"missing", "pending", "reserved"}, token : Confirmers \cup {"none"},
             audience : Audiences \cup {"none"}]

\* Only reserved records have a token.
TokensAreReservations ==
    /\ issuances \in [Grants -> Issuance]
    /\ \A g \in Grants : issuances[g].token # "none" => issuances[g].state = "reserved"

\* A confirmation that has begun and a command on its way name a grant and a confirmer.
ConfirmationsAreOfGrants ==
    /\ confirming \in [Confirmers -> [pc : {"idle", "head", "complete", "release"}, grant : Grants \cup {"none"}]]
    /\ \A c \in Confirmers : confirming[c].pc # "idle" => confirming[c].grant \in Grants
    /\ late \subseteq [command : {"complete", "release"}, grant : Grants, token : Confirmers]

\* The records that are gone: not yet issued ones, consumed ones and, later, expired ones.
GrantsAreCounted ==
    \A g \in Grants :
        /\ g \notin issued => issuances[g].state = "missing" /\ g \notin consumed
        /\ g \in consumed => issuances[g].state = "missing"
        /\ g \in issued /\ ~Expired /\ issuances[g].state = "missing" => g \in consumed
        /\ confirmations[g] \in {0, 1}
        /\ confirmations[g] = 1 => g \in consumed

UploadInv ==
    /\ UploadTypeOK
    /\ confirmations \in [Grants -> Nat] /\ consumed \subseteq Grants
    /\ TokensAreReservations
    /\ ConfirmationsAreOfGrants
    /\ GrantsAreCounted

\* Whatever the store does to records with well-placed tokens keeps them well placed.
LEMMA StoreKeepsTokens ==
    ASSUME TokensAreReservations, NEW g \in Grants, NEW c \in Confirmers
    PROVE  LET Placed(i) == /\ i \in [Grants -> Issuance]
                            /\ \A h \in Grants : i[h].token # "none" => i[h].state = "reserved"
           IN  /\ Placed(Live) /\ Placed(Completed(g, c)) /\ Placed(Released(g, c)) /\ Placed(reserve(g, c))
               /\ \A a \in Audiences :
                     Placed([Live EXCEPT ![g] = [state |-> "pending", token |-> "none", audience |-> a]])
<1> DEFINE Placed(i) == /\ i \in [Grants -> Issuance]
                        /\ \A h \in Grants : i[h].token # "none" => i[h].state = "reserved"
<1>1. Free \in Issuance /\ Free.token = "none"
  BY DEF Free, Issuance
<1>2. Placed(Live)
  BY <1>1 DEF Live, TokensAreReservations
<1>3. ASSUME NEW e \in Issuance, e.token # "none" => e.state = "reserved"
      PROVE  Placed([Live EXCEPT ![g] = e])
  BY <1>2, <1>3
<1>4. Live[g] \in Issuance
  BY <1>2
<1>5. /\ [Live[g] EXCEPT !.state = "pending", !.token = "none"] \in Issuance
      /\ [Live[g] EXCEPT !.state = "pending", !.token = "none"].token = "none"
      /\ [Live[g] EXCEPT !.state = "reserved", !.token = c] \in Issuance
      /\ [Live[g] EXCEPT !.state = "reserved", !.token = c].state = "reserved"
  BY <1>4 DEF Issuance
<1>6. Placed(Completed(g, c))
  BY <1>1, <1>2, <1>3 DEF Completed
<1>7. [Live EXCEPT ![g].state = "pending", ![g].token = "none"]
        = [Live EXCEPT ![g] = [Live[g] EXCEPT !.state = "pending", !.token = "none"]]
  BY <1>2
<1>8. Placed(Released(g, c))
  BY <1>1, <1>2, <1>3, <1>5, <1>7 DEF Released
<1>9. reserve(g, c) = [Live EXCEPT ![g] = [Live[g] EXCEPT !.state = "reserved", !.token = c]]
  BY <1>2 DEF reserve
<1>10. Placed(reserve(g, c))
  BY <1>3, <1>5, <1>9
<1>11. ASSUME NEW a \in Audiences
       PROVE  Placed([Live EXCEPT ![g] = [state |-> "pending", token |-> "none", audience |-> a]])
  <2>1. [state |-> "pending", token |-> "none", audience |-> a] \in Issuance
    BY DEF Issuance
  <2> QED  BY <1>3, <2>1
<1> QED  BY <1>2, <1>6, <1>8, <1>10, <1>11

\* Which records a call of the store removes: its own reservation, or all when they expire.
LEMMA StoreRemoves ==
    ASSUME TokensAreReservations, NEW g \in Grants, NEW c \in Confirmers, NEW h \in Grants
    PROVE  /\ ~Expired => Live = issuances
           /\ issuances[h].state = "missing" => Live[h].state = "missing"
           /\ (Completed(g, c)[h].state = "missing") =
                 (Live[h].state = "missing" \/ (h = g /\ matchingReservation(g, c)))
           /\ Live[h].state = "missing" => Released(g, c)[h].state = "missing"
           /\ ~Expired /\ Live[h].state # "missing" => Released(g, c)[h].state # "missing"
           /\ reserve(g, c)[h].state = IF h = g THEN "reserved" ELSE Live[h].state
<1>1. ~Expired => Live = issuances
  BY DEF Live
<1>2. issuances[h].state = "missing" => Live[h].state = "missing"
  BY DEF Live, Free
<1>3. Live \in [Grants -> Issuance]
  BY StoreKeepsTokens
<1>4. (Completed(g, c)[h].state = "missing") =
         (Live[h].state = "missing" \/ (h = g /\ matchingReservation(g, c)))
  <2>1. CASE matchingReservation(g, c)
    BY <1>3, <2>1 DEF Completed, Free
  <2>2. CASE ~matchingReservation(g, c)
    BY <2>2 DEF Completed
  <2> QED  BY <2>1, <2>2
<1>5. matchingReservation(g, c) => Live[g].state = "reserved"
  BY DEF matchingReservation
<1>6. CASE h = g
  <2>1. [Live EXCEPT ![g] = Free][h].state = "missing"
    BY <1>3, <1>6 DEF Free
  <2>2. [Live EXCEPT ![g].state = "pending", ![g].token = "none"][h].state = "pending"
    BY <1>3, <1>6 DEF Issuance
  <2>3. reserve(g, c)[h].state = "reserved"
    BY <1>3, <1>6 DEF Issuance, reserve
  <2> QED  BY <1>1, <1>2, <1>4, <1>5, <1>6, <2>1, <2>2, <2>3 DEF Released
<1>7. CASE h # g
  <2>1. Released(g, c)[h] = Live[h] /\ reserve(g, c)[h] = Live[h]
    BY <1>3, <1>7 DEF Released, reserve
  <2> QED  BY <1>1, <1>2, <1>4, <1>7, <2>1
<1> QED  BY <1>6, <1>7

\* Every step of the filesystem, the store and of time keeps the invariant.
LEMMA UploadSteps ==
    ASSUME UploadInv, UploadNext
    PROVE  UploadInv'
<1> USE UploadAssumption
<1>0. /\ TokensAreReservations /\ ConfirmationsAreOfGrants /\ GrantsAreCounted /\ UploadTypeOK
      /\ confirmations \in [Grants -> Nat] /\ consumed \subseteq Grants
  BY DEF UploadInv
<1>a. ASSUME UNCHANGED <<issued, now, objects>>, TokensAreReservations'
      PROVE  UploadTypeOK'
  BY <1>0, <1>a DEF UploadTypeOK, TokensAreReservations, Issuance
<1>1. ASSUME passes
      PROVE  UploadInv'
  <2>1. ~Expired' => ~Expired
    BY <1>0, <1>1 DEF passes, Expired, UploadTypeOK
  <2>2. UploadTypeOK'
    BY <1>0, <1>1 DEF passes, UploadTypeOK
  <2>3. TokensAreReservations' /\ ConfirmationsAreOfGrants'
    BY <1>0, <1>1 DEF passes, TokensAreReservations, ConfirmationsAreOfGrants
  <2>4. GrantsAreCounted'
    BY <1>0, <1>1, <2>1 DEF passes, GrantsAreCounted
  <2> QED  BY <1>0, <1>1, <2>2, <2>3, <2>4 DEF passes, UploadInv
<1>2. ASSUME NEW g \in Grants, NEW a \in Audiences, createDirectUpload(g, a)
      PROVE  UploadInv'
  <2> DEFINE e == [state |-> "pending", token |-> "none", audience |-> a]
  <2>1. /\ g \notin issued /\ issued' = issued \union {g} /\ issuances' = [issuances EXCEPT ![g] = e]
        /\ ~Expired /\ UNCHANGED <<issuanceStore, now, objects, confirming, late, confirmations, consumed>>
    BY <1>2 DEF createDirectUpload, save, Live
  <2>2. TokensAreReservations'
    BY <1>0, <2>1, StoreKeepsTokens, StoreRemoves DEF TokensAreReservations, Issuance
  <2>3. ConfirmationsAreOfGrants'
    BY <1>0, <2>1 DEF ConfirmationsAreOfGrants
  <2>4. \A h \in Grants : issuances'[h].state = IF h = g THEN "pending" ELSE issuances[h].state
    BY <1>0, <2>1 DEF TokensAreReservations
  <2>5. GrantsAreCounted'
    BY <1>0, <2>1, <2>4 DEF GrantsAreCounted, Expired
  <2>6. UploadTypeOK'
    BY <1>0, <2>1, <2>4 DEF UploadTypeOK
  <2> QED  BY <1>0, <2>1, <2>2, <2>3, <2>5, <2>6 DEF UploadInv
<1>3. ASSUME NEW g \in Grants, NEW object \in {"matching", "other"}, upload(g, object)
      PROVE  UploadInv'
  <2>1. UploadTypeOK'
    BY <1>0, <1>3 DEF upload, UploadTypeOK
  <2>2. TokensAreReservations' /\ ConfirmationsAreOfGrants' /\ GrantsAreCounted'
    BY <1>0, <1>3 DEF upload, TokensAreReservations, ConfirmationsAreOfGrants, GrantsAreCounted, Expired
  <2> QED  BY <1>0, <1>3, <2>1, <2>2 DEF upload, UploadInv
<1>4. ASSUME NEW c \in Confirmers, NEW g \in Grants, NEW a \in Audiences, confirmReserves(c, g, a)
      PROVE  UploadInv'
  <2>1. /\ g \in issued /\ ~Expired /\ Live[g].state = "pending" /\ issuances' = reserve(g, c)
        /\ confirming' = [confirming EXCEPT ![c] = [pc |-> "head", grant |-> g]]
        /\ UNCHANGED <<issuanceStore, now, issued, objects, late, confirmations, consumed>>
    BY <1>4 DEF confirmReserves, Reservable
  <2>2. TokensAreReservations'
    BY <1>0, <2>1, StoreKeepsTokens DEF TokensAreReservations
  <2>3. ConfirmationsAreOfGrants'
    BY <1>0, <2>1 DEF ConfirmationsAreOfGrants
  <2>4. \A h \in Grants : issuances'[h].state = IF h = g THEN "reserved" ELSE issuances[h].state
    BY <1>0, <2>1, StoreRemoves
  <2>5. issuances[g].state = "pending"
    BY <2>1 DEF Live
  <2>6. GrantsAreCounted'
    BY <1>0, <2>1, <2>4, <2>5 DEF GrantsAreCounted, Expired
  <2> QED  BY <1>0, <1>a, <2>1, <2>2, <2>3, <2>6 DEF UploadInv
<1>5. ASSUME NEW c \in Confirmers, confirmChecks(c) \/ confirmFails(c) \/ confirmDies(c)
      PROVE  UploadInv'
  <2>1. UNCHANGED <<issuanceStore, now, issuances, issued, objects, confirmations, consumed>>
    BY <1>5 DEF confirmChecks, confirmFails, confirmDies
  <2>2. TokensAreReservations' /\ GrantsAreCounted'
    BY <1>0, <2>1 DEF TokensAreReservations, GrantsAreCounted, Expired
  <2>3. \/ confirming' = [confirming EXCEPT ![c] = Quiet]
        \/ \E pc \in {"complete", "release"} : Turn(c, pc)
    BY <1>5 DEF confirmChecks, confirmFails, confirmDies
  <2>4. confirming[c].grant \in Grants
    BY <1>0, <1>5 DEF ConfirmationsAreOfGrants, confirmChecks, confirmFails, confirmDies
  <2>5. /\ confirming' \in [Confirmers -> [pc : {"idle", "head", "complete", "release"}, grant : Grants \cup {"none"}]]
        /\ \A d \in Confirmers : confirming'[d].pc # "idle" => confirming'[d].grant \in Grants
    BY <1>0, <2>3, <2>4 DEF ConfirmationsAreOfGrants, Quiet, Turn
  <2>6. late' \subseteq [command : {"complete", "release"}, grant : Grants, token : Confirmers]
    <3>1. CASE confirmFails(c)
      <4>1. late' = late \/ (/\ confirming[c].pc \in {"complete", "release"}
                             /\ late' = late \union {[command |-> confirming[c].pc, grant |-> confirming[c].grant, token |-> c]})
        BY <3>1 DEF confirmFails
      <4> QED  BY <1>0, <2>4, <4>1 DEF ConfirmationsAreOfGrants
    <3>2. CASE confirmChecks(c) \/ confirmDies(c)
      BY <1>0, <3>2 DEF confirmChecks, confirmDies, ConfirmationsAreOfGrants
    <3> QED  BY <1>5, <3>1, <3>2
  <2> QED  BY <1>0, <1>a, <2>1, <2>2, <2>5, <2>6 DEF UploadInv, ConfirmationsAreOfGrants
<1>6. ASSUME NEW c \in Confirmers, confirmCompletes(c)
      PROVE  UploadInv'
  <2> DEFINE g == confirming[c].grant
  <2>1. /\ g \in Grants /\ issuances' = Completed(g, c)
        /\ UNCHANGED <<issuanceStore, now, issued, objects, late>>
    BY <1>0, <1>6 DEF confirmCompletes, ConfirmationsAreOfGrants
  <2> HIDE DEF g
  <2>2. TokensAreReservations'
    BY <1>0, <2>1, StoreKeepsTokens DEF TokensAreReservations
  <2>3. ConfirmationsAreOfGrants'
    <3>1. confirming' = [confirming EXCEPT ![c] = Quiet] \/ Turn(c, "release")
      BY <1>6 DEF confirmCompletes
    <3>2. confirming[c].grant \in Grants
      BY <2>1 DEF g
    <3> QED  BY <1>0, <2>1, <3>1, <3>2 DEF ConfirmationsAreOfGrants, Turn, Quiet
  <2>4. \A h \in Grants : (issuances'[h].state = "missing") =
                             (Live[h].state = "missing" \/ (h = g /\ matchingReservation(g, c)))
    BY <1>0, <2>1, StoreRemoves
  <2>5. matchingReservation(g, c) => g \in issued /\ issuances[g].state = "reserved"
    BY <1>0, <2>1 DEF matchingReservation, Live, Free, GrantsAreCounted
  <2>6. /\ ~Expired => Live = issuances
        /\ \A h \in Grants : issuances[h].state = "missing" => Live[h].state = "missing"
    BY <1>0, StoreRemoves, <2>1
  <2>7. CASE Completable(g, c)
    <3>1. /\ ~Expired /\ matchingReservation(g, c)
          /\ confirmations' = [confirmations EXCEPT ![g] = @ + 1] /\ consumed' = consumed \union {g}
      BY <1>6, <2>7 DEF confirmCompletes, Completable, g
    <3>2. confirmations[g] = 0
      BY <1>0, <2>1, <2>5, <3>1 DEF GrantsAreCounted
    <3>3. confirmations' = [confirmations EXCEPT ![g] = 1]
      BY <3>1, <3>2
    <3>4. GrantsAreCounted'
      BY <1>0, <2>1, <2>4, <2>5, <2>6, <3>1, <3>3 DEF GrantsAreCounted, Expired
    <3> QED  BY <1>0, <1>a, <2>1, <2>2, <2>3, <3>1, <3>3, <3>4 DEF UploadInv
  <2>8. CASE ~Completable(g, c)
    <3>1. (matchingReservation(g, c) => Expired) /\ UNCHANGED <<confirmations, consumed>>
      BY <1>6, <2>8 DEF confirmCompletes, Completable, g
    <3>2. GrantsAreCounted'
      BY <1>0, <2>1, <2>4, <2>5, <2>6, <3>1 DEF GrantsAreCounted, Expired
    <3> QED  BY <1>0, <1>a, <2>1, <2>2, <2>3, <3>1, <3>2 DEF UploadInv
  <2> QED  BY <2>7, <2>8
<1>7. ASSUME NEW g \in Grants, NEW c \in Confirmers, issuances' = Released(g, c),
             UNCHANGED <<issuanceStore, now, issued, objects, confirmations, consumed>>,
             ConfirmationsAreOfGrants'
      PROVE  UploadInv'
  <2>1. TokensAreReservations'
    BY <1>0, <1>7, StoreKeepsTokens DEF TokensAreReservations
  <2>2. \A h \in Grants : /\ issuances[h].state = "missing" => issuances'[h].state = "missing"
                          /\ ~Expired /\ issuances[h].state # "missing" => issuances'[h].state # "missing"
    BY <1>0, <1>7, StoreRemoves
  <2>3. GrantsAreCounted'
    BY <1>0, <1>7, <2>2 DEF GrantsAreCounted, Expired
  <2> QED  BY <1>0, <1>a, <1>7, <2>1, <2>3 DEF UploadInv
<1>8. ASSUME NEW c \in Confirmers, confirmReleases(c)
      PROVE  UploadInv'
  <2>1. confirming[c].grant \in Grants /\ issuances' = Released(confirming[c].grant, c)
    BY <1>0, <1>8 DEF confirmReleases, ConfirmationsAreOfGrants
  <2>2. ConfirmationsAreOfGrants'
    BY <1>0, <1>8 DEF confirmReleases, ConfirmationsAreOfGrants, Quiet
  <2>3. UNCHANGED <<issuanceStore, now, issued, objects, confirmations, consumed>>
    BY <1>8 DEF confirmReleases
  <2> QED  BY <1>7, <2>1, <2>2, <2>3
<1>9. ASSUME NEW l \in late, runsLate(l)
      PROVE  UploadInv'
  <2>1. /\ l.grant \in Grants /\ l.token \in Confirmers /\ l.token # "none"
        /\ UNCHANGED <<issuanceStore, now, issued, objects, confirming, confirmations>>
    BY <1>0, <1>9 DEF runsLate, ConfirmationsAreOfGrants
  <2>2. ConfirmationsAreOfGrants'
    BY <1>0, <1>9, <2>1 DEF runsLate, ConfirmationsAreOfGrants
  <2>3. CASE l.command # "complete"
    BY <1>7, <1>9, <2>1, <2>2, <2>3 DEF runsLate
  <2>4. CASE l.command = "complete"
    <3>1. /\ issuances' = Completed(l.grant, l.token)
          /\ consumed' = IF Live[l.grant].token = l.token THEN consumed \union {l.grant} ELSE consumed
      BY <1>9, <2>4 DEF runsLate
    <3>2. TokensAreReservations'
      BY <1>0, <2>1, <3>1, StoreKeepsTokens DEF TokensAreReservations
    <3>3. \A h \in Grants : Live[h].token # "none" => Live[h].state = "reserved"
      BY <1>0, <2>1, StoreKeepsTokens
    <3>4. \A h \in Grants : (issuances'[h].state = "missing") =
                               (Live[h].state = "missing" \/ (h = l.grant /\ Live[h].token = l.token))
      BY <1>0, <2>1, <3>1, <3>3, StoreRemoves DEF matchingReservation
    <3>5. Live[l.grant].token = l.token => l.grant \in issued /\ issuances[l.grant].state = "reserved"
      BY <1>0, <2>1, <3>3 DEF Live, Free, GrantsAreCounted
    <3>6. /\ ~Expired => Live = issuances
          /\ \A h \in Grants : issuances[h].state = "missing" => Live[h].state = "missing"
      BY <1>0, StoreRemoves, <2>1
    <3>7. GrantsAreCounted'
      BY <1>0, <2>1, <3>1, <3>4, <3>5, <3>6 DEF GrantsAreCounted, Expired
    <3>8. consumed' \subseteq Grants
      BY <1>0, <2>1, <3>1
    <3> QED  BY <1>0, <1>a, <2>1, <2>2, <3>2, <3>7, <3>8 DEF UploadInv
  <2> QED  BY <2>3, <2>4
<1> QED  BY <1>1, <1>2, <1>3, <1>4, <1>5, <1>6, <1>8, <1>9 DEF UploadNext

\* AwsS3Filesystem's direct uploads over the in-memory or the Redis store, with any number of
\* servers, grants, faults and late commands: a grant is confirmed at most once and, until it
\* expires, is gone exactly when a completion of its own reservation used it.
THEOREM GrantsAreAlwaysSpentOnce == UploadSpec => [](UploadTypeOK /\ GrantsAreSpentOnce)
<1>1. UploadInit => UploadInv
  <2> SUFFICES ASSUME UploadInit
               PROVE  UploadInv
    OBVIOUS
  <2>1. TokensAreReservations
    BY DEF UploadInit, TokensAreReservations, Free, Issuance
  <2>2. ConfirmationsAreOfGrants
    BY DEF UploadInit, ConfirmationsAreOfGrants, Quiet
  <2>3. GrantsAreCounted
    BY DEF UploadInit, GrantsAreCounted, Free
  <2>4. UploadTypeOK
    BY UploadAssumption DEF UploadInit, UploadTypeOK, Free
  <2> QED  BY <2>1, <2>2, <2>3, <2>4 DEF UploadInit, UploadInv
<1>2. UploadInv /\ [UploadNext]_uploadVars => UploadInv'
  <2>1. ASSUME UploadInv, UNCHANGED uploadVars
        PROVE  UploadInv'
    BY <2>1 DEF UploadInv, uploadVars, UploadTypeOK, TokensAreReservations, ConfirmationsAreOfGrants,
                GrantsAreCounted, Expired
  <2> QED  BY <2>1, UploadSteps
<1>3. UploadInv => UploadTypeOK /\ GrantsAreSpentOnce
  BY DEF UploadInv, GrantsAreCounted, GrantsAreSpentOnce
<1> QED  BY <1>1, <1>2, <1>3, PTL DEF UploadSpec

(***************************************************************************)
(* DelegatedJobs.  A credential says who dispatched the job it was issued    *)
(* for, wherever it is carried to; what has matched it while the job is held *)
(* by the worker stays so until the handler runs.                            *)
(***************************************************************************)
DelegatedNames == Dispatches \cup {"none"}
Credential == [actor : Actors \cup {"none"}, job : DelegatedNames, name : JobNames, queue : {"none", "q1"},
               payload : {"none", "p1"}, issued : Nat, expires : Nat]
Refusals == {"denied", "misconfigured", "invalid"}
Verdicts == Endings \cup Refusals \cup {"unavailable", "none"}
Delegated == [state : {"none", "waiting", "active", "done", "failed"}, queue : {"q1", "q2"},
              name : JobNames, payload : {"p1", "p2"}, tries : Nat, fingerprint : {"none", "p1"},
              credential : Credential, by : Actors \cup {"none"}, ended : Verdicts]
DelegatedRun == [pc : {"idle", "verifying", "authenticating", "authorizing", "handling", "ending"},
                 job : DelegatedNames, claims : Credential, actor : Actors \cup {"none"},
                 verdict : Verdicts, taken : Nat, checked : Nat]
HandlerRun == [job : Dispatches, attempt : Nat, ending : Endings, as : Actors \cup {"none"}, name : JobNames,
               queue : {"q1", "q2"}, payload : {"p1", "p2"}, taken : Nat, checked : Nat, issued : Nat]

DelegationTypes ==
    /\ present \in 0..LastTick /\ message \in [Dispatches -> Delegated]
    /\ work \in DelegatedRun /\ runs \subseteq HandlerRun
    /\ trusted \subseteq Actors /\ able \subseteq Actors

\* What a credential says of the jobs.
Issued(c, jobs) ==
    c.job \in Dispatches =>
        /\ c.actor = jobs[c.job].by /\ c.actor # "none" /\ jobs[c.job].state # "none"
        /\ c.name = DispatchName /\ c.queue = "q1" /\ c.payload = "p1" /\ c.expires = c.issued + CredentialLife

CredentialsAreIssued == \A j \in Dispatches : Issued(message[j].credential, message)

\* The job at hand is the one its claims are about, and they were compared in this attempt.
Matched ==
    /\ work.claims.actor = message[work.job].by /\ work.claims.actor # "none"
    /\ message[work.job].name = DispatchName /\ message[work.job].queue = "q1" /\ message[work.job].payload = "p1"
    /\ work.taken <= work.checked /\ work.checked < work.claims.issued + CredentialLife + ClockSkew

\* How it came to the end of an attempt.
EndIsFounded ==
    /\ work.verdict # "none"
    /\ work.verdict \in Endings =>
          \E r \in runs : r.job = work.job /\ r.attempt = message[work.job].tries + 1 /\ r.ending = work.verdict
    /\ work.verdict = "denied" => Needs(message[work.job].name)
    /\ work.verdict = "misconfigured" => ~Registered(message[work.job].name)
    /\ work.verdict = "invalid" => ~IdentityHolds(work.job)

WorkIsFounded ==
    work.pc # "idle" =>
        /\ work.job \in Dispatches /\ message[work.job].state = "active" /\ work.taken <= present
        /\ work.pc # "ending" => IdentityHolds(work.job) /\ Registered(message[work.job].name)
        /\ work.pc \in {"verifying", "authenticating", "authorizing"} => Needs(message[work.job].name)
        /\ work.pc \in {"authenticating", "authorizing"} => Matched
        /\ work.pc = "authorizing" => work.actor = work.claims.actor
        /\ work.pc = "handling" =>
              IF Needs(message[work.job].name) THEN Matched /\ work.actor = work.claims.actor ELSE work.actor = "none"
        /\ work.pc = "ending" => EndIsFounded

RunIsFounded(r, jobs) ==
    /\ Registered(r.name)
    /\ IF Needs(r.name)
       THEN /\ r.as = jobs[r.job].by /\ r.as # "none"
            /\ r.name = DispatchName /\ r.payload = "p1" /\ r.queue = "q1"
            /\ r.taken <= r.checked /\ r.checked < r.issued + CredentialLife + ClockSkew
       ELSE r.as = "none"

\* A run belongs to an attempt that is over, or about to be.
RunsAreFounded ==
    \A r \in runs :
        /\ RunIsFounded(r, message) /\ message[r.job].state # "none"
        /\ \A q \in runs : q.job = r.job /\ q.attempt = r.attempt => q = r
        /\ \/ r.attempt <= message[r.job].tries
           \/ /\ r.attempt = message[r.job].tries + 1
              /\ work.job = r.job /\ work.pc = "ending" /\ work.verdict = r.ending

LastRun(j, r) == r.job = j /\ r.attempt = message[j].tries
JobsEndFounded ==
    \A j \in Dispatches :
        /\ message[j].state \in {"none", "waiting", "active"} => message[j].tries < JobTries
        /\ message[j].state = "done" => \E r \in runs : LastRun(j, r) /\ r.ending = "ok"
        /\ message[j].state = "failed" =>
              \/ message[j].ended = "denied" /\ Needs(message[j].name) /\ \A r \in runs : ~LastRun(j, r)
              \/ message[j].ended = "misconfigured" /\ ~Registered(message[j].name) /\ \A r \in runs : ~LastRun(j, r)
              \/ message[j].ended = "invalid" /\ ~IdentityHolds(j) /\ \A r \in runs : ~LastRun(j, r)
              \/ message[j].ended = "final" /\ \E r \in runs : LastRun(j, r) /\ r.ending = "final"
              \/ message[j].ended \in {"threw", "unavailable"} /\ message[j].tries = JobTries

DelegationInv == DelegationTypes /\ CredentialsAreIssued /\ WorkIsFounded /\ RunsAreFounded /\ JobsEndFounded

LEMMA NoWorkFits == NoClaims \in Credential /\ NoWork \in DelegatedRun /\ NotDispatched \in Delegated
  BY DelegationAssumption
     DEF NoClaims, NoWork, NotDispatched, Credential, Delegated, DelegatedRun, DelegatedNames, JobNames, Verdicts

LEMMA DelegationStarts == DelegationInit => DelegationInv
<1> SUFFICES ASSUME DelegationInit PROVE DelegationInv
  OBVIOUS
<1>1. DelegationTypes
  BY NoWorkFits, DelegationAssumption DEF DelegationInit, DelegationTypes
<1>2. \A j \in Dispatches : message[j].state = "none" /\ message[j].credential.job = "none" /\ message[j].tries = 0
  BY DEF DelegationInit, NotDispatched, NoClaims
<1>3. work.pc = "idle" /\ runs = {}
  BY DEF DelegationInit, NoWork
<1> QED  BY <1>1, <1>2, <1>3, DelegationAssumption
          DEF DelegationInv, CredentialsAreIssued, Issued, WorkIsFounded, RunsAreFounded, JobsEndFounded

\* The worker goes on with the job it has.
LEMMA WorkGoesOn ==
    ASSUME DelegationInv, UNCHANGED <<selected, message, runs>>,
           work.pc \in {"verifying", "authenticating", "authorizing"},
           work' \in DelegatedRun, work'.job = work.job, work'.taken = work.taken, present' = present,
           trusted' = trusted, able' = able,
           \/ work'.pc = "ending" /\ work'.verdict \in {"denied", "unavailable"}
           \/ work'.pc = "authenticating" /\ Matched'
           \/ work'.pc = "authorizing" /\ Matched' /\ work'.actor = work'.claims.actor
           \/ work'.pc = "handling" /\ Matched' /\ work'.actor = work'.claims.actor
    PROVE  DelegationInv'
<1> USE DEF DelegationInv
<1>1. /\ work.job \in Dispatches /\ message[work.job].state = "active" /\ work.taken <= present
      /\ IdentityHolds(work.job) /\ Registered(message[work.job].name) /\ Needs(message[work.job].name)
  BY DEF WorkIsFounded
<1>2. /\ (IdentityHolds(work.job))' /\ (Registered(message[work.job].name))' /\ (Needs(message[work.job].name))'
  BY <1>1 DEF IdentityHolds, Registered, Needs
<1>3. DelegationTypes' /\ CredentialsAreIssued' /\ JobsEndFounded'
  BY DEF DelegationTypes, CredentialsAreIssued, JobsEndFounded, LastRun, IdentityHolds, Needs, Registered
<1>4. WorkIsFounded'
  <2>1. work'.pc = "ending" => EndIsFounded'
    BY <1>1, <1>2 DEF EndIsFounded, Endings
  <2> QED  BY <1>1, <1>2, <2>1 DEF WorkIsFounded
<1>5. RunsAreFounded'
  BY DEF RunsAreFounded, RunIsFounded, Needs, Registered
<1> QED  BY <1>3, <1>4, <1>5

LEMMA CheckingSteps ==
    ASSUME DelegationInv, UNCHANGED selected,
           \/ verify \/ verifierDenies \/ unavailable \/ authenticate \/ authenticatorErrs \/ authorize
    PROVE  DelegationInv'
<1>1. /\ work \in DelegatedRun /\ UNCHANGED <<message, runs, present, trusted, able>>
      /\ work.pc \in {"verifying", "authenticating", "authorizing"}
  BY DEF DelegationInv, DelegationTypes, verify, verifierDenies, unavailable, authenticate,
         authenticatorErrs, authorize, Rests, Working
<1>2. /\ work.job \in Dispatches /\ IdentityHolds(work.job) /\ work.taken <= present
      /\ work.pc \in {"authenticating", "authorizing"} => Matched
      /\ work.pc = "authorizing" => work.actor = work.claims.actor
  BY <1>1 DEF DelegationInv, WorkIsFounded
<1>3. ASSUME NEW verdict \in {"denied", "unavailable"}, WorkEnds(verdict)
      PROVE  DelegationInv'
  <2>1. /\ work' \in DelegatedRun /\ work'.job = work.job /\ work'.taken = work.taken
        /\ work'.pc = "ending" /\ work'.verdict = verdict
    BY <1>1, <1>3 DEF WorkEnds, DelegatedRun, Verdicts, Refusals
  <2> QED  BY <1>1, <1>3, <2>1, WorkGoesOn
<1>4. CASE verify
  <2> DEFINE claims == message[work.job].credential
  <2>1. CASE matchesExpected(claims, work.job)
    <3>1. /\ claims \in Credential /\ message[work.job] \in Delegated /\ Issued(claims, message)
          /\ present \in Nat
      BY <1>2, DelegationAssumption DEF DelegationInv, DelegationTypes, Delegated, CredentialsAreIssued
    <3>2. work' = [work EXCEPT !.pc = "authenticating", !.claims = claims, !.checked = present]
      BY <1>4, <2>1 DEF verify
    <3>3. /\ claims.job = work.job /\ claims.queue = message[work.job].queue /\ claims.name = message[work.job].name
          /\ claims.payload = message[work.job].fingerprint /\ claims.expires > present - ClockSkew
      BY <2>1 DEF matchesExpected
    <3>4. /\ claims.actor = message[work.job].by /\ claims.actor # "none"
          /\ message[work.job].queue = "q1" /\ message[work.job].fingerprint = "p1"
          /\ message[work.job].name = DispatchName
          /\ claims.expires = claims.issued + CredentialLife
      BY <1>2, <3>1, <3>3 DEF Issued
    <3>5. message[work.job].payload = "p1"
      BY <1>2, <3>4 DEF IdentityHolds
    <3>6. present < claims.issued + CredentialLife + ClockSkew
      <4>1. claims.issued \in Nat
        BY <3>1 DEF Credential
      <4> QED  BY <3>1, <3>3, <3>4, <4>1, DelegationAssumption
    <3> HIDE DEF claims
    <3>7. /\ work' \in DelegatedRun /\ work'.job = work.job /\ work'.pc = "authenticating"
          /\ work'.claims = claims /\ work'.checked = present /\ work'.taken = work.taken
      BY <1>1, <3>1, <3>2 DEF DelegatedRun
    <3>8. Matched'
      BY <1>1, <1>2, <3>4, <3>5, <3>6, <3>7 DEF Matched
    <3> QED  BY <1>1, <3>7, <3>8, WorkGoesOn
  <2>2. CASE ~matchesExpected(claims, work.job)
    BY <1>3, <1>4, <2>2 DEF verify
  <2> QED  BY <2>1, <2>2
<1>5. CASE verifierDenies \/ unavailable
  BY <1>3, <1>5 DEF verifierDenies, unavailable
<1>6. CASE authenticate \/ authenticatorErrs
  <2>1. \/ WorkEnds("denied")
        \/ /\ work.pc = "authenticating"
           /\ work' = [work EXCEPT !.pc = "authorizing", !.actor = work.claims.actor]
    BY <1>6 DEF authenticate, authenticatorErrs, Working
  <2>2. CASE /\ work.pc = "authenticating"
             /\ work' = [work EXCEPT !.pc = "authorizing", !.actor = work.claims.actor]
    <3>1. /\ work.claims.actor \in Actors \cup {"none"}
      BY <1>1 DEF DelegatedRun, Credential
    <3>2. /\ work' \in DelegatedRun /\ work'.job = work.job /\ work'.pc = "authorizing"
          /\ work'.claims = work.claims /\ work'.checked = work.checked /\ work'.actor = work.claims.actor
          /\ work'.taken = work.taken
      BY <1>1, <2>2, <3>1 DEF DelegatedRun
    <3>3. Matched'
      BY <1>1, <1>2, <2>2, <3>2 DEF Matched
    <3> QED  BY <1>1, <3>2, <3>3, WorkGoesOn
  <2> QED  BY <1>3, <2>1, <2>2
<1>7. CASE authorize
  <2>1. CASE Continues("handling")
    <3>1. /\ work' \in DelegatedRun /\ work'.job = work.job /\ work'.pc = "handling"
          /\ work'.claims = work.claims /\ work'.checked = work.checked /\ work'.actor = work.actor
          /\ work'.taken = work.taken
      BY <1>1, <2>1 DEF Continues, DelegatedRun
    <3>2. Matched' /\ work'.actor = work'.claims.actor
      BY <1>1, <1>2, <1>7, <3>1 DEF Matched, authorize, Working
    <3> QED  BY <1>1, <3>1, <3>2, WorkGoesOn
  <2> QED  BY <1>3, <1>7, <2>1 DEF authorize
<1> QED  BY <1>4, <1>5, <1>6, <1>7

\* One job changes: the others are as they were.
LEMMA JobChanges ==
    ASSUME DelegationTypes, NEW j \in Dispatches, NEW m \in Delegated,
           message' = [message EXCEPT ![j] = m]
    PROVE  /\ message' \in [Dispatches -> Delegated]
           /\ \A k \in Dispatches : message'[k] = IF k = j THEN m ELSE message[k]
  BY DEF DelegationTypes

\* Whose job it is does not change once the job is dispatched.
LEMMA CredentialsStay ==
    ASSUME DelegationTypes, NEW c, NEW j \in Dispatches, NEW m \in Delegated,
           message' = [message EXCEPT ![j] = m], m.state # "none",
           m.by = message[j].by \/ message[j].state = "none",
           Issued(c, message)
    PROVE  Issued(c, message')
  BY JobChanges DEF Issued

\* A job that waits, or is dispatched, is not the one that is worked on.
LEMMA WaitingJobChanges ==
    ASSUME DelegationInv, NEW j \in Dispatches, NEW m \in Delegated,
           message' = [message EXCEPT ![j] = m], m.state = "waiting",
           message[j].state \in {"none", "waiting"}, m.tries = message[j].tries,
           m.by = message[j].by \/ message[j].state = "none",
           Issued(m.credential, message'),
           UNCHANGED <<selected, present, work, trusted, able, runs>>
    PROVE  DelegationInv'
<1> USE DEF DelegationInv
<1>1. /\ message' \in [Dispatches -> Delegated] /\ message'[j] = m
      /\ \A k \in Dispatches : k # j => message'[k] = message[k]
  BY JobChanges
<1>2. DelegationTypes'
  BY <1>1 DEF DelegationTypes
<1>3. CredentialsAreIssued'
  BY <1>1, CredentialsStay DEF CredentialsAreIssued
<1>4. WorkIsFounded'
  <2>1. work.pc # "idle" => work.job # j /\ message'[work.job] = message[work.job]
    BY <1>1 DEF WorkIsFounded
  <2> QED  BY <2>1 DEF WorkIsFounded, EndIsFounded, Matched, IdentityHolds, Needs, Registered
<1>5. RunsAreFounded'
  <2>1. \A r \in runs : r.job \in Dispatches /\ message[r.job].state # "none"
    BY DEF DelegationTypes, HandlerRun, RunsAreFounded
  <2>2. \A r \in runs : /\ message'[r.job].by = message[r.job].by /\ message'[r.job].tries = message[r.job].tries
                        /\ message'[r.job].state # "none"
    BY <1>1, <2>1
  <2> QED  BY <2>2 DEF RunsAreFounded, RunIsFounded, Needs, Registered
<1>6. JobsEndFounded'
  BY <1>1 DEF JobsEndFounded, LastRun, IdentityHolds, Needs, Registered
<1> QED  BY <1>2, <1>3, <1>4, <1>5, <1>6

LEMMA AdmissionSteps ==
    ASSUME DelegationInv, UNCHANGED selected, NEW j \in Dispatches,
           admitLegacy(j) \/ changeWaiting(j) \/ \E actor \in Actors : admit(j, actor)
    PROVE  DelegationInv'
<1>1. /\ message[j] \in Delegated /\ UNCHANGED <<selected, present, work, runs>>
      /\ \A k \in Dispatches : /\ message[k].credential \in Credential
                                      /\ Issued(message[k].credential, message)
  BY DEF DelegationInv, DelegationTypes, Delegated, CredentialsAreIssued, admitLegacy, changeWaiting, admit
<1>2. UNCHANGED <<trusted, able>>
  BY DEF admitLegacy, changeWaiting, admit
<1>3. CASE admitLegacy(j)
  <2> DEFINE m == [message[j] EXCEPT !.state = "waiting"]
  <2>1. /\ m \in Delegated /\ m.state = "waiting" /\ m.by = message[j].by /\ m.tries = message[j].tries
        /\ m.credential = message[j].credential
    BY <1>1 DEF Delegated
  <2>2. message' = [message EXCEPT ![j] = m] /\ message[j].state = "none"
    BY <1>3 DEF admitLegacy
  <2> HIDE DEF m
  <2>3. Issued(m.credential, message')
    BY <1>1, <2>1, <2>2, CredentialsStay DEF DelegationInv
  <2> QED  BY <1>1, <1>2, <2>1, <2>2, <2>3, WaitingJobChanges
<1>4. ASSUME NEW actor \in Actors, admit(j, actor)
      PROVE  DelegationInv'
  <2> DEFINE c == IF Needs(DispatchName) THEN issue(j, actor) ELSE NoClaims
             m == [message[j] EXCEPT !.state = "waiting", !.by = actor, !.fingerprint = "p1", !.credential = c]
  <2>1. message' = [message EXCEPT ![j] = m] /\ message[j].state = "none"
    BY <1>4 DEF admit
  <2>2. c \in Credential
    <3>1. present \in Nat /\ present + CredentialLife \in Nat
      BY DelegationAssumption DEF DelegationInv, DelegationTypes
    <3>2. issue(j, actor) \in Credential
      BY <3>1, DelegationAssumption DEF issue, Credential, DelegatedNames, JobNames
    <3> QED  BY <3>2, NoWorkFits
  <2>3. c.job \in Dispatches =>
            c = [actor |-> actor, job |-> j, name |-> DispatchName, queue |-> "q1", payload |-> "p1", issued |-> present,
                 expires |-> present + CredentialLife]
    BY DelegationAssumption DEF issue, NoClaims
  <2> HIDE DEF c
  <2>4. m \in Delegated /\ m.state = "waiting" /\ m.by = actor /\ m.credential = c /\ m.tries = message[j].tries
    BY <1>1, <2>2 DEF Delegated
  <2> HIDE DEF m
  <2>5. message'[j] = m
    BY <2>1, <2>4, JobChanges DEF DelegationInv
  <2>6. Issued(c, message')
    <3> SUFFICES ASSUME c.job \in Dispatches
                 PROVE  /\ c.actor = message'[c.job].by /\ c.actor # "none" /\ message'[c.job].state # "none"
                        /\ c.name = DispatchName /\ c.queue = "q1" /\ c.payload = "p1" /\ c.expires = c.issued + CredentialLife
      BY DEF Issued
    <3>1. /\ c.actor = actor /\ c.job = j /\ c.name = DispatchName /\ c.queue = "q1" /\ c.payload = "p1" /\ c.issued = present
          /\ c.expires = present + CredentialLife
      BY <2>3
    <3> QED  BY <2>4, <2>5, <3>1, DelegationAssumption
  <2> QED  BY <1>1, <1>2, <2>1, <2>4, <2>6, WaitingJobChanges
<1>5. CASE changeWaiting(j)
  <2>1. message[j].state = "waiting"
    BY <1>5 DEF changeWaiting
  <2>2. \E m \in Delegated : /\ message' = [message EXCEPT ![j] = m]
                            /\ m.state = message[j].state /\ m.by = message[j].by /\ m.tries = message[j].tries
                            /\ \E k \in Dispatches : m.credential = message[k].credential
    <3>1. CASE message' = [message EXCEPT ![j].queue = "q2"]
      <4>1. LET m == [message[j] EXCEPT !.queue = "q2"] IN
              m \in Delegated /\ m.state = message[j].state /\ m.by = message[j].by /\ m.tries = message[j].tries
              /\ m.credential = message[j].credential
        BY <1>1 DEF Delegated
      <4> QED  BY <3>1, <4>1
    <3>2. ASSUME NEW name \in JobNames, message' = [message EXCEPT ![j].name = name]
          PROVE  <2>2
      <4>1. LET m == [message[j] EXCEPT !.name = name] IN
              m \in Delegated /\ m.state = message[j].state /\ m.by = message[j].by /\ m.tries = message[j].tries
              /\ m.credential = message[j].credential
        BY <1>1 DEF Delegated
      <4> QED  BY <3>2, <4>1
    <3>3. CASE message' = [message EXCEPT ![j].payload = "p2"]
      <4>1. LET m == [message[j] EXCEPT !.payload = "p2"] IN
              m \in Delegated /\ m.state = message[j].state /\ m.by = message[j].by /\ m.tries = message[j].tries
              /\ m.credential = message[j].credential
        BY <1>1 DEF Delegated
      <4> QED  BY <3>3, <4>1
    <3>4. ASSUME NEW k \in Dispatches, message' = [message EXCEPT ![j].credential = message[k].credential]
          PROVE  <2>2
      <4>1. LET m == [message[j] EXCEPT !.credential = message[k].credential] IN
              m \in Delegated /\ m.state = message[j].state /\ m.by = message[j].by /\ m.tries = message[j].tries
              /\ m.credential = message[k].credential
        BY <1>1 DEF Delegated
      <4> QED  BY <3>4, <4>1
    <3> QED  BY <1>5, <3>1, <3>2, <3>3, <3>4 DEF changeWaiting
  <2>3. PICK m \in Delegated : /\ message' = [message EXCEPT ![j] = m]
                             /\ m.state = message[j].state /\ m.by = message[j].by /\ m.tries = message[j].tries
                             /\ \E k \in Dispatches : m.credential = message[k].credential
    BY <2>2
  <2>4. Issued(m.credential, message')
    BY <1>1, <2>1, <2>3, CredentialsStay DEF DelegationInv
  <2> QED  BY <1>1, <1>2, <2>1, <2>3, <2>4, WaitingJobChanges
<1> QED  BY <1>3, <1>4, <1>5

\* The job that waits is taken, and decided by what it is called and carries now.
LEMMA TakingSteps ==
    ASSUME DelegationInv, UNCHANGED selected, NEW j \in Dispatches, takeJob(j)
    PROVE  DelegationInv'
<1> USE DEF DelegationInv
<1> DEFINE m == [message[j] EXCEPT !.state = "active"]
<1>1. /\ work.pc = "idle" /\ message[j].state = "waiting" /\ message[j] \in Delegated
      /\ message' = [message EXCEPT ![j] = m] /\ UNCHANGED <<present, runs, trusted, able>>
      /\ present \in Nat
  BY DelegationAssumption DEF takeJob, Working, DelegationTypes
<1>2. /\ m \in Delegated /\ m.state = "active" /\ m.by = message[j].by /\ m.credential = message[j].credential
      /\ m.payload = message[j].payload /\ m.fingerprint = message[j].fingerprint
      /\ m.name = message[j].name /\ m.tries = message[j].tries
  BY <1>1 DEF Delegated
<1> HIDE DEF m
<1>3. /\ message' \in [Dispatches -> Delegated] /\ message'[j] = m
      /\ \A k \in Dispatches : k # j => message'[k] = message[k]
  BY <1>1, <1>2, JobChanges
<1>4. /\ (IdentityHolds(j))' <=> IdentityHolds(j)
      /\ (Needs(message[j].name))' <=> Needs(message[j].name)
      /\ (Registered(message[j].name))' <=> Registered(message[j].name)
  BY <1>2, <1>3 DEF IdentityHolds, Needs, Registered
<1>5. /\ work' \in DelegatedRun /\ work'.job = j /\ work'.actor = "none" /\ work'.taken = present
      /\ \/ work'.pc = "ending" /\ work'.verdict = "invalid" /\ ~IdentityHolds(j)
         \/ work'.pc = "ending" /\ work'.verdict = "misconfigured" /\ ~Registered(message[j].name)
         \/ work'.pc = "ending" /\ work'.verdict = "denied" /\ Needs(message[j].name)
         \/ /\ work'.pc = "handling" /\ ~Needs(message[j].name)
            /\ IdentityHolds(j) /\ Registered(message[j].name)
         \/ /\ work'.pc = "verifying" /\ Needs(message[j].name)
            /\ IdentityHolds(j) /\ Registered(message[j].name)
  <2> DEFINE started(pc, verdict) == [NoWork EXCEPT !.job = j, !.taken = present, !.pc = pc, !.verdict = verdict]
  <2>1. ASSUME NEW pc \in {"verifying", "handling", "ending"}, NEW verdict \in Refusals \cup {"none"}, work' = started(pc, verdict)
        PROVE  /\ work' \in DelegatedRun /\ work'.job = j /\ work'.actor = "none" /\ work'.taken = present
               /\ work'.pc = pc /\ work'.verdict = verdict
    BY <1>1, <2>1, NoWorkFits DEF NoWork, DelegatedRun, DelegatedNames, Verdicts
  <2>2. \/ work' = started("ending", "invalid") /\ ~IdentityHolds(j)
        \/ work' = started("ending", "misconfigured") /\ ~Registered(message[j].name)
        \/ work' = started("ending", "denied") /\ Needs(message[j].name)
        \/ /\ work' = started("handling", "none") /\ ~Needs(message[j].name)
           /\ IdentityHolds(j) /\ Registered(message[j].name)
        \/ /\ work' = started("verifying", "none") /\ Needs(message[j].name)
           /\ IdentityHolds(j) /\ Registered(message[j].name)
    BY DEF takeJob
  <2> HIDE DEF started
  <2> QED  BY <2>1, <2>2 DEF Refusals
<1>6. DelegationTypes'
  BY <1>1, <1>3, <1>5 DEF DelegationTypes
<1>7. CredentialsAreIssued'
  BY <1>1, <1>2, <1>3, CredentialsStay DEF CredentialsAreIssued
<1>8. WorkIsFounded'
  <2>1. message'[j].state = "active" /\ message'[j].name = message[j].name /\ work'.taken <= present'
    BY <1>1, <1>2, <1>3, <1>5
  <2>2. work'.pc = "ending" => EndIsFounded'
    BY <1>4, <1>5 DEF EndIsFounded, Endings
  <2> QED  BY <1>4, <1>5, <2>1, <2>2 DEF WorkIsFounded
<1>9. RunsAreFounded'
  <2>1. \A r \in runs : r.job \in Dispatches
    BY DEF DelegationTypes, HandlerRun
  <2>2. \A r \in runs : /\ message'[r.job].by = message[r.job].by /\ message'[r.job].tries = message[r.job].tries
                        /\ message'[r.job].state # "none"
    BY <1>2, <1>3, <2>1 DEF RunsAreFounded
  <2>3. \A r \in runs : r.attempt <= message[r.job].tries
    BY <1>1 DEF RunsAreFounded
  <2> QED  BY <1>1, <2>2, <2>3 DEF RunsAreFounded, RunIsFounded, Needs, Registered
<1>10. JobsEndFounded'
  BY <1>1, <1>2, <1>3 DEF JobsEndFounded, LastRun, IdentityHolds, Needs, Registered
<1> QED  BY <1>6, <1>7, <1>8, <1>9, <1>10

\* The handler runs as the actor of the claims, or as nobody.
LEMMA HandleSteps ==
    ASSUME DelegationInv, UNCHANGED selected, handle
    PROVE  DelegationInv'
<1> USE DEF DelegationInv
<1> DEFINE m == message[work.job]
<1>1. /\ work.pc = "handling" /\ work \in DelegatedRun /\ UNCHANGED <<present, message, trusted, able>>
      /\ work.job \in Dispatches /\ m.state = "active" /\ work.taken <= present
      /\ m \in Delegated /\ m.tries \in Nat /\ Registered(m.name)
      /\ IF Needs(m.name) THEN Matched /\ work.actor = work.claims.actor ELSE work.actor = "none"
  BY DEF handle, Working, DelegationTypes, WorkIsFounded, Delegated
<1>2. PICK ending \in Endings :
         /\ runs' = runs \cup {[job |-> work.job, attempt |-> m.tries + 1, ending |-> ending, as |-> work.actor,
                                name |-> m.name, queue |-> m.queue, payload |-> m.payload,
                                taken |-> work.taken, checked |-> work.checked, issued |-> work.claims.issued]}
         /\ WorkEnds(ending)
  BY DEF handle
<1> DEFINE run == [job |-> work.job, attempt |-> m.tries + 1, ending |-> ending, as |-> work.actor,
                   name |-> m.name, queue |-> m.queue, payload |-> m.payload,
                   taken |-> work.taken, checked |-> work.checked, issued |-> work.claims.issued]
<1>3. /\ work' \in DelegatedRun /\ work'.pc = "ending" /\ work'.verdict = ending /\ work'.job = work.job
      /\ work'.taken = work.taken
  BY <1>1, <1>2 DEF WorkEnds, DelegatedRun, Verdicts
<1>4. run \in HandlerRun /\ runs' = runs \cup {run}
  BY <1>1, <1>2 DEF HandlerRun, DelegatedRun, Delegated, Credential
<1>5. /\ run.job = work.job /\ run.attempt = message[work.job].tries + 1 /\ run.ending = ending
      /\ RunIsFounded(run, message)
  BY <1>1 DEF Matched, RunIsFounded
<1>6. \A r \in runs : r.attempt <= message[r.job].tries
  BY <1>1 DEF RunsAreFounded
<1> HIDE DEF run, m
<1>7. DelegationTypes' /\ CredentialsAreIssued'
  BY <1>1, <1>3, <1>4 DEF DelegationTypes, CredentialsAreIssued
<1>8. WorkIsFounded'
  <2>1. EndIsFounded'
    BY <1>1, <1>3, <1>4, <1>5 DEF EndIsFounded, Endings
  <2> QED  BY <1>1, <1>3, <2>1 DEF WorkIsFounded, m
<1>9. RunsAreFounded'
  <2>1. ASSUME NEW r \in runs'
        PROVE  /\ RunIsFounded(r, message)' /\ message'[r.job].state # "none"
               /\ \/ r.attempt <= message'[r.job].tries
                  \/ /\ r.attempt = message'[r.job].tries + 1
                     /\ work'.job = r.job /\ work'.pc = "ending" /\ work'.verdict = r.ending
    <3>1. RunIsFounded(r, message) /\ message[r.job].state # "none"
      BY <1>1, <1>4, <1>5 DEF RunsAreFounded, m
    <3>2. CASE r \in runs
      BY <1>1, <1>6, <3>1, <3>2 DEF RunIsFounded, Needs, Registered
    <3>3. CASE r = run
      BY <1>1, <1>3, <1>5, <3>1, <3>3 DEF RunIsFounded, Needs, Registered
    <3> QED  BY <1>4, <3>2, <3>3
  <2>2. ASSUME NEW r \in runs', NEW q \in runs', q.job = r.job, q.attempt = r.attempt
        PROVE  q = r
    <3>1. CASE q \in runs /\ r \in runs
      BY <2>2, <3>1 DEF RunsAreFounded
    <3>2. \A x \in runs : ~(x.job = run.job /\ x.attempt = run.attempt)
      <4>1. message[work.job].tries \in Nat
        BY <1>1 DEF m
      <4> QED  BY <1>5, <1>6, <4>1
    <3> QED  BY <1>4, <2>2, <3>1, <3>2
  <2> QED  BY <2>1, <2>2 DEF RunsAreFounded
<1>10. JobsEndFounded'
  <2>1. \A j \in Dispatches : LastRun(j, run) => j = work.job
    BY <1>5 DEF LastRun
  <2>2. message[work.job].state = "active"
    BY <1>1 DEF m
  <2>3. \A j \in Dispatches : \A r \in runs' : j # work.job /\ LastRun(j, r) => r \in runs
    BY <1>4, <2>1
  <2> QED  BY <1>1, <1>4, <2>2, <2>3 DEF JobsEndFounded, LastRun, IdentityHolds, Needs, Registered
<1> QED  BY <1>7, <1>8, <1>9, <1>10

\* The end of an attempt.
LEMMA EndingSteps ==
    ASSUME DelegationInv, UNCHANGED selected, endJob
    PROVE  DelegationInv'
<1> USE DEF DelegationInv
<1> DEFINE tries == message[work.job].tries + 1
           state == IF work.verdict = "ok" THEN "done"
                    ELSE IF work.verdict \in {"threw", "unavailable"} /\ tries < JobTries THEN "waiting" ELSE "failed"
           m == [message[work.job] EXCEPT !.state = state, !.tries = tries, !.ended = work.verdict]
<1>1. /\ work.pc = "ending" /\ work \in DelegatedRun /\ UNCHANGED <<present, runs, trusted, able>>
      /\ work.job \in Dispatches /\ message[work.job].state = "active" /\ EndIsFounded
      /\ message[work.job] \in Delegated /\ message[work.job].tries \in Nat
      /\ work' = NoWork /\ work'.pc = "idle"
  BY DEF endJob, Working, DelegationTypes, WorkIsFounded, Delegated, NoWork
<1>2. message' = [message EXCEPT ![work.job] = m]
  BY DEF endJob
<1>3. state \in {"done", "failed", "waiting"} /\ tries \in Nat /\ tries = message[work.job].tries + 1 /\ tries <= JobTries
  BY <1>1, DelegationAssumption DEF JobsEndFounded
<1>4. /\ state = "done" => work.verdict = "ok"
      /\ state = "waiting" => tries < JobTries
      /\ state = "failed" => work.verdict # "ok" /\ (work.verdict \in {"threw", "unavailable"} => ~(tries < JobTries))
      /\ work.verdict \in Verdicts
  BY <1>1 DEF DelegatedRun
<1>5. /\ m \in Delegated /\ m.state = state /\ m.tries = tries /\ m.ended = work.verdict /\ m.by = message[work.job].by
      /\ m.credential = message[work.job].credential /\ m.name = message[work.job].name
      /\ m.payload = message[work.job].payload /\ m.fingerprint = message[work.job].fingerprint
  BY <1>1, <1>3 DEF Delegated, DelegatedRun
<1> HIDE DEF state, tries, m
<1>6. /\ message' \in [Dispatches -> Delegated] /\ message'[work.job] = m
      /\ \A k \in Dispatches : k # work.job => message'[k] = message[k]
  BY <1>1, <1>2, <1>5, JobChanges
<1>7. DelegationTypes'
  BY <1>1, <1>6, NoWorkFits DEF DelegationTypes
<1>8. CredentialsAreIssued'
  <2>1. m.state # "none"
    BY <1>3, <1>5
  <2> QED  BY <1>1, <1>2, <1>5, <1>6, <2>1, CredentialsStay DEF CredentialsAreIssued
<1>9. WorkIsFounded'
  BY <1>1 DEF WorkIsFounded
<1>10. RunsAreFounded'
  <2>1. \A r \in runs : r.job \in Dispatches /\ r.attempt \in Nat
    BY DEF DelegationTypes, HandlerRun
  <2>2. ASSUME NEW r \in runs
        PROVE  /\ message'[r.job].by = message[r.job].by /\ message'[r.job].state # "none"
               /\ r.attempt <= message'[r.job].tries
    <3>1. CASE r.job = work.job
      <4>1. r.attempt <= tries
        BY <1>1, <1>3, <2>1, <3>1 DEF RunsAreFounded
      <4> QED  BY <1>3, <1>5, <1>6, <3>1, <4>1
    <3>2. CASE r.job # work.job
      BY <1>6, <2>1, <3>2 DEF RunsAreFounded
    <3> QED  BY <3>1, <3>2
  <2> QED  BY <1>1, <2>2 DEF RunsAreFounded, RunIsFounded, Needs, Registered
<1>11. JobsEndFounded'
  <2>0. PICK j \in Dispatches : j = work.job
    BY <1>1
  <2>1. ASSUME NEW k \in Dispatches, k # j
        PROVE  message'[k] = message[k]
    BY <1>6, <2>0, <2>1
  <2>2. /\ message'[j].state = state /\ message'[j].tries = tries /\ message'[j].ended = work.verdict
        /\ message'[j].name = message[j].name
        /\ (IdentityHolds(j))' <=> IdentityHolds(j)
    BY <1>5, <1>6, <2>0 DEF IdentityHolds
  <2>3. work.verdict \in Endings => \E r \in runs : (LastRun(j, r))' /\ r.ending = work.verdict
    BY <1>1, <1>3, <2>0, <2>2 DEF EndIsFounded, LastRun
  <2>4. work.verdict \in Refusals => \A r \in runs : ~(LastRun(j, r))'
    <3>1. ASSUME NEW r \in runs, r.job = j, r.attempt = tries, work.verdict \in Refusals
          PROVE  FALSE
      <4>1. r.ending \in Endings
        BY DEF DelegationTypes, HandlerRun
      <4>2. work.verdict = r.ending
        BY <1>1, <1>3, <2>0, <3>1 DEF RunsAreFounded
      <4> QED  BY <3>1, <4>1, <4>2 DEF Refusals, Endings
    <3> QED  BY <2>2, <3>1 DEF LastRun
  <2>5. /\ work.verdict = "denied" => (Needs(message[j].name))'
        /\ work.verdict = "misconfigured" => ~(Registered(message[j].name))'
        /\ work.verdict = "invalid" => ~(IdentityHolds(j))'
    BY <1>1, <2>0, <2>2 DEF EndIsFounded, Needs, Registered
  <2>6. /\ state = "waiting" => tries < JobTries
        /\ state = "done" => \E r \in runs' : (LastRun(j, r))' /\ r.ending = "ok"
    BY <1>1, <1>4, <2>3 DEF Endings
  <2>7. state = "failed" =>
              \/ work.verdict = "denied" /\ (Needs(message[j].name))' /\ \A r \in runs' : ~(LastRun(j, r))'
              \/ work.verdict = "misconfigured" /\ ~(Registered(message[j].name))' /\ \A r \in runs' : ~(LastRun(j, r))'
              \/ work.verdict = "invalid" /\ ~(IdentityHolds(j))' /\ \A r \in runs' : ~(LastRun(j, r))'
              \/ work.verdict = "final" /\ \E r \in runs' : (LastRun(j, r))' /\ r.ending = "final"
              \/ work.verdict \in {"threw", "unavailable"} /\ tries = JobTries
    <3>1. SUFFICES ASSUME state = "failed" PROVE <2>7!2
      OBVIOUS
    <3>2. work.verdict \in Refusals \cup {"final", "threw", "unavailable"}
      BY <1>1, <1>4, <3>1 DEF Verdicts, Endings, EndIsFounded
    <3>3. CASE work.verdict \in Refusals
      BY <1>1, <2>4, <2>5, <3>3 DEF Refusals
    <3>4. CASE work.verdict = "final"
      BY <1>1, <2>3, <3>4 DEF Endings
    <3>5. CASE work.verdict \in {"threw", "unavailable"}
      BY <1>3, <1>4, <3>1, <3>5, DelegationAssumption
    <3> QED  BY <3>2, <3>3, <3>4, <3>5
  <2> SUFFICES ASSUME NEW k \in Dispatches
               PROVE  JobsEndFounded!(k)'
    BY DEF JobsEndFounded
  <2>8. CASE k = j
    BY <1>3, <2>2, <2>6, <2>7, <2>8
  <2>9. CASE k # j
    BY <1>1, <2>1, <2>9 DEF JobsEndFounded, LastRun, IdentityHolds, Needs, Registered
  <2> QED  BY <2>8, <2>9
<1> QED  BY <1>7, <1>8, <1>9, <1>10, <1>11

\* Nothing else touches a job or a run.
LEMMA QuietDelegation ==
    ASSUME DelegationInv, UNCHANGED <<selected, message, work, runs>>,
           present' \in 0..LastTick, present <= present', trusted' \subseteq Actors, able' \subseteq Actors
    PROVE  DelegationInv'
<1>1. work.taken <= present => work.taken <= present'
  BY DelegationAssumption DEF DelegationInv, DelegationTypes, DelegatedRun
<1> QED  BY <1>1 DEF DelegationInv, DelegationTypes, CredentialsAreIssued, WorkIsFounded, EndIsFounded, RunsAreFounded,
            RunIsFounded, JobsEndFounded, LastRun, Matched, IdentityHolds, Needs, Registered

\* installQueueDelegation and RequireAuthorization, packages/authorization-queue/src/runtime:
\* a job runs, in every attempt, as the actor who dispatched it and with what it was
\* dispatched with if its name then needs a credential, and as nobody otherwise; what ends
\* it is what its last attempt came to.
THEOREM DelegationIsAlwaysExact == DelegationSpec => [](DelegationTypeOK /\ DelegationIsExact)
<1>1. DelegationInv /\ [DelegationNext]_delegationVars => DelegationInv'
  <2>1. ASSUME DelegationInv, DelegationStep, UNCHANGED selected PROVE DelegationInv'
    <3>1. present \in 0..LastTick /\ trusted \subseteq Actors /\ able \subseteq Actors
      BY <2>1 DEF DelegationInv, DelegationTypes
    <3>2. CASE ticks
      <4>1. present' \in 0..LastTick /\ present <= present'
        BY <3>1, <3>2, DelegationAssumption DEF ticks
      <4> QED  BY <2>1, <3>1, <3>2, <4>1, QuietDelegation DEF ticks
    <3>3. ASSUME NEW actor \in Actors, revoke(actor) PROVE DelegationInv'
      BY <2>1, <3>1, <3>3, QuietDelegation DEF revoke
    <3> QED  BY <2>1, <3>2, <3>3, CheckingSteps, HandleSteps, EndingSteps, TakingSteps, AdmissionSteps
             DEF DelegationStep
  <2>2. ASSUME DelegationInv, UNCHANGED delegationVars PROVE DelegationInv'
    <3>1. present <= present'
      BY <2>2, DelegationAssumption DEF delegationVars, DelegationInv, DelegationTypes
    <3> QED  BY <2>2, <3>1, QuietDelegation DEF delegationVars, DelegationInv, DelegationTypes
  <2> QED  BY <2>1, <2>2 DEF DelegationNext
<1>2. DelegationInv => DelegationTypeOK /\ DelegationIsExact
  <2> SUFFICES ASSUME DelegationInv PROVE DelegationTypeOK /\ DelegationIsExact
    OBVIOUS
  <2>1. DelegationTypeOK
    BY DEF DelegationInv, DelegationTypes, DelegationTypeOK, Delegated, DelegatedRun
  <2>2. DelegationIsExact
    BY DEF DelegationInv, DelegationIsExact, RunsAreFounded, RunIsFounded, JobsEndFounded, LastRun
  <2> QED  BY <2>1, <2>2
<1> QED  BY DelegationStarts, <1>1, <1>2, PTL DEF DelegationSpec

(***************************************************************************)
(* Remember.  A factory that may still write has read the truth after every  *)
(* change that was sent before it, and Redis executes what it is sent in     *)
(* order: no write is older than what was executed before it.                *)
(***************************************************************************)
Changes == {"SET", "DEL", "SCAN"}
Fills == {"SET", "SETNX"}
CallRecord == [pc : Pcs, on : Callers \union {"none"}, version : 0..MaxVersion]

RememberTypes ==
    /\ truth \in 1..MaxVersion /\ stored \in [version : 0..MaxVersion, own : BOOLEAN]
    /\ pending \in Callers \union {"none"} /\ invalidated \in 0..MaxVersion
    /\ wire \in Seq(Commands) /\ caller \in [Callers -> CallRecord]
    /\ driver \in Drivers

\* What is on the wire, and what will be written by the pending factory.
WireIsOrdered ==
    /\ driver = "memory" => wire = <<>>
    /\ \A i \in 1..Len(wire) : wire[i].op # "get" => wire[i].version <= truth
    /\ \A j \in 1..Len(wire) : wire[j].op \in Fills =>
          /\ wire[j].version >= invalidated
          /\ \A i \in 1..Len(wire) : i < j /\ wire[i].op \in Changes => wire[i].version <= wire[j].version

PendingIsNew ==
    \A c \in Callers : pending = c /\ caller[c].pc = "loaded" =>
        /\ invalidated <= caller[c].version /\ caller[c].version \in 1..truth
        /\ \A i \in 1..Len(wire) : wire[i].op \in Changes => wire[i].version <= caller[c].version

RememberInv ==
    RememberTypes /\ WireIsOrdered /\ PendingIsNew /\ invalidated <= truth /\ FillsAreFresh

LEMMA RememberNumbers ==
    ASSUME RememberTypes
    PROVE  /\ truth \in Nat /\ invalidated \in Nat /\ stored.version \in Nat /\ MaxVersion \in Nat
           /\ \A i \in 1..Len(wire) : /\ wire[i] \in Commands
                                      /\ wire[i].op \in {"get", "SET", "SETNX", "DEL", "SCAN"}
                                      /\ wire[i].op # "get" => wire[i].version \in 1..MaxVersion
           /\ \A c \in Callers : caller[c] \in CallRecord /\ caller[c].version \in Nat
<1>1. /\ truth \in Nat /\ invalidated \in Nat /\ stored.version \in Nat /\ MaxVersion \in Nat
  BY RememberAssumption DEF RememberTypes
<1>2. \A i \in 1..Len(wire) : wire[i] \in Commands
  BY DEF RememberTypes
<1>3. \A cmd \in Commands : /\ cmd.op \in {"get", "SET", "SETNX", "DEL", "SCAN"}
                            /\ cmd.op # "get" => cmd.version \in 1..MaxVersion
  BY DEF Commands
<1>4. \A c \in Callers : caller[c] \in CallRecord /\ caller[c].version \in Nat
  BY RememberAssumption DEF RememberTypes, CallRecord
<1> QED  BY <1>1, <1>2, <1>3, <1>4

\* A command is sent: a get, a change with the current truth, or the write of the pending factory.
LEMMA CommandsAppend ==
    ASSUME RememberInv, NEW cmd \in Commands, wire' = Append(wire, cmd), driver # "memory",
           UNCHANGED <<driver, truth, invalidated>>,
           cmd.op # "get" => cmd.version <= truth,
           cmd.op \in Fills => /\ cmd.version >= invalidated
                               /\ \A i \in 1..Len(wire) : wire[i].op \in Changes => wire[i].version <= cmd.version
    PROVE  /\ wire' \in Seq(Commands) /\ WireIsOrdered'
           /\ \A i \in 1..Len(wire') : wire'[i] = cmd \/ \E k \in 1..Len(wire) : wire'[i] = wire[k]
<1>1. wire \in Seq(Commands) /\ Len(wire) \in Nat
  BY DEF RememberInv, RememberTypes
<1>2. /\ wire' \in Seq(Commands) /\ Len(wire') = Len(wire) + 1 /\ wire'[Len(wire) + 1] = cmd
      /\ \A i \in 1..Len(wire) : wire'[i] = wire[i]
  BY <1>1
<1>3. \A i \in 1..Len(wire') : i = Len(wire) + 1 \/ i \in 1..Len(wire)
  BY <1>1, <1>2
<1>4. \A i \in 1..Len(wire') : wire'[i].op # "get" => wire'[i].version <= truth
  BY <1>2, <1>3 DEF RememberInv, WireIsOrdered
<1>5. ASSUME NEW j \in 1..Len(wire'), wire'[j].op \in Fills
      PROVE  /\ wire'[j].version >= invalidated
             /\ \A i \in 1..Len(wire') : i < j /\ wire'[i].op \in Changes => wire'[i].version <= wire'[j].version
  <2>1. CASE j = Len(wire) + 1
    <3>1. \A i \in 1..Len(wire') : i < j => i \in 1..Len(wire)
      BY <1>1, <1>2, <2>1
    <3> QED  BY <1>2, <1>5, <2>1, <3>1
  <2>2. CASE j \in 1..Len(wire)
    <3>1. \A i \in 1..Len(wire') : i < j => i \in 1..Len(wire)
      BY <1>1, <1>2, <2>2
    <3> QED  BY <1>2, <1>5, <2>2, <3>1 DEF RememberInv, WireIsOrdered
  <2> QED  BY <1>3, <2>1, <2>2
<1> QED  BY <1>2, <1>3, <1>4, <1>5 DEF WireIsOrdered

\* The head of the wire is executed.
LEMMA CommandsLeave ==
    ASSUME RememberInv, wire # <<>>
    PROVE  /\ Head(wire) = wire[1] /\ Head(wire) \in Commands /\ 1 \in 1..Len(wire)
           /\ Tail(wire) \in Seq(Commands) /\ Len(Tail(wire)) \in Nat /\ Len(wire) = Len(Tail(wire)) + 1
           /\ \A i \in 1..Len(Tail(wire)) : i + 1 \in 1..Len(wire) /\ Tail(wire)[i] = wire[i + 1] /\ i + 1 > 1
<1>1. wire \in Seq(Commands) /\ Len(wire) \in Nat /\ Len(wire) > 0
  BY DEF RememberInv, RememberTypes
<1> QED  BY <1>1

\* A caller moves; nothing is written.
LEMMA CallerMoves ==
    ASSUME RememberInv, UNCHANGED <<driver, truth, stored, invalidated>>,
           caller' \in [Callers -> CallRecord], pending' \in Callers \union {"none"},
           wire' \in Seq(Commands), WireIsOrdered',
           \A i \in 1..Len(wire') : wire'[i].op \in Changes =>
               \E k \in 1..Len(wire) : wire[k].op \in Changes /\ wire'[i] = wire[k],
           \A c \in Callers : pending' = c /\ caller'[c].pc = "loaded" =>
               \/ caller'[c].version = truth
               \/ pending = c /\ caller[c].pc = "loaded" /\ caller'[c].version = caller[c].version
    PROVE  RememberInv'
<1>1. RememberTypes' /\ FillsAreFresh' /\ invalidated' <= truth'
  BY DEF RememberInv, RememberTypes, FillsAreFresh
<1>2. PendingIsNew'
  <2> SUFFICES ASSUME NEW c \in Callers, pending' = c, caller'[c].pc = "loaded"
               PROVE  /\ invalidated <= caller'[c].version /\ caller'[c].version \in 1..truth
                      /\ \A i \in 1..Len(wire') : wire'[i].op \in Changes => wire'[i].version <= caller'[c].version
    BY DEF PendingIsNew
  <2>1. CASE caller'[c].version = truth
    <3>1. truth \in 1..truth /\ invalidated <= truth
      BY DEF RememberInv, RememberTypes
    <3>2. \A k \in 1..Len(wire) : wire[k].op \in Changes => wire[k].version <= truth
      BY DEF RememberInv, WireIsOrdered, Changes
    <3> QED  BY <2>1, <3>1, <3>2
  <2>2. CASE pending = c /\ caller[c].pc = "loaded" /\ caller'[c].version = caller[c].version
    <3>1. /\ invalidated <= caller[c].version /\ caller[c].version \in 1..truth
          /\ \A k \in 1..Len(wire) : wire[k].op \in Changes => wire[k].version <= caller[c].version
      BY <2>2 DEF RememberInv, PendingIsNew
    <3> QED  BY <2>2, <3>1
  <2> QED  BY <2>1, <2>2
<1> QED  BY <1>1, <1>2 DEF RememberInv

\* What the calls make of a caller.
LEMMA CallerChanges ==
    ASSUME RememberTypes, NEW c \in Callers
    PROVE  /\ caller[c] \in CallRecord
           /\ \A s \in CallRecord : /\ [caller EXCEPT ![c] = s] \in [Callers -> CallRecord]
                                     /\ [caller EXCEPT ![c] = s][c] = s
                                     /\ \A d \in Callers : d # c => [caller EXCEPT ![c] = s][d] = caller[d]
  BY DEF RememberTypes

LEMMA ShareSteps ==
    ASSUME RememberTypes, NEW c \in Callers, ShareOrStart(c)
    PROVE  /\ caller' \in [Callers -> CallRecord] /\ pending' \in Callers \union {"none"}
           /\ \A d \in Callers : pending' = d /\ caller'[d].pc = "loaded" =>
                 pending = d /\ caller[d].pc = "loaded" /\ caller'[d].version = caller[d].version
<1>0. caller[c] \in CallRecord /\ pending \in Callers \union {"none"}
  BY CallerChanges DEF RememberTypes
<1>1. PICK s \in CallRecord : /\ caller' = [caller EXCEPT ![c] = s] /\ s.pc \in {"shared", "factory"}
                              /\ pending' = pending \/ pending' = c
  <2>1. CASE pending # "none"
    <3> DEFINE s == [caller[c] EXCEPT !.pc = "shared", !.on = pending]
    <3>1. s \in CallRecord /\ s.pc = "shared"
      BY <1>0, <2>1 DEF CallRecord, Pcs
    <3>2. caller' = [caller EXCEPT ![c] = s] /\ pending' = pending
      BY <2>1 DEF ShareOrStart
    <3> HIDE DEF s
    <3> QED  BY <3>1, <3>2
  <2>2. CASE pending = "none"
    <3> DEFINE s == [caller[c] EXCEPT !.pc = "factory"]
    <3>1. s \in CallRecord /\ s.pc = "factory"
      BY <1>0 DEF CallRecord, Pcs
    <3>2. caller' = [caller EXCEPT ![c] = s] /\ pending' = c
      BY <2>2 DEF ShareOrStart
    <3> HIDE DEF s
    <3> QED  BY <3>1, <3>2
  <2> QED  BY <2>1, <2>2
<1>2. /\ caller' \in [Callers -> CallRecord] /\ caller'[c] = s
      /\ \A d \in Callers : d # c => caller'[d] = caller[d]
  BY <1>1, CallerChanges
<1> QED  BY <1>1, <1>2 DEF RememberTypes

LEMMA AskSteps ==
    ASSUME RememberInv, NEW c \in Callers, remember(c) \/ factoryReads(c) \/ again(c)
    PROVE  RememberInv'
<1>1. /\ RememberTypes /\ WireIsOrdered /\ UNCHANGED <<driver, truth, stored, invalidated>>
      /\ wire \in Seq(Commands) /\ pending \in Callers \union {"none"} /\ stored.version \in 0..MaxVersion
      /\ truth \in 0..MaxVersion /\ caller[c] \in CallRecord /\ 0 \in 0..MaxVersion
  BY RememberAssumption, CallerChanges DEF RememberInv, RememberTypes, remember, factoryReads, again
<1>2. ASSUME wire' = wire PROVE WireIsOrdered' /\ wire' \in Seq(Commands)
  BY <1>1, <1>2 DEF WireIsOrdered
<1>3. ASSUME NEW s \in CallRecord, caller' = [caller EXCEPT ![c] = s], wire' = wire, pending' = pending,
             s.pc = "loaded" => s.version = truth
      PROVE  RememberInv'
  <2>1. /\ caller' \in [Callers -> CallRecord] /\ caller'[c] = s
        /\ \A d \in Callers : d # c => caller'[d] = caller[d]
    BY <1>1, <1>3, CallerChanges
  <2> QED  BY <1>1, <1>2, <1>3, <2>1, CallerMoves
<1>4. CASE factoryReads(c)
  <2> DEFINE s == [caller[c] EXCEPT !.pc = "loaded", !.version = truth]
  <2>1. s \in CallRecord /\ s.version = truth
    BY <1>1 DEF CallRecord, Pcs
  <2>2. caller' = [caller EXCEPT ![c] = s] /\ wire' = wire /\ pending' = pending
    BY <1>4 DEF factoryReads
  <2> HIDE DEF s
  <2> QED  BY <1>3, <2>1, <2>2
<1>5. CASE again(c)
  <2> DEFINE s == [pc |-> "idle", on |-> "none", version |-> 0]
  <2>1. s \in CallRecord /\ s.pc = "idle"
    BY <1>1 DEF CallRecord, Pcs
  <2>2. caller' = [caller EXCEPT ![c] = s] /\ wire' = wire /\ pending' = pending
    BY <1>5 DEF again
  <2> HIDE DEF s
  <2> QED  BY <1>3, <2>1, <2>2
<1>6. CASE remember(c)
  <2>1. CASE /\ caller' = [caller EXCEPT ![c] = [@ EXCEPT !.pc = "returned", !.version = stored.version]]
             /\ UNCHANGED <<pending, wire>>
    <3> DEFINE s == [caller[c] EXCEPT !.pc = "returned", !.version = stored.version]
    <3>1. s \in CallRecord /\ s.pc = "returned"
      BY <1>1 DEF CallRecord, Pcs
    <3>2. caller' = [caller EXCEPT ![c] = s] /\ wire' = wire /\ pending' = pending
      BY <2>1
    <3> HIDE DEF s
    <3> QED  BY <1>3, <3>1, <3>2
  <2>2. CASE ShareOrStart(c) /\ wire' = wire
    <3>2. /\ caller' \in [Callers -> CallRecord] /\ pending' \in Callers \union {"none"}
          /\ \A d \in Callers : pending' = d /\ caller'[d].pc = "loaded" =>
                pending = d /\ caller[d].pc = "loaded" /\ caller'[d].version = caller[d].version
      BY <1>1, <2>2, ShareSteps
    <3> QED  BY <1>1, <1>2, <2>2, <3>2, CallerMoves
  <2>3. CASE /\ driver = "redis" /\ caller' = [caller EXCEPT ![c].pc = "get"]
             /\ wire' = Append(wire, [op |-> "get", for |-> c]) /\ pending' = pending
    <3> DEFINE s == [caller[c] EXCEPT !.pc = "get"]
               cmd == [op |-> "get", for |-> c]
    <3>1. s \in CallRecord /\ s.pc = "get"
      BY <1>1 DEF CallRecord, Pcs
    <3>2. caller' = [caller EXCEPT ![c] = s]
      BY <2>3
    <3>3. cmd \in Commands /\ cmd.op = "get"
      BY DEF Commands
    <3> HIDE DEF s, cmd
    <3>4. /\ caller' \in [Callers -> CallRecord] /\ caller'[c] = s
          /\ \A d \in Callers : d # c => caller'[d] = caller[d]
      BY <1>1, <3>1, <3>2, CallerChanges
    <3>5. wire' = Append(wire, cmd) /\ driver # "memory" /\ cmd.op \notin Fills /\ cmd.op \notin Changes
      BY <2>3, <3>3 DEF cmd, Fills, Changes
    <3>6. /\ wire' \in Seq(Commands) /\ WireIsOrdered'
          /\ \A i \in 1..Len(wire') : wire'[i] = cmd \/ \E k \in 1..Len(wire) : wire'[i] = wire[k]
      BY <1>1, <3>3, <3>5, CommandsAppend
    <3> QED  BY <1>1, <2>3, <3>1, <3>4, <3>5, <3>6, CallerMoves
  <2> QED  BY <1>6, <2>1, <2>2, <2>3 DEF remember
<1> QED  BY <1>4, <1>5, <1>6

\* The head of the wire is gone.
LEMMA WireShrinks ==
    ASSUME RememberInv, wire # <<>>, wire' = Tail(wire), UNCHANGED <<driver, truth, invalidated>>
    PROVE  /\ wire' \in Seq(Commands) /\ WireIsOrdered'
           /\ \A i \in 1..Len(wire') : wire'[i].op \in Changes =>
                 \E k \in 1..Len(wire) : wire[k].op \in Changes /\ wire'[i] = wire[k]
<1>1. /\ wire' \in Seq(Commands) /\ Len(wire') \in Nat
      /\ \A i \in 1..Len(wire') : i + 1 \in 1..Len(wire) /\ wire'[i] = wire[i + 1]
      /\ driver # "memory"
  BY CommandsLeave DEF RememberInv, WireIsOrdered
<1>2. \A i, j \in 1..Len(wire') : i < j => i + 1 < j + 1
  BY <1>1
<1>3. WireIsOrdered'
  BY <1>1, <1>2 DEF RememberInv, WireIsOrdered
<1> QED  BY <1>1, <1>3

LEMMA GetAnswerSteps ==
    ASSUME RememberInv, getAnswered
    PROVE  RememberInv'
<1>1. /\ wire # <<>> /\ wire' = Tail(wire) /\ UNCHANGED <<driver, truth, stored, invalidated>>
      /\ Head(wire) \in Commands /\ Head(wire).op = "get"
  BY CommandsLeave DEF getAnswered
<1>2. PICK c \in Callers : c = Head(wire).for
  BY <1>1 DEF Commands
<1>3. /\ wire' \in Seq(Commands) /\ WireIsOrdered'
      /\ \A i \in 1..Len(wire') : wire'[i].op \in Changes =>
            \E k \in 1..Len(wire) : wire[k].op \in Changes /\ wire'[i] = wire[k]
  BY <1>1, WireShrinks
<1>4. RememberTypes /\ stored.version \in 0..MaxVersion /\ caller[c] \in CallRecord
      /\ pending \in Callers \union {"none"}
  BY CallerChanges DEF RememberInv, RememberTypes
<1>5. CASE /\ caller' = [caller EXCEPT ![c] = [@ EXCEPT !.pc = "returned", !.version = stored.version]]
           /\ pending' = pending
  <2> DEFINE s == [caller[c] EXCEPT !.pc = "returned", !.version = stored.version]
  <2>1. s \in CallRecord /\ s.pc = "returned"
    BY <1>4 DEF CallRecord, Pcs
  <2>2. caller' = [caller EXCEPT ![c] = s] /\ pending' = pending
    BY <1>5
  <2> HIDE DEF s
  <2>3. /\ caller' \in [Callers -> CallRecord] /\ caller'[c] = s
        /\ \A d \in Callers : d # c => caller'[d] = caller[d]
    BY <1>4, <2>1, <2>2, CallerChanges
  <2> QED  BY <1>1, <1>3, <1>4, <2>1, <2>2, <2>3, CallerMoves
<1>6. CASE ShareOrStart(c)
  <2>1. /\ caller' \in [Callers -> CallRecord] /\ pending' \in Callers \union {"none"}
        /\ \A d \in Callers : pending' = d /\ caller'[d].pc = "loaded" =>
              pending = d /\ caller[d].pc = "loaded" /\ caller'[d].version = caller[d].version
    BY <1>4, <1>6, ShareSteps
  <2> QED  BY <1>1, <1>3, <2>1, CallerMoves
<1> QED  BY <1>2, <1>5, <1>6 DEF getAnswered

\* A factory ends: nobody else is loaded by it, and the map does not hold it any more.
LEMMA SettledCallers ==
    ASSUME RememberTypes, NEW c \in Callers, NEW pc \in {"rejected", "returned"}, NEW v \in 0..MaxVersion,
           caller' = Settled(c, pc, v), Unpend(c)
    PROVE  /\ caller' \in [Callers -> CallRecord] /\ pending' \in Callers \union {"none"}
           /\ pending' # c /\ (pending = c => pending' = "none")
           /\ \A d \in Callers : pending' = d /\ caller'[d].pc = "loaded" =>
                 pending = d /\ caller[d].pc = "loaded" /\ caller'[d].version = caller[d].version
<1> DEFINE e == [pc |-> pc, on |-> "none", version |-> v]
<1>1. e \in CallRecord /\ e.pc = pc /\ pc # "loaded"
  BY DEF CallRecord, Pcs
<1>2. \A d \in Callers : caller'[d] = e \/ caller'[d] = caller[d]
  BY DEF Settled
<1>3. caller' = [d \in Callers |-> caller'[d]]
  BY DEF Settled
<1>4. \A d \in Callers : caller[d] \in CallRecord
  BY DEF RememberTypes
<1> HIDE DEF e
<1>5. caller' \in [Callers -> CallRecord]
  <2>1. \A d \in Callers : caller'[d] \in CallRecord
    BY <1>1, <1>2, <1>4
  <2> QED  BY <1>3, <2>1
<1>6. /\ pending' \in Callers \union {"none"} /\ pending' # c /\ (pending = c => pending' = "none")
      /\ \A d \in Callers : pending' = d => pending = d
  BY RememberAssumption DEF Unpend, RememberTypes
<1> QED  BY <1>1, <1>2, <1>5, <1>6

\* A factory fails, or its value is returned without being written.
LEMMA FailSteps ==
    ASSUME RememberInv, NEW c \in Callers, NEW pc \in {"rejected", "returned"}, NEW v \in 0..MaxVersion,
           caller' = Settled(c, pc, v), Unpend(c), UNCHANGED <<driver, truth, stored, invalidated, wire>>
    PROVE  RememberInv'
<1>1. RememberTypes /\ WireIsOrdered /\ wire' = wire
  BY DEF RememberInv
<1>2. wire' \in Seq(Commands) /\ WireIsOrdered'
  BY <1>1 DEF RememberTypes, WireIsOrdered
<1>3. /\ caller' \in [Callers -> CallRecord] /\ pending' \in Callers \union {"none"}
      /\ \A d \in Callers : pending' = d /\ caller'[d].pc = "loaded" =>
            pending = d /\ caller[d].pc = "loaded" /\ caller'[d].version = caller[d].version
  BY <1>1, SettledCallers
<1> QED  BY <1>1, <1>2, <1>3, CallerMoves

\* A write or a change goes out while the map is empty: in memory it takes effect
\* at once, otherwise it waits behind what was sent before it.
LEMMA SendSteps ==
    ASSUME RememberInv, NEW cmd \in Commands, cmd.op \in {"SET", "SETNX", "DEL", "SCAN"}, Send(cmd),
           driver = "memory" => cmd.op # "SETNX",
           UNCHANGED <<driver, truth>>, pending' = "none", caller' \in [Callers -> CallRecord],
           cmd.version <= truth, cmd.version >= invalidated,
           \A i \in 1..Len(wire) : wire[i].op \in Changes => wire[i].version <= cmd.version,
           \/ invalidated' = invalidated
           \/ driver = "memory" /\ cmd.op # "SCAN" /\ cmd.version = truth /\ invalidated' = truth
    PROVE  RememberInv'
<1>1. /\ RememberTypes /\ WireIsOrdered /\ truth' = truth /\ driver' = driver /\ invalidated <= truth /\ FillsAreFresh
      /\ truth \in Nat /\ invalidated \in Nat /\ cmd.version \in 1..MaxVersion /\ truth \in 0..MaxVersion
      /\ MaxVersion \in Nat
  BY RememberNumbers DEF RememberInv, RememberTypes, Commands
<1>2. PendingIsNew'
  BY RememberAssumption DEF PendingIsNew
<1>3. CASE driver = "memory"
  <2>1. wire = <<>> /\ wire' = <<>> /\ stored' = Effect(cmd)
    BY <1>1, <1>3 DEF Send, WireIsOrdered
  <2>2. invalidated' \in 0..MaxVersion /\ invalidated' <= truth'
    BY <1>1 DEF RememberTypes
  <2>3. WireIsOrdered' /\ wire' \in Seq(Commands)
    BY <2>1 DEF WireIsOrdered
  <2>4. stored' \in [version : 0..MaxVersion, own : BOOLEAN] /\ FillsAreFresh'
    <3>1. CASE cmd.op = "SET"
      <4>1. stored' = [version |-> cmd.version, own |-> TRUE]
        BY <2>1, <3>1 DEF Effect
      <4>2. cmd.version \in 0..MaxVersion /\ cmd.version >= invalidated'
        BY <1>1
      <4> QED  BY <4>1, <4>2 DEF FillsAreFresh
    <3>2. CASE cmd.op = "DEL"
      <4>1. stored' = Nothing
        BY <2>1, <3>2 DEF Effect
      <4>2. 0 \in 0..MaxVersion
        BY <1>1
      <4> QED  BY <4>1, <4>2 DEF FillsAreFresh, Nothing
    <3>3. CASE cmd.op = "SCAN"
      <4>1. stored' = stored /\ invalidated' = invalidated
        BY <2>1, <3>3 DEF Effect
      <4> QED  BY <1>1, <4>1 DEF FillsAreFresh, RememberTypes
    <3> QED  BY <1>3, <3>1, <3>2, <3>3
  <2> QED  BY <1>1, <1>2, <2>2, <2>3, <2>4 DEF RememberInv, RememberTypes
<1>4. CASE driver # "memory"
  <2>1. wire' = Append(wire, cmd) /\ stored' = stored /\ invalidated' = invalidated
    BY <1>4 DEF Send
  <2>2. wire' \in Seq(Commands) /\ WireIsOrdered'
    BY <1>1, <1>4, <2>1, CommandsAppend
  <2> QED  BY <1>1, <1>2, <2>1, <2>2 DEF RememberInv, RememberTypes, FillsAreFresh
<1> QED  BY <1>3, <1>4

LEMMA SettleSteps ==
    ASSUME RememberInv, NEW c \in Callers, settle(c)
    PROVE  RememberInv'
<1>1. /\ RememberTypes /\ caller[c].version \in 0..MaxVersion /\ caller[c].pc = "loaded" /\ truth \in 1..MaxVersion
      /\ caller' = Settled(c, "returned", caller[c].version) /\ Unpend(c)
      /\ UNCHANGED <<driver, truth, invalidated>>
  BY CallerChanges DEF RememberInv, RememberTypes, settle, CallRecord
<1>2. CASE pending # c
  BY <1>1, <1>2, FailSteps DEF settle
<1>3. CASE pending = c
  <2> DEFINE cmd == [op |-> IF driver = "memory" THEN "SET" ELSE "SETNX", version |-> caller[c].version]
  <2>1. /\ invalidated <= caller[c].version /\ caller[c].version \in 1..truth
        /\ \A i \in 1..Len(wire) : wire[i].op \in Changes => wire[i].version <= caller[c].version
    BY <1>1, <1>3 DEF RememberInv, PendingIsNew
  <2>2. pending' = "none" /\ caller' \in [Callers -> CallRecord]
    BY <1>1, <1>3, SettledCallers
  <2>3. /\ cmd.op \in {"SET", "SETNX"} /\ cmd.version = caller[c].version
        /\ driver = "memory" => cmd.op # "SETNX"
    OBVIOUS
  <2>4. cmd \in Commands
    <3>1. caller[c].version \in 1..MaxVersion
      BY <1>1, <2>1, RememberNumbers
    <3> QED  BY <3>1 DEF Commands
  <2>5. Send(cmd)
    BY <1>3 DEF settle
  <2>6. caller[c].version <= truth /\ caller[c].version >= invalidated
    BY <1>1, <2>1, RememberNumbers
  <2> HIDE DEF cmd
  <2> QED  BY <1>1, <2>1, <2>2, <2>3, <2>4, <2>5, <2>6, SendSteps
<1> QED  BY <1>2, <1>3

LEMMA InvalidateSteps ==
    ASSUME RememberInv, NEW op \in {"SET", "DEL", "SCAN"}, invalidate(op), op = "SCAN" => driver # "memory"
    PROVE  RememberInv'
<1> DEFINE cmd == [op |-> op, version |-> truth]
<1>1. /\ truth \in 1..MaxVersion /\ caller' \in [Callers -> CallRecord] /\ pending' = "none"
      /\ UNCHANGED <<driver, truth>> /\ invalidated <= truth /\ Send(cmd)
      /\ invalidated' = IF driver = "memory" THEN truth ELSE invalidated
  BY DEF RememberInv, RememberTypes, invalidate, touch
<1>2. cmd \in Commands /\ cmd.op = op /\ cmd.version = truth
  BY <1>1 DEF Commands
<1>3. truth \in Nat /\ invalidated \in Nat
  BY RememberNumbers DEF RememberInv
<1>4. \A i \in 1..Len(wire) : wire[i].op \in Changes => wire[i].version <= truth
  BY DEF RememberInv, WireIsOrdered, Changes
<1>5. cmd.version <= truth /\ cmd.version >= invalidated
  BY <1>1, <1>2, <1>3
<1> HIDE DEF cmd
<1> QED  BY <1>1, <1>2, <1>4, <1>5, SendSteps

\* Redis executes a change or a write.  A scan that finds the key sends the removal.
LEMMA ExecuteSteps ==
    ASSUME RememberInv, execute
    PROVE  RememberInv'
<1> DEFINE cmd == Head(wire)
           rest == Tail(wire)
           del == [op |-> "DEL", version |-> cmd.version]
<1>1. /\ cmd = wire[1] /\ cmd \in Commands /\ 1 \in 1..Len(wire) /\ rest \in Seq(Commands) /\ Len(rest) \in Nat
      /\ \A i \in 1..Len(rest) : i + 1 \in 1..Len(wire) /\ rest[i] = wire[i + 1] /\ i + 1 > 1
  BY CommandsLeave DEF execute
<1>2. /\ cmd.op \in {"SET", "SETNX", "DEL", "SCAN"} /\ cmd.version \in 1..MaxVersion /\ cmd.version <= truth
      /\ cmd.version \in Nat /\ truth \in Nat /\ invalidated \in Nat /\ MaxVersion \in Nat /\ driver # "memory"
  BY <1>1, RememberNumbers DEF RememberInv, WireIsOrdered, execute
<1>3. /\ UNCHANGED <<driver, truth, pending, caller>> /\ stored' = Effect(cmd)
      /\ wire' = IF cmd.op = "SCAN" /\ stored # Nothing THEN Append(rest, del) ELSE rest
      /\ invalidated' = IF cmd.op \in {"SET", "DEL"} /\ cmd.version > invalidated
                        THEN cmd.version ELSE invalidated
  BY DEF execute
<1>4. del \in Commands /\ del.op = "DEL" /\ del.version = cmd.version
  BY <1>2 DEF Commands
<1> HIDE DEF cmd, rest, del
<1>5. /\ wire' \in Seq(Commands) /\ Len(wire') \in Nat
      /\ \A i \in 1..Len(wire') : \/ i \in 1..Len(rest) /\ wire'[i] = wire[i + 1]
                                  \/ i = Len(rest) + 1 /\ wire'[i] = del /\ cmd.op = "SCAN"
  <2>1. CASE wire' = rest
    BY <1>1, <2>1
  <2>2. CASE wire' = Append(rest, del) /\ cmd.op = "SCAN"
    <3>1. /\ wire' \in Seq(Commands) /\ Len(wire') = Len(rest) + 1 /\ wire'[Len(rest) + 1] = del
          /\ \A i \in 1..Len(rest) : wire'[i] = rest[i]
      BY <1>1, <1>4, <2>2
    <3>2. \A i \in 1..Len(wire') : i = Len(rest) + 1 \/ i \in 1..Len(rest)
      BY <1>1, <3>1
    <3> QED  BY <1>1, <2>2, <3>1, <3>2
  <2> QED  BY <1>3, <2>1, <2>2
<1>6. invalidated' \in 0..MaxVersion /\ invalidated' <= truth' /\ invalidated' >= invalidated
      /\ (invalidated' = invalidated \/ (invalidated' = cmd.version /\ cmd.op \in Changes))
  <2>1. invalidated \in 0..MaxVersion /\ invalidated <= truth
    BY DEF RememberInv, RememberTypes
  <2>2. CASE cmd.op \in {"SET", "DEL"} /\ cmd.version > invalidated
    BY <1>2, <1>3, <2>1, <2>2 DEF Changes
  <2>3. CASE ~(cmd.op \in {"SET", "DEL"} /\ cmd.version > invalidated)
    <3>1. invalidated' = invalidated /\ truth' = truth
      BY <1>3, <2>3
    <3> QED  BY <1>2, <2>1, <3>1
  <2> QED  BY <2>2, <2>3
<1>7. WireIsOrdered'
  <2>1. \A i \in 1..Len(wire') : wire'[i].op # "get" => wire'[i].version <= truth
    BY <1>1, <1>2, <1>4, <1>5 DEF RememberInv, WireIsOrdered
  <2>2. ASSUME NEW j \in 1..Len(wire'), wire'[j].op \in Fills
        PROVE  /\ wire'[j].version >= invalidated'
               /\ \A i \in 1..Len(wire') : i < j /\ wire'[i].op \in Changes => wire'[i].version <= wire'[j].version
    <3>1. j \in 1..Len(rest) /\ wire'[j] = wire[j + 1] /\ j + 1 \in 1..Len(wire) /\ j + 1 > 1
      BY <1>1, <1>4, <1>5, <2>2 DEF Fills
    <3>2. /\ wire[j + 1].version >= invalidated
          /\ \A i \in 1..Len(wire) : i < j + 1 /\ wire[i].op \in Changes => wire[i].version <= wire[j + 1].version
      BY <2>2, <3>1 DEF RememberInv, WireIsOrdered
    <3>3. cmd.op \in Changes => cmd.version <= wire[j + 1].version
      BY <1>1, <3>1, <3>2
    <3>4. wire[j + 1].version \in Nat
      BY <2>2, <3>1, RememberNumbers DEF RememberInv, Fills
    <3>5. wire'[j].version >= invalidated'
      BY <1>2, <1>6, <3>1, <3>2, <3>3, <3>4
    <3>6. \A i \in 1..Len(wire') : i < j => /\ i \in 1..Len(rest) /\ wire'[i] = wire[i + 1]
                                            /\ i + 1 \in 1..Len(wire) /\ i + 1 < j + 1
      BY <1>1, <1>5, <3>1
    <3> QED  BY <3>1, <3>2, <3>5, <3>6
  <2> QED  BY <1>2, <1>3, <2>1, <2>2 DEF WireIsOrdered
<1>8. PendingIsNew'
  <2> SUFFICES ASSUME NEW c \in Callers, pending = c, caller[c].pc = "loaded"
               PROVE  /\ invalidated' <= caller[c].version /\ caller[c].version \in 1..truth
                      /\ \A i \in 1..Len(wire') : wire'[i].op \in Changes => wire'[i].version <= caller[c].version
    BY <1>3 DEF PendingIsNew
  <2>1. /\ invalidated <= caller[c].version /\ caller[c].version \in 1..truth
        /\ \A i \in 1..Len(wire) : wire[i].op \in Changes => wire[i].version <= caller[c].version
    BY DEF RememberInv, PendingIsNew
  <2>2. cmd.op \in Changes => cmd.version <= caller[c].version
    BY <1>1, <2>1
  <2>3. \A i \in 1..Len(wire') : wire'[i].op \in Changes => wire'[i].version <= caller[c].version
    BY <1>1, <1>4, <1>5, <2>1, <2>2 DEF Changes
  <2> QED  BY <1>2, <1>6, <2>1, <2>2, <2>3
<1>9. stored' \in [version : 0..MaxVersion, own : BOOLEAN] /\ FillsAreFresh'
  <2>1. ASSUME cmd.op \in Fills, stored' = [version |-> cmd.version, own |-> TRUE]
        PROVE  stored' \in [version : 0..MaxVersion, own : BOOLEAN] /\ FillsAreFresh'
    <3>1. cmd.version >= invalidated
      BY <1>1, <2>1 DEF RememberInv, WireIsOrdered
    <3>2. cmd.version \in 0..MaxVersion /\ cmd.version >= invalidated'
      BY <1>2, <1>6, <3>1
    <3> QED  BY <2>1, <3>2 DEF FillsAreFresh
  <2>2. ASSUME stored' = Nothing
        PROVE  stored' \in [version : 0..MaxVersion, own : BOOLEAN] /\ FillsAreFresh'
    <3>1. 0 \in 0..MaxVersion
      BY <1>2
    <3> QED  BY <2>2, <3>1 DEF FillsAreFresh, Nothing
  <2>3. ASSUME stored' = stored, cmd.op \in {"SETNX", "SCAN"}
        PROVE  stored' \in [version : 0..MaxVersion, own : BOOLEAN] /\ FillsAreFresh'
    BY <1>3, <2>3 DEF RememberInv, RememberTypes, FillsAreFresh
  <2>4. \/ cmd.op \in Fills /\ stored' = [version |-> cmd.version, own |-> TRUE]
        \/ stored' = Nothing
        \/ stored' = stored /\ cmd.op \in {"SETNX", "SCAN"}
    BY <1>2, <1>3 DEF Effect, Fills
  <2> QED  BY <2>1, <2>2, <2>3, <2>4
<1> QED  BY <1>3, <1>5, <1>6, <1>7, <1>8, <1>9 DEF RememberInv, RememberTypes

\* The key changes under the server, or the truth moves on.
LEMMA OtherCacheSteps ==
    ASSUME RememberInv, foreign \/ Expire \/ change \/ UNCHANGED rememberVars
    PROVE  RememberInv'
<1>1. UNCHANGED <<driver, pending, wire, caller, invalidated>> /\ 0 \in 0..MaxVersion
  BY RememberNumbers DEF RememberInv, foreign, Expire, change, rememberVars
<1>2. CASE foreign
  <2>1. PICK v \in 0..truth : stored' = [version |-> v, own |-> FALSE]
    BY <1>2 DEF foreign
  <2>2. v \in 0..MaxVersion /\ truth' = truth
    BY <1>2, RememberNumbers DEF RememberInv, RememberTypes, foreign
  <2> QED  BY <1>1, <2>1, <2>2 DEF RememberInv, RememberTypes, WireIsOrdered, PendingIsNew, FillsAreFresh
<1>3. CASE Expire
  BY <1>1, <1>3 DEF RememberInv, RememberTypes, WireIsOrdered, PendingIsNew, FillsAreFresh, Expire, Nothing
<1>4. CASE change
  <2>1. truth \in Nat /\ truth' = truth + 1 /\ truth' \in 1..MaxVersion /\ stored' = stored /\ invalidated \in Nat
    BY <1>4, RememberNumbers DEF RememberInv, RememberTypes, change
  <2>2. \A i \in 1..Len(wire) : wire[i].op # "get" => wire[i].version <= truth + 1
    <3>1. \A i \in 1..Len(wire) : wire[i].op # "get" => wire[i].version \in Nat /\ wire[i].version <= truth
      BY RememberNumbers DEF RememberInv, WireIsOrdered
    <3> QED  BY <2>1, <3>1
  <2>3. WireIsOrdered'
    BY <1>1, <2>1, <2>2 DEF RememberInv, WireIsOrdered
  <2>4. PendingIsNew'
    BY <1>1, <2>1 DEF RememberInv, PendingIsNew
  <2> QED  BY <1>1, <2>1, <2>3, <2>4 DEF RememberInv, RememberTypes, FillsAreFresh
<1>5. CASE UNCHANGED rememberVars
  BY <1>1, <1>5 DEF RememberInv, RememberTypes, WireIsOrdered, PendingIsNew, FillsAreFresh, rememberVars
<1> QED  BY <1>2, <1>3, <1>4, <1>5

LEMMA RememberStarts == RememberInit => RememberInv
<1> SUFFICES ASSUME RememberInit PROVE RememberInv
  OBVIOUS
<1>1. /\ driver \in Drivers /\ truth = 1 /\ stored = Nothing /\ pending = "none" /\ wire = <<>> /\ invalidated = 0
      /\ caller = [c \in Callers |-> [pc |-> "idle", on |-> "none", version |-> 0]]
  BY DEF RememberInit
<1>2. 0 \in 0..MaxVersion /\ 1 \in 1..MaxVersion
  BY RememberAssumption
<1>3. RememberTypes
  BY <1>1, <1>2 DEF RememberTypes, CallRecord, Pcs, Nothing
<1>4. WireIsOrdered /\ PendingIsNew /\ invalidated <= truth /\ FillsAreFresh
  BY <1>1, RememberAssumption DEF WireIsOrdered, PendingIsNew, FillsAreFresh, Nothing
<1> QED  BY <1>3, <1>4 DEF RememberInv

LEMMA RememberMoves == RememberInv /\ [RememberNext]_rememberVars => RememberInv'
<1> SUFFICES ASSUME RememberInv, [RememberNext]_rememberVars PROVE RememberInv'
  OBVIOUS
<1>1. ASSUME NEW c \in Callers, remember(c) \/ factoryReads(c) \/ again(c) PROVE RememberInv'
  BY <1>1, AskSteps
<1>2. ASSUME NEW c \in Callers, factoryFails(c) PROVE RememberInv'
  <2>1. 0 \in 0..MaxVersion
    BY RememberAssumption
  <2> QED  BY <1>2, <2>1, FailSteps DEF factoryFails
<1>3. ASSUME NEW c \in Callers, settle(c) PROVE RememberInv'
  BY <1>3, SettleSteps
<1>4. CASE getAnswered
  BY <1>4, GetAnswerSteps
<1>5. CASE mutate
  BY <1>5, InvalidateSteps DEF mutate
<1>6. CASE flush
  BY <1>6, InvalidateSteps DEF flush
<1>7. CASE execute
  BY <1>7, ExecuteSteps
<1>8. CASE foreign \/ change \/ Expire \/ UNCHANGED rememberVars
  BY <1>8, OtherCacheSteps
<1> QED  BY <1>1, <1>2, <1>3, <1>4, <1>5, <1>6, <1>7, <1>8 DEF RememberNext

\* Once a put, forget or flush of a server took effect, no factory that the same
\* server started before it brings an older value back, for any number of callers,
\* changes and commands in flight (#touch and the ordered connection).
THEOREM FillsAreAlwaysFresh == RememberSpec => [](RememberTypeOK /\ FillsAreFresh)
<1>1. RememberInv => RememberTypeOK /\ FillsAreFresh
  <2>1. RememberTypes => \A i \in DOMAIN wire : wire[i] \in Commands
    BY DEF RememberTypes
  <2> QED  BY <2>1 DEF RememberInv, RememberTypes, RememberTypeOK, CallRecord
<1> QED  BY <1>1, RememberStarts, RememberMoves, PTL DEF RememberSpec

(***************************************************************************)
(* Walks over paged lists.  A row that stays as it is has been returned     *)
(* exactly when it is not after the cursor, so the cursor separates what    *)
(* the walk has returned from what it has still to return.                  *)
(***************************************************************************)
\* What a walk keeps between its pages.
Walks == [pc : {"walking", "done"}, limit : PageLimits, cursor : [time : 0..MaxInstant, id : Nat],
          updatedBefore : 0..MaxInstant, seen : [RowIds -> Nat], stayed : SUBSET RowIds, tied : SUBSET RowIds]
ListsAreTyped ==
    /\ list \in Lists /\ read \subseteq RowIds /\ instant \in 0..MaxInstant
    /\ listed \in [RowIds -> 0..MaxInstant] /\ \A i \in RowIds : listed[i] <= instant
    /\ walk = NoWalk \/ walk \in Walks

\* Rows whose place in the order of the list is the one in the order of the cursor.
Ordered(i) == list = "memory" => i \notin walk.tied

\* A row that stayed is still one that the walk asks for.
StayedRowsMatch ==
    walk # NoWalk => \A i \in walk.stayed :
        listed[i] > 0 /\ i \notin read /\ (list = "workflows" => listed[i] <= walk.updatedBefore)

\* No other row has the instant of a row that is not tied, the row of the cursor included.
UntiedRowsAreAlone ==
    walk # NoWalk /\ list = "memory" => \A i \in walk.stayed \ walk.tied :
        /\ \A j \in RowIds : listed[j] = listed[i] => j = i
        /\ walk.cursor.time = listed[i] => walk.cursor.id = i

\* The cursor separates the rows that were returned from those that are left.
CursorSeparates ==
    walk # NoWalk => \A i \in walk.stayed :
        Ordered(i) => walk.seen[i] = IF walk.pc = "walking" /\ afterCursor(i) THEN 0 ELSE 1

WalkInv == ListsAreTyped /\ StayedRowsMatch /\ UntiedRowsAreAlone /\ CursorSeparates

\* A set of natural numbers that is not empty has a least member.
LEMMA LeastNumber ==
    ASSUME NEW S \in SUBSET Nat, S # {}
    PROVE  \E x \in S : \A y \in S : x <= y
<1> DEFINE Less == OpToRel(<, Nat)
<1>1. IsWellFoundedOn(Less, Nat)
  BY NatLessThanWellFounded
<1>2. \A x, y \in Nat : <<y, x>> \in Less <=> y < x
  BY DEF OpToRel
<1> HIDE DEF Less
<1>3. PICK x \in S : \A y \in S : ~(<<y, x>> \in Less)
  BY <1>1, WFMin
<1>4. ASSUME NEW y \in S PROVE x <= y
  <2>1. x \in Nat /\ y \in Nat /\ ~(y < x)
    BY <1>2, <1>3
  <2> QED  BY <2>1
<1> QED  BY <1>4

\* The order of each list is strict and total.
LEMMA OrderIsTotal ==
    ASSUME ListsAreTyped, NEW i \in RowIds, NEW j \in RowIds, NEW k \in RowIds
    PROVE  /\ ~Precedes(i, i)
           /\ Precedes(i, j) /\ Precedes(j, k) => Precedes(i, k)
           /\ i = j \/ Precedes(i, j) \/ Precedes(j, i)
<1>1. /\ i \in Nat /\ j \in Nat /\ k \in Nat
      /\ listed[i] \in Nat /\ listed[j] \in Nat /\ listed[k] \in Nat
      /\ LocaleRank[i] \in Nat /\ LocaleRank[j] \in Nat /\ LocaleRank[k] \in Nat
      /\ LocaleRank[i] = LocaleRank[j] => i = j
  BY KeysetAssumption DEF ListsAreTyped
<1>2. CASE list = "memory"
  BY <1>1, <1>2 DEF Precedes
<1>3. CASE list = "records"
  BY <1>1, <1>3 DEF Precedes
<1>4. CASE list # "memory" /\ list # "records"
  BY <1>1, <1>4 DEF Precedes
<1> QED  BY <1>2, <1>3, <1>4

\* The rows that a query selects before one of them.
Before(i) == {j \in matching : Precedes(j, i)}

LEMMA RanksAreNumbers ==
    /\ IsFiniteSet(matching) /\ Cardinality(matching) \in Nat /\ matching \subseteq RowIds
    /\ pageRows \subseteq matching /\ pageRows = {i \in matching : Cardinality(Before(i)) < walk.limit}
    /\ IsFiniteSet(pageRows) /\ Cardinality(pageRows) \in Nat
    /\ \A i \in matching : /\ IsFiniteSet(Before(i)) /\ Cardinality(Before(i)) \in Nat /\ Before(i) \subseteq matching
<1>1. matching \subseteq RowIds /\ pageRows \subseteq matching
  BY DEF matching, pageRows
<1>2. IsFiniteSet(matching) /\ IsFiniteSet(pageRows)
  BY <1>1, KeysetAssumption, FS_Subset
<1>3. ASSUME NEW i \in matching PROVE IsFiniteSet(Before(i)) /\ Before(i) \subseteq matching
  <2>1. Before(i) \subseteq matching
    BY DEF Before
  <2> QED  BY <1>2, <2>1, FS_Subset
<1>4. pageRows = {i \in matching : Cardinality(Before(i)) < walk.limit}
  BY DEF pageRows, Before
<1> QED  BY <1>1, <1>2, <1>3, <1>4, FS_CardinalityType

\* A row that comes earlier has fewer rows before it.
LEMMA EarlierRowsRankLower ==
    ASSUME ListsAreTyped, NEW i \in matching, NEW j \in matching, Precedes(i, j)
    PROVE  Cardinality(Before(i)) < Cardinality(Before(j))
<1>1. i \in RowIds /\ j \in RowIds /\ \A k \in matching : k \in RowIds
  BY RanksAreNumbers
<1>2. Before(i) \subseteq Before(j)
  <2> SUFFICES ASSUME NEW k \in Before(i) PROVE k \in Before(j)
    OBVIOUS
  <2>1. k \in matching /\ Precedes(k, i)
    BY DEF Before
  <2>2. Precedes(k, j)
    BY <1>1, <2>1, OrderIsTotal
  <2> QED  BY <2>1, <2>2 DEF Before
<1>3. i \in Before(j) /\ i \notin Before(i)
  BY <1>1, OrderIsTotal DEF Before
<1>4. Before(i) # Before(j)
  BY <1>3
<1>5. /\ IsFiniteSet(Before(j)) /\ Cardinality(Before(i)) \in Nat /\ Cardinality(Before(j)) \in Nat
  BY RanksAreNumbers
<1>6. Cardinality(Before(i)) <= Cardinality(Before(j)) /\ Cardinality(Before(i)) # Cardinality(Before(j))
  BY <1>2, <1>4, <1>5, FS_Subset
<1> QED  BY <1>5, <1>6

\* Every row of a page comes before every selected row that the page leaves out.
LEMMA PagesAreInitial ==
    ASSUME ListsAreTyped, walk \in Walks, NEW j \in pageRows, NEW i \in matching \ pageRows
    PROVE  Precedes(j, i)
<1>1. /\ i \in RowIds /\ j \in RowIds /\ i \in matching /\ j \in matching /\ i # j
      /\ Cardinality(Before(i)) \in Nat /\ Cardinality(Before(j)) \in Nat
  BY RanksAreNumbers
<1>2. walk.limit \in Nat
  BY KeysetAssumption DEF Walks
<1>3. Cardinality(Before(j)) < walk.limit /\ ~(Cardinality(Before(i)) < walk.limit)
  BY RanksAreNumbers
<1>4. ASSUME Precedes(i, j) PROVE FALSE
  <2>1. Cardinality(Before(i)) < Cardinality(Before(j))
    BY <1>1, <1>4, EarlierRowsRankLower
  <2> QED  BY <1>1, <1>2, <1>3, <2>1
<1> QED  BY <1>1, <1>4, OrderIsTotal

\* The first of the selected rows that satisfy a condition.
LEMMA FirstRow ==
    ASSUME ListsAreTyped, NEW S \in SUBSET matching, S # {}
    PROVE  \E i \in S : \A j \in S : j = i \/ Precedes(i, j)
<1> DEFINE ranks == {Cardinality(Before(i)) : i \in S}
<1>1. ranks \in SUBSET Nat /\ ranks # {}
  BY RanksAreNumbers
<1>2. PICK x \in ranks : \A y \in ranks : x <= y
  <2> HIDE DEF ranks
  <2> QED  BY <1>1, LeastNumber
<1>3. PICK i \in S : x = Cardinality(Before(i))
  OBVIOUS
<1>4. ASSUME NEW j \in S PROVE j = i \/ Precedes(i, j)
  <2>1. i \in matching /\ j \in matching /\ i \in RowIds /\ j \in RowIds
    BY RanksAreNumbers
  <2>2. Cardinality(Before(j)) \in ranks
    OBVIOUS
  <2>3. Cardinality(Before(i)) <= Cardinality(Before(j))
    BY <1>2, <1>3, <2>2
  <2>4. Cardinality(Before(i)) \in Nat /\ Cardinality(Before(j)) \in Nat
    BY <2>1, RanksAreNumbers
  <2>5. ASSUME Precedes(j, i) PROVE FALSE
    <3>1. Cardinality(Before(j)) < Cardinality(Before(i))
      BY <2>1, <2>5, EarlierRowsRankLower
    <3> QED  BY <2>3, <2>4, <3>1
  <2> QED  BY <2>1, <2>5, OrderIsTotal
<1> QED  BY <1>4

\* A page that is not empty has a last row.
LEMMA LastOfPageIsLast ==
    ASSUME ListsAreTyped, walk \in Walks, pageRows # {}
    PROVE  LastOfPage \in pageRows /\ \A j \in pageRows : j = LastOfPage \/ Precedes(j, LastOfPage)
<1> DEFINE left == {walk.limit - Cardinality(Before(i)) : i \in pageRows}
<1>1. /\ walk.limit \in Nat
      /\ \A i \in pageRows : /\ i \in matching /\ i \in RowIds /\ Cardinality(Before(i)) \in Nat
                             /\ Cardinality(Before(i)) < walk.limit
  BY KeysetAssumption, RanksAreNumbers DEF Walks
<1>2. left \in SUBSET Nat /\ left # {}
  BY <1>1
<1>3. PICK x \in left : \A y \in left : x <= y
  <2> HIDE DEF left
  <2> QED  BY <1>2, LeastNumber
<1>4. PICK i \in pageRows : x = walk.limit - Cardinality(Before(i))
  OBVIOUS
<1>5. ASSUME NEW j \in pageRows PROVE j = i \/ Precedes(j, i)
  <2>1. walk.limit - Cardinality(Before(j)) \in left
    OBVIOUS
  <2>2. walk.limit - Cardinality(Before(i)) <= walk.limit - Cardinality(Before(j))
    BY <1>3, <1>4, <2>1
  <2>3. Cardinality(Before(j)) <= Cardinality(Before(i))
    BY <1>1, <2>2
  <2>4. ASSUME Precedes(i, j) PROVE FALSE
    <3>1. Cardinality(Before(i)) < Cardinality(Before(j))
      BY <1>1, <2>4, EarlierRowsRankLower
    <3> QED  BY <1>1, <2>3, <3>1
  <2> QED  BY <1>1, <2>4, OrderIsTotal
<1>6. \E last \in pageRows : \A j \in pageRows : j = last \/ Precedes(j, last)
  BY <1>5
<1> QED  BY <1>6 DEF LastOfPage

\* A page after which the list goes on is not empty.
LEMMA FullPagesHaveRows ==
    ASSUME ListsAreTyped, walk \in Walks, hasMore
    PROVE  pageRows # {}
<1>1. walk.limit \in Nat \ {0}
  BY KeysetAssumption DEF Walks
<1>2. CASE list = "workflows"
  BY <1>1, <1>2, FS_EmptySet DEF hasMore
<1>3. CASE list # "workflows"
  <2>1. Cardinality(matching) > walk.limit
    BY <1>3 DEF hasMore
  <2>2. matching # {}
    BY <1>1, <2>1, FS_EmptySet
  <2>3. PICK i \in matching : \A j \in matching : j = i \/ Precedes(i, j)
    BY <2>2, FirstRow
  <2>4. Before(i) = {}
    <3> SUFFICES ASSUME NEW j \in Before(i) PROVE FALSE
      OBVIOUS
    <3>1. j \in matching /\ Precedes(j, i) /\ i \in RowIds /\ j \in RowIds
      BY RanksAreNumbers DEF Before
    <3> QED  BY <2>3, <3>1, OrderIsTotal
  <2>5. Cardinality(Before(i)) < walk.limit
    BY <1>1, <2>4, FS_EmptySet
  <2> QED  BY <2>5, RanksAreNumbers
<1> QED  BY <1>2, <1>3

\* A page after which the list ends has every row that is left.
LEMMA LastPagesAreWhole ==
    ASSUME ListsAreTyped, walk \in Walks, ~hasMore
    PROVE  pageRows = matching
<1> SUFFICES ASSUME pageRows # matching PROVE FALSE
  OBVIOUS
<1>1. walk.limit \in Nat \ {0}
  BY KeysetAssumption DEF Walks
<1>2. matching \ pageRows # {} /\ matching \ pageRows \in SUBSET matching
  BY RanksAreNumbers
<1>3. PICK i \in matching \ pageRows : \A j \in matching \ pageRows : j = i \/ Precedes(i, j)
  BY <1>2, FirstRow
<1>4. i \in matching /\ i \in RowIds /\ Cardinality(Before(i)) \in Nat /\ ~(Cardinality(Before(i)) < walk.limit)
  BY RanksAreNumbers
<1>5. Before(i) = pageRows
  <2>1. ASSUME NEW j \in pageRows PROVE j \in Before(i)
    <3>1. Precedes(j, i) /\ j \in matching
      BY PagesAreInitial, RanksAreNumbers
    <3> QED  BY <3>1 DEF Before
  <2>2. ASSUME NEW j \in Before(i) PROVE j \in pageRows
    <3>1. j \in matching /\ Precedes(j, i) /\ j \in RowIds
      BY RanksAreNumbers DEF Before
    <3>2. ~Precedes(i, j) /\ j # i
      BY <1>4, <3>1, OrderIsTotal
    <3> QED  BY <1>3, <3>1, <3>2
  <2> QED  BY <2>1, <2>2
<1>6. CASE list # "workflows"
  <2>1. Cardinality(matching) <= walk.limit
    BY <1>1, <1>6, RanksAreNumbers DEF hasMore
  <2>2. Before(i) \subseteq matching /\ i \notin Before(i)
    BY <1>4, OrderIsTotal DEF Before
  <2>3. Before(i) # matching
    BY <1>4, <2>2
  <2>4. Cardinality(Before(i)) <= Cardinality(matching) /\ Cardinality(Before(i)) # Cardinality(matching)
    BY <2>2, <2>3, RanksAreNumbers, FS_Subset
  <2> QED  BY <1>1, <1>4, <2>1, <2>4, RanksAreNumbers
<1>7. CASE list = "workflows"
  <2>1. Cardinality(pageRows) # walk.limit
    BY <1>7 DEF hasMore
  <2>2. pageRows # {}
    BY <1>1, <1>4, <1>5, FS_EmptySet
  <2> DEFINE last == LastOfPage
  <2>3. last \in pageRows /\ \A j \in pageRows : j = last \/ Precedes(j, last)
    BY <2>2, LastOfPageIsLast
  <2> HIDE DEF last
  <2>4. last \in matching /\ last \in RowIds /\ Cardinality(Before(last)) \in Nat /\ Cardinality(Before(last)) < walk.limit
        /\ IsFiniteSet(Before(last))
    BY <2>3, RanksAreNumbers
  <2>5. last \notin Before(last) /\ pageRows \subseteq Before(last) \cup {last}
    BY <2>3, <2>4, OrderIsTotal, RanksAreNumbers DEF Before
  <2>6. /\ Cardinality(Before(last) \cup {last}) = Cardinality(Before(last)) + 1
        /\ IsFiniteSet(Before(last) \cup {last})
    BY <2>4, <2>5, FS_AddElement
  <2>7. Cardinality(pageRows) <= Cardinality(Before(last)) + 1
    BY <2>5, <2>6, FS_Subset
  <2> QED  BY <1>1, <1>4, <1>5, <2>1, <2>4, <2>7, RanksAreNumbers
<1> QED  BY <1>6, <1>7

\* Of two ordered rows, the one that comes first in the list comes first for the cursor.
LEMMA OrderedRowsFollowTheCursor ==
    ASSUME WalkInv, walk \in Walks, NEW i \in walk.stayed, Ordered(i), NEW j \in RowIds, i # j
    PROVE  /\ Precedes(i, j) => /\ Notifies => listed[j] < listed[i] \/ (listed[j] = listed[i] /\ j < i)
                                /\ ~Notifies => listed[j] > listed[i] \/ (listed[j] = listed[i] /\ j > i)
           /\ Precedes(j, i) => /\ Notifies => listed[i] < listed[j] \/ (listed[j] = listed[i] /\ i < j)
                                /\ ~Notifies => listed[i] > listed[j] \/ (listed[j] = listed[i] /\ i > j)
<1>1. /\ i \in RowIds /\ walk # NoWalk /\ i \in Nat /\ j \in Nat /\ listed[i] \in Nat /\ listed[j] \in Nat
      /\ list \in {"letters", "workflows", "records", "memory"}
  <2>1. i \in RowIds
    BY DEF Walks
  <2>2. walk # NoWalk
    BY DEF Walks, NoWalk
  <2>3. list \in Lists /\ listed \in [RowIds -> 0..MaxInstant]
    BY DEF WalkInv, ListsAreTyped
  <2>4. RowIds \subseteq Nat /\ 0..MaxInstant \subseteq Nat /\ Lists \subseteq {"letters", "workflows", "records", "memory"}
    BY KeysetAssumption
  <2> QED  BY <2>1, <2>2, <2>3, <2>4
<1>2. CASE list = "memory"
  <2>1. listed[i] # listed[j]
    BY <1>1, <1>2 DEF WalkInv, UntiedRowsAreAlone, Ordered
  <2> QED  BY <1>1, <1>2, <2>1 DEF Precedes, Notifies
<1>3. CASE list = "records"
  BY <1>1, <1>3 DEF Precedes, Notifies
<1>4. CASE list # "memory" /\ list # "records"
  BY <1>1, <1>4 DEF Precedes, Notifies
<1> QED  BY <1>2, <1>3, <1>4

\* The cursor of a page: a row of the page is not after its last row, a row that the page left
\* out is, and a row that was not after the old cursor is not after the new one.
LEMMA CursorsAdvance ==
    ASSUME WalkInv, walk \in Walks, hasMore, NEW i \in walk.stayed, Ordered(i),
           walk'.cursor = [time |-> listed[LastOfPage], id |-> LastOfPage], UNCHANGED <<list, listed>>
    PROVE  /\ i \in pageRows => ~afterCursor(i)'
           /\ i \in matching \ pageRows => afterCursor(i)'
           /\ ~afterCursor(i) => ~afterCursor(i)'
<1> DEFINE last == LastOfPage
<1>1. last \in pageRows /\ \A j \in pageRows : j = last \/ Precedes(j, last)
  BY FullPagesHaveRows, LastOfPageIsLast DEF WalkInv
<1>2. walk'.cursor.time = listed[last] /\ walk'.cursor.id = last
  OBVIOUS
<1> HIDE DEF last
<1>3. /\ i \in RowIds /\ last \in RowIds /\ last \in matching /\ i \in Nat /\ last \in Nat
      /\ listed[i] \in Nat /\ listed[last] \in Nat /\ list \in {"letters", "workflows", "records", "memory"}
      /\ walk # NoWalk
  <2>1. i \in RowIds /\ last \in RowIds /\ last \in matching
    BY <1>1, RanksAreNumbers DEF Walks
  <2>2. walk # NoWalk
    BY DEF Walks, NoWalk
  <2> QED  BY <2>1, <2>2, KeysetAssumption DEF WalkInv, ListsAreTyped
<1>4. listed[last] > 0 /\ afterCursor(last)
  BY <1>3 DEF matching
<1>5. afterCursor(i)' <=> IF Notifies THEN listed[i] < listed[last] \/ (listed[i] = listed[last] /\ i < last)
                          ELSE listed[i] > listed[last] \/ (listed[i] = listed[last] /\ i > last)
  BY <1>2, <1>3, <1>4 DEF afterCursor, Notifies
<1>6. ASSUME i \in pageRows PROVE ~afterCursor(i)'
  <2>1. CASE i = last
    BY <1>3, <1>5, <2>1
  <2>2. CASE i # last
    <3>1. Precedes(i, last)
      BY <1>1, <1>6, <2>2
    <3> QED  BY <1>3, <1>5, <2>2, <3>1, OrderedRowsFollowTheCursor
  <2> QED  BY <2>1, <2>2
<1>7. ASSUME i \in matching \ pageRows PROVE afterCursor(i)'
  <2>1. Precedes(last, i) /\ i # last
    BY <1>1, <1>7, PagesAreInitial DEF WalkInv
  <2> QED  BY <1>3, <1>5, <2>1, OrderedRowsFollowTheCursor
<1>8. ASSUME ~afterCursor(i) PROVE ~afterCursor(i)'
  <2>1. walk.cursor.time \in Nat \ {0} /\ walk.cursor.id \in Nat
    BY <1>8, KeysetAssumption DEF afterCursor, Walks
  <2>2. CASE Notifies
    <3>1. listed[last] < walk.cursor.time \/ (listed[last] = walk.cursor.time /\ last < walk.cursor.id)
      BY <1>4, <2>1, <2>2 DEF afterCursor
    <3>2. ~(listed[i] < walk.cursor.time) /\ ~(listed[i] = walk.cursor.time /\ i < walk.cursor.id)
      BY <1>8, <2>1, <2>2 DEF afterCursor
    <3> QED  BY <1>3, <1>5, <2>1, <2>2, <3>1, <3>2
  <2>3. CASE ~Notifies
    <3>1. listed[last] > walk.cursor.time \/ (listed[last] = walk.cursor.time /\ last > walk.cursor.id)
      BY <1>4, <2>1, <2>3 DEF afterCursor
    <3>2. ~(listed[i] > walk.cursor.time) /\ ~(listed[i] = walk.cursor.time /\ i > walk.cursor.id)
      BY <1>8, <2>1, <2>3 DEF afterCursor
    <3> QED  BY <1>3, <1>5, <2>1, <2>3, <3>1, <3>2
  <2> QED  BY <2>2, <2>3
<1> QED  BY <1>6, <1>7, <1>8

LEMMA WalksBegin == KeysetInit => WalkInv
BY KeysetAssumption DEF KeysetInit, WalkInv, ListsAreTyped, StayedRowsMatch, UntiedRowsAreAlone, CursorSeparates, NoWalk

LEMMA BeginKeepsWalks ==
    ASSUME WalkInv, NEW limit \in PageLimits, begin(limit)
    PROVE  WalkInv'
<1>1. /\ walk' = [pc |-> "walking", limit |-> limit, cursor |-> [time |-> 0, id |-> 0], updatedBefore |-> instant,
                  seen |-> [i \in RowIds |-> 0], stayed |-> {i \in RowIds : listed[i] > 0 /\ i \notin read},
                  tied |-> {i \in RowIds : \E j \in RowIds : i # j /\ listed[i] = listed[j]}]
      /\ UNCHANGED <<list, listed, read, instant>>
  BY DEF begin
<1>2. /\ walk'.pc = "walking" /\ walk'.cursor.time = 0 /\ walk'.cursor.id = 0 /\ walk'.updatedBefore = instant
      /\ walk'.seen = [i \in RowIds |-> 0] /\ walk'.stayed = {i \in RowIds : listed[i] > 0 /\ i \notin read}
      /\ walk'.tied = {i \in RowIds : \E j \in RowIds : i # j /\ listed[i] = listed[j]}
  BY <1>1
<1>3. walk' \in Walks /\ ListsAreTyped
  BY <1>1, KeysetAssumption DEF WalkInv, ListsAreTyped, Walks
<1>4. ListsAreTyped'
  BY <1>1, <1>3 DEF ListsAreTyped
<1>5. StayedRowsMatch'
  BY <1>1, <1>2, <1>3 DEF StayedRowsMatch, ListsAreTyped
<1>6. UntiedRowsAreAlone'
  BY <1>1, <1>2, <1>3, KeysetAssumption DEF UntiedRowsAreAlone, ListsAreTyped
<1>7. CursorSeparates'
  BY <1>2 DEF CursorSeparates, afterCursor
<1> QED  BY <1>4, <1>5, <1>6, <1>7 DEF WalkInv

LEMMA NextPageKeepsWalks ==
    ASSUME WalkInv, nextPage
    PROVE  WalkInv'
<1> DEFINE seen == [i \in RowIds |-> IF i \in pageRows THEN walk.seen[i] + 1 ELSE walk.seen[i]]
<1>1. /\ walk.pc = "walking" /\ UNCHANGED <<list, listed, read, instant>>
      /\ walk' = IF hasMore THEN [walk EXCEPT !.seen = seen, !.cursor = [time |-> listed[LastOfPage], id |-> LastOfPage]]
                 ELSE [walk EXCEPT !.seen = seen, !.pc = "done"]
  BY DEF nextPage
<1>2. walk \in Walks /\ walk # NoWalk
  BY <1>1 DEF WalkInv, ListsAreTyped, NoWalk, Walks
<1>3. seen \in [RowIds -> Nat]
  BY <1>2 DEF Walks
<1>4. hasMore => LastOfPage \in pageRows /\ LastOfPage \in RowIds
  BY <1>2, FullPagesHaveRows, LastOfPageIsLast, RanksAreNumbers DEF WalkInv
<1>5. \A i \in RowIds : seen[i] = IF i \in pageRows THEN walk.seen[i] + 1 ELSE walk.seen[i]
  OBVIOUS
<1> HIDE DEF seen
<1>6. /\ walk' \in Walks /\ walk' # NoWalk
      /\ walk'.seen = seen /\ walk'.stayed = walk.stayed /\ walk'.tied = walk.tied /\ walk'.updatedBefore = walk.updatedBefore
      /\ hasMore => walk'.pc = "walking" /\ walk'.cursor = [time |-> listed[LastOfPage], id |-> LastOfPage]
      /\ ~hasMore => walk'.pc = "done" /\ walk'.cursor = walk.cursor
  <2>1. CASE hasMore
    <3>1. listed[LastOfPage] \in 0..MaxInstant /\ LastOfPage \in Nat
      BY <1>4, <2>1, KeysetAssumption DEF WalkInv, ListsAreTyped
    <3> QED  BY <1>1, <1>2, <1>3, <2>1, <3>1 DEF Walks, NoWalk
  <2>2. CASE ~hasMore
    BY <1>1, <1>2, <1>3, <2>2 DEF Walks, NoWalk
  <2> QED  BY <2>1, <2>2
<1>7. ListsAreTyped'
  BY <1>1, <1>6 DEF WalkInv, ListsAreTyped
<1>8. StayedRowsMatch'
  BY <1>1, <1>2, <1>6 DEF WalkInv, StayedRowsMatch
<1>9. UntiedRowsAreAlone'
  <2> SUFFICES ASSUME list = "memory", NEW i \in walk.stayed \ walk.tied
               PROVE  /\ \A j \in RowIds : listed[j] = listed[i] => j = i
                      /\ walk'.cursor.time = listed[i] => walk'.cursor.id = i
    BY <1>1, <1>6 DEF UntiedRowsAreAlone
  <2>1. \A j \in RowIds : listed[j] = listed[i] => j = i
    BY <1>2 DEF WalkInv, UntiedRowsAreAlone
  <2>2. walk.cursor.time = listed[i] => walk.cursor.id = i
    BY <1>2 DEF WalkInv, UntiedRowsAreAlone
  <2>3. hasMore => walk'.cursor.time = listed[LastOfPage] /\ walk'.cursor.id = LastOfPage
    BY <1>6
  <2> QED  BY <1>4, <1>6, <2>1, <2>2, <2>3
<1>10. ASSUME NEW i \in walk.stayed, Ordered(i)
       PROVE  walk'.seen[i] = IF walk'.pc = "walking" /\ afterCursor(i)' THEN 0 ELSE 1
  <2>1. /\ i \in RowIds /\ listed[i] > 0 /\ i \notin read /\ (list = "workflows" => listed[i] <= walk.updatedBefore)
        /\ walk.seen[i] = IF afterCursor(i) THEN 0 ELSE 1
    BY <1>1, <1>2, <1>10 DEF WalkInv, StayedRowsMatch, CursorSeparates, Walks
  <2>2. (i \in matching <=> afterCursor(i)) /\ (i \in pageRows => i \in matching)
    BY <2>1, RanksAreNumbers DEF matching
  <2>3. walk'.seen[i] = IF i \in pageRows THEN walk.seen[i] + 1 ELSE walk.seen[i]
    BY <1>5, <1>6, <2>1
  <2>4. CASE hasMore
    <3>1. /\ i \in pageRows => ~afterCursor(i)'
          /\ i \in matching \ pageRows => afterCursor(i)'
          /\ ~afterCursor(i) => ~afterCursor(i)'
      BY <1>1, <1>2, <1>6, <1>10, <2>4, CursorsAdvance
    <3> QED  BY <1>6, <2>1, <2>2, <2>3, <2>4, <3>1
  <2>5. CASE ~hasMore
    <3>1. pageRows = matching
      BY <1>2, <2>5, LastPagesAreWhole DEF WalkInv
    <3> QED  BY <1>6, <2>1, <2>2, <2>3, <2>5, <3>1
  <2> QED  BY <2>4, <2>5
<1>11. CursorSeparates'
  BY <1>1, <1>6, <1>10 DEF CursorSeparates, Ordered
<1> QED  BY <1>7, <1>8, <1>9, <1>11 DEF WalkInv

\* A row that moves no longer counts as one that stayed, and ties the rows of its new instant.
LEMMA MovesKeepWalks ==
    ASSUME WalkInv, NEW i \in RowIds, NEW t \in 0..instant, Moves(i, t)
    PROVE  WalkInv'
<1>1. /\ listed' = [listed EXCEPT ![i] = t] /\ UNCHANGED <<list, read, instant>>
      /\ walk' = IF walk = NoWalk THEN walk
                 ELSE [walk EXCEPT !.stayed = @ \ {i}, !.tied = @ \union {j \in RowIds : j # i /\ listed[j] = t}]
  BY DEF Moves
<1>2. listed' \in [RowIds -> 0..MaxInstant] /\ \A j \in RowIds : listed'[j] <= instant /\ (j # i => listed'[j] = listed[j])
  BY <1>1, KeysetAssumption DEF WalkInv, ListsAreTyped
<1>3. CASE walk = NoWalk
  BY <1>1, <1>2, <1>3 DEF WalkInv, ListsAreTyped, StayedRowsMatch, UntiedRowsAreAlone, CursorSeparates
<1>4. CASE walk # NoWalk
  <2>1. walk \in Walks
    BY <1>4 DEF WalkInv, ListsAreTyped
  <2>2. /\ walk' \in Walks /\ walk'.pc = walk.pc /\ walk'.cursor = walk.cursor /\ walk'.seen = walk.seen
        /\ walk'.updatedBefore = walk.updatedBefore /\ walk'.stayed = walk.stayed \ {i}
        /\ walk'.tied = walk.tied \cup {j \in RowIds : j # i /\ listed[j] = t}
    BY <1>1, <1>4, <2>1 DEF Walks
  <2>3. ListsAreTyped'
    BY <1>1, <1>2, <2>2 DEF WalkInv, ListsAreTyped
  <2>4. \A j \in walk'.stayed : j \in walk.stayed /\ j # i /\ j \in RowIds /\ listed'[j] = listed[j]
    BY <1>2, <2>1, <2>2 DEF Walks
  <2>5. StayedRowsMatch'
    BY <1>1, <1>4, <2>2, <2>4 DEF WalkInv, StayedRowsMatch
  <2>6. UntiedRowsAreAlone'
    <3> SUFFICES ASSUME list = "memory", NEW j \in walk'.stayed, j \notin walk'.tied
                 PROVE  /\ \A k \in RowIds : listed'[k] = listed'[j] => k = j
                        /\ walk'.cursor.time = listed'[j] => walk'.cursor.id = j
      BY <1>1 DEF UntiedRowsAreAlone
    <3>1. listed[j] # t /\ listed'[i] = t
      BY <1>1, <2>2, <2>4 DEF WalkInv, ListsAreTyped
    <3>2. j \in walk.stayed \ walk.tied
      BY <2>2, <2>4
    <3>3. /\ \A k \in RowIds : listed[k] = listed[j] => k = j
          /\ walk.cursor.time = listed[j] => walk.cursor.id = j
      BY <1>4, <3>2 DEF WalkInv, UntiedRowsAreAlone
    <3> QED  BY <1>2, <2>2, <2>4, <3>1, <3>3
  <2>7. CursorSeparates'
    <3> SUFFICES ASSUME NEW j \in walk'.stayed, Ordered(j)'
                 PROVE  walk'.seen[j] = IF walk'.pc = "walking" /\ afterCursor(j)' THEN 0 ELSE 1
      BY DEF CursorSeparates
    <3>1. afterCursor(j)' <=> afterCursor(j)
      BY <1>1, <2>2, <2>4 DEF afterCursor, Notifies
    <3>2. Ordered(j)
      BY <1>1, <2>2 DEF Ordered
    <3> QED  BY <1>4, <2>2, <2>4, <3>1, <3>2 DEF WalkInv, CursorSeparates
  <2> QED  BY <2>3, <2>5, <2>6, <2>7 DEF WalkInv
<1> QED  BY <1>3, <1>4

LEMMA ReadsKeepWalks ==
    ASSUME WalkInv, NEW i \in RowIds, NEW reads \in SUBSET RowIds, \A j \in RowIds \ {i} : j \in reads => j \in read,
           Reads(i, reads)
    PROVE  WalkInv'
<1>1. /\ read' = reads /\ UNCHANGED <<list, listed, instant>>
      /\ walk' = IF walk = NoWalk THEN walk ELSE [walk EXCEPT !.stayed = @ \ {i}]
  BY DEF Reads
<1>2. CASE walk = NoWalk
  BY <1>1, <1>2 DEF WalkInv, ListsAreTyped, StayedRowsMatch, UntiedRowsAreAlone, CursorSeparates
<1>3. CASE walk # NoWalk
  <2>1. walk \in Walks
    BY <1>3 DEF WalkInv, ListsAreTyped
  <2>2. /\ walk' \in Walks /\ walk'.pc = walk.pc /\ walk'.cursor = walk.cursor /\ walk'.seen = walk.seen
        /\ walk'.updatedBefore = walk.updatedBefore /\ walk'.stayed = walk.stayed \ {i} /\ walk'.tied = walk.tied
        /\ walk'.stayed \subseteq RowIds
    BY <1>1, <1>3, <2>1 DEF Walks
  <2>3. ListsAreTyped'
    BY <1>1, <2>2 DEF WalkInv, ListsAreTyped
  <2>4. StayedRowsMatch'
    BY <1>1, <1>3, <2>2 DEF WalkInv, StayedRowsMatch
  <2>5. UntiedRowsAreAlone'
    BY <1>1, <1>3, <2>2 DEF WalkInv, UntiedRowsAreAlone
  <2>6. CursorSeparates'
    BY <1>1, <1>3, <2>2 DEF WalkInv, CursorSeparates, Ordered, afterCursor, Notifies
  <2> QED  BY <2>3, <2>4, <2>5, <2>6 DEF WalkInv
<1> QED  BY <1>2, <1>3

LEMMA WalkStep ==
    ASSUME WalkInv, [KeysetNext]_keysetVars
    PROVE  WalkInv'
<1>1. ListsAreTyped
  BY DEF WalkInv
<1>2. CASE UNCHANGED keysetVars
  BY <1>2 DEF keysetVars, WalkInv, ListsAreTyped, StayedRowsMatch, UntiedRowsAreAlone, CursorSeparates, Ordered, afterCursor, Notifies
<1>3. CASE instantPasses
  <2>1. UNCHANGED <<list, listed, read, walk>> /\ instant' = instant + 1 /\ instant < MaxInstant
    BY <1>3 DEF instantPasses
  <2>2. ListsAreTyped'
    <3>1. \A i \in RowIds : listed[i] \in Nat /\ listed[i] <= instant
      BY <1>1 DEF ListsAreTyped
    <3> QED  BY <1>1, <2>1, <3>1, KeysetAssumption DEF ListsAreTyped
  <2> QED  BY <2>1, <2>2 DEF WalkInv, StayedRowsMatch, UntiedRowsAreAlone, CursorSeparates, Ordered, afterCursor, Notifies
<1>4. CASE nextPage
  BY <1>4, NextPageKeepsWalks
<1>5. ASSUME NEW limit \in PageLimits, begin(limit) PROVE WalkInv'
  BY <1>5, BeginKeepsWalks
<1>6. ASSUME NEW i \in RowIds, arrive(i) \/ leave(i) \/ claimOrCommit(i) \/ markRead(i) \/ markUnread(i) PROVE WalkInv'
  <2>1. instant \in Nat /\ read \subseteq RowIds
    BY <1>1 DEF ListsAreTyped
  <2>2. CASE arrive(i) \/ leave(i) \/ claimOrCommit(i)
    <3>1. \E t \in 0..instant : Moves(i, t)
      BY <2>1, <2>2 DEF arrive, leave, claimOrCommit
    <3> QED  BY <3>1, MovesKeepWalks
  <2>3. CASE markRead(i)
    BY <2>1, <2>3, ReadsKeepWalks DEF markRead
  <2>4. CASE markUnread(i)
    BY <2>1, <2>4, ReadsKeepWalks DEF markUnread
  <2> QED  BY <1>6, <2>2, <2>3, <2>4
<1> QED  BY <1>2, <1>3, <1>4, <1>5, <1>6 DEF KeysetNext

LEMMA SeparatedWalksAreComplete == WalkInv => WalksAreComplete /\ KeysetTypeOK
<1> SUFFICES ASSUME WalkInv PROVE WalksAreComplete /\ KeysetTypeOK
  OBVIOUS
<1>1. KeysetTypeOK
  BY DEF WalkInv, ListsAreTyped, KeysetTypeOK, Walks, NoWalk
<1>2. ASSUME walk # NoWalk, NEW i \in walk.stayed
      PROVE  walk.seen[i] = 1 \/ (walk.pc = "walking" /\ walk.seen[i] = 0) \/ (list = "memory" /\ i \in walk.tied)
  BY <1>2 DEF WalkInv, CursorSeparates, Ordered
<1> QED  BY <1>1, <1>2 DEF WalksAreComplete

\* Whatever arrives, leaves, moves or is read between its pages, a walk over a paged list returns
\* every row that stays as it is exactly once (list of the dead letters, discoverRecoverable, list of
\* the notification stores); in the memory store, every row that shares its instant with no other.
THEOREM WalksAreAlwaysComplete == KeysetSpec => [](KeysetTypeOK /\ WalksAreComplete)
<1>1. KeysetInit => WalkInv
  BY WalksBegin
<1>2. WalkInv /\ [KeysetNext]_keysetVars => WalkInv'
  BY WalkStep
<1>3. WalkInv => KeysetTypeOK /\ WalksAreComplete
  BY SeparatedWalksAreComplete
<1> QED  BY <1>1, <1>2, <1>3, PTL DEF KeysetSpec

(***************************************************************************)
(* Migrations.  The list that a command works off fits what is applied, so  *)
(* that each of its migrations can be executed when its turn comes; and     *)
(* what a failing command restores was sound when it took the lock.         *)
(***************************************************************************)
HistoryRecord == [batch : Nat, checksum : Nat]
Histories == [Migrations -> HistoryRecord]
Runs == [pc : {"idle", "loaded", "running"}, todo : Seq(Migrations), batch : Nat,
         savedHistory : Histories \cup {Resting.savedHistory}, savedTables : SUBSET Migrations,
         command : MigrateCommands, wrong : BOOLEAN]
MigrationsTyped ==
    /\ history \in Histories /\ tables \subseteq Migrations /\ starts \in 0..MaxRuns
    /\ migrationLock \in Deployers \cup {"none"}
    /\ deploy \in [Deployers -> [release : [Migrations -> Nat], run : Runs]]

Loaded == {p \in Deployers : deploy[p].run.pc = "loaded"}
\* The commands that are past their load, each of which began at most one batch.
Begun == starts - Cardinality(Loaded)
BatchesUpTo(h, n) == \A m \in Migrations : h[m].batch <= n

\* Records have a checksum, and their dependencies are recorded no later.
RecordsAreSound(h) ==
    \A m \in Applied(h) : h[m].checksum > 0 /\ \A d \in Deps[m] : h[d].batch \in 1..h[m].batch
Consistent(h, existing) == Applied(h) = existing /\ RecordsAreSound(h)

\* A list without repetitions.
Distinct(s) == \A i, j \in DOMAIN s : s[i] = s[j] => i = j
\* A list of migrations to apply: each finds its dependencies applied or earlier in the list.
CanApply(s, h) ==
    /\ Distinct(s) /\ Items(s) \intersect Applied(h) = {}
    /\ \A k \in DOMAIN s : \A d \in Deps[s[k]] : d \in Applied(h) \/ \E j \in 1..(k - 1) : s[j] = d
\* A list of migrations to undo: what needs one of them comes earlier in the list.
CanUndo(s, h) ==
    /\ Distinct(s) /\ Items(s) \subseteq Applied(h)
    /\ \A k \in DOMAIN s : \A n \in Applied(h) : s[k] \in Deps[n] => \E j \in 1..(k - 1) : s[j] = n

\* A command under way.  Only a fresh can find tables without a record, and each is of a migration
\* that it has still to execute.
RunIsSound(r, release) ==
    /\ Consistent(r.savedHistory, r.savedTables) /\ r.savedHistory \in Histories
    /\ BatchesUpTo(r.savedHistory, Begun) /\ r.batch <= Begun
    /\ RecordsAreSound(history) /\ Applied(history) \subseteq tables
    /\ IF Undoes(r.command) THEN Applied(history) = tables /\ CanUndo(r.todo, history)
       ELSE /\ r.batch > 0 /\ \A m \in Migrations : history[m].batch <= r.batch
            /\ CanApply(r.todo, history)
            /\ \A m \in Items(r.todo) : release[m] > 0
            /\ tables \ Applied(history) \subseteq Items(r.todo)
            /\ r.command.name = "up" \/ Owned = Migrations => Applied(history) = tables

\* The deployer with the lock runs, and only a fresh can go wrong.
DeployerIsSound(p) ==
    /\ deploy[p].run.pc = "running" <=> migrationLock = p
    /\ deploy[p].run.pc # "idle" => Loadable(deploy[p].release)
    /\ deploy[p].run.pc = "running" => RunIsSound(deploy[p].run, deploy[p].release)
    /\ deploy[p].run.wrong => deploy[p].run.command.name = "fresh" /\ Owned # Migrations

MigrationsInv ==
    /\ MigrationsTyped
    /\ Begun \in Nat /\ BatchesUpTo(history, Begun)
    /\ migrationLock = "none" => Consistent(history, tables)
    /\ \A p \in Deployers : DeployerIsSound(p)

\* A step that is taken N times from a start: the results after each number of steps exist.
LEMMA IteratesExist ==
    ASSUME NEW D, NEW start \in D, NEW N \in Nat, NEW F \in [1..N -> [D -> D]]
    PROVE  \E f \in [0..N -> D] : f[0] = start /\ \A n \in 1..N : f[n] = F[n][f[n - 1]]
<1> DEFINE Iterates(f, k) == f \in [0..k -> D] /\ f[0] = start /\ \A n \in 1..k : f[n] = F[n][f[n - 1]]
           missing == {k \in 0..N : ~\E f : Iterates(f, k)}
<1>1. SUFFICES ASSUME missing # {} PROVE FALSE
  <2>1. N \in 0..N
    OBVIOUS
  <2> QED  BY <2>1
<1>2. missing \in SUBSET Nat
  OBVIOUS
<1>3. PICK k \in missing : \A l \in missing : k <= l
  <2> HIDE DEF missing
  <2> QED  BY <1>1, <1>2, LeastNumber
<1>4. k # 0
  <2>1. Iterates([i \in 0..0 |-> start], 0)
    OBVIOUS
  <2> QED  BY <2>1
<1>5. k - 1 \in 0..N /\ k \in 1..N /\ k - 1 \notin missing
  <2>1. k \in 0..N
    OBVIOUS
  <2> HIDE DEF missing
  <2> QED  BY <1>3, <1>4, <2>1
<1>6. PICK f : Iterates(f, k - 1)
  BY <1>5
<1> DEFINE g == [i \in 0..k |-> IF i = k THEN F[k][f[k - 1]] ELSE f[i]]
<1>7. Iterates(g, k)
  <2>1. f[k - 1] \in D /\ F[k][f[k - 1]] \in D
    BY <1>5, <1>6
  <2>2. g \in [0..k -> D]
    BY <1>5, <1>6, <2>1
  <2>3. g[0] = start
    BY <1>4, <1>5, <1>6
  <2>4. ASSUME NEW n \in 1..k PROVE g[n] = F[n][g[n - 1]]
    <3>1. n - 1 \in 0..k /\ n - 1 # k /\ n \in 0..k
      BY <1>5
    <3>2. g[n - 1] = f[n - 1]
      BY <3>1
    <3>3. CASE n = k
      BY <3>1, <3>2, <3>3
    <3>4. CASE n # k
      <4>1. n \in 1..(k - 1)
        BY <1>5, <3>4
      <4> QED  BY <1>6, <3>1, <3>2, <3>4, <4>1
    <3> QED  BY <3>3, <3>4
  <2> QED  BY <2>2, <2>3, <2>4
<1> QED  BY <1>7

\* What holds at the start and is preserved by every step up to N holds after N steps.
LEMMA CountingUp ==
    ASSUME NEW N \in Nat, NEW S, 0 \in S, \A n \in 1..N : n - 1 \in S => n \in S
    PROVE  \A n \in 0..N : n \in S
<1> DEFINE missing == (0..N) \ S
<1>1. SUFFICES ASSUME missing # {} PROVE FALSE
  OBVIOUS
<1>2. missing \in SUBSET Nat
  OBVIOUS
<1>3. PICK k \in missing : \A l \in missing : k <= l
  <2> HIDE DEF missing
  <2> QED  BY <1>1, <1>2, LeastNumber
<1>4. k \in 1..N /\ k - 1 \in 0..N /\ k - 1 \notin missing
  BY <1>2, <1>3
<1> QED  BY <1>3, <1>4

\* The equation of Kept.
Filters(kept, s, S) ==
    /\ kept \in [0..Len(s) -> Seq(Migrations)] /\ kept[0] = <<>>
    /\ \A n \in 1..Len(s) : kept[n] = IF s[n] \in S THEN Append(kept[n - 1], s[n]) ELSE kept[n - 1]
LEMMA KeptUnfolds ==
    ASSUME NEW s \in Seq(Migrations), NEW S
    PROVE  \E kept : Filters(kept, s, S) /\ Kept(s, S) = kept[Len(s)]
<1> DEFINE D == Seq(Migrations)
           F == [n \in 1..Len(s) |-> [d \in D |-> IF s[n] \in S THEN Append(d, s[n]) ELSE d]]
           Unfolds(kept) == kept = [n \in 0..Len(s) |-> IF n = 0 THEN <<>>
                                         ELSE IF s[n] \in S THEN Append(kept[n - 1], s[n]) ELSE kept[n - 1]]
<1>1. Len(s) \in Nat /\ <<>> \in D /\ \A n \in 1..Len(s) : s[n] \in Migrations
  OBVIOUS
<1>2. F \in [1..Len(s) -> [D -> D]]
  <2>1. ASSUME NEW n \in 1..Len(s), NEW d \in D PROVE (IF s[n] \in S THEN Append(d, s[n]) ELSE d) \in D
    BY <1>1
  <2> QED  BY <2>1
<1>3. \A n \in 1..Len(s), d \in D : F[n][d] = IF s[n] \in S THEN Append(d, s[n]) ELSE d
  OBVIOUS
<1> HIDE DEF F
<1>4. PICK f \in [0..Len(s) -> D] : f[0] = <<>> /\ \A n \in 1..Len(s) : f[n] = F[n][f[n - 1]]
  <2> DEFINE N == Len(s)
             none == <<>>
  <2>1. N \in Nat /\ none \in D /\ F \in [1..N -> [D -> D]]
    BY <1>1, <1>2
  <2> HIDE DEF D, N, none
  <2>2. \E f \in [0..N -> D] : f[0] = none /\ \A n \in 1..N : f[n] = F[n][f[n - 1]]
    BY <2>1, IteratesExist
  <2> QED  BY <2>2 DEF N, none
<1>5. \A n \in 1..Len(s) : f[n] = IF s[n] \in S THEN Append(f[n - 1], s[n]) ELSE f[n - 1]
  <2> SUFFICES ASSUME NEW n \in 1..Len(s) PROVE f[n] = IF s[n] \in S THEN Append(f[n - 1], s[n]) ELSE f[n - 1]
    OBVIOUS
  <2>1. n - 1 \in 0..Len(s)
    BY <1>1
  <2>2. f[n - 1] \in D
    BY <1>4, <2>1
  <2> QED  BY <1>3, <1>4, <2>2
<1>6. Unfolds(f)
  <2>1. f = [n \in 0..Len(s) |-> f[n]]
    BY <1>4
  <2>2. ASSUME NEW n \in 0..Len(s)
        PROVE  f[n] = IF n = 0 THEN <<>> ELSE IF s[n] \in S THEN Append(f[n - 1], s[n]) ELSE f[n - 1]
    <3>1. n = 0 \/ n \in 1..Len(s)
      BY <1>1
    <3> QED  BY <1>4, <1>5, <3>1
  <2> QED  BY <2>1, <2>2
<1> DEFINE k == CHOOSE kept : Unfolds(kept)
<1>7. Unfolds(k)
  BY <1>6
<1>8. Kept(s, S) = k[Len(s)]
  BY DEF Kept
<1> HIDE DEF k
<1>9. k \in [0..Len(s) -> D] /\ k[0] = <<>>
      /\ \A n \in 1..Len(s) : k[n] = IF s[n] \in S THEN Append(k[n - 1], s[n]) ELSE k[n - 1]
  <2>1. k[0] = <<>> /\ \A n \in 1..Len(s) : k[n] = IF s[n] \in S THEN Append(k[n - 1], s[n]) ELSE k[n - 1]
    <3> DEFINE g == [n \in 0..Len(s) |-> IF n = 0 THEN <<>> ELSE IF s[n] \in S THEN Append(k[n - 1], s[n]) ELSE k[n - 1]]
    <3>1. k = g
      BY <1>7
    <3>2. g[0] = <<>> /\ \A n \in 1..Len(s) : g[n] = IF s[n] \in S THEN Append(k[n - 1], s[n]) ELSE k[n - 1]
      BY <1>1
    <3> HIDE DEF g
    <3> QED  BY <3>1, <3>2
  <2> DEFINE typed == {n \in 0..Len(s) : k[n] \in D}
  <2>2. 0 \in typed
    <3>1. 0 \in 0..Len(s) /\ k[0] \in D
      BY <1>1, <2>1
    <3> QED  BY <3>1
  <2>3. ASSUME NEW n \in 1..Len(s), n - 1 \in typed PROVE n \in typed
    <3>1. k[n - 1] \in D /\ s[n] \in Migrations /\ n \in 0..Len(s)
      BY <1>1, <2>3
    <3>2. Append(k[n - 1], s[n]) \in D
      BY <3>1
    <3> QED  BY <2>1, <3>1, <3>2
  <2>4. \A n \in 0..Len(s) : n \in typed
    <3> HIDE DEF typed
    <3> QED  BY <1>1, <2>2, <2>3, CountingUp
  <2> QED  BY <1>7, <2>1, <2>4
<1>10. Filters(k, s, S)
  BY <1>9 DEF Filters
<1> QED  BY <1>8, <1>10

\* r is what is kept of the first n members of s.
FilteredUpTo(r, n, s, S) ==
    /\ \A i \in 1..n : s[i] \in S => \E a \in 1..Len(r) : r[a] = s[i]
    /\ \A a \in 1..Len(r) : r[a] \in S /\ \E i \in 1..n : r[a] = s[i]
    /\ \A a, b \in 1..Len(r) : a < b => \E i, j \in 1..n : i < j /\ s[i] = r[a] /\ s[j] = r[b]

\* Kept: a list of the members that are in the set, each pair in the order of the list.
LEMMA KeptMembers ==
    ASSUME NEW s \in Seq(Migrations), NEW S
    PROVE  /\ Kept(s, S) \in Seq(Migrations)
           /\ \A m : m \in Items(Kept(s, S)) <=> m \in S /\ m \in Items(s)
           /\ \A a, b \in DOMAIN Kept(s, S) : a < b =>
                 \E i, j \in DOMAIN s : i < j /\ s[i] = Kept(s, S)[a] /\ s[j] = Kept(s, S)[b]
<1>0. PICK kept : Filters(kept, s, S) /\ Kept(s, S) = kept[Len(s)]
  BY KeptUnfolds
<1>1. /\ kept \in [0..Len(s) -> Seq(Migrations)] /\ kept[0] = <<>> /\ Kept(s, S) = kept[Len(s)]
      /\ \A n \in 1..Len(s) : kept[n] = IF s[n] \in S THEN Append(kept[n - 1], s[n]) ELSE kept[n - 1]
  BY <1>0 DEF Filters
<1> DEFINE Sound(n) == FilteredUpTo(kept[n], n, s, S)
           sound == {n \in 0..Len(s) : Sound(n)}
<1>2. Len(s) \in Nat /\ DOMAIN s = 1..Len(s) /\ \A i \in 1..Len(s) : s[i] \in Migrations
  OBVIOUS
<1>3. 0 \in sound
  <2>1. Len(kept[0]) = 0
    BY <1>1
  <2> QED  BY <1>2, <2>1 DEF FilteredUpTo
<1>4. ASSUME NEW n \in 1..Len(s), n - 1 \in sound PROVE n \in sound
  <2>1. n - 1 \in 0..Len(s) /\ n \in 0..Len(s) /\ n \in Nat
    BY <1>2
  <2> DEFINE old == kept[n - 1]
             new == kept[n]
  <2>2. old \in Seq(Migrations) /\ s[n] \in Migrations /\ new = IF s[n] \in S THEN Append(old, s[n]) ELSE old
    BY <1>1, <1>2, <2>1
  <2>3. /\ \A i \in 1..(n - 1) : s[i] \in S => \E a \in 1..Len(old) : old[a] = s[i]
        /\ \A a \in 1..Len(old) : old[a] \in S /\ \E i \in 1..(n - 1) : old[a] = s[i]
        /\ \A a, b \in 1..Len(old) : a < b =>
              \E i, j \in 1..(n - 1) : i < j /\ s[i] = old[a] /\ s[j] = old[b]
    BY <1>4 DEF FilteredUpTo
  <2> HIDE DEF old, new
  <2>4. CASE s[n] \notin S
    <3>1. new = old
      BY <2>2, <2>4
    <3>2. ASSUME NEW i \in 1..n, s[i] \in S PROVE \E a \in 1..Len(new) : new[a] = s[i]
      <4>1. i \in 1..(n - 1)
        BY <2>1, <2>4, <3>2
      <4> QED  BY <2>3, <3>1, <3>2, <4>1
    <3>3. ASSUME NEW a \in 1..Len(new) PROVE new[a] \in S /\ \E i \in 1..n : new[a] = s[i]
      BY <2>1, <2>3, <3>1
    <3>4. ASSUME NEW a \in 1..Len(new), NEW b \in 1..Len(new), a < b
          PROVE  \E i, j \in 1..n : i < j /\ s[i] = new[a] /\ s[j] = new[b]
      <4>1. PICK i \in 1..(n - 1), j \in 1..(n - 1) : i < j /\ s[i] = old[a] /\ s[j] = old[b]
        BY <2>3, <3>1, <3>4
      <4>2. i \in 1..n /\ j \in 1..n
        BY <2>1
      <4> QED  BY <3>1, <4>1, <4>2
    <3> QED  BY <2>1, <3>2, <3>3, <3>4 DEF new, FilteredUpTo
  <2>5. CASE s[n] \in S
    <3>1. /\ Len(old) \in Nat /\ Len(new) = Len(old) + 1 /\ new[Len(old) + 1] = s[n]
          /\ \A a \in 1..Len(old) : new[a] = old[a]
      BY <2>2, <2>5
    <3>2. ASSUME NEW i \in 1..n, s[i] \in S PROVE \E a \in 1..Len(new) : new[a] = s[i]
      <4>1. CASE i = n
        <5>1. Len(old) + 1 \in 1..Len(new)
          BY <3>1
        <5> QED  BY <3>1, <4>1, <5>1
      <4>2. CASE i # n
        <5>1. i \in 1..(n - 1)
          BY <2>1, <4>2
        <5>2. PICK a \in 1..Len(old) : old[a] = s[i]
          BY <2>3, <3>2, <5>1
        <5>3. a \in 1..Len(new) /\ new[a] = s[i]
          BY <3>1, <5>2
        <5> QED  BY <5>3
      <4> QED  BY <4>1, <4>2
    <3>3. ASSUME NEW a \in 1..Len(new) PROVE new[a] \in S /\ \E i \in 1..n : new[a] = s[i]
      <4>1. CASE a = Len(old) + 1
        BY <2>1, <2>5, <3>1, <4>1
      <4>2. CASE a # Len(old) + 1
        <5>1. a \in 1..Len(old)
          BY <3>1, <4>2
        <5>2. PICK i \in 1..(n - 1) : old[a] = s[i]
          BY <2>3, <5>1
        <5>3. i \in 1..n /\ new[a] = s[i] /\ new[a] \in S
          BY <2>1, <2>3, <3>1, <5>1, <5>2
        <5> QED  BY <5>3
      <4> QED  BY <4>1, <4>2
    <3>4. ASSUME NEW a \in 1..Len(new), NEW b \in 1..Len(new), a < b
          PROVE  \E i, j \in 1..n : i < j /\ s[i] = new[a] /\ s[j] = new[b]
      <4>1. a \in 1..Len(old)
        BY <3>1, <3>4
      <4>2. CASE b = Len(old) + 1
        <5>1. PICK i \in 1..(n - 1) : old[a] = s[i]
          BY <2>3, <4>1
        <5>2. i \in 1..n /\ n \in 1..n /\ i < n
          BY <2>1, <5>1
        <5> QED  BY <3>1, <4>1, <4>2, <5>1, <5>2
      <4>3. CASE b # Len(old) + 1
        <5>1. b \in 1..Len(old)
          BY <3>1, <4>3
        <5>2. PICK i \in 1..(n - 1), j \in 1..(n - 1) : i < j /\ s[i] = old[a] /\ s[j] = old[b]
          BY <2>3, <3>4, <4>1, <5>1
        <5>3. i \in 1..n /\ j \in 1..n
          BY <2>1
        <5> QED  BY <3>1, <4>1, <5>1, <5>2, <5>3
      <4> QED  BY <4>2, <4>3
    <3> QED  BY <2>1, <3>2, <3>3, <3>4 DEF new, FilteredUpTo
  <2> QED  BY <2>4, <2>5
<1>5. \A n \in 0..Len(s) : n \in sound
  <2> HIDE DEF sound
  <2> QED  BY <1>2, <1>3, <1>4, CountingUp
<1>6. Len(s) \in 0..Len(s)
  BY <1>2
<1>7. Sound(Len(s))
  BY <1>5, <1>6
<1> DEFINE r == Kept(s, S)
<1>8. r \in Seq(Migrations) /\ r = kept[Len(s)] /\ DOMAIN r = 1..Len(r)
  BY <1>1, <1>6
<1>9. /\ \A i \in DOMAIN s : s[i] \in S => \E a \in DOMAIN r : r[a] = s[i]
      /\ \A a \in DOMAIN r : r[a] \in S /\ \E i \in DOMAIN s : r[a] = s[i]
      /\ \A a, b \in DOMAIN r : a < b => \E i, j \in DOMAIN s : i < j /\ s[i] = r[a] /\ s[j] = r[b]
  <2>1. FilteredUpTo(r, Len(s), s, S) /\ DOMAIN s = 1..Len(s) /\ DOMAIN r = 1..Len(r)
    BY <1>2, <1>7, <1>8
  <2> HIDE DEF r
  <2>2. \A i \in DOMAIN s : s[i] \in S => \E a \in DOMAIN r : r[a] = s[i]
    BY <2>1 DEF FilteredUpTo
  <2>3. \A a \in DOMAIN r : r[a] \in S /\ \E i \in DOMAIN s : r[a] = s[i]
    BY <2>1 DEF FilteredUpTo
  <2>4. ASSUME NEW a \in DOMAIN r, NEW b \in DOMAIN r, a < b
        PROVE  \E i, j \in DOMAIN s : i < j /\ s[i] = r[a] /\ s[j] = r[b]
    <3>1. a \in 1..Len(r) /\ b \in 1..Len(r)
      BY <2>1
    <3>2. PICK i \in 1..Len(s), j \in 1..Len(s) : i < j /\ s[i] = r[a] /\ s[j] = r[b]
      BY <2>1, <2>4, <3>1 DEF FilteredUpTo
    <3>3. i \in DOMAIN s /\ j \in DOMAIN s
      BY <2>1
    <3> QED  BY <3>2, <3>3
  <2> QED  BY <2>2, <2>3, <2>4
<1> HIDE DEF r
<1>10. \A m : m \in Items(r) <=> m \in S /\ m \in Items(s)
  BY <1>9 DEF Items
<1> QED  BY <1>8, <1>9, <1>10 DEF r

\* In a list without repetitions, what is kept keeps its order.
LEMMA KeptOrder ==
    ASSUME NEW s \in Seq(Migrations), NEW S, Distinct(s)
    PROVE  /\ Distinct(Kept(s, S))
           /\ \A a \in DOMAIN Kept(s, S), i, j \in DOMAIN s :
                 i < j /\ s[i] \in S /\ s[j] = Kept(s, S)[a] => \E b \in DOMAIN Kept(s, S) : b < a /\ Kept(s, S)[b] = s[i]
<1> DEFINE r == Kept(s, S)
<1>1. /\ r \in Seq(Migrations) /\ \A m : m \in Items(r) <=> m \in S /\ m \in Items(s)
      /\ \A a, b \in DOMAIN r : a < b => \E i, j \in DOMAIN s : i < j /\ s[i] = r[a] /\ s[j] = r[b]
  BY KeptMembers
<1> HIDE DEF r
<1>2. DOMAIN r = 1..Len(r) /\ Len(r) \in Nat /\ DOMAIN s = 1..Len(s) /\ Len(s) \in Nat
  BY <1>1
<1>3. ASSUME NEW a \in DOMAIN r, NEW b \in DOMAIN r, a < b PROVE r[a] # r[b]
  <2>1. PICK i \in DOMAIN s, j \in DOMAIN s : i < j /\ s[i] = r[a] /\ s[j] = r[b]
    BY <1>1, <1>3
  <2>2. i # j
    BY <1>2, <2>1
  <2> QED  BY <2>1, <2>2 DEF Distinct
<1>4. Distinct(r)
  <2> SUFFICES ASSUME NEW a \in DOMAIN r, NEW b \in DOMAIN r, r[a] = r[b] PROVE a = b
    BY DEF Distinct
  <2>1. ~(a < b) /\ ~(b < a)
    BY <1>3
  <2> QED  BY <1>2, <2>1
<1>5. ASSUME NEW a \in DOMAIN r, NEW i \in DOMAIN s, NEW j \in DOMAIN s, i < j, s[i] \in S, s[j] = r[a]
      PROVE  \E b \in DOMAIN r : b < a /\ r[b] = s[i]
  <2>1. s[i] \in Items(s)
    BY DEF Items
  <2>2. PICK b \in DOMAIN r : r[b] = s[i]
    BY <1>1, <1>5, <2>1 DEF Items
  <2>3. ASSUME a < b PROVE FALSE
    <3>1. PICK k \in DOMAIN s, l \in DOMAIN s : k < l /\ s[k] = r[a] /\ s[l] = r[b]
      BY <1>1, <2>3
    <3>2. k = j /\ l = i
      BY <1>5, <2>2, <3>1 DEF Distinct
    <3> QED  BY <1>2, <1>5, <3>1, <3>2
  <2>4. ASSUME a = b PROVE FALSE
    <3>1. i = j
      BY <1>5, <2>2, <2>4 DEF Distinct
    <3> QED  BY <1>2, <1>5, <3>1
  <2> QED  BY <1>2, <2>2, <2>3, <2>4
<1> QED  BY <1>4, <1>5 DEF r

\* A list of migrations that has what each of them depends on in front of it.
Orders(s, items) ==
    /\ s \in Seq(Migrations) /\ Items(s) \subseteq items /\ Distinct(s)
    /\ \A k \in DOMAIN s : \A d \in Deps[s[k]] : \E j \in 1..(k - 1) : s[j] = d

LEMMA ExtendedOrders ==
    ASSUME NEW items \in SUBSET Migrations, NEW s, Orders(s, items)
    PROVE  Orders(Extended(items, s), items)
<1>1. CASE Ready(items, s) = {}
  BY <1>1 DEF Extended
<1>2. CASE Ready(items, s) # {}
  <2> DEFINE m == Least(Ready(items, s))
             t == Extended(items, s)
  <2>1. Ready(items, s) \in SUBSET Nat
    BY MigrationsAssumption DEF Ready
  <2>2. m \in Ready(items, s)
    <3>1. \E x \in Ready(items, s) : \A y \in Ready(items, s) : x <= y
      BY <1>2, <2>1, LeastNumber
    <3> QED  BY <3>1 DEF Least
  <2>3. t = Append(s, m)
    BY <1>2 DEF Extended
  <2> HIDE DEF m, t
  <2>4. m \in Migrations /\ m \in items /\ m \notin Items(s) /\ Deps[m] \subseteq Items(s)
    BY <2>2 DEF Ready
  <2>5. s \in Seq(Migrations) /\ Len(s) \in Nat /\ DOMAIN s = 1..Len(s)
    BY DEF Orders
  <2>6. /\ t \in Seq(Migrations) /\ DOMAIN t = 1..(Len(s) + 1) /\ t[Len(s) + 1] = m
        /\ \A i \in 1..Len(s) : t[i] = s[i] /\ i \in DOMAIN s
        /\ \A i \in DOMAIN t : i = Len(s) + 1 \/ i \in 1..Len(s)
    BY <2>3, <2>4, <2>5
  <2>7. \A i \in 1..Len(s) : t[i] \in Items(s) /\ t[i] \in items
    BY <2>6 DEF Items, Orders
  <2>8. Items(t) \subseteq items
    <3> SUFFICES ASSUME NEW i \in DOMAIN t PROVE t[i] \in items
      BY DEF Items
    <3> QED  BY <2>4, <2>6, <2>7
  <2>9. Distinct(t)
    <3> SUFFICES ASSUME NEW i \in DOMAIN t, NEW j \in DOMAIN t, t[i] = t[j] PROVE i = j
      BY DEF Distinct
    <3>1. CASE i \in 1..Len(s) /\ j \in 1..Len(s)
      BY <2>6, <3>1 DEF Orders, Distinct
    <3>2. CASE i = Len(s) + 1 /\ j \in 1..Len(s)
      BY <2>4, <2>6, <2>7, <3>2
    <3>3. CASE j = Len(s) + 1 /\ i \in 1..Len(s)
      BY <2>4, <2>6, <2>7, <3>3
    <3> QED  BY <2>6, <3>1, <3>2, <3>3
  <2>10. ASSUME NEW k \in DOMAIN t, NEW d \in Deps[t[k]] PROVE \E j \in 1..(k - 1) : t[j] = d
    <3>1. CASE k = Len(s) + 1
      <4>1. d \in Items(s)
        BY <2>4, <2>6, <3>1
      <4>2. PICK j \in DOMAIN s : s[j] = d
        BY <4>1 DEF Items
      <4>3. j \in 1..(k - 1) /\ t[j] = d
        BY <2>5, <2>6, <3>1, <4>2
      <4> QED  BY <4>3
    <3>2. CASE k \in 1..Len(s)
      <4>1. k \in DOMAIN s /\ d \in Deps[s[k]]
        BY <2>6, <3>2
      <4>2. PICK j \in 1..(k - 1) : s[j] = d
        BY <4>1 DEF Orders
      <4>3. j \in 1..Len(s)
        BY <2>5, <3>2
      <4> QED  BY <2>6, <4>2, <4>3
    <3> QED  BY <2>6, <3>1, <3>2
  <2> QED  BY <2>6, <2>8, <2>9, <2>10 DEF Orders, t
<1> QED  BY <1>1, <1>2

LEMMA EmptyOrders == \A items : Orders(<<>>, items)
BY DEF Orders, Items, Distinct

\* The equation of Sorted.
Extends(out, items) ==
    /\ out[0] = <<>>
    /\ \A n \in 1..Cardinality(items) : out[n] = Extended(items, out[n - 1])
LEMMA SortedUnfolds ==
    ASSUME NEW items \in SUBSET Migrations
    PROVE  \E out : Extends(out, items) /\ Sorted(items) = out[Cardinality(items)]
<1> DEFINE D == {s \in Seq(Migrations) : Orders(s, items)}
           N == Cardinality(items)
           none == <<>>
           F == [n \in 1..N |-> [d \in D |-> Extended(items, d)]]
           Unfolds(out) == out = [n \in 0..N |-> IF n = 0 THEN <<>> ELSE Extended(items, out[n - 1])]
<1>1. IsFiniteSet(items) /\ N \in Nat
  BY MigrationsAssumption, FS_Subset, FS_CardinalityType
<1>2. none \in D
  BY EmptyOrders
<1>3. \A d \in D : Extended(items, d) \in D
  <2> SUFFICES ASSUME NEW d \in D PROVE Extended(items, d) \in D
    OBVIOUS
  <2>1. Orders(Extended(items, d), items)
    BY ExtendedOrders
  <2>2. Extended(items, d) \in Seq(Migrations)
    BY <2>1 DEF Orders
  <2> QED  BY <2>1, <2>2
<1> HIDE DEF D, N, none
<1>4. F \in [1..N -> [D -> D]]
  BY <1>3
<1>5. \A n \in 1..N, d \in D : F[n][d] = Extended(items, d)
  OBVIOUS
<1> HIDE DEF F
<1>6. PICK f \in [0..N -> D] : f[0] = none /\ \A n \in 1..N : f[n] = F[n][f[n - 1]]
  BY <1>1, <1>2, <1>4, IteratesExist
<1>7. ASSUME NEW n \in 1..N PROVE f[n] = Extended(items, f[n - 1])
  <2>1. n - 1 \in 0..N
    BY <1>1
  <2> QED  BY <1>5, <1>6, <2>1
<1>8. Unfolds(f)
  <2>1. f = [n \in 0..N |-> f[n]]
    BY <1>6
  <2>2. ASSUME NEW n \in 0..N PROVE f[n] = IF n = 0 THEN <<>> ELSE Extended(items, f[n - 1])
    <3>1. n = 0 \/ n \in 1..N
      BY <1>1
    <3> QED  BY <1>6, <1>7, <3>1 DEF none
  <2> QED  BY <2>1, <2>2
<1> DEFINE k == CHOOSE out : Unfolds(out)
<1>9. Unfolds(k)
  BY <1>8
<1>10. Sorted(items) = k[Cardinality(items)]
  BY DEF Sorted, N
<1> HIDE DEF k
<1>11. Extends(k, items)
  <2> DEFINE g == [n \in 0..N |-> IF n = 0 THEN <<>> ELSE Extended(items, k[n - 1])]
  <2>1. k = g
    BY <1>9
  <2>2. g[0] = <<>> /\ \A n \in 1..N : g[n] = Extended(items, k[n - 1])
    BY <1>1
  <2> HIDE DEF g
  <2> QED  BY <2>1, <2>2 DEF Extends, N
<1> QED  BY <1>10, <1>11

\* topologicalSort: whatever is in its result comes after what it depends on.
LEMMA SortedOrders ==
    ASSUME NEW items \in SUBSET Migrations
    PROVE  Orders(Sorted(items), items)
<1> DEFINE N == Cardinality(items)
<1>1. PICK out : Extends(out, items) /\ Sorted(items) = out[Cardinality(items)]
  BY SortedUnfolds
<1>2. N \in Nat
  BY MigrationsAssumption, FS_Subset, FS_CardinalityType
<1>3. out[0] = <<>> /\ \A n \in 1..N : out[n] = Extended(items, out[n - 1])
  BY <1>1 DEF Extends
<1> DEFINE ordered == {n \in 0..N : Orders(out[n], items)}
<1> HIDE DEF N
<1>4. 0 \in ordered
  BY <1>2, <1>3, EmptyOrders
<1>5. ASSUME NEW n \in 1..N, n - 1 \in ordered PROVE n \in ordered
  <2>1. n \in 0..N /\ Orders(out[n - 1], items)
    BY <1>2, <1>5
  <2>2. Orders(out[n], items)
    BY <1>3, <2>1, ExtendedOrders
  <2> QED  BY <2>1, <2>2
<1>6. \A n \in 0..N : n \in ordered
  <2> HIDE DEF ordered
  <2> QED  BY <1>2, <1>4, <1>5, CountingUp
<1>7. N \in 0..N
  BY <1>2
<1> QED  BY <1>1, <1>6, <1>7 DEF N

\* A list without repetitions has as many members as it is long.
LEMMA DistinctLength ==
    ASSUME NEW s \in Seq(Migrations), Distinct(s)
    PROVE  IsFiniteSet(Items(s)) /\ Cardinality(Items(s)) = Len(s)
<1> DEFINE f == [i \in 1..Len(s) |-> s[i]]
<1>1. Len(s) \in Nat /\ DOMAIN s = 1..Len(s)
  OBVIOUS
<1>2. IsFiniteSet(1..Len(s)) /\ Cardinality(1..Len(s)) = Len(s)
  BY <1>1, FS_Interval
<1>3. f \in Bijection(1..Len(s), Items(s))
  BY <1>1 DEF Bijection, Injection, Surjection, IsInjective, Items, Distinct
<1>4. ExistsBijection(1..Len(s), Items(s))
  BY <1>3 DEF ExistsBijection
<1> QED  BY <1>2, <1>4, FS_Bijection

\* What a loadable release loads: all of its sources, each once and after what it depends on.
LEMMA LoadIsWhole ==
    ASSUME NEW release, Loadable(release)
    PROVE  Orders(load(release), ReleaseSources(release)) /\ Items(load(release)) = ReleaseSources(release)
<1> DEFINE s == Sorted(ReleaseSources(release))
<1>1. ReleaseSources(release) \in SUBSET Migrations /\ IsFiniteSet(ReleaseSources(release))
  <2>1. ReleaseSources(release) \subseteq Migrations
    BY DEF ReleaseSources
  <2> QED  BY <2>1, MigrationsAssumption, FS_Subset
<1>2. Orders(s, ReleaseSources(release)) /\ Len(s) = Cardinality(ReleaseSources(release))
  BY <1>1, SortedOrders DEF Loadable
<1> HIDE DEF s
<1>3. Cardinality(Items(s)) = Cardinality(ReleaseSources(release)) /\ Items(s) \subseteq ReleaseSources(release)
  BY <1>2, DistinctLength DEF Orders
<1>4. Items(s) = ReleaseSources(release)
  BY <1>1, <1>3, FS_Subset
<1> QED  BY <1>2, <1>4 DEF load, s

\* Reversed: the same members from the last to the first.
LEMMA ReversedMembers ==
    ASSUME NEW s \in Seq(Migrations)
    PROVE  /\ Reversed(s) \in Seq(Migrations) /\ DOMAIN Reversed(s) = 1..Len(s) /\ Len(Reversed(s)) = Len(s)
           /\ \A i \in 1..Len(s) : Reversed(s)[i] = s[Len(s) + 1 - i] /\ Len(s) + 1 - i \in DOMAIN s
           /\ \A i \in 1..Len(s) : Reversed(s)[Len(s) + 1 - i] = s[i] /\ Len(s) + 1 - i \in 1..Len(s)
<1>1. Len(s) \in Nat /\ DOMAIN s = 1..Len(s) /\ \A i \in 1..Len(s) : s[i] \in Migrations
  OBVIOUS
<1>2. Reversed(s) = [i \in 1..Len(s) |-> s[Len(s) + 1 - i]]
  BY <1>1 DEF Reversed
<1>3. \A i \in 1..Len(s) : Len(s) + 1 - i \in 1..Len(s) /\ Len(s) + 1 - (Len(s) + 1 - i) = i
  BY <1>1
<1>4. Reversed(s) \in Seq(Migrations) /\ Len(Reversed(s)) = Len(s)
  BY <1>1, <1>2, <1>3, IsASeq
<1>5. \A i \in 1..Len(s) : Reversed(s)[i] = s[Len(s) + 1 - i]
  BY <1>2
<1>6. ASSUME NEW i \in 1..Len(s) PROVE Reversed(s)[Len(s) + 1 - i] = s[i]
  <2>1. Reversed(s)[Len(s) + 1 - i] = s[Len(s) + 1 - (Len(s) + 1 - i)]
    BY <1>3, <1>5
  <2> QED  BY <1>3, <2>1
<1> QED  BY <1>1, <1>2, <1>3, <1>4, <1>5, <1>6

\* The reverse of what is loaded, of migrations that are applied with whatever needs them, can be undone.
LEMMA UndoFits ==
    ASSUME NEW release, NEW h \in Histories, Loadable(release), checkedRecords(release, h), RecordsAreSound(h),
           NEW S \in SUBSET Applied(h), \A m \in S : \A n \in Applied(h) : m \in Deps[n] => n \in S
    PROVE  Reversed(Kept(load(release), S)) \in Seq(Migrations) /\ CanUndo(Reversed(Kept(load(release), S)), h)
<1> DEFINE s == load(release)
           kept == Kept(s, S)
           r == Reversed(kept)
           N == Len(kept)
<1>1. /\ s \in Seq(Migrations) /\ Distinct(s) /\ Items(s) = ReleaseSources(release)
      /\ \A k \in DOMAIN s : \A d \in Deps[s[k]] : \E j \in 1..(k - 1) : s[j] = d
  BY LoadIsWhole DEF Orders
<1> HIDE DEF s
<1>2. /\ kept \in Seq(Migrations) /\ \A m : m \in Items(kept) <=> m \in S /\ m \in Items(s)
  BY <1>1, KeptMembers
<1>3. /\ Distinct(kept)
      /\ \A a \in DOMAIN kept, i, j \in DOMAIN s :
            i < j /\ s[i] \in S /\ s[j] = kept[a] => \E b \in DOMAIN kept : b < a /\ kept[b] = s[i]
  BY <1>1, KeptOrder
<1> HIDE DEF kept
<1>4. /\ r \in Seq(Migrations) /\ DOMAIN r = 1..N /\ N \in Nat /\ DOMAIN kept = 1..N
      /\ \A i \in 1..N : r[i] = kept[N + 1 - i] /\ N + 1 - i \in DOMAIN kept
      /\ \A i \in 1..N : r[N + 1 - i] = kept[i] /\ N + 1 - i \in 1..N
  BY <1>2, ReversedMembers
<1> HIDE DEF r, N
<1>5. Distinct(r)
  <2> SUFFICES ASSUME NEW i \in 1..N, NEW j \in 1..N, r[i] = r[j] PROVE i = j
    BY <1>4 DEF Distinct
  <2>1. N + 1 - i = N + 1 - j
    BY <1>3, <1>4 DEF Distinct
  <2> QED  BY <1>4, <2>1
<1>6. Items(r) \subseteq Applied(h)
  <2> SUFFICES ASSUME NEW i \in 1..N PROVE r[i] \in Applied(h)
    BY <1>4 DEF Items
  <2>1. r[i] \in Items(kept)
    BY <1>4 DEF Items
  <2> QED  BY <1>2, <2>1
<1>7. ASSUME NEW k \in DOMAIN r, NEW n \in Applied(h), r[k] \in Deps[n] PROVE \E j \in 1..(k - 1) : r[j] = n
  <2>1. r[k] = kept[N + 1 - k] /\ N + 1 - k \in DOMAIN kept /\ r[k] \in Items(kept) /\ k \in 1..N
    BY <1>4 DEF Items
  <2>2. r[k] \in S /\ r[k] \in Items(s)
    BY <1>2, <2>1
  <2>3. n \in S
    BY <1>7, <2>2
  <2>4. n \in Items(s)
    <3>1. h[n].batch > 0 /\ release[n] = h[n].checksum /\ h[n].checksum > 0 /\ n \in Migrations
      BY DEF checkedRecords, RecordsAreSound, Applied
    <3> QED  BY <1>1, <3>1 DEF ReleaseSources
  <2>5. PICK b \in DOMAIN kept : kept[b] = n
    BY <1>2, <2>3, <2>4 DEF Items
  <2>6. PICK j \in DOMAIN s : s[j] = n
    BY <2>4 DEF Items
  <2>7. PICK i \in 1..(j - 1) : s[i] = r[k]
    BY <1>1, <1>7, <2>6
  <2>8. i \in DOMAIN s /\ i < j
    BY <1>1, <2>6, <2>7
  <2>9. PICK a \in DOMAIN kept : a < b /\ kept[a] = r[k]
    BY <1>3, <2>2, <2>5, <2>6, <2>7, <2>8
  <2>10. a = N + 1 - k
    BY <1>3, <2>1, <2>9 DEF Distinct
  <2>11. N + 1 - b \in 1..(k - 1) /\ r[N + 1 - b] = n
    BY <1>4, <2>1, <2>5, <2>9, <2>10
  <2> QED  BY <2>11
<1> QED  BY <1>4, <1>5, <1>6, <1>7 DEF CanUndo, r, kept, s

\* What is applied, and not yet, of a history.
LEMMA AppliedBatches ==
    ASSUME NEW h \in Histories
    PROVE  /\ Applied(h) \subseteq Migrations /\ \A m \in Migrations : h[m].batch \in Nat /\ h[m].checksum \in Nat
           /\ \A m \in Migrations : m \in Applied(h) <=> h[m].batch > 0
BY DEF Applied, Histories, HistoryRecord

\* rollback: the last batches are undone with whatever needs them.
LEMMA RollbackFits ==
    ASSUME NEW release, NEW h \in Histories, Loadable(release), checkedRecords(release, h), RecordsAreSound(h),
           NEW count \in Nat
    PROVE  rollback(release, h, count) \in Seq(Migrations) /\ CanUndo(rollback(release, h, count), h)
<1> DEFINE S == InBatches(h, LastBatches(h, count))
           Later(b) == {c \in Batches(h) : c > b}
<1>1. IsFiniteSet(Batches(h))
  <2>1. IsFiniteSet(Applied(h))
    BY AppliedBatches, MigrationsAssumption, FS_Subset
  <2> DEFINE f == [m \in Applied(h) |-> h[m].batch]
  <2>2. Batches(h) = {f[m] : m \in Applied(h)}
    BY DEF Batches
  <2>3. f \in Surjection(Applied(h), Batches(h))
    BY DEF Surjection, Batches
  <2> QED  BY <2>1, <2>3, FS_Surjection DEF ExistsSurjection
<1>2. S \in SUBSET Applied(h)
  <2> SUFFICES ASSUME NEW m \in S PROVE m \in Applied(h)
    OBVIOUS
  <2>1. m \in Migrations /\ h[m].batch \in Batches(h)
    BY DEF InBatches, LastBatches
  <2>2. \A n \in Applied(h) : h[n].batch > 0
    BY DEF Applied
  <2> QED  BY <2>1, <2>2 DEF Batches, Applied
<1>3. ASSUME NEW m \in S, NEW n \in Applied(h), m \in Deps[n] PROVE n \in S
  <2>1. n \in Migrations /\ h[m].batch \in Nat /\ h[n].batch \in Nat /\ h[m].batch <= h[n].batch /\ h[n].batch \in Batches(h)
        /\ m \in Migrations
    BY <1>2, <1>3, AppliedBatches DEF RecordsAreSound, Batches
  <2>2. Cardinality(Later(h[m].batch)) < count
    BY DEF InBatches, LastBatches
  <2>3. Later(h[n].batch) \subseteq Later(h[m].batch)
    <3> SUFFICES ASSUME NEW c \in Batches(h), c > h[n].batch PROVE c > h[m].batch
      OBVIOUS
    <3>1. c \in Nat
      BY AppliedBatches DEF Batches
    <3> QED  BY <2>1, <3>1
  <2>4. IsFiniteSet(Later(h[m].batch))
    <3>1. Later(h[m].batch) \subseteq Batches(h)
      OBVIOUS
    <3> HIDE DEF Later
    <3> QED  BY <1>1, <3>1, FS_Subset
  <2>5. /\ Cardinality(Later(h[n].batch)) <= Cardinality(Later(h[m].batch))
        /\ Cardinality(Later(h[n].batch)) \in Nat /\ Cardinality(Later(h[m].batch)) \in Nat
    <3> HIDE DEF Later
    <3> QED  BY <2>3, <2>4, FS_Subset, FS_CardinalityType
  <2>6. Cardinality(Later(h[n].batch)) < count
    <3> HIDE DEF Later
    <3> QED  BY <2>2, <2>5
  <2> QED  BY <2>1, <2>6 DEF InBatches, LastBatches
<1> HIDE DEF S
<1>4. Reversed(Kept(load(release), S)) \in Seq(Migrations) /\ CanUndo(Reversed(Kept(load(release), S)), h)
  BY <1>2, <1>3, UndoFits
<1> QED  BY <1>4 DEF rollback, S

LEMMA ResetFits ==
    ASSUME NEW release, NEW h \in Histories, Loadable(release), checkedRecords(release, h), RecordsAreSound(h)
    PROVE  reset(release, h) \in Seq(Migrations) /\ CanUndo(reset(release, h), h)
BY UndoFits DEF reset

\* up: what is pending can be applied in the order of the load, and so can the front of it.
LEMMA UpFits ==
    ASSUME NEW release, NEW h \in Histories, Loadable(release), NEW limit \in Nat
    PROVE  /\ up(release, h, limit) \in Seq(Migrations) /\ CanApply(up(release, h, limit), h)
           /\ Items(up(release, h, limit)) \subseteq ReleaseSources(release)
<1> DEFINE s == load(release)
           S == Migrations \ Applied(h)
           kept == Kept(s, S)
           k == IF limit < Len(kept) THEN limit ELSE Len(kept)
           r == SubSeq(kept, 1, k)
<1>1. /\ s \in Seq(Migrations) /\ Distinct(s) /\ Items(s) = ReleaseSources(release)
      /\ \A i \in DOMAIN s : \A d \in Deps[s[i]] : \E j \in 1..(i - 1) : s[j] = d
  BY LoadIsWhole DEF Orders
<1> HIDE DEF s, S
<1>2. /\ kept \in Seq(Migrations) /\ \A m : m \in Items(kept) <=> m \in S /\ m \in Items(s)
  BY <1>1, KeptMembers
<1>3. /\ Distinct(kept)
      /\ \A a \in DOMAIN kept, i, j \in DOMAIN s :
            i < j /\ s[i] \in S /\ s[j] = kept[a] => \E b \in DOMAIN kept : b < a /\ kept[b] = s[i]
  BY <1>1, KeptOrder
<1> HIDE DEF kept
<1>4. Len(kept) \in Nat /\ k \in 0..Len(kept) /\ DOMAIN kept = 1..Len(kept)
  BY <1>2
<1> HIDE DEF k
<1>5. r \in Seq(Migrations) /\ DOMAIN r = 1..k /\ \A i \in 1..k : r[i] = kept[i] /\ i \in DOMAIN kept
  BY <1>2, <1>4, SubSeqProperties
<1> HIDE DEF r
<1>6. Distinct(r)
  BY <1>3, <1>5 DEF Distinct
<1>7. ASSUME NEW m \in Items(r) PROVE m \in Migrations \ Applied(h) /\ m \in ReleaseSources(release)
  <2>1. m \in Items(kept)
    BY <1>5 DEF Items
  <2> QED  BY <1>1, <1>2, <2>1 DEF S
<1>8. ASSUME NEW a \in DOMAIN r, NEW d \in Deps[r[a]], d \notin Applied(h) PROVE \E j \in 1..(a - 1) : r[j] = d
  <2>1. a \in 1..k /\ r[a] = kept[a] /\ a \in DOMAIN kept /\ r[a] \in Items(kept)
    BY <1>5 DEF Items
  <2>2. r[a] \in Items(s) /\ r[a] \in Migrations
    BY <1>2, <2>1
  <2>3. PICK j \in DOMAIN s : s[j] = r[a]
    BY <2>2 DEF Items
  <2>4. PICK i \in 1..(j - 1) : s[i] = d
    BY <1>1, <2>3
  <2>5. i \in DOMAIN s /\ i < j
    BY <1>1, <2>3, <2>4
  <2>6. d \in S
    BY <1>8, <2>2, MigrationsAssumption DEF S
  <2>7. PICK b \in DOMAIN kept : b < a /\ kept[b] = d
    BY <1>3, <2>1, <2>3, <2>4, <2>5, <2>6
  <2>8. b \in 1..(a - 1) /\ b \in 1..k
    BY <1>4, <2>1, <2>7
  <2> QED  BY <1>5, <2>7, <2>8
<1>9. CanApply(r, h) /\ Items(r) \subseteq ReleaseSources(release)
  BY <1>6, <1>7, <1>8 DEF CanApply
<1>10. up(release, h, limit) = r
  BY DEF up, r, k, kept, s, S
<1> QED  BY <1>5, <1>9, <1>10

\* fresh: without a history all of the load can be applied.
LEMMA FreshFits ==
    ASSUME NEW release, Loadable(release), NEW h, Applied(h) = {}
    PROVE  /\ load(release) \in Seq(Migrations) /\ CanApply(load(release), h)
           /\ Items(load(release)) = ReleaseSources(release)
<1>1. /\ load(release) \in Seq(Migrations) /\ Distinct(load(release)) /\ Items(load(release)) = ReleaseSources(release)
      /\ \A i \in DOMAIN load(release) : \A d \in Deps[load(release)[i]] : \E j \in 1..(i - 1) : load(release)[j] = d
  BY LoadIsWhole DEF Orders
<1> QED  BY <1>1 DEF CanApply

\* What one deployer does changes the count of the commands by its own.
LEMMA BegunChanges ==
    ASSUME MigrationsTyped, MigrationsTyped', NEW p \in Deployers, \A q \in Deployers \ {p} : deploy'[q] = deploy[q]
    PROVE  /\ Begun \in Int /\ Begun' \in Int /\ Cardinality(Loaded) \in Nat /\ Cardinality(Loaded') \in Nat
           /\ Begun' = Begun + (starts' - starts) + (IF deploy[p].run.pc = "loaded" THEN 1 ELSE 0)
                                                  - (IF deploy'[p].run.pc = "loaded" THEN 1 ELSE 0)
<1> DEFINE K == Loaded \ {p}
<1>1. IsFiniteSet(Loaded) /\ IsFiniteSet(Loaded') /\ IsFiniteSet(K)
  BY MigrationsAssumption, FS_Subset DEF Loaded
<1>2. Cardinality(K) \in Nat /\ Cardinality(K \cup {p}) = Cardinality(K) + 1
  BY <1>1, FS_CardinalityType, FS_AddElement
<1>3. Loaded = IF deploy[p].run.pc = "loaded" THEN K \cup {p} ELSE K
  BY DEF Loaded
<1>4. Loaded' = IF deploy'[p].run.pc = "loaded" THEN K \cup {p} ELSE K
  BY DEF Loaded
<1>5. Cardinality(Loaded) = IF deploy[p].run.pc = "loaded" THEN Cardinality(K) + 1 ELSE Cardinality(K)
  BY <1>2, <1>3
<1>6. Cardinality(Loaded') = IF deploy'[p].run.pc = "loaded" THEN Cardinality(K) + 1 ELSE Cardinality(K)
  BY <1>2, <1>4
<1>7. starts \in Nat /\ starts' \in Nat
  BY MigrationsAssumption DEF MigrationsTyped
<1> QED  BY <1>2, <1>5, <1>6, <1>7 DEF Begun

\* A deployer keeps its promises while others act: whoever runs holds the lock.
LEMMA OthersKeep ==
    ASSUME MigrationsInv, MigrationsTyped', NEW q \in Deployers, deploy'[q] = deploy[q], Begun <= Begun', Begun' \in Int,
           deploy[q].run.pc = "running" => UNCHANGED <<history, tables>>,
           migrationLock' = q <=> migrationLock = q
    PROVE  DeployerIsSound(q)'
<1>1. DeployerIsSound(q) /\ Begun \in Int
  BY DEF MigrationsInv
<1>2. deploy[q].run \in Runs /\ history \in Histories
  BY DEF MigrationsInv, MigrationsTyped
<1>3. ASSUME deploy[q].run.pc = "running" PROVE RunIsSound(deploy[q].run, deploy[q].release)'
  <2> DEFINE r == deploy[q].run
             release == deploy[q].release
  <2>1. RunIsSound(r, release) /\ UNCHANGED <<history, tables>> /\ r' = r /\ release' = release
    BY <1>1, <1>3 DEF DeployerIsSound
  <2>2. r.savedHistory \in Histories /\ r.batch \in Nat
    BY <1>2, <2>1 DEF RunIsSound, Runs
  <2>3. BatchesUpTo(r.savedHistory, Begun) /\ r.batch <= Begun
    BY <2>1 DEF RunIsSound
  <2>4. BatchesUpTo(r.savedHistory, Begun') /\ r.batch <= Begun'
    <3>1. \A m \in Migrations : r.savedHistory[m].batch \in Nat
      BY <2>2, AppliedBatches
    <3> QED  BY <1>1, <2>2, <2>3, <3>1 DEF BatchesUpTo
  <2> HIDE DEF r, release
  <2>5. RunIsSound(r, release)'
    BY <2>1, <2>4 DEF RunIsSound, CanApply, CanUndo, RecordsAreSound, Consistent, Applied, Undoes
  <2> QED  BY <2>5 DEF r, release
<1> QED  BY <1>1, <1>3 DEF DeployerIsSound

LEMMA RestingIsARun ==
    Resting \in Runs /\ Resting.pc = "idle" /\ Resting.wrong = FALSE
<1> DEFINE empty == [m \in {} |-> 0]
           up1 == [name |-> "up", count |-> 1]
<1>1. up1 \in MigrateCommands
  BY DEF MigrateCommands
<1>2. Resting = [pc |-> "idle", todo |-> <<>>, batch |-> 0, savedHistory |-> empty, savedTables |-> {},
                 command |-> up1, wrong |-> FALSE]
  BY DEF Resting
<1> HIDE DEF empty, up1
<1>3. Resting.savedHistory = empty
  BY <1>2
<1> QED  BY <1>1, <1>2, <1>3 DEF Runs

LEMMA MigrationsBegin == MigrationsInit => MigrationsInv
<1> SUFFICES ASSUME MigrationsInit PROVE MigrationsInv
  OBVIOUS
<1>1. Resting \in Runs /\ Resting.pc = "idle" /\ Resting.wrong = FALSE
  BY RestingIsARun
<1>2. MigrationsTyped
  BY <1>1, MigrationsAssumption DEF MigrationsInit, MigrationsTyped, Histories, HistoryRecord, Unapplied
<1>3. Applied(history) = {} /\ \A m \in Migrations : history[m].batch = 0
  BY DEF MigrationsInit, Applied, Unapplied
<1>4. Loaded = {}
  BY <1>1 DEF MigrationsInit, Loaded
<1>5. Begun = 0
  BY <1>4, FS_EmptySet DEF Begun, MigrationsInit
<1>6. Consistent(history, tables) /\ BatchesUpTo(history, Begun)
  BY <1>3, <1>5 DEF MigrationsInit, Consistent, RecordsAreSound, BatchesUpTo
<1>7. \A p \in Deployers : DeployerIsSound(p)
  BY <1>1, MigrationsAssumption DEF MigrationsInit, DeployerIsSound
<1> QED  BY <1>2, <1>5, <1>6, <1>7 DEF MigrationsInv

LEMMA LoadsKeepsSound ==
    ASSUME MigrationsInv, NEW p \in Deployers, NEW release \in Releases, NEW command \in MigrateCommands,
           loads(p, release, command)
    PROVE  MigrationsInv'
<1> DEFINE run == [Resting EXCEPT !.pc = "loaded", !.command = command]
<1>1. /\ deploy[p].run.pc = "idle" /\ starts < MaxRuns /\ starts' = starts + 1 /\ Loadable(release)
      /\ deploy' = [deploy EXCEPT ![p] = [release |-> release, run |-> run]]
      /\ UNCHANGED <<history, tables, migrationLock>>
  BY DEF loads
<1>2. run \in Runs /\ run.pc = "loaded" /\ run.wrong = FALSE
  BY RestingIsARun DEF Runs
<1> HIDE DEF run
<1>3. MigrationsTyped /\ release \in [Migrations -> Nat]
  BY MigrationsAssumption DEF MigrationsInv
<1>4. MigrationsTyped'
  BY <1>1, <1>2, <1>3, MigrationsAssumption DEF MigrationsTyped
<1>5. /\ deploy'[p] = [release |-> release, run |-> run] /\ \A q \in Deployers \ {p} : deploy'[q] = deploy[q]
  BY <1>1, <1>3 DEF MigrationsTyped
<1>6. Begun' = Begun /\ Begun \in Int
  <2>1. starts \in Nat
    BY <1>3, MigrationsAssumption DEF MigrationsTyped
  <2> QED  BY <1>1, <1>2, <1>3, <1>4, <1>5, <2>1, BegunChanges
<1>7. ASSUME NEW q \in Deployers PROVE DeployerIsSound(q)'
  <2>1. CASE q = p
    <3>1. migrationLock # p
      BY <1>1 DEF MigrationsInv, DeployerIsSound
    <3> QED  BY <1>1, <1>2, <1>5, <2>1, <3>1 DEF DeployerIsSound
  <2>2. CASE q # p
    BY <1>1, <1>4, <1>5, <1>6, <2>2, OthersKeep
  <2> QED  BY <2>1, <2>2
<1>8. BatchesUpTo(history, Begun)' /\ (migrationLock' = "none" => Consistent(history, tables)') /\ Begun' >= 0
  BY <1>1, <1>6 DEF MigrationsInv, BatchesUpTo, Consistent, RecordsAreSound, Applied
<1> QED  BY <1>4, <1>6, <1>7, <1>8 DEF MigrationsInv

\* The largest batch is one of the history, or 0.
LEMMA LargestBatch ==
    ASSUME NEW h \in Histories, NEW n \in Nat, BatchesUpTo(h, n)
    PROVE  /\ Largest(Batches(h)) \in Nat /\ Largest(Batches(h)) <= n
           /\ \A m \in Migrations : h[m].batch <= Largest(Batches(h))
<1> DEFINE S == Batches(h)
           left == {n - b : b \in S}
<1>1. \A b \in S : b \in Nat /\ b <= n
  BY AppliedBatches DEF Batches, BatchesUpTo
<1>2. \A m \in Migrations : h[m].batch = 0 \/ h[m].batch \in S
  BY AppliedBatches DEF Batches
<1> HIDE DEF S
<1>3. CASE S = {}
  BY <1>2, <1>3 DEF Largest, S
<1>4. CASE S # {}
  <2>1. left \in SUBSET Nat /\ left # {}
    BY <1>1, <1>4
  <2>2. PICK x \in left : \A y \in left : x <= y
    <3> HIDE DEF left
    <3> QED  BY <2>1, LeastNumber
  <2>3. PICK b \in S : x = n - b
    OBVIOUS
  <2>4. \A c \in S : c <= b
    <3> SUFFICES ASSUME NEW c \in S PROVE c <= b
      OBVIOUS
    <3>1. n - c \in left
      OBVIOUS
    <3>2. n - b <= n - c
      BY <2>2, <2>3, <3>1
    <3> QED  BY <1>1, <3>2
  <2> DEFINE l == CHOOSE c \in S : \A d \in S : d <= c
  <2>5. l \in S /\ \A d \in S : d <= l
    BY <2>4
  <2>6. Largest(S) = l
    BY <1>4 DEF Largest
  <2> HIDE DEF l
  <2>7. l \in Nat /\ l <= n /\ \A m \in Migrations : h[m].batch <= l
    BY <1>1, <1>2, <2>5
  <2> QED  BY <2>6, <2>7 DEF S
<1> QED  BY <1>3, <1>4

\* The list of a command that is not refused fits the history that it starts from.
LEMMA PlansFit ==
    ASSUME MigrationsInv, NEW p \in Deployers, deploy[p].run.pc = "loaded", migrationLock = "none",
           checkedRecords(deploy[p].release, history), NEW h, 
           h = IF deploy[p].run.command.name = "fresh" THEN [m \in Migrations |-> Unapplied] ELSE history
    PROVE  /\ Plan(p) \in Seq(Migrations)
           /\ IF Undoes(deploy[p].run.command) THEN CanUndo(Plan(p), h)
              ELSE CanApply(Plan(p), h) /\ Items(Plan(p)) \subseteq ReleaseSources(deploy[p].release)
           /\ deploy[p].run.command.name = "fresh" => Items(Plan(p)) = ReleaseSources(deploy[p].release)
<1> DEFINE c == deploy[p].run.command
           release == deploy[p].release
<1>1. /\ history \in Histories /\ Loadable(release) /\ RecordsAreSound(history) /\ release \in [Migrations -> Nat]
  BY DEF MigrationsInv, MigrationsTyped, DeployerIsSound, Consistent
<1>2. c \in MigrateCommands
  BY DEF MigrationsInv, MigrationsTyped, Runs
<1>3. c.name \in {"up", "rollback", "reset", "fresh"} /\ c.count \in Nat
  BY <1>2 DEF MigrateCommands
<1>4. Undoes(c) <=> c.name \in {"rollback", "reset"}
  BY DEF Undoes
<1>5. Plan(p) = CASE c.name = "up" -> up(release, history, c.count)
                  [] c.name = "rollback" -> rollback(release, history, c.count)
                  [] c.name = "reset" -> reset(release, history)
                  [] OTHER -> load(release)
  BY DEF Plan
<1>6. h = IF c.name = "fresh" THEN [m \in Migrations |-> Unapplied] ELSE history
  OBVIOUS
<1>7. checkedRecords(release, history)
  OBVIOUS
<1> HIDE DEF c, release
<1>8. CASE c.name = "up"
  <2>1. Plan(p) = up(release, history, c.count) /\ h = history /\ ~Undoes(c)
    BY <1>4, <1>5, <1>6, <1>8
  <2> QED  BY <1>1, <1>3, <1>8, <2>1, UpFits DEF c, release
<1>9. CASE c.name = "rollback"
  <2>1. Plan(p) = rollback(release, history, c.count) /\ h = history /\ Undoes(c)
    BY <1>4, <1>5, <1>6, <1>9
  <2> QED  BY <1>1, <1>3, <1>7, <1>9, <2>1, RollbackFits DEF c, release
<1>10. CASE c.name = "reset"
  <2>1. Plan(p) = reset(release, history) /\ h = history /\ Undoes(c)
    BY <1>4, <1>5, <1>6, <1>10
  <2> QED  BY <1>1, <1>7, <1>10, <2>1, ResetFits DEF c, release
<1>11. CASE c.name = "fresh"
  <2>1. Plan(p) = load(release) /\ h = [m \in Migrations |-> Unapplied] /\ ~Undoes(c)
    BY <1>4, <1>5, <1>6, <1>11
  <2>2. Applied(h) = {}
    BY <2>1 DEF Applied, Unapplied
  <2> QED  BY <1>1, <2>1, <2>2, FreshFits DEF c, release
<1> QED  BY <1>3, <1>8, <1>9, <1>10, <1>11

LEMMA LocksKeepsSound ==
    ASSUME MigrationsInv, NEW p \in Deployers, locks(p)
    PROVE  MigrationsInv'
<1> DEFINE c == deploy[p].run.command
           release == deploy[p].release
           fresh == c.name = "fresh"
           refused == ~checkedRecords(release, history) \/ (Undoes(c) /\ ~assertReversible(Items(Plan(p))))
           run == [deploy[p].run EXCEPT !.pc = "running", !.todo = Plan(p),
                     !.batch = IF fresh THEN 1 ELSE Largest(Batches(history)) + 1,
                     !.savedHistory = history, !.savedTables = tables]
<1>1. deploy[p].run.pc = "loaded" /\ migrationLock = "none" /\ starts' = starts
  BY DEF locks
<1>2. /\ MigrationsTyped /\ Begun \in Nat /\ BatchesUpTo(history, Begun) /\ Consistent(history, tables) /\ history \in Histories
      /\ deploy[p].run \in Runs /\ release \in [Migrations -> Nat] /\ Loadable(release) /\ c \in MigrateCommands
  BY <1>1 DEF MigrationsInv, MigrationsTyped, DeployerIsSound, Runs
<1>3. CASE refused
  <2>1. deploy' = [deploy EXCEPT ![p].run = Resting] /\ UNCHANGED <<history, tables, migrationLock>>
    BY <1>3 DEF locks, Become
  <2>2. MigrationsTyped'
    BY <1>1, <1>2, <2>1, RestingIsARun DEF MigrationsTyped
  <2>3. deploy'[p].run = Resting /\ \A q \in Deployers \ {p} : deploy'[q] = deploy[q]
    BY <1>2, <2>1 DEF MigrationsTyped
  <2>4. Begun' = Begun + 1
    <3>1. starts \in Nat /\ Resting.pc # "loaded"
      BY <1>2, MigrationsAssumption, RestingIsARun DEF MigrationsTyped
    <3> QED  BY <1>1, <1>2, <2>2, <2>3, <3>1, BegunChanges
  <2>5. ASSUME NEW q \in Deployers PROVE DeployerIsSound(q)'
    <3>1. CASE q = p
      BY <1>1, <2>1, <2>3, <3>1, RestingIsARun, MigrationsAssumption DEF DeployerIsSound
    <3>2. CASE q # p
      BY <1>2, <2>1, <2>2, <2>3, <2>4, <3>2, OthersKeep
    <3> QED  BY <3>1, <3>2
  <2>6. BatchesUpTo(history, Begun)' /\ Consistent(history, tables)'
    <3>1. \A m \in Migrations : history[m].batch \in Nat
      BY <1>2, AppliedBatches
    <3> QED  BY <1>2, <2>1, <2>4, <3>1 DEF BatchesUpTo, Consistent, RecordsAreSound, Applied
  <2> QED  BY <1>2, <2>2, <2>4, <2>5, <2>6 DEF MigrationsInv
<1>4. CASE ~refused
  <2>1. /\ migrationLock' = p /\ deploy' = [deploy EXCEPT ![p].run = run]
        /\ history' = IF fresh THEN [m \in Migrations |-> Unapplied] ELSE history
        /\ tables' = IF fresh THEN dropOwned(tables) ELSE tables
    BY <1>4 DEF locks, Become
  <2>2. checkedRecords(release, history)
    BY <1>4
  <2>3. /\ Plan(p) \in Seq(Migrations)
        /\ IF Undoes(c) THEN CanUndo(Plan(p), history')
           ELSE CanApply(Plan(p), history') /\ Items(Plan(p)) \subseteq ReleaseSources(release)
        /\ fresh => Items(Plan(p)) = ReleaseSources(release)
    <3>1. PICK h : h = history'
      OBVIOUS
    <3>2. h = IF deploy[p].run.command.name = "fresh" THEN [m \in Migrations |-> Unapplied] ELSE history
      BY <2>1, <3>1
    <3>3. /\ Plan(p) \in Seq(Migrations)
          /\ IF Undoes(deploy[p].run.command) THEN CanUndo(Plan(p), h)
             ELSE CanApply(Plan(p), h) /\ Items(Plan(p)) \subseteq ReleaseSources(deploy[p].release)
          /\ deploy[p].run.command.name = "fresh" => Items(Plan(p)) = ReleaseSources(deploy[p].release)
      <4> HIDE DEF c, release, fresh, refused, run
      <4> QED  BY <1>1, <2>2, <3>2, PlansFit DEF release
    <3> QED  BY <3>1, <3>3
  <2>4. /\ Largest(Batches(history)) \in Nat /\ Largest(Batches(history)) <= Begun
        /\ \A m \in Migrations : history[m].batch \in Nat /\ history[m].batch <= Largest(Batches(history))
    BY <1>2, LargestBatch, AppliedBatches
  <2>5. /\ run \in Runs /\ run.pc = "running" /\ run.todo = Plan(p) /\ run.command = c /\ run.wrong = deploy[p].run.wrong
        /\ run.savedHistory = history /\ run.savedTables = tables
        /\ run.batch = IF fresh THEN 1 ELSE Largest(Batches(history)) + 1
    <3> DEFINE batch == IF fresh THEN 1 ELSE Largest(Batches(history)) + 1
    <3>1. batch \in Nat /\ tables \subseteq Migrations
      BY <1>2, <2>4 DEF MigrationsTyped
    <3> HIDE DEF batch
    <3>2. run = [deploy[p].run EXCEPT !.pc = "running", !.todo = Plan(p), !.batch = batch,
                     !.savedHistory = history, !.savedTables = tables]
      BY DEF batch
    <3> HIDE DEF run
    <3>3. run \in Runs /\ run.pc = "running" /\ run.todo = Plan(p) /\ run.command = c /\ run.wrong = deploy[p].run.wrong
          /\ run.savedHistory = history /\ run.savedTables = tables /\ run.batch = batch
      BY <1>2, <2>3, <3>1, <3>2 DEF Runs
    <3> QED  BY <3>3 DEF batch
  <2>6. deploy'[p].run = run /\ deploy'[p].release = release /\ \A q \in Deployers \ {p} : deploy'[q] = deploy[q]
    BY <1>2, <2>1 DEF MigrationsTyped
  <2>7. history' \in Histories /\ tables' \subseteq Migrations
    <3>1. [m \in Migrations |-> Unapplied] \in Histories
      BY DEF Histories, HistoryRecord, Unapplied
    <3> QED  BY <1>2, <2>1, <3>1 DEF MigrationsTyped, dropOwned
  <2>8. MigrationsTyped'
    BY <1>1, <1>2, <2>1, <2>5, <2>7 DEF MigrationsTyped
  <2>9. Begun' = Begun + 1
    <3>1. starts \in Nat
      BY <1>2, MigrationsAssumption DEF MigrationsTyped
    <3>2. deploy'[p].run.pc = "running" /\ deploy[p].run.pc = "loaded" /\ \A q \in Deployers \ {p} : deploy'[q] = deploy[q]
      BY <1>1, <2>5, <2>6
    <3>3. MigrationsTyped /\ MigrationsTyped'
      BY <1>2, <2>8
    <3> HIDE DEF run, c, release, fresh, refused
    <3>4. Begun' = Begun + (starts' - starts) + 1 - 0 /\ Begun \in Int
      BY <3>2, <3>3, BegunChanges
    <3> QED  BY <1>1, <3>1, <3>4
  <2> HIDE DEF run
  <2>10. run.batch \in Nat \ {0} /\ run.batch <= Begun' /\ \A m \in Migrations : history'[m].batch <= run.batch
    <3>1. fresh => \A m \in Migrations : history'[m].batch = 0
      BY <2>1 DEF Unapplied
    <3>2. ~fresh => history' = history
      BY <2>1
    <3> QED  BY <1>2, <2>4, <2>5, <2>9, <3>1, <3>2
  <2>11. BatchesUpTo(history, Begun)'
    <3>1. \A m \in Migrations : history'[m].batch \in Nat
      BY <2>7, AppliedBatches
    <3> QED  BY <1>2, <2>9, <2>10, <3>1 DEF BatchesUpTo
  <2>12. RecordsAreSound(history') /\ Applied(history') \subseteq tables' /\ (~fresh \/ Owned = Migrations => Applied(history') = tables')
    <3>1. CASE fresh
      <4>1. Applied(history') = {}
        BY <2>1, <3>1 DEF Applied, Unapplied
      <4>2. Owned = Migrations => tables' = {}
        BY <1>2, <2>1, <3>1 DEF dropOwned, MigrationsTyped
      <4> QED  BY <3>1, <4>1, <4>2 DEF RecordsAreSound
    <3>2. CASE ~fresh
      BY <1>2, <2>1, <3>2 DEF Consistent
    <3> QED  BY <3>1, <3>2
  <2>13. ~Undoes(c) => tables' \ Applied(history') \subseteq Items(Plan(p))
    <3>1. CASE fresh
      <4> SUFFICES ASSUME NEW m \in tables' PROVE m \in Items(Plan(p))
        OBVIOUS
      <4>1. m \in Applied(history) /\ m \in Migrations
        BY <1>2, <2>1, <3>1 DEF dropOwned, Consistent, Applied
      <4>2. release[m] > 0
        BY <1>2, <2>2, <4>1 DEF checkedRecords, Consistent, RecordsAreSound
      <4> QED  BY <2>3, <3>1, <4>1, <4>2 DEF ReleaseSources
    <3>2. CASE ~fresh
      BY <2>12, <3>2
    <3> QED  BY <3>1, <3>2
  <2>14. BatchesUpTo(history, Begun')
    BY <1>2, <2>4, <2>9 DEF BatchesUpTo
  <2>15. fresh => ~Undoes(c)
    BY DEF Undoes
  <2>16. PICK r, rel : r = run /\ rel = release
    OBVIOUS
  <2>17. /\ r.todo = Plan(p) /\ r.command = c /\ r.savedHistory = history /\ r.savedTables = tables
         /\ r.batch \in Nat \ {0} /\ r.batch <= Begun' /\ \A m \in Migrations : history'[m].batch <= r.batch
         /\ Consistent(r.savedHistory, r.savedTables) /\ r.savedHistory \in Histories /\ BatchesUpTo(r.savedHistory, Begun')
         /\ deploy'[p].run = r /\ deploy'[p].release = rel /\ Loadable(rel) /\ r.pc = "running"
    BY <1>2, <2>5, <2>6, <2>10, <2>14, <2>16
  <2>18. RunIsSound(r, rel)'
    <3>1. CASE Undoes(c)
      <4>1. ~fresh /\ CanUndo(r.todo, history')
        BY <2>3, <2>15, <2>17, <3>1
      <4> HIDE DEF c, fresh, release, refused
      <4> QED  BY <2>12, <2>17, <3>1, <4>1 DEF RunIsSound
    <3>2. CASE ~Undoes(c)
      <4>1. CanApply(r.todo, history') /\ \A m \in Items(r.todo) : rel[m] > 0
        BY <2>3, <2>16, <2>17, <3>2 DEF ReleaseSources
      <4>2. tables' \ Applied(history') \subseteq Items(r.todo)
        BY <2>13, <2>17, <3>2
      <4>3. (r.command.name = "up" => ~fresh) /\ r.batch > 0
        BY <2>17
      <4> HIDE DEF c, fresh, release, refused
      <4> QED  BY <2>12, <2>17, <3>2, <4>1, <4>2, <4>3 DEF RunIsSound
    <3> QED  BY <3>1, <3>2
  <2>19. ASSUME NEW q \in Deployers PROVE DeployerIsSound(q)'
    <3>1. CASE q = p
      <4>1. r.wrong => r.command.name = "fresh" /\ Owned # Migrations
        BY <2>5, <2>16 DEF MigrationsInv, DeployerIsSound
      <4>2. RunIsSound(deploy[p].run, deploy[p].release)'
        BY <2>17, <2>18 DEF RunIsSound
      <4> QED  BY <2>1, <2>17, <3>1, <4>1, <4>2 DEF DeployerIsSound
    <3>2. CASE q # p
      <4>1. deploy[q].run.pc # "running" /\ migrationLock # q /\ migrationLock' # q
        BY <1>1, <2>1, <3>2, MigrationsAssumption DEF MigrationsInv, DeployerIsSound
      <4> QED  BY <1>2, <2>6, <2>8, <2>9, <3>2, <4>1, OthersKeep
    <3> QED  BY <3>1, <3>2
  <2>20. migrationLock' # "none"
    BY <2>1, MigrationsAssumption
  <2> QED  BY <1>2, <2>8, <2>9, <2>11, <2>19, <2>20 DEF MigrationsInv
<1> QED  BY <1>3, <1>4

\* The rest of a list still fits after its first migration was executed.
LEMMA RestCanBeUndone ==
    ASSUME NEW s \in Seq(Migrations), s # <<>>, NEW h, NEW g, CanUndo(s, h), Applied(g) = Applied(h) \ {Head(s)}
    PROVE  Tail(s) \in Seq(Migrations) /\ CanUndo(Tail(s), g)
<1> DEFINE t == Tail(s)
<1>1. /\ t \in Seq(Migrations) /\ Len(s) \in Nat /\ DOMAIN s = 1..Len(s) /\ DOMAIN t = 1..(Len(s) - 1) /\ Head(s) = s[1]
      /\ 1 \in DOMAIN s /\ \A i \in 1..(Len(s) - 1) : t[i] = s[i + 1] /\ i + 1 \in DOMAIN s /\ i + 1 # 1
  BY HeadTailProperties
<1> HIDE DEF t
<1>2. ASSUME NEW i \in DOMAIN t, NEW j \in DOMAIN t, t[i] = t[j] PROVE i = j
  <2>1. i + 1 = j + 1
    BY <1>1, <1>2 DEF CanUndo, Distinct
  <2> QED  BY <1>1, <2>1
<1>3. ASSUME NEW i \in DOMAIN t PROVE t[i] \in Applied(g)
  <2>1. s[i + 1] \in Applied(h) /\ s[i + 1] # s[1]
    BY <1>1 DEF CanUndo, Distinct, Items
  <2> QED  BY <1>1, <2>1
<1>4. ASSUME NEW k \in DOMAIN t, NEW n \in Applied(g), t[k] \in Deps[n] PROVE \E j \in 1..(k - 1) : t[j] = n
  <2>1. PICK j \in 1..k : s[j] = n
    <3>1. k + 1 \in DOMAIN s /\ n \in Applied(h) /\ s[k + 1] \in Deps[n] /\ (k + 1) - 1 = k
      BY <1>1, <1>4
    <3> QED  BY <3>1 DEF CanUndo
  <2>2. j # 1 /\ n # Head(s)
    BY <1>1, <2>1
  <2>3. j - 1 \in 1..(k - 1) /\ j - 1 \in 1..(Len(s) - 1) /\ (j - 1) + 1 = j
    BY <1>1, <2>1, <2>2
  <2>4. t[j - 1] = n
    BY <1>1, <2>1, <2>3
  <2> QED  BY <2>3, <2>4
<1> QED  BY <1>1, <1>2, <1>3, <1>4 DEF CanUndo, Distinct, Items, t

LEMMA RestCanBeApplied ==
    ASSUME NEW s \in Seq(Migrations), s # <<>>, NEW h, NEW g, CanApply(s, h), Applied(g) = Applied(h) \cup {Head(s)}
    PROVE  /\ Tail(s) \in Seq(Migrations) /\ CanApply(Tail(s), g)
           /\ \A m : m \in Items(s) <=> m = Head(s) \/ m \in Items(Tail(s))
<1> DEFINE t == Tail(s)
<1>1. /\ t \in Seq(Migrations) /\ Len(s) \in Nat /\ DOMAIN s = 1..Len(s) /\ DOMAIN t = 1..(Len(s) - 1) /\ Head(s) = s[1]
      /\ 1 \in DOMAIN s /\ \A i \in 1..(Len(s) - 1) : t[i] = s[i + 1] /\ i + 1 \in DOMAIN s /\ i + 1 # 1
  BY HeadTailProperties
<1> HIDE DEF t
<1>2. ASSUME NEW i \in DOMAIN t, NEW j \in DOMAIN t, t[i] = t[j] PROVE i = j
  <2>1. i + 1 = j + 1
    BY <1>1, <1>2 DEF CanApply, Distinct
  <2> QED  BY <1>1, <2>1
<1>3. ASSUME NEW i \in DOMAIN t PROVE t[i] \notin Applied(g)
  <2>1. s[i + 1] \notin Applied(h) /\ s[i + 1] # s[1]
    BY <1>1 DEF CanApply, Distinct, Items
  <2> QED  BY <1>1, <2>1
<1>4. ASSUME NEW k \in DOMAIN t, NEW d \in Deps[t[k]], d \notin Applied(g) PROVE \E j \in 1..(k - 1) : t[j] = d
  <2>1. PICK j \in 1..k : s[j] = d
    <3>1. k + 1 \in DOMAIN s /\ d \notin Applied(h) /\ d \in Deps[s[k + 1]] /\ (k + 1) - 1 = k
      BY <1>1, <1>4
    <3> QED  BY <3>1 DEF CanApply
  <2>2. j # 1
    BY <1>1, <1>4, <2>1
  <2>3. j - 1 \in 1..(k - 1) /\ j - 1 \in 1..(Len(s) - 1) /\ (j - 1) + 1 = j
    BY <1>1, <2>1, <2>2
  <2>4. t[j - 1] = d
    BY <1>1, <2>1, <2>3
  <2> QED  BY <2>3, <2>4
<1>5. ASSUME NEW i \in DOMAIN s, s[i] # Head(s) PROVE s[i] \in Items(t)
  <2>1. i - 1 \in DOMAIN t /\ (i - 1) + 1 = i
    BY <1>1, <1>5
  <2>2. t[i - 1] = s[i]
    BY <1>1, <2>1
  <2> QED  BY <2>1, <2>2 DEF Items
<1>6. \A i \in DOMAIN t : t[i] \in Items(s)
  BY <1>1 DEF Items
<1>7. \A m : m \in Items(s) <=> m = Head(s) \/ m \in Items(t)
  BY <1>1, <1>5, <1>6 DEF Items
<1>8. CanApply(t, g)
  BY <1>2, <1>3, <1>4 DEF CanApply, Distinct, Items
<1> QED  BY <1>1, <1>7, <1>8 DEF t

\* The end of a command, with what it made or with what it found: the lock is free.
LEMMA EndsKeepSound ==
    ASSUME MigrationsInv, NEW p \in Deployers, deploy[p].run.pc = "running",
           NEW rest \in Runs, rest.pc = "idle", rest.wrong => rest.command.name = "fresh" /\ Owned # Migrations,
           deploy' = [deploy EXCEPT ![p].run = rest], migrationLock' = "none", starts' = starts,
           history' \in Histories, tables' \subseteq Migrations, Consistent(history', tables'), BatchesUpTo(history', Begun)
    PROVE  MigrationsInv'
<1>1. MigrationsTyped /\ Begun \in Nat /\ migrationLock = p
  BY DEF MigrationsInv, DeployerIsSound
<1>2. MigrationsTyped'
  BY <1>1 DEF MigrationsTyped
<1>3. deploy'[p].run = rest /\ \A q \in Deployers \ {p} : deploy'[q] = deploy[q]
  BY <1>1 DEF MigrationsTyped
<1>4. Begun' = Begun
  <2>1. starts \in Nat
    BY <1>1, MigrationsAssumption DEF MigrationsTyped
  <2> QED  BY <1>1, <1>2, <1>3, <2>1, BegunChanges
<1>5. ASSUME NEW q \in Deployers PROVE DeployerIsSound(q)'
  <2>1. CASE q = p
    BY <1>3, <2>1, MigrationsAssumption DEF DeployerIsSound
  <2>2. CASE q # p
    <3>1. deploy[q].run.pc # "running" /\ migrationLock # q /\ migrationLock' # q
      BY <1>1, <2>2, MigrationsAssumption DEF MigrationsInv, DeployerIsSound
    <3> QED  BY <1>1, <1>2, <1>3, <1>4, <2>2, <3>1, OthersKeep
  <2> QED  BY <2>1, <2>2
<1>6. BatchesUpTo(history, Begun)' /\ Consistent(history, tables)'
  BY <1>4 DEF BatchesUpTo, Consistent, RecordsAreSound, Applied
<1> QED  BY <1>1, <1>2, <1>4, <1>5, <1>6 DEF MigrationsInv

LEMMA CommitsKeepsSound ==
    ASSUME MigrationsInv, NEW p \in Deployers, commits(p)
    PROVE  MigrationsInv'
<1>1. /\ deploy[p].run.pc = "running" /\ deploy[p].run.todo = <<>> /\ migrationLock' = "none"
      /\ deploy' = [deploy EXCEPT ![p].run = Resting] /\ UNCHANGED <<history, tables, starts>>
  BY DEF commits, Become
<1>2. RunIsSound(deploy[p].run, deploy[p].release) /\ MigrationsTyped /\ BatchesUpTo(history, Begun)
  BY <1>1 DEF MigrationsInv, DeployerIsSound
<1>3. Items(deploy[p].run.todo) = {}
  BY <1>1 DEF Items
<1>4. Applied(history) = tables /\ RecordsAreSound(history)
  BY <1>2, <1>3 DEF RunIsSound
<1>5. history' \in Histories /\ tables' \subseteq Migrations /\ Consistent(history', tables') /\ BatchesUpTo(history', Begun)
  BY <1>1, <1>2, <1>4 DEF MigrationsTyped, Consistent
<1> QED  BY <1>1, <1>5, RestingIsARun, EndsKeepSound

LEMMA MigrationFailsKeepsSound ==
    ASSUME MigrationsInv, NEW p \in Deployers, migrationFails(p)
    PROVE  MigrationsInv'
<1>1. /\ deploy[p].run.pc = "running" /\ history' = deploy[p].run.savedHistory /\ tables' = deploy[p].run.savedTables
      /\ migrationLock' = "none" /\ deploy' = [deploy EXCEPT ![p].run = Resting] /\ starts' = starts
  BY DEF migrationFails, Become
<1>2. RunIsSound(deploy[p].run, deploy[p].release) /\ deploy[p].run \in Runs
  BY <1>1 DEF MigrationsInv, DeployerIsSound, MigrationsTyped
<1>3. history' \in Histories /\ tables' \subseteq Migrations /\ Consistent(history', tables') /\ BatchesUpTo(history', Begun)
  BY <1>1, <1>2 DEF RunIsSound, Runs
<1> QED  BY <1>1, <1>3, RestingIsARun, EndsKeepSound

\* The first migration of a list that fits can be undone, and leaves what is applied sound.
LEMMA UndoesFirst ==
    ASSUME NEW h \in Histories, NEW g \in Histories, NEW s \in Seq(Migrations), s # <<>>, CanUndo(s, h), RecordsAreSound(h),
           NEW m, m = Head(s), g = [h EXCEPT ![m] = Unapplied]
    PROVE  /\ m \in Applied(h) /\ \A n \in Applied(h) : m \notin Deps[n]
           /\ Applied(g) = Applied(h) \ {m} /\ RecordsAreSound(g)
<1>1. m = s[1] /\ 1 \in DOMAIN s
  BY HeadTailProperties
<1>2. m \in Applied(h) /\ m \in Migrations
  BY <1>1, AppliedBatches DEF CanUndo, Items
<1>3. \A n \in Applied(h) : m \notin Deps[n]
  <2> SUFFICES ASSUME NEW n \in Applied(h), m \in Deps[n] PROVE FALSE
    OBVIOUS
  <2>1. \E j \in 1..(1 - 1) : s[j] = n
    BY <1>1 DEF CanUndo
  <2> QED  BY <2>1
<1>4. /\ \A n \in Migrations : n # m => g[n] = h[n]
      /\ g[m].batch = 0
  BY <1>2 DEF Histories, Unapplied
<1>5. Applied(g) = Applied(h) \ {m}
  BY <1>4 DEF Applied
<1>6. ASSUME NEW n \in Applied(g) PROVE g[n].checksum > 0 /\ \A d \in Deps[n] : g[d].batch \in 1..g[n].batch
  <2>1. n \in Applied(h) /\ n # m /\ n \in Migrations /\ g[n] = h[n]
    BY <1>4, <1>5, AppliedBatches
  <2>2. ASSUME NEW d \in Deps[n] PROVE g[d].batch \in 1..g[n].batch
    <3>1. d \in Migrations /\ d # m
      BY <1>3, <2>1, MigrationsAssumption
    <3> QED  BY <1>4, <2>1, <3>1 DEF RecordsAreSound
  <2> QED  BY <2>1, <2>2 DEF RecordsAreSound
<1> QED  BY <1>2, <1>3, <1>5, <1>6 DEF RecordsAreSound

\* The history with a migration recorded in a batch.
Marked(h, m, batch, sum) == [h EXCEPT ![m] = [batch |-> batch, checksum |-> sum]]

\* The first migration of a list that fits finds its dependencies applied, and is recorded soundly.
LEMMA AppliesFirst ==
    ASSUME NEW h \in Histories, NEW g \in Histories, NEW s \in Seq(Migrations), s # <<>>, CanApply(s, h), RecordsAreSound(h),
           NEW m, m = Head(s), NEW batch \in Nat \ {0}, NEW sum \in Nat \ {0}, \A n \in Migrations : h[n].batch <= batch,
           g = Marked(h, m, batch, sum)
    PROVE  /\ m \in Migrations \ Applied(h) /\ Deps[m] \subseteq Applied(h) /\ m \in Items(s)
           /\ Applied(g) = Applied(h) \cup {m} /\ RecordsAreSound(g) /\ \A n \in Migrations : g[n].batch <= batch
<1>1. m = s[1] /\ 1 \in DOMAIN s /\ m \in Migrations
  BY HeadTailProperties
<1>2. m \notin Applied(h) /\ m \in Items(s)
  BY <1>1 DEF CanApply, Items
<1>3. Deps[m] \subseteq Applied(h)
  <2> SUFFICES ASSUME NEW d \in Deps[m], d \notin Applied(h) PROVE FALSE
    OBVIOUS
  <2>1. \E j \in 1..(1 - 1) : s[j] = d
    BY <1>1 DEF CanApply
  <2> QED  BY <2>1
<1>4. /\ \A n \in Migrations : n # m => g[n] = h[n]
      /\ g[m].batch = batch /\ g[m].checksum = sum
  BY <1>1 DEF Histories, Marked
<1>5. Applied(g) = Applied(h) \cup {m}
  BY <1>1, <1>4 DEF Applied
<1>6. ASSUME NEW n \in Applied(g) PROVE g[n].checksum > 0 /\ \A d \in Deps[n] : g[d].batch \in 1..g[n].batch
  <2>1. CASE n = m
    <3>1. ASSUME NEW d \in Deps[m] PROVE g[d].batch \in 1..batch
      <4>1. d \in Applied(h) /\ d \in Migrations /\ d # m
        BY <1>2, <1>3, AppliedBatches
      <4>2. h[d].batch \in Nat /\ h[d].batch > 0 /\ h[d].batch <= batch /\ g[d] = h[d]
        BY <1>4, <4>1, AppliedBatches
      <4> QED  BY <4>2
    <3> QED  BY <1>4, <2>1, <3>1
  <2>2. CASE n # m
    <3>1. n \in Applied(h) /\ n \in Migrations /\ g[n] = h[n]
      BY <1>4, <1>5, <2>2, AppliedBatches
    <3>2. ASSUME NEW d \in Deps[n] PROVE g[d].batch \in 1..g[n].batch
      <4>1. d \in Migrations /\ h[d].batch \in 1..h[n].batch
        BY <3>1, MigrationsAssumption DEF RecordsAreSound
      <4>2. h[n].batch \in Nat /\ h[d].batch \in Nat
        BY <3>1, <4>1, AppliedBatches
      <4>3. d # m
        BY <1>2, <4>1, <4>2, AppliedBatches
      <4> QED  BY <1>4, <3>1, <4>1, <4>3
    <3> QED  BY <3>1, <3>2 DEF RecordsAreSound
  <2> QED  BY <2>1, <2>2
<1>7. \A n \in Migrations : g[n].batch <= batch
  BY <1>4
<1> QED  BY <1>1, <1>2, <1>3, <1>5, <1>6, <1>7 DEF RecordsAreSound

\* The record of what an executed migration changes.
LEMMA RecordedHistory ==
    ASSUME MigrationsTyped, NEW p \in Deployers, NEW m \in Migrations
    PROVE  recorded(p, m) \in Histories
<1>1. deploy[p].run.batch \in Nat /\ deploy[p].release[m] \in Nat /\ history \in Histories
  BY DEF MigrationsTyped, Runs
<1>2. Unapplied \in HistoryRecord /\ [batch |-> deploy[p].run.batch, checksum |-> deploy[p].release[m]] \in HistoryRecord
  BY <1>1 DEF HistoryRecord, Unapplied
<1> QED  BY <1>1, <1>2 DEF recorded, Histories

LEMMA ExecutesKeepsSound ==
    ASSUME MigrationsInv, NEW p \in Deployers, executes(p)
    PROVE  MigrationsInv'
<1>1. PICK r, rel, m, s : r = deploy[p].run /\ rel = deploy[p].release /\ m = Head(deploy[p].run.todo) /\ s = r.todo
  OBVIOUS
<1>2. /\ r.pc = "running" /\ s # <<>> /\ starts' = starts /\ m = Head(s)
      /\ IF Possible(r.command, m)
         THEN /\ tables' = IF Undoes(r.command) THEN tables \ {m} ELSE tables \union {m}
              /\ history' = recorded(p, m) /\ deploy' = [deploy EXCEPT ![p].run = [r EXCEPT !.todo = Tail(@)]]
              /\ migrationLock' = migrationLock
         ELSE /\ history' = r.savedHistory /\ tables' = r.savedTables /\ migrationLock' = "none"
              /\ deploy' = [deploy EXCEPT ![p].run = [Resting EXCEPT !.command = r.command, !.wrong = TRUE]]
  BY <1>1 DEF executes, Become
<1>3. /\ MigrationsTyped /\ RunIsSound(r, rel) /\ r \in Runs /\ rel \in [Migrations -> Nat] /\ Loadable(rel)
      /\ history \in Histories /\ tables \subseteq Migrations /\ migrationLock = p /\ Begun \in Nat
  BY <1>1, <1>2 DEF MigrationsInv, MigrationsTyped, DeployerIsSound
<1>4. /\ s \in Seq(Migrations) /\ m \in Migrations /\ r.command \in MigrateCommands
      /\ r.command.name \in {"up", "rollback", "reset", "fresh"}
  <2>1. s \in Seq(Migrations) /\ r.command \in MigrateCommands
    BY <1>1, <1>3 DEF Runs
  <2>2. m \in Migrations
    BY <1>2, <2>1, HeadTailProperties
  <2> QED  BY <2>1, <2>2 DEF MigrateCommands
<1>5. /\ RecordsAreSound(history) /\ Applied(history) \subseteq tables
      /\ Consistent(r.savedHistory, r.savedTables) /\ r.savedHistory \in Histories /\ BatchesUpTo(r.savedHistory, Begun)
      /\ r.batch \in Nat /\ r.batch <= Begun
  BY <1>3 DEF RunIsSound, Runs
<1>6. Undoes(r.command) => Applied(history) = tables /\ CanUndo(s, history)
  BY <1>1, <1>3 DEF RunIsSound
<1>7. ~Undoes(r.command) =>
         /\ r.batch > 0 /\ \A n \in Migrations : history[n].batch <= r.batch
         /\ CanApply(s, history) /\ \A n \in Items(s) : rel[n] > 0
         /\ tables \ Applied(history) \subseteq Items(s)
         /\ r.command.name = "up" \/ Owned = Migrations => Applied(history) = tables
  BY <1>1, <1>3 DEF RunIsSound
<1>8. PICK g : g = recorded(p, m)
  OBVIOUS
<1>9. g \in Histories
  BY <1>3, <1>4, <1>8, RecordedHistory
<1>10. Undoes(r.command) => /\ m \in Applied(history) /\ \A n \in Applied(history) : m \notin Deps[n]
                            /\ Applied(g) = Applied(history) \ {m} /\ RecordsAreSound(g)
  <2> SUFFICES ASSUME Undoes(r.command)
               PROVE  /\ m \in Applied(history) /\ \A n \in Applied(history) : m \notin Deps[n]
                      /\ Applied(g) = Applied(history) \ {m} /\ RecordsAreSound(g)
    OBVIOUS
  <2>1. g = [history EXCEPT ![m] = Unapplied]
    BY <1>1, <1>8 DEF recorded
  <2> QED  BY <1>2, <1>3, <1>4, <1>5, <1>6, <1>9, <2>1, UndoesFirst
<1>11. ~Undoes(r.command) => /\ m \in Migrations \ Applied(history) /\ Deps[m] \subseteq Applied(history) /\ m \in Items(s)
                             /\ Applied(g) = Applied(history) \cup {m} /\ RecordsAreSound(g)
                             /\ \A n \in Migrations : g[n].batch <= r.batch
  <2> SUFFICES ASSUME ~Undoes(r.command)
               PROVE  /\ m \in Migrations \ Applied(history) /\ Deps[m] \subseteq Applied(history) /\ m \in Items(s)
                      /\ Applied(g) = Applied(history) \cup {m} /\ RecordsAreSound(g)
                      /\ \A n \in Migrations : g[n].batch <= r.batch
    OBVIOUS
  <2>1. g = [history EXCEPT ![m] = [batch |-> r.batch, checksum |-> rel[m]]]
    BY <1>1, <1>8 DEF recorded
  <2>2. m \in Items(s)
    BY <1>2, <1>4, HeadTailProperties DEF Items
  <2>3. rel[m] \in Nat \ {0} /\ r.batch \in Nat \ {0}
    BY <1>3, <1>4, <1>5, <1>7, <2>2
  <2>4. PICK h, batch, sum : h = history /\ batch = r.batch /\ sum = rel[m]
    OBVIOUS
  <2>5. /\ h \in Histories /\ g \in Histories /\ s \in Seq(Migrations) /\ s # <<>> /\ m = Head(s)
        /\ batch \in Nat \ {0} /\ sum \in Nat \ {0} /\ g = Marked(h, m, batch, sum)
    BY <1>2, <1>3, <1>4, <1>9, <2>1, <2>3, <2>4 DEF Marked
  <2>6. CanApply(s, h) /\ RecordsAreSound(h) /\ \A n \in Migrations : h[n].batch <= batch
    BY <1>5, <1>7, <2>4
  <2>7. /\ m \in Migrations \ Applied(h) /\ Deps[m] \subseteq Applied(h) /\ m \in Items(s)
        /\ Applied(g) = Applied(h) \cup {m} /\ RecordsAreSound(g) /\ \A n \in Migrations : g[n].batch <= batch
    BY <2>5, <2>6, AppliesFirst
  <2> QED  BY <2>4, <2>7
<1>12. CASE ~Possible(r.command, m)
  <2>1. PICK rest : rest = [Resting EXCEPT !.command = r.command, !.wrong = TRUE]
    OBVIOUS
  <2>2. rest \in Runs /\ rest.pc = "idle" /\ rest.command = r.command
    BY <1>4, <2>1, RestingIsARun DEF Runs
  <2>3. ~Undoes(r.command)
    BY <1>6, <1>10, <1>12 DEF Possible
  <2>4. Applied(history) # tables
    BY <1>11, <1>12, <2>3 DEF Possible
  <2>5. r.command.name = "fresh" /\ Owned # Migrations
    BY <1>4, <1>7, <2>3, <2>4 DEF Undoes
  <2>6. /\ history' = r.savedHistory /\ tables' = r.savedTables /\ migrationLock' = "none"
        /\ deploy' = [deploy EXCEPT ![p].run = rest] /\ starts' = starts /\ deploy[p].run.pc = "running"
    BY <1>1, <1>2, <1>12, <2>1
  <2>7. history' \in Histories /\ tables' \subseteq Migrations /\ Consistent(history', tables') /\ BatchesUpTo(history', Begun)
    BY <1>3, <1>5, <2>6 DEF Runs
  <2> QED  BY <2>2, <2>5, <2>6, <2>7, EndsKeepSound
<1>13. CASE Possible(r.command, m)
  <2>1. PICK next, u : next = [r EXCEPT !.todo = Tail(s)] /\ u = Tail(s)
    OBVIOUS
  <2>2. /\ tables' = IF Undoes(r.command) THEN tables \ {m} ELSE tables \union {m}
        /\ history' = g /\ deploy' = [deploy EXCEPT ![p].run = next] /\ migrationLock' = p
    BY <1>1, <1>2, <1>3, <1>8, <1>13, <2>1
  <2>3. u \in Seq(Migrations)
    BY <1>2, <1>4, <2>1, HeadTailProperties
  <2>4. /\ next \in Runs /\ next.pc = "running" /\ next.todo = u /\ next.command = r.command /\ next.batch = r.batch
        /\ next.savedHistory = r.savedHistory /\ next.savedTables = r.savedTables /\ next.wrong = r.wrong
    BY <1>2, <1>3, <2>1, <2>3 DEF Runs
  <2>5. MigrationsTyped' /\ deploy'[p].run = next /\ deploy'[p].release = rel
        /\ \A q \in Deployers \ {p} : deploy'[q] = deploy[q]
    BY <1>1, <1>2, <1>3, <1>4, <1>9, <2>2, <2>4 DEF MigrationsTyped
  <2>6. Begun' = Begun
    <3>1. starts \in Nat
      BY <1>3, MigrationsAssumption DEF MigrationsTyped
    <3>2. deploy[p].run.pc = "running" /\ deploy'[p].run.pc = "running"
      BY <1>1, <1>2, <2>4, <2>5
    <3> QED  BY <1>2, <1>3, <2>5, <3>1, <3>2, BegunChanges
  <2>7. RunIsSound(next, rel)'
    <3>1. /\ Consistent(next.savedHistory, next.savedTables) /\ next.savedHistory \in Histories
          /\ BatchesUpTo(next.savedHistory, Begun') /\ next.batch <= Begun'
      BY <1>5, <2>4, <2>6
    <3>2. CASE Undoes(r.command)
      <4>1. CanUndo(u, history')
        BY <1>2, <1>4, <1>6, <1>10, <2>1, <2>2, <3>2, RestCanBeUndone
      <4>2. RecordsAreSound(history') /\ Applied(history') = tables'
        BY <1>6, <1>10, <2>2, <3>2
      <4> QED  BY <2>4, <3>1, <3>2, <4>1, <4>2 DEF RunIsSound
    <3>3. CASE ~Undoes(r.command)
      <4>1. CanApply(u, history') /\ \A n : n \in Items(s) <=> n = m \/ n \in Items(u)
        BY <1>2, <1>4, <1>7, <1>11, <2>1, <2>2, <3>3, RestCanBeApplied
      <4>2. RecordsAreSound(history') /\ Applied(history') \subseteq tables' /\ \A n \in Migrations : history'[n].batch <= r.batch
        BY <1>5, <1>11, <2>2, <3>3
      <4>3. tables' \ Applied(history') \subseteq Items(u) /\ \A n \in Items(u) : rel[n] > 0
        BY <1>7, <1>11, <2>2, <3>3, <4>1
      <4>4. r.command.name = "up" \/ Owned = Migrations => Applied(history') = tables'
        BY <1>7, <1>11, <2>2, <3>3
      <4> QED  BY <1>7, <2>4, <3>1, <3>3, <4>1, <4>2, <4>3, <4>4 DEF RunIsSound
    <3> QED  BY <3>2, <3>3
  <2>8. ASSUME NEW q \in Deployers PROVE DeployerIsSound(q)'
    <3>1. CASE q = p
      <4>1. next.wrong => next.command.name = "fresh" /\ Owned # Migrations
        BY <1>1, <2>4 DEF MigrationsInv, DeployerIsSound
      <4>2. RunIsSound(deploy[p].run, deploy[p].release)'
        BY <2>5, <2>7 DEF RunIsSound
      <4> QED  BY <1>3, <2>2, <2>4, <2>5, <3>1, <4>1, <4>2 DEF DeployerIsSound
    <3>2. CASE q # p
      <4>1. deploy[q].run.pc # "running" /\ migrationLock # q /\ migrationLock' # q
        BY <1>3, <2>2, <3>2 DEF MigrationsInv, DeployerIsSound
      <4> QED  BY <1>3, <2>5, <2>6, <3>2, <4>1, OthersKeep
    <3> QED  BY <3>1, <3>2
  <2>9. BatchesUpTo(history, Begun)'
    <3>1. BatchesUpTo(history, Begun)
      BY DEF MigrationsInv
    <3>2. ASSUME NEW n \in Migrations PROVE g[n].batch <= Begun
      <4>1. g[n] = history[n] \/ g[n] = Unapplied \/ g[n].batch = r.batch
        BY <1>1, <1>3, <1>4, <1>8 DEF recorded, Histories
      <4> QED  BY <1>3, <1>5, <3>1, <4>1 DEF BatchesUpTo, Unapplied
    <3> QED  BY <2>2, <2>6, <3>2 DEF BatchesUpTo
  <2>10. migrationLock' # "none"
    BY <2>2, MigrationsAssumption
  <2> QED  BY <1>3, <2>5, <2>6, <2>8, <2>9, <2>10 DEF MigrationsInv
<1> QED  BY <1>12, <1>13

LEMMA MigrationsStep ==
    ASSUME MigrationsInv, [MigrationsNext]_migrationVars
    PROVE  MigrationsInv'
<1>1. CASE UNCHANGED migrationVars
  BY <1>1 DEF migrationVars, MigrationsInv, MigrationsTyped, DeployerIsSound, RunIsSound, Begun, Loaded, BatchesUpTo,
              Consistent, RecordsAreSound, Applied, CanApply, CanUndo
<1>2. ASSUME NEW p \in Deployers,
             \/ \E release \in Releases, command \in MigrateCommands : loads(p, release, command)
             \/ locks(p) \/ executes(p) \/ commits(p) \/ migrationFails(p)
      PROVE  MigrationsInv'
  BY <1>2, LoadsKeepsSound, LocksKeepsSound, ExecutesKeepsSound, CommitsKeepsSound, MigrationFailsKeepsSound
<1> QED  BY <1>1, <1>2 DEF MigrationsNext

LEMMA SoundRunsAreSound == MigrationsInv => MigrationsTypeOK /\ MigrationsAreSound
<1> SUFFICES ASSUME MigrationsInv PROVE MigrationsTypeOK /\ MigrationsAreSound
  OBVIOUS
<1>1. MigrationsTyped /\ Begun \in Nat /\ BatchesUpTo(history, Begun)
  BY DEF MigrationsInv
<1>2. Begun <= starts /\ starts \in 0..MaxRuns
  <2>1. Cardinality(Loaded) \in Nat
    BY MigrationsAssumption, FS_Subset, FS_CardinalityType DEF Loaded
  <2> QED  BY <1>1, <2>1, MigrationsAssumption DEF Begun, MigrationsTyped
<1>3. \A m \in Migrations : history[m].batch \in 0..MaxRuns
  <2>1. \A m \in Migrations : history[m].batch \in Nat /\ history[m].batch <= Begun
    BY <1>1, AppliedBatches DEF MigrationsTyped, BatchesUpTo
  <2> QED  BY <1>1, <1>2, <2>1, MigrationsAssumption
<1>4. MigrationsTypeOK
  BY <1>1, <1>3 DEF MigrationsTypeOK, MigrationsTyped, Runs
<1>5. MigrationsAreSound
  BY DEF MigrationsInv, MigrationsAreSound, DeployerIsSound, Consistent, RecordsAreSound
<1> QED  BY <1>4, <1>5

\* Whatever releases and commands of MigrationRunner interleave or fail, the committed records are
\* exactly the tables that exist, dependencies are recorded no later than what needs them, and the
\* database refuses a migration only to a fresh whose manifest leaves a table behind.
THEOREM MigrationsAreAlwaysSound == MigrationsSpec => [](MigrationsTypeOK /\ MigrationsAreSound)
<1>1. MigrationsInit => MigrationsInv
  BY MigrationsBegin
<1>2. MigrationsInv /\ [MigrationsNext]_migrationVars => MigrationsInv'
  BY MigrationsStep
<1>3. MigrationsInv => MigrationsTypeOK /\ MigrationsAreSound
  BY SoundRunsAreSound
<1> QED  BY <1>1, <1>2, <1>3, PTL DEF MigrationsSpec

(***************************************************************************)
(* Paginators.  From any page on, its items and those behind its links are  *)
(* the rest of the rows, because the links end with the last item.          *)
(***************************************************************************)
Rows(size) == [i \in 1..size |-> i]

LEMMA RowsAreNumbered ==
    ASSUME NEW size \in Nat
    PROVE  Rows(size) \in Seq(Nat) /\ Len(Rows(size)) = size /\ \A i \in 1..size : Rows(size)[i] = i
BY DEF Rows

\* What a slice of the rows holds.
LEMMA SlicesOfRows ==
    ASSUME NEW size \in Nat, NEW a \in Nat \ {0}, NEW b \in 0..size
    PROVE  /\ SubSeq(Rows(size), a, b) \in Seq(Nat)
           /\ SubSeq(Rows(size), a, b) = <<>> <=> b < a
           /\ a <= b => /\ Len(SubSeq(Rows(size), a, b)) = b - a + 1
                        /\ SubSeq(Rows(size), a, b)[1] = a
                        /\ SubSeq(Rows(size), a, b)[b - a + 1] = b
<1> DEFINE rows == Rows(size)
<1>1. \A i \in a..b : rows[i] \in Nat /\ rows[i] = i
  <2> SUFFICES ASSUME NEW i \in a..b PROVE rows[i] \in Nat /\ rows[i] = i
    OBVIOUS
  <2>1. i \in 1..size /\ i \in Nat
    OBVIOUS
  <2>2. \A j \in 1..size : Rows(size)[j] = j
    BY RowsAreNumbered
  <2> QED  BY <2>1, <2>2
<1> HIDE DEF rows
<1>2. /\ SubSeq(rows, a, b) \in Seq(Nat)
      /\ Len(SubSeq(rows, a, b)) = IF a <= b THEN b - a + 1 ELSE 0
      /\ \A i \in 1..(b - a + 1) : SubSeq(rows, a, b)[i] = rows[a + i - 1]
  BY <1>1, SubSeqProperties
<1>3. SubSeq(rows, a, b) = <<>> <=> b < a
  <2>1. PICK t : t = SubSeq(rows, a, b)
    OBVIOUS
  <2>2. t \in Seq(Nat) /\ (Len(t) = 0 <=> b < a)
    BY <1>2, <2>1
  <2>3. t = <<>> <=> Len(t) = 0
    BY <2>2, EmptySeq
  <2> QED  BY <2>1, <2>2, <2>3
<1>4. ASSUME a <= b
      PROVE  SubSeq(rows, a, b)[1] = a /\ SubSeq(rows, a, b)[b - a + 1] = b
  <2>1. 1 \in 1..(b - a + 1) /\ b - a + 1 \in 1..(b - a + 1) /\ a + 1 - 1 = a /\ a + (b - a + 1) - 1 = b
    BY <1>4
  <2>2. rows[a] = a /\ rows[b] = b
    BY <1>1, <1>4
  <2> QED  BY <1>2, <2>1, <2>2
<1> QED  BY <1>2, <1>3, <1>4 DEF rows

\* A slice and the rest of the rows behind it.
LEMMA SliceAndRest ==
    ASSUME NEW size \in Nat, NEW a \in 1..(size + 1), NEW b \in (a - 1)..size
    PROVE  SubSeq(Rows(size), a, b) \o SubSeq(Rows(size), b + 1, size) = SubSeq(Rows(size), a, size)
BY RowsAreNumbered, ConcatAdjacentSubSeq

\* Multiplication keeps the order of natural numbers.
LEMMA Multiples ==
    ASSUME NEW n \in Nat, NEW a \in Nat, NEW b \in Nat, a <= b
    PROVE  a * n \in Nat /\ b * n \in Nat /\ a * n <= b * n /\ (a + 1) * n = a * n + n
<1>1. b - a \in Nat /\ (b - a) * n \in Nat /\ b * n = a * n + (b - a) * n
  OBVIOUS
<1> QED  BY <1>1

\* lastPage: a page has one behind it exactly when its rows do not reach the last one.
LEMMA LastPageFits ==
    ASSUME NEW size \in Nat, NEW n \in Nat \ {0}, NEW p \in Nat \ {0}
    PROVE  /\ Larger(Quotient(Larger(size, 0), n), 1) \in Nat \ {0}
           /\ p < Larger(Quotient(Larger(size, 0), n), 1) <=> p * n < size
<1>1. PICK q : q = Quotient(Larger(size, 0), n)
  OBVIOUS
<1>2. q = (size + n - 1) \div n /\ size + n - 1 \in Nat
  BY <1>1 DEF Quotient, Larger
<1>3. q \in Nat /\ q * n <= size + n - 1 /\ size + n - 1 < q * n + n
  BY <1>2
<1>4. ASSUME p < q PROVE p * n < size
  <2>1. (p + 1) * n <= q * n /\ (p + 1) * n = p * n + n /\ p * n \in Nat /\ q * n \in Nat
    BY <1>3, <1>4, Multiples
  <2> QED  BY <1>3, <2>1
<1>5. ASSUME ~(p < q) PROVE ~(p * n < size)
  <2>1. q * n <= p * n /\ p * n \in Nat /\ q * n \in Nat
    BY <1>3, <1>5, Multiples
  <2> QED  BY <1>3, <2>1
<1>6. Larger(q, 1) \in Nat \ {0} /\ (p < Larger(q, 1) <=> p < q)
  BY <1>3 DEF Larger
<1> QED  BY <1>1, <1>4, <1>5, <1>6

\* The page that a link names, and how parsePageParams and the constructors bound its size.
LEMMA LinkedPages ==
    ASSUME NEW rows, NEW options, options.cap \in Nat \ {0}, NEW p \in Nat \ {0}, NEW n \in Nat \ {0},
           NEW k, k = Smaller(n, options.cap)
    PROVE  /\ Page(rows, Linked(p, n), options).page = p /\ Page(rows, Linked(p, n), options).perPage = k
           /\ Page(rows, Linked(p, n), options).items = Slice(rows, p, k)
           /\ k \in Nat \ {0} /\ k <= n /\ k <= options.cap /\ Smaller(k, options.cap) = k
<1>1. k \in Nat \ {0} /\ k <= n /\ k <= options.cap /\ Smaller(k, options.cap) = k /\ Larger(k, 1) = k /\ Larger(p, 1) = p
      /\ Larger(n, 1) = n
  BY DEF Smaller, Larger
<1>2. toFinitePositive(<<p>>, 1) = p /\ toFinitePositive(<<n>>, options.perPage) = n
  BY <1>1 DEF toFinitePositive
<1>3. parsePageParams(Linked(p, n), options).page = p /\ parsePageParams(Linked(p, n), options).perPage = k
  BY <1>2 DEF parsePageParams, Linked
<1> QED  BY <1>1, <1>3 DEF Page

\* A page, what its links say, and the rows from it on.
Skipped(p, k) == (p - 1) * k
RowsFrom(size, p, k) == SubSeq(Rows(size), (p - 1) * k + 1, size)
LEMMA PagesAndLinks ==
    ASSUME NEW size \in Nat, NEW p \in Nat \ {0}, NEW k \in Nat \ {0}
    PROVE  /\ LengthAwarePaginator(Slice(Rows(size), p, k), size, p, k).next = IF p * k < size THEN p + 1 ELSE 0
           /\ Slice(Rows(size), p, k) \in Seq(Nat)
           /\ p * k < size => /\ p + 1 \in 1..size
                              /\ RowsFrom(size, p, k) = Slice(Rows(size), p, k) \o RowsFrom(size, p + 1, k)
           /\ ~(p * k < size) => RowsFrom(size, p, k) = Slice(Rows(size), p, k)
           /\ Slice(Rows(size), p, k) # <<>> <=> Skipped(p, k) < size
           /\ Slice(Rows(size), p, k) # <<>> => Slice(Rows(size), p, k)[1] = Skipped(p, k) + 1
<1> PICK items, rest : items = Slice(Rows(size), p, k) /\ rest = RowsFrom(size, p, k)
  OBVIOUS
<1>1. p - 1 \in Nat /\ (p - 1) * k \in Nat /\ p * k \in Nat /\ p * k = (p - 1) * k + k /\ p <= p * k
  <2>1. p - 1 \in Nat /\ k \in Nat /\ (p - 1) + 1 = p /\ p \in Nat /\ p - 1 <= p /\ 1 <= k
    OBVIOUS
  <2>2. (p - 1) * k \in Nat /\ p * k \in Nat /\ ((p - 1) + 1) * k = (p - 1) * k + k
    BY <2>1, Multiples
  <2>3. 1 * p <= k * p /\ 1 * p = p /\ k * p = p * k
    BY <2>1, Multiples
  <2> QED  BY <2>1, <2>2, <2>3
<1>2. PICK a, b : a = (p - 1) * k + 1 /\ b = Smaller(p * k, size)
  OBVIOUS
<1>3. a \in Nat \ {0} /\ b \in 0..size /\ items = SubSeq(Rows(size), a, b) /\ rest = SubSeq(Rows(size), a, size)
  <2>1. Len(Rows(size)) = size
    BY RowsAreNumbered
  <2>2. items = SubSeq(Rows(size), a, b)
    BY <1>2, <2>1 DEF Slice
  <2>3. a \in Nat \ {0} /\ b \in 0..size
    BY <1>1, <1>2 DEF Smaller
  <2> QED  BY <1>2, <2>2, <2>3 DEF RowsFrom
<1>4. p * k < size => b = p * k /\ a \in 1..(size + 1) /\ b \in (a - 1)..size /\ b + 1 = p * k + 1
  BY <1>1, <1>2 DEF Smaller
<1>5. ~(p * k < size) => b = size
  BY <1>1, <1>2 DEF Smaller
<1>6. p * k < size => rest = items \o RowsFrom(size, p + 1, k)
  <2>1. p * k < size => rest = items \o SubSeq(Rows(size), p * k + 1, size)
    BY <1>3, <1>4, SliceAndRest
  <2>2. (p + 1) - 1 = p
    OBVIOUS
  <2> QED  BY <2>1, <2>2 DEF RowsFrom
<1>7. items \in Seq(Nat) /\ (items = <<>> <=> b < a) /\ (a <= b => items[1] = a)
  <2>1. /\ SubSeq(Rows(size), a, b) \in Seq(Nat)
        /\ SubSeq(Rows(size), a, b) = <<>> <=> b < a
        /\ a <= b => SubSeq(Rows(size), a, b)[1] = a
    BY <1>3, SlicesOfRows
  <2> QED  BY <1>3, <2>1
<1>8. b < a <=> ~((p - 1) * k < size)
  BY <1>1, <1>2, <1>3 DEF Smaller
<1>9. LengthAwarePaginator(items, size, p, k).next = IF p * k < size THEN p + 1 ELSE 0
  BY LastPageFits DEF LengthAwarePaginator
<1>11. p * k < size => p + 1 \in 1..size
  BY <1>1
<1>12. (items # <<>> <=> (p - 1) * k < size) /\ (items # <<>> => items[1] = (p - 1) * k + 1)
  <2>1. a <= b <=> ~(b < a)
    BY <1>3
  <2> QED  BY <1>2, <1>7, <1>8, <2>1
<1>13. ~(p * k < size) => rest = items
  BY <1>3, <1>5
<1> QED  BY <1>6, <1>7, <1>9, <1>11, <1>12, <1>13 DEF Skipped

\* A recursive function over links returns the rest of the rows, from any page on.
LEMMA LinksLeadThroughAll ==
    ASSUME NEW size \in Nat, NEW options, options.cap \in Nat \ {0}, NEW aware \in BOOLEAN, NEW asked \in 1..(size + 2)
    PROVE  ItemsFrom(Rows(size), options, aware)[Linked(1, asked)] = Rows(size)
<1> DEFINE rows == Rows(size)
           Queries == {Linked(p, n) : p \in 1..(Len(rows) + 2), n \in 1..(Len(rows) + 2)}
           Body(f, query) ==
               LET page == Page(rows, query, options)
                   more == page.page * page.perPage < Len(rows)
                   links == IF aware THEN LengthAwarePaginator(page.items, Len(rows), page.page, page.perPage)
                            ELSE SimplePaginator(page.items, more, page.page, page.perPage)
               IN page.items \o (IF links.next = 0 THEN <<>> ELSE f[Linked(links.next, page.perPage)])
           Following(f) == f = [query \in Queries |-> Body(f, query)]
           Rest(p, k) == RowsFrom(size, p, k)
           Size(n) == Smaller(n, options.cap)
           g == [query \in Queries |-> Rest(query.page[1], Size(query.perPage[1]))]
<1>1. rows \in Seq(Nat) /\ Len(rows) = size /\ SubSeq(rows, 1, size) = rows
  BY RowsAreNumbered, SubSeqFull
<1>2. ASSUME NEW p \in 1..(size + 2), NEW n \in 1..(size + 2)
      PROVE  /\ Linked(p, n) \in Queries /\ Size(n) \in 1..(size + 2) /\ Size(Size(n)) = Size(n)
             /\ Linked(p, n).page[1] = p /\ Linked(p, n).perPage[1] = n
             /\ p * Size(n) < size => p + 1 \in 1..(size + 2)
             /\ \A f : Body(f, Linked(p, n)) = IF p * Size(n) < size THEN Slice(rows, p, Size(n)) \o f[Linked(p + 1, Size(n))]
                                              ELSE Slice(rows, p, Size(n))
             /\ Rest(p, Size(n)) = IF p * Size(n) < size THEN Slice(rows, p, Size(n)) \o Rest(p + 1, Size(n))
                                   ELSE Slice(rows, p, Size(n))
  <2>1. PICK k : k = Size(n)
    OBVIOUS
  <2>2. /\ Page(rows, Linked(p, n), options).page = p /\ Page(rows, Linked(p, n), options).perPage = k
        /\ Page(rows, Linked(p, n), options).items = Slice(rows, p, k)
        /\ k \in Nat \ {0} /\ k <= n /\ Smaller(k, options.cap) = k
    BY <2>1, LinkedPages
  <2>3. PICK items, rest : items = Slice(rows, p, k) /\ rest = Rest(p, k)
    OBVIOUS
  <2>4. /\ LengthAwarePaginator(items, size, p, k).next = IF p * k < size THEN p + 1 ELSE 0
        /\ SimplePaginator(items, p * k < size, p, k).next = IF p * k < size THEN p + 1 ELSE 0
        /\ items \in Seq(Nat)
        /\ p * k < size => p + 1 \in 1..size /\ rest = items \o RowsFrom(size, p + 1, k)
        /\ ~(p * k < size) => rest = items
    <3>1. p \in Nat \ {0}
      OBVIOUS
    <3>2. k \in Nat \ {0} /\ items = Slice(Rows(size), p, k) /\ rest = RowsFrom(size, p, k)
      BY <2>2, <2>3
    <3>3. SimplePaginator(items, p * k < size, p, k).next = IF p * k < size THEN p + 1 ELSE 0
      BY DEF SimplePaginator
    <3>4. /\ LengthAwarePaginator(items, size, p, k).next = IF p * k < size THEN p + 1 ELSE 0
          /\ items \in Seq(Nat)
          /\ p * k < size => p + 1 \in 1..size /\ rest = items \o RowsFrom(size, p + 1, k)
          /\ ~(p * k < size) => rest = items
      BY <3>1, <3>2, PagesAndLinks
    <3> QED  BY <3>3, <3>4
  <2>5. items \o <<>> = items
    BY <2>4, ConcatEmptySeq
  <2>6. ASSUME NEW f PROVE Body(f, Linked(p, n)) = IF p * k < size THEN items \o f[Linked(p + 1, k)] ELSE items
    <3>1. PICK next : next = IF p * k < size THEN p + 1 ELSE 0
      OBVIOUS
    <3>2. Body(f, Linked(p, n)) = items \o (IF next = 0 THEN <<>> ELSE f[Linked(next, k)])
      <4>1. CASE aware
        BY <1>1, <2>2, <2>3, <2>4, <3>1, <4>1
      <4>2. CASE ~aware
        BY <1>1, <2>2, <2>3, <2>4, <3>1, <4>2
      <4> QED  BY <4>1, <4>2
    <3> HIDE DEF Body
    <3>3. p * k < size => next = p + 1 /\ next # 0
      BY <3>1
    <3>4. ~(p * k < size) => next = 0
      BY <3>1
    <3> QED  BY <2>5, <3>2, <3>3, <3>4
  <2>7. Rest(p + 1, k) = RowsFrom(size, p + 1, k)
    OBVIOUS
  <2>8. Linked(p, n).page[1] = p /\ Linked(p, n).perPage[1] = n
    BY DEF Linked
  <2>9. Linked(p, n) \in Queries
    BY <1>1
  <2>10. k \in 1..(size + 2)
    BY <2>2
  <2>11. p * k < size => p + 1 \in 1..(size + 2)
    BY <2>4
  <2> HIDE DEF Body, Rest, Queries
  <2> QED  BY <2>1, <2>2, <2>3, <2>4, <2>6, <2>7, <2>8, <2>9, <2>10, <2>11
<1>3. \A query \in Queries : \E p, n \in 1..(size + 2) : query = Linked(p, n)
  BY <1>1
<1>4. ItemsFrom(rows, options, aware) = CHOOSE f : Following(f)
  BY DEF ItemsFrom
<1> HIDE DEF Body, Rest, Queries, Size
<1>16. \A p, n \in 1..(size + 2) :
          /\ Linked(p, n) \in Queries /\ Size(n) \in 1..(size + 2) /\ Size(Size(n)) = Size(n)
          /\ p * Size(n) < size => p + 1 \in 1..(size + 2)
  BY <1>2
<1>17. \A p, n \in 1..(size + 2) :
          Rest(p, Size(n)) = IF p * Size(n) < size THEN Slice(rows, p, Size(n)) \o Rest(p + 1, Size(n))
                             ELSE Slice(rows, p, Size(n))
  BY <1>2
<1>5. ASSUME NEW p \in 1..(size + 2), NEW n \in 1..(size + 2)
      PROVE  g[Linked(p, n)] = Rest(p, Size(n))
  BY <1>2
<1>6. Following(g)
  <2> SUFFICES ASSUME NEW query \in Queries PROVE g[query] = Body(g, query)
    OBVIOUS
  <2>1. PICK p \in 1..(size + 2), n \in 1..(size + 2) : query = Linked(p, n)
    BY <1>3
  <2>2. PICK k : k = Size(n)
    OBVIOUS
  <2>3. p * k < size => g[Linked(p + 1, k)] = Rest(p + 1, k)
    <3>1. k \in 1..(size + 2) /\ Size(k) = k /\ (p * k < size => p + 1 \in 1..(size + 2))
      BY <1>16, <2>2
    <3>2. p * k < size => g[Linked(p + 1, k)] = Rest(p + 1, Size(k))
      <4> HIDE DEF g
      <4> QED  BY <1>5, <3>1
    <3> QED  BY <3>1, <3>2
  <2>4. g[Linked(p, n)] = Rest(p, k)
    BY <1>5, <2>2
  <2>5. Body(g, Linked(p, n)) = IF p * k < size THEN Slice(rows, p, k) \o g[Linked(p + 1, k)] ELSE Slice(rows, p, k)
    <3> HIDE DEF g
    <3>1. \A h : Body(h, Linked(p, n)) = IF p * Size(n) < size THEN Slice(rows, p, Size(n)) \o h[Linked(p + 1, Size(n))]
                                         ELSE Slice(rows, p, Size(n))
      BY <1>2
    <3> QED  BY <2>2, <3>1
  <2>6. Rest(p, k) = IF p * k < size THEN Slice(rows, p, k) \o Rest(p + 1, k) ELSE Slice(rows, p, k)
    BY <1>17, <2>2
  <2> HIDE DEF g
  <2> QED  BY <2>1, <2>3, <2>4, <2>5, <2>6
<1> DEFINE f == CHOOSE h : Following(h)
<1>7. Following(f)
  <2> HIDE DEF g, Following
  <2> QED  BY <1>6
<1>8. f = ItemsFrom(rows, options, aware)
  BY <1>4
<1>9. ASSUME NEW p \in 1..(size + 2), NEW n \in 1..(size + 2)
      PROVE  f[Linked(p, n)] = IF p * Size(n) < size THEN Slice(rows, p, Size(n)) \o f[Linked(p + 1, Size(n))]
                               ELSE Slice(rows, p, Size(n))
  <2> HIDE DEF f
  <2>1. Linked(p, n) \in Queries
    BY <1>2
  <2>2. f[Linked(p, n)] = Body(f, Linked(p, n))
    BY <1>7, <2>1
  <2>3. Body(f, Linked(p, n)) = IF p * Size(n) < size THEN Slice(rows, p, Size(n)) \o f[Linked(p + 1, Size(n))]
                                 ELSE Slice(rows, p, Size(n))
    <3>1. \A h : Body(h, Linked(p, n)) = IF p * Size(n) < size THEN Slice(rows, p, Size(n)) \o h[Linked(p + 1, Size(n))]
                                         ELSE Slice(rows, p, Size(n))
      BY <1>2
    <3> QED  BY <3>1
  <2> QED  BY <2>2, <2>3
<1> HIDE DEF f, g
<1> DEFINE last == size + 2
           good == {j \in Nat : \A p, n \in 1..last : p = last - j => f[Linked(p, n)] = Rest(p, Size(n))}
<1>10. 0 \in good
  <2> SUFFICES ASSUME NEW p \in 1..last, NEW n \in 1..last, p = last PROVE f[Linked(p, n)] = Rest(p, Size(n))
    OBVIOUS
  <2>1. PICK k : k = Size(n)
    OBVIOUS
  <2>2. ~(p * k < size)
    <3>1. p * k < size => p + 1 \in 1..(size + 2)
      BY <1>16, <2>1
    <3> QED  BY <3>1
  <2> QED  BY <1>17, <1>9, <2>1, <2>2
<1>11. ASSUME NEW j \in 1..(size + 1), j - 1 \in good PROVE j \in good
  <2> SUFFICES ASSUME NEW p \in 1..last, NEW n \in 1..last, p = last - j PROVE f[Linked(p, n)] = Rest(p, Size(n))
    OBVIOUS
  <2>1. PICK k : k = Size(n)
    OBVIOUS
  <2>2. p + 1 \in 1..last /\ p + 1 = last - (j - 1) /\ k \in 1..last /\ Size(k) = k
    <3>1. k \in 1..last /\ Size(k) = k
      BY <1>16, <2>1
    <3> QED  BY <3>1
  <2>3. f[Linked(p + 1, k)] = Rest(p + 1, k)
    BY <1>11, <2>2
  <2>4. f[Linked(p, n)] = IF p * k < size THEN Slice(rows, p, k) \o f[Linked(p + 1, k)] ELSE Slice(rows, p, k)
    BY <1>9, <2>1
  <2>5. Rest(p, k) = IF p * k < size THEN Slice(rows, p, k) \o Rest(p + 1, k) ELSE Slice(rows, p, k)
    BY <1>17, <2>1
  <2> QED  BY <2>1, <2>3, <2>4, <2>5
<1>12. size + 1 \in good
  <2> HIDE DEF good
  <2>1. \A j \in 0..(size + 1) : j \in good
    BY <1>10, <1>11, CountingUp
  <2> QED  BY <2>1
<1>13. 1 \in 1..last /\ 1 = last - (size + 1) /\ asked \in 1..last
  OBVIOUS
<1>14. f[Linked(1, asked)] = Rest(1, Size(asked))
  BY <1>12, <1>13
<1>15. Rest(1, Size(asked)) = rows
  <2>1. PICK k : k = Size(asked)
    OBVIOUS
  <2>2. k \in Nat /\ (1 - 1) * k + 1 = 1
    BY <1>2, <2>1
  <2> QED  BY <1>1, <2>1, <2>2 DEF Rest, RowsFrom
<1> QED  BY <1>8, <1>14, <1>15

LEMMA CursorsDecode ==
    ASSUME NEW key
    PROVE  /\ encodeCursor(key, "next") # <<>>
           /\ decodeCursor(encodeCursor(key, "next")).key = key
           /\ decodeCursor(encodeCursor(key, "next")).direction = "next"
<1>1. encodeCursor(key, "next")[1] = key /\ encodeCursor(key, "next")[2] = "next" /\ Len(encodeCursor(key, "next")) = 2
  BY DEF encodeCursor
<1>2. Len(<<>>) = 0
  OBVIOUS
<1> QED  BY <1>1, <1>2 DEF decodeCursor

\* The same by cursors, each of which names the row behind the last one.
LEMMA CursorsLeadThroughAll ==
    ASSUME NEW size \in Nat, NEW options, NEW asked, NEW k \in Nat \ {0},
           k = Larger(Smaller(toFinitePositive(asked, options.perPage), options.cap), 1)
    PROVE  ItemsFromCursor(Rows(size), options, asked) = Rows(size)
<1> DEFINE rows == Rows(size)
           Cursors == {<<>>} \cup {encodeCursor(key, "next") : key \in 1..Len(rows)}
           Body(f, cursor) ==
               LET params == parseCursorParams([page |-> <<>>, perPage |-> asked, cursor |-> cursor], options)
                   items == CursorSlice(rows, params.cursor, Larger(params.perPage, 1))
                   final == items = <<>> \/ items[Len(items)] = Len(rows)
                   links == CursorPaginator(IF final THEN 0 ELSE items[Len(items)] + 1, IF items = <<>> THEN 0 ELSE items[1] - 1)
               IN items \o (IF links.next = <<>> THEN <<>> ELSE f[links.next])
           Following(f) == f = [cursor \in Cursors |-> Body(f, cursor)]
           First(cursor) == IF cursor = <<>> THEN 1 ELSE decodeCursor(cursor).key
           Final(cursor) == Smaller(First(cursor) + k - 1, size)
           Onward(cursor) == encodeCursor(Final(cursor) + 1, "next")
           Rest(cursor) == SubSeq(rows, First(cursor), size)
           OnPage(cursor) == SubSeq(rows, First(cursor), Final(cursor))
           g == [cursor \in Cursors |-> Rest(cursor)]
<1>1. rows \in Seq(Nat) /\ Len(rows) = size /\ SubSeq(rows, 1, size) = rows
  BY RowsAreNumbered, SubSeqFull
<1>2. \A cursor : parseCursorParams([page |-> <<>>, perPage |-> asked, cursor |-> cursor], options).cursor = cursor
                  /\ Larger(parseCursorParams([page |-> <<>>, perPage |-> asked, cursor |-> cursor], options).perPage, 1) = k
  BY DEF parseCursorParams, parsePageParams
<1>3. ASSUME NEW cursor \in Cursors
      PROVE  /\ First(cursor) \in 1..(size + 1) /\ Final(cursor) \in (First(cursor) - 1)..size
             /\ CursorSlice(rows, cursor, k) = OnPage(cursor)
             /\ Final(cursor) < size => /\ Onward(cursor) \in Cursors
                                        /\ First(Onward(cursor)) = Final(cursor) + 1
                                        /\ Final(cursor) >= First(cursor)
  <2>1. First(cursor) \in 1..(size + 1) /\ (First(cursor) <= size \/ (First(cursor) = 1 /\ size = 0))
        /\ (cursor # <<>> => decodeCursor(cursor).direction = "next" /\ decodeCursor(cursor).key = First(cursor))
    <3>1. CASE cursor = <<>>
      <4>1. First(cursor) = 1
        BY <3>1
      <4> HIDE DEF First, Cursors
      <4> QED  BY <3>1, <4>1
    <3>2. CASE cursor # <<>>
      <4>1. PICK key \in 1..size : cursor = encodeCursor(key, "next")
        BY <1>1, <3>2
      <4>2. decodeCursor(cursor).key = key /\ decodeCursor(cursor).direction = "next"
        BY <4>1, CursorsDecode
      <4>3. First(cursor) = key
        BY <3>2, <4>2
      <4> HIDE DEF First, Cursors
      <4> QED  BY <3>2, <4>2, <4>3
    <3> QED  BY <3>1, <3>2
  <2>2. PICK a, b : a = First(cursor) /\ b = Final(cursor)
    OBVIOUS
  <2>3. a \in Nat /\ b = Smaller(a + k - 1, size) /\ (a <= size \/ (a = 1 /\ size = 0)) /\ a \in 1..(size + 1)
    BY <2>1, <2>2
  <2>4. b \in (a - 1)..size /\ (b < size => b >= a)
    BY <2>3 DEF Smaller
  <2>5. CursorSlice(rows, cursor, k) = SubSeq(rows, a, b)
    <3>1. CASE cursor = <<>>
      <4>1. a = 1 /\ 1 + k - 1 = k
        BY <2>2, <3>1
      <4> QED  BY <1>1, <2>3, <3>1, <4>1 DEF CursorSlice
    <3>2. CASE cursor # <<>>
      BY <1>1, <2>1, <2>2, <2>3, <3>2 DEF CursorSlice
    <3> QED  BY <3>1, <3>2
  <2>6. b < size => encodeCursor(b + 1, "next") \in Cursors
    <3>1. b < size => b + 1 \in 1..size
      BY <2>3, <2>4
    <3> QED  BY <1>1, <3>1
  <2>7. First(encodeCursor(b + 1, "next")) = b + 1
    BY CursorsDecode
  <2> HIDE DEF Cursors, First, Final
  <2> QED  BY <2>2, <2>3, <2>4, <2>5, <2>6, <2>7
<1>4. ASSUME NEW cursor \in Cursors, NEW f
      PROVE  Body(f, cursor) = IF Final(cursor) < size THEN OnPage(cursor) \o f[Onward(cursor)] ELSE OnPage(cursor)
  <2>1. PICK a, b, items : a = First(cursor) /\ b = Final(cursor) /\ items = SubSeq(rows, a, b)
    OBVIOUS
  <2>2. a \in 1..(size + 1) /\ b \in (a - 1)..size /\ CursorSlice(rows, cursor, k) = items /\ (b < size => a <= b)
    <3> HIDE DEF Cursors, First, Final
    <3> QED  BY <1>3, <2>1
  <2>3. /\ items \in Seq(Nat) /\ (items = <<>> <=> b < a)
        /\ a <= b => Len(items) = b - a + 1 /\ items[b - a + 1] = b
    <3>1. a \in Nat \ {0} /\ b \in 0..size
      BY <2>2
    <3>2. /\ SubSeq(Rows(size), a, b) \in Seq(Nat)
          /\ SubSeq(Rows(size), a, b) = <<>> <=> b < a
          /\ a <= b => /\ Len(SubSeq(Rows(size), a, b)) = b - a + 1
                       /\ SubSeq(Rows(size), a, b)[b - a + 1] = b
      BY <3>1, SlicesOfRows
    <3> QED  BY <2>1, <3>2
  <2>4. PICK final \in BOOLEAN : final <=> items = <<>> \/ items[Len(items)] = Len(rows)
    OBVIOUS
  <2>5. (final <=> ~(b < size)) /\ (b < size => items[Len(items)] = b)
    <3>1. CASE a <= b
      BY <1>1, <2>2, <2>3, <2>4, <3>1
    <3>2. CASE ~(a <= b)
      BY <2>2, <2>3, <2>4, <3>2
    <3> QED  BY <3>1, <3>2
  <2>6. \A prev : CursorPaginator(IF final THEN 0 ELSE items[Len(items)] + 1, prev).next
                  = IF b < size THEN encodeCursor(b + 1, "next") ELSE <<>>
    <3>1. CASE b < size
      <4>1. ~final /\ items[Len(items)] + 1 = b + 1 /\ b + 1 # 0
        BY <2>2, <2>5, <3>1
      <4> QED  BY <3>1, <4>1 DEF CursorPaginator
    <3>2. CASE ~(b < size)
      BY <2>5, <3>2 DEF CursorPaginator
    <3> QED  BY <3>1, <3>2
  <2>7. items \o <<>> = items
    BY <2>3, ConcatEmptySeq
  <2>8. encodeCursor(b + 1, "next") # <<>>
    BY CursorsDecode
  <2>9. PICK links : links = CursorPaginator(IF final THEN 0 ELSE items[Len(items)] + 1, IF items = <<>> THEN 0 ELSE items[1] - 1)
    OBVIOUS
  <2>10. Body(f, cursor) = items \o (IF links.next = <<>> THEN <<>> ELSE f[links.next])
    <3>1. PICK params : params = parseCursorParams([page |-> <<>>, perPage |-> asked, cursor |-> cursor], options)
      OBVIOUS
    <3>2. CursorSlice(rows, params.cursor, Larger(params.perPage, 1)) = items
      BY <1>2, <2>2, <3>1
    <3>3. Body(f, cursor) = items \o (IF CursorPaginator(IF items = <<>> \/ items[Len(items)] = Len(rows) THEN 0 ELSE items[Len(items)] + 1,
                                          IF items = <<>> THEN 0 ELSE items[1] - 1).next = <<>>
                                      THEN <<>>
                                      ELSE f[CursorPaginator(IF items = <<>> \/ items[Len(items)] = Len(rows) THEN 0 ELSE items[Len(items)] + 1,
                                                             IF items = <<>> THEN 0 ELSE items[1] - 1).next])
      BY <3>1, <3>2
    <3>4. (IF items = <<>> \/ items[Len(items)] = Len(rows) THEN 0 ELSE items[Len(items)] + 1)
          = IF final THEN 0 ELSE items[Len(items)] + 1
      BY <2>4
    <3> HIDE DEF Body
    <3> QED  BY <2>9, <3>3, <3>4
  <2>11. links.next = IF b < size THEN encodeCursor(b + 1, "next") ELSE <<>>
    BY <2>6, <2>9
  <2> HIDE DEF Body, First, Final
  <2> QED  BY <2>1, <2>7, <2>8, <2>10, <2>11
<1>5. ItemsFromCursor(rows, options, asked) = (CHOOSE f : Following(f))[<<>>]
  BY DEF ItemsFromCursor
<1>6. ASSUME NEW cursor \in Cursors
      PROVE  Rest(cursor) = IF Final(cursor) < size THEN OnPage(cursor) \o Rest(Onward(cursor)) ELSE OnPage(cursor)
  <2>1. PICK a, b, next : a = First(cursor) /\ b = Final(cursor) /\ next = First(Onward(cursor))
    OBVIOUS
  <2>2. a \in 1..(size + 1) /\ b \in (a - 1)..size /\ (b < size => next = b + 1)
    <3> HIDE DEF Cursors, First, Final, Onward
    <3> QED  BY <1>3, <2>1
  <2>3. SubSeq(rows, a, b) \o SubSeq(rows, b + 1, size) = SubSeq(rows, a, size)
    BY <2>2, SliceAndRest
  <2>4. ~(b < size) => b = size
    BY <2>2
  <2> HIDE DEF First, Final, Onward
  <2> QED  BY <2>1, <2>2, <2>3, <2>4
<1>7. <<>> \in Cursors /\ Rest(<<>>) = rows
  BY <1>1
<1> HIDE DEF Body, Rest, Cursors, First, Final, Onward, Items
<1>8. Following(g)
  <2> SUFFICES ASSUME NEW cursor \in Cursors PROVE g[cursor] = Body(g, cursor)
    OBVIOUS
  <2>1. g[cursor] = Rest(cursor)
    OBVIOUS
  <2>2. Final(cursor) < size => g[Onward(cursor)] = Rest(Onward(cursor))
    BY <1>3
  <2> HIDE DEF g
  <2>3. Body(g, cursor) = IF Final(cursor) < size THEN OnPage(cursor) \o g[Onward(cursor)] ELSE OnPage(cursor)
    BY <1>4
  <2> QED  BY <1>6, <2>1, <2>2, <2>3
<1> DEFINE f == CHOOSE h : Following(h)
<1>9. Following(f)
  <2> HIDE DEF g, Following
  <2> QED  BY <1>8
<1>10. ItemsFromCursor(rows, options, asked) = f[<<>>]
  BY <1>5
<1>11. ASSUME NEW cursor \in Cursors
       PROVE  f[cursor] = IF Final(cursor) < size THEN OnPage(cursor) \o f[Onward(cursor)] ELSE OnPage(cursor)
  <2> HIDE DEF f
  <2>1. f[cursor] = Body(f, cursor)
    BY <1>9
  <2> QED  BY <1>4, <2>1
<1> HIDE DEF f, g
<1> DEFINE good == {j \in Nat : \A cursor \in Cursors : First(cursor) + j > size => f[cursor] = Rest(cursor)}
<1>12. 0 \in good
  <2> SUFFICES ASSUME NEW cursor \in Cursors, First(cursor) > size PROVE f[cursor] = Rest(cursor)
    BY <1>3
  <2>1. ~(Final(cursor) < size)
    BY <1>3
  <2> QED  BY <1>6, <1>11, <2>1
<1>13. ASSUME NEW j \in 1..size, j - 1 \in good PROVE j \in good
  <2> SUFFICES ASSUME NEW cursor \in Cursors, First(cursor) + j > size PROVE f[cursor] = Rest(cursor)
    OBVIOUS
  <2>1. ASSUME Final(cursor) < size PROVE f[Onward(cursor)] = Rest(Onward(cursor))
    <3>1. PICK next : next = Onward(cursor)
      OBVIOUS
    <3>2. next \in Cursors /\ First(next) = Final(cursor) + 1 /\ Final(cursor) >= First(cursor)
          /\ First(cursor) \in Nat /\ Final(cursor) \in Int
      BY <1>3, <2>1, <3>1
    <3>3. First(next) + (j - 1) > size
      BY <3>2
    <3> QED  BY <1>13, <3>1, <3>2, <3>3
  <2> QED  BY <1>6, <1>11, <2>1
<1>14. size \in good
  <2> HIDE DEF good
  <2>1. \A j \in 0..size : j \in good
    BY <1>12, <1>13, CountingUp
  <2> QED  BY <2>1
<1>15. First(<<>>) + size > size
  BY DEF First
<1>16. f[<<>>] = Rest(<<>>)
  BY <1>7, <1>14, <1>15
<1> QED  BY <1>7, <1>10, <1>16

\* Whatever size, cap and query value a request has, the links of each paginator lead from the first
\* page through every item once, the last page is the last with items, the bounds count the items,
\* previous undoes next and the size respects the cap (parsePageParams, toLinks and toMeta).
THEOREM PaginationIsAlwaysSound ==
    ASSUME NEW sizes \in SUBSET Nat, NEW caps \in SUBSET Int, NEW queried \in SUBSET Int
    PROVE  PaginationIsSound(sizes, caps, queried)
<1> DEFINE Sound(size, cap, asked, rows, given) ==
              LET first == Page(rows, [page |-> <<>>, perPage |-> asked], given)
              IN /\ first.page = 1 /\ first.perPage >= 1 /\ (cap >= 1 => first.perPage <= cap)
                 /\ ItemsFromCursor(rows, given, asked) = rows
                 /\ \A aware \in BOOLEAN :
                       first.perPage <= size + 2 =>
                          ItemsFrom(rows, [given EXCEPT !.cap = Larger(cap, 1)], aware)[Linked(1, first.perPage)] = rows
                 /\ \A p \in 1..(size + 2) :
                       LET page == Page(rows, Linked(p, first.perPage), [given EXCEPT !.cap = Larger(cap, 1)])
                           links == LengthAwarePaginator(page.items, size, page.page, page.perPage)
                       IN /\ page.items # <<>> => /\ links.bounds.to[1] - links.bounds.from[1] + 1 = Len(page.items)
                                                  /\ page.items[1] = links.bounds.from[1]
                                                  /\ page.page <= links.lastPage
                          /\ page.page = links.lastPage /\ size > 0 => page.items # <<>>
                          /\ links.next # 0 => Previous(links.next) = page.page
<1> SUFFICES ASSUME NEW size \in sizes, NEW cap \in caps, NEW asked \in {<<>>} \cup {<<n>> : n \in queried}
             PROVE  Sound(size, cap, asked, [i \in 1..size |-> i], [perPage |-> 2, cap |-> cap])
  BY DEF PaginationIsSound
<1> HIDE DEF Sound
<1>1. PICK options, linked, n : /\ options = [perPage |-> 2, cap |-> cap] /\ linked = [options EXCEPT !.cap = Larger(cap, 1)]
                                /\ n = Larger(Smaller(toFinitePositive(asked, options.perPage), options.cap), 1)
  OBVIOUS
<1>2. size \in Nat /\ cap \in Int /\ options.perPage = 2 /\ options.cap = cap
      /\ linked.cap = Larger(cap, 1) /\ linked.cap \in Nat \ {0}
  BY <1>1 DEF Larger
<1>3. toFinitePositive(asked, 2) \in Nat \ {0}
  <2>1. CASE asked = <<>>
    BY <2>1 DEF toFinitePositive
  <2>2. CASE asked # <<>>
    <3>1. PICK m \in Int : asked = <<m>>
      BY <2>2
    <3> QED  BY <2>2, <3>1 DEF toFinitePositive, Larger
  <2> QED  BY <2>1, <2>2
<1>4. n \in Nat \ {0} /\ (cap >= 1 => n <= cap)
  BY <1>1, <1>2, <1>3 DEF Larger, Smaller
<1>5. PICK start : start = Page(Rows(size), [page |-> <<>>, perPage |-> asked], options)
  OBVIOUS
<1>6. start.page = 1 /\ start.perPage = n
  <2>1. toFinitePositive(<<>>, 1) = 1 /\ Larger(1, 1) = 1
    BY DEF toFinitePositive, Larger
  <2> QED  BY <1>1, <1>5, <2>1 DEF Page, parsePageParams
<1>7. ItemsFromCursor(Rows(size), options, asked) = Rows(size)
  BY <1>1, <1>2, <1>4, CursorsLeadThroughAll
<1>8. ASSUME NEW aware \in BOOLEAN, n <= size + 2
      PROVE  ItemsFrom(Rows(size), linked, aware)[Linked(1, n)] = Rows(size)
  <2>1. n \in 1..(size + 2)
    BY <1>2, <1>4, <1>8
  <2> QED  BY <1>2, <2>1, LinksLeadThroughAll
<1>9. ASSUME NEW p \in 1..(size + 2), NEW page, page = Page(Rows(size), Linked(p, n), linked),
             NEW links, links = LengthAwarePaginator(page.items, size, page.page, page.perPage)
      PROVE  /\ page.items # <<>> => /\ links.bounds.to[1] - links.bounds.from[1] + 1 = Len(page.items)
                                     /\ page.items[1] = links.bounds.from[1]
                                     /\ page.page <= links.lastPage
             /\ page.page = links.lastPage /\ size > 0 => page.items # <<>>
             /\ links.next # 0 => Previous(links.next) = page.page
  <2>1. PICK k, items : k = Smaller(n, linked.cap) /\ items = Slice(Rows(size), p, k)
    OBVIOUS
  <2>2. p \in Nat \ {0} /\ page.page = p /\ page.perPage = k /\ page.items = items /\ k \in Nat \ {0}
    <3>1. p \in Nat \ {0}
      OBVIOUS
    <3> QED  BY <1>2, <1>4, <1>9, <2>1, <3>1, LinkedPages
  <2>3. /\ items \in Seq(Nat) /\ (items # <<>> <=> (p - 1) * k < size)
        /\ items # <<>> => items[1] = (p - 1) * k + 1
    <3>1. /\ Slice(Rows(size), p, k) \in Seq(Nat)
          /\ Slice(Rows(size), p, k) # <<>> <=> Skipped(p, k) < size
          /\ Slice(Rows(size), p, k) # <<>> => Slice(Rows(size), p, k)[1] = Skipped(p, k) + 1
      <4>1. size \in Nat /\ p \in Nat \ {0} /\ k \in Nat \ {0}
        BY <1>2, <2>2
      <4> QED  BY <4>1, PagesAndLinks
    <3> QED  BY <2>1, <3>1 DEF Skipped
  <2>4. links = LengthAwarePaginator(items, size, p, k)
    BY <1>9, <2>2
  <2>5. PICK lastPage : lastPage = Larger(Quotient(Larger(size, 0), k), 1)
    OBVIOUS
  <2>6. lastPage \in Nat \ {0} /\ \A q \in Nat \ {0} : q < lastPage <=> q * k < size
    BY <1>2, <2>2, <2>5, LastPageFits
  <2>7. /\ links.lastPage = lastPage /\ links.bounds = PageBounds(items, p, k)
        /\ links.next = IF p < lastPage THEN p + 1 ELSE 0
    BY <2>4, <2>5 DEF LengthAwarePaginator
  <2>8. (p - 1) * k < size <=> p <= lastPage /\ size > 0
    <3>1. CASE p = 1
      <4>1. (p - 1) * k = 0
        BY <2>2, <3>1
      <4> QED  BY <1>2, <2>6, <3>1, <4>1
    <3>2. CASE p # 1
      <4>1. p - 1 \in Nat \ {0} /\ (p - 1) * k \in Nat
        BY <2>2, <3>2, Multiples
      <4>2. p - 1 < lastPage <=> (p - 1) * k < size
        BY <2>6, <4>1
      <4> QED  BY <1>2, <2>2, <2>6, <4>1, <4>2
    <3> QED  BY <3>1, <3>2
  <2>9. items # <<>> => /\ links.bounds.to[1] - links.bounds.from[1] + 1 = Len(items)
                        /\ items[1] = links.bounds.from[1]
    <3> SUFFICES ASSUME items # <<>>
                 PROVE  links.bounds.to[1] - links.bounds.from[1] + 1 = Len(items) /\ items[1] = links.bounds.from[1]
      OBVIOUS
    <3>1. PICK offset \in Nat : offset = (p - 1) * k
      BY <2>2, Multiples
    <3>2. links.bounds.from = <<offset + 1>> /\ links.bounds.to = <<offset + Len(items)>>
      BY <2>7, <3>1 DEF PageBounds
    <3>3. Len(items) \in Nat
      BY <2>3
    <3>4. links.bounds.from[1] = offset + 1 /\ links.bounds.to[1] = offset + Len(items)
      BY <3>2
    <3>5. items[1] = offset + 1
      BY <2>3, <3>1
    <3> QED  BY <3>1, <3>3, <3>4, <3>5
  <2>10. links.next # 0 => Previous(links.next) = p
    BY <2>2, <2>7 DEF Previous
  <2> QED  BY <2>2, <2>3, <2>6, <2>7, <2>8, <2>9, <2>10
<1>10. \A p \in 1..(size + 2) :
          LET page == Page(Rows(size), Linked(p, start.perPage), [options EXCEPT !.cap = Larger(cap, 1)])
              links == LengthAwarePaginator(page.items, size, page.page, page.perPage)
          IN /\ page.items # <<>> => /\ links.bounds.to[1] - links.bounds.from[1] + 1 = Len(page.items)
                                     /\ page.items[1] = links.bounds.from[1]
                                     /\ page.page <= links.lastPage
             /\ page.page = links.lastPage /\ size > 0 => page.items # <<>>
             /\ links.next # 0 => Previous(links.next) = page.page
  <2> TAKE p \in 1..(size + 2)
  <2>1. PICK page, links : /\ page = Page(Rows(size), Linked(p, n), linked)
                           /\ links = LengthAwarePaginator(page.items, size, page.page, page.perPage)
    OBVIOUS
  <2>2. page = Page(Rows(size), Linked(p, start.perPage), [options EXCEPT !.cap = Larger(cap, 1)])
    BY <1>1, <1>6, <2>1
  <2> QED  BY <1>9, <2>1, <2>2
<1>11. \A aware \in BOOLEAN :
          start.perPage <= size + 2 =>
             ItemsFrom(Rows(size), [options EXCEPT !.cap = Larger(cap, 1)], aware)[Linked(1, start.perPage)] = Rows(size)
  BY <1>1, <1>6, <1>8
<1>12. start.page = 1 /\ start.perPage >= 1 /\ (cap >= 1 => start.perPage <= cap)
  BY <1>4, <1>6
<1>13. Rows(size) = [i \in 1..size |-> i]
  BY DEF Rows
<1>14. Sound(size, cap, asked, Rows(size), options)
  BY <1>5, <1>7, <1>10, <1>11, <1>12 DEF Sound
<1> QED  BY <1>1, <1>13, <1>14
=============================================================================
