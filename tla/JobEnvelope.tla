---------------------------- MODULE JobEnvelope ----------------------------
(***************************************************************************)
(* From a job to its execution: JobSerializer (tags, metadata contributors, *)
(* admission, the dispatch identity with the payload's fingerprint), the    *)
(* envelopes of chains and batches with their limits, the queue that stores *)
(* them as JSON and may hand over a payload that was altered, and JobRunner *)
(* (checks, registry, middleware).                                          *)
(* Metadata is the set of its keys; a payload is a model value, and its     *)
(* fingerprint the payload it was taken of.                                 *)
(***************************************************************************)
EXTENDS Naturals, FiniteSets, Sequences, SequencesExt

CONSTANTS
    PlainKeys,          \* metadata keys of contributors and of custom serializers
    Payloads,           \* JSON payloads
    MaxMetadataKeys,    \* MAX_JOB_METADATA_KEYS
    MaxSteps,           \* MAX_QUEUE_CHAIN_STEPS, MAX_QUEUE_BATCH_ITEMS
    MaxBytes            \* MAX_QUEUE_CHAIN_BYTES, MAX_QUEUE_BATCH_BYTES
ASSUME JobEnvelopeAssumption == {MaxMetadataKeys, MaxSteps, MaxBytes} \subseteq Nat /\ IsFiniteSet(PlainKeys)

TagsKey == "laravelize.queue.tags.v1"
DispatchKey == "laravelize.queue.dispatch.v1"
Reserved == {TagsKey, DispatchKey}
AllKeys == PlainKeys \union Reserved
Altered == "altered"       \* a payload the queue gives back that nobody sent
NotJson == "notJson"       \* what snapshotPayload refuses

(***************************************************************************)
(* Serialisation                                                            *)
(***************************************************************************)
\* mergeMetadata: contributions may not repeat a key nor use a reserved one.
Mergeable(metadata, contributions) ==
    /\ \A i \in DOMAIN contributions :
          /\ contributions[i] \intersect (metadata \union Reserved) = {}
          /\ \A j \in 1..(i - 1) : contributions[i] \intersect contributions[j] = {}
Merge(metadata, contributions) == metadata \union UNION {contributions[i] : i \in DOMAIN contributions}

\* serializeJob: what a custom serialize() gave, the contributions, then the tags,
\* which must be the ones a custom serializer wrote, if it wrote any.
serializeJobOk(j) ==
    /\ Mergeable(j.base, j.contributions)
    /\ (j.tagged /\ TagsKey \in j.base) => j.sameTags
    /\ Cardinality(Merge(j.base, j.contributions) \union (IF j.tagged THEN {TagsKey} ELSE {})) <= MaxMetadataKeys
serializedKeys(j) == Merge(j.base, j.contributions) \union (IF j.tagged THEN {TagsKey} ELSE {})

\* normalizeAdmissionContext: the registry knows the name for this constructor.
Admitted(j) == j.admission # <<>> => j.registered

\* #serialize: admission contributions are merged after the others, and the dispatch
\* identity is added beyond the limit.
serializes(j) ==
    /\ serializeJobOk(j) /\ j.payload # NotJson
    /\ Admitted(j) /\ Mergeable(serializedKeys(j), j.admission)
    /\ LET metadata == Merge(serializedKeys(j), j.admission) IN
       DispatchKey \notin metadata /\ Cardinality(metadata) <= MaxMetadataKeys
envelope(j) ==
    [payload |-> j.payload, fingerprint |-> j.payload,
     keys |-> Merge(serializedKeys(j), j.admission) \union {DispatchKey}]

(***************************************************************************)
(* Chains and batches: an envelope of n jobs of one size, read back by the   *)
(* worker of every index.  The sizes are in bytes of JSON.                  *)
(***************************************************************************)
Digits(i) == IF i < 10 THEN 1 ELSE IF i < 100 THEN 2 ELSE 3
chainBytes(n, size, index) == n * size + Digits(index)

\* prepareQueueChain measures the envelope with the largest index it will carry.
prepareQueueChain(n, size) == n \in 1..MaxSteps /\ chainBytes(n, size, n - 1) <= MaxBytes
\* nextQueueChainEnvelope and readQueueChainEnvelope
readQueueChainEnvelope(n, size, index) ==
    n \in 1..MaxSteps /\ index \in 0..(n - 1) /\ n * size + Digits(index) <= MaxBytes

\* prepareQueueBatch measures coordinator and children together after each child.
childBytes(n, size, index) == size + Digits(index) + Digits(n)
coordinatorBytes(n, requested) == Digits(n) + (IF requested THEN 4 ELSE 5)
IndexDigits(n) == IF n <= 10 THEN n ELSE IF n <= 100 THEN 2 * n - 10 ELSE 3 * n - 110   \* of 0..(n - 1)
batchBytes(n, size) == coordinatorBytes(n, FALSE) + n * (size + Digits(n)) + IndexDigits(n)
prepareQueueBatch(n, size) == n \in 1..MaxSteps /\ batchBytes(n, size) <= MaxBytes
\* readQueueBatchChildEnvelope, readQueueBatchCoordinatorEnvelope
readQueueBatchChild(n, size, index) ==
    n \in 1..MaxSteps /\ index \in 0..(n - 1) /\ childBytes(n, size, index) <= MaxBytes
readQueueBatchCoordinator(n, requested) == n \in 1..MaxSteps /\ coordinatorBytes(n, requested) <= MaxBytes

(***************************************************************************)
(* JobRunner                                                                *)
(***************************************************************************)
\* mutant: the dispatch identity counts towards the limit that the serializer kept without it.
prepareCountingDispatch(e) ==
    /\ Cardinality(e.keys) <= MaxMetadataKeys
    /\ DispatchKey \in e.keys => e.fingerprint = e.payload
\* assertSerializedJob and verifyDispatchIdentity
prepare(e) ==
    /\ Cardinality(e.keys) <= MaxMetadataKeys + (IF DispatchKey \in e.keys THEN 1 ELSE 0)
    /\ DispatchKey \in e.keys => e.fingerprint = e.payload

\* use(): registrations [id, order, sequence] sorted by order, then by sequence; the
\* first is the outermost of #execute.
Before(a, b) == a.order < b.order \/ (a.order = b.order /\ a.sequence < b.sequence)
use(registrations, id, order) ==
    IF \E i \in DOMAIN registrations : registrations[i].id = id THEN registrations
    ELSE LET all == ToSet(registrations) \union {[id |-> id, order |-> order, sequence |-> Len(registrations)]}
         IN CHOOSE s \in SetToSeqs(all) : \A i, k \in DOMAIN s : i < k => Before(s[i], s[k])

(***************************************************************************)
(* One dispatch                                                             *)
(***************************************************************************)
VARIABLES
    stage,       \* "new", "refused", "stored", "rejected", "scope", "running", "disposed"
    sent,        \* the job as it was given to the queue
    held,        \* its envelope in the queue
    middleware,  \* the registrations of the runner
    entered,     \* the middleware entered by this execution
    bundle       \* a chain or batch: its jobs, their size, the worker that reads it
envelopeVars == <<stage, sent, held, middleware, entered, bundle>>

Keyed(sets) == {<<>>} \union {<<s>> : s \in sets} \union {<<s, t>> : s, t \in sets}
JobShapes ==
    [base : SUBSET AllKeys, contributions : Keyed({{k} : k \in PlainKeys}),
     admission : {<<>>} \union {<<{k}>> : k \in PlainKeys},
     tagged : BOOLEAN, sameTags : BOOLEAN, registered : BOOLEAN, payload : Payloads \union {NotJson}]
NoJob == [base |-> {}, contributions |-> <<>>, admission |-> <<>>, tagged |-> FALSE,
          sameTags |-> FALSE, registered |-> FALSE, payload |-> NotJson]
NoEnvelope == [payload |-> NotJson, fingerprint |-> NotJson, keys |-> {}]
NoBundle == [kind |-> "none", n |-> 0, size |-> 0, index |-> 0, readable |-> TRUE]

EnvelopeInit ==
    /\ stage = "new" /\ sent = NoJob /\ held = NoEnvelope /\ middleware = <<>> /\ entered = <<>>
    /\ bundle = NoBundle

EnvelopeTypeOK ==
    /\ stage \in {"new", "refused", "stored", "rejected", "scope", "running", "disposed"}
    /\ held.keys \subseteq AllKeys /\ Len(entered) <= Len(middleware)
    /\ bundle.index <= bundle.n /\ bundle.n <= MaxSteps

push(j) ==
    /\ stage = "new" /\ bundle.kind = "none" /\ sent' = j
    /\ IF serializes(j) THEN stage' = "stored" /\ held' = envelope(j)
       ELSE stage' = "refused" /\ UNCHANGED held
    /\ UNCHANGED <<middleware, entered, bundle>>
\* The runner registers middleware before it consumes.
register(id, order) ==
    /\ stage = "stored" /\ middleware' = use(middleware, id, order)
    /\ UNCHANGED <<stage, sent, held, entered, bundle>>
\* What the queue stored is not what was sent.
alter ==
    /\ stage = "stored" /\ held.payload # Altered
    /\ held' = [held EXCEPT !.payload = Altered]
    /\ UNCHANGED <<stage, sent, middleware, entered, bundle>>
begin ==
    /\ stage = "stored" /\ stage' = IF prepare(held) THEN "scope" ELSE "rejected"
    /\ UNCHANGED <<sent, held, middleware, entered, bundle>>
\* Contributors of the scope, then the middleware from the outermost inwards; each
\* may throw, and the scope is disposed of in any case.
enter ==
    /\ stage = "scope" /\ Len(entered) < Len(middleware)
    /\ entered' = Append(entered, middleware[Len(entered) + 1].id)
    /\ UNCHANGED <<stage, sent, held, middleware, bundle>>
handle ==
    /\ stage = "scope" /\ Len(entered) = Len(middleware) /\ stage' = "running"
    /\ UNCHANGED <<sent, held, middleware, entered, bundle>>
dispose ==
    /\ stage \in {"scope", "running"} /\ stage' = "disposed"
    /\ UNCHANGED <<sent, held, middleware, entered, bundle>>

\* A chain or a batch is accepted, and the workers read its envelopes one by one; the
\* coordinator of a batch is read, also when its cancellation is requested, at index n.
bundleJobs(kind, n, size) ==
    /\ stage = "new" /\ bundle.kind = "none"
    /\ IF kind = "chain" THEN prepareQueueChain(n, size) ELSE prepareQueueBatch(n, size)
    /\ bundle' = [kind |-> kind, n |-> n, size |-> size, index |-> 0, readable |-> TRUE]
    /\ UNCHANGED <<stage, sent, held, middleware, entered>>
readNext ==
    /\ bundle.index < bundle.n
    /\ bundle' = [bundle EXCEPT !.index = @ + 1, !.readable = @ /\
          IF bundle.kind = "chain" THEN readQueueChainEnvelope(bundle.n, bundle.size, bundle.index)
          ELSE /\ readQueueBatchChild(bundle.n, bundle.size, bundle.index)
               /\ \A requested \in BOOLEAN : readQueueBatchCoordinator(bundle.n, requested)]
    /\ UNCHANGED <<stage, sent, held, middleware, entered>>

EnvelopeNext ==
    \/ \E j \in JobShapes : push(j)
    \/ \E id \in {"authorize", "throttle"}, order \in {0, 1} : register(id, order)
    \/ alter \/ begin \/ enter \/ handle \/ dispose
    \/ \E kind \in {"chain", "batch"}, n \in 0..(MaxSteps + 1), size \in 1..4 : bundleJobs(kind, n, size)
    \/ readNext

EnvelopeSpec == EnvelopeInit /\ [][EnvelopeNext]_envelopeVars

\* What the serializer accepts the runner accepts, at the limit too; a handler only ever
\* sees the payload that was sent, and by then has been entered through each registered
\* middleware once, by their order and then by their registration (JobRunner.use,
\* #execute); and a chain or batch that was accepted can be read by the worker of each of
\* its jobs, the last one included.
RunsAsSent ==
    /\ (stage = "rejected") => held.payload = Altered
    /\ (stage = "running") =>
          /\ held.payload = sent.payload
          /\ entered = [i \in DOMAIN middleware |-> middleware[i].id]
          /\ \A i, k \in DOMAIN middleware : i < k => Before(middleware[i], middleware[k])
    /\ bundle.readable
=============================================================================
