---------------------------- MODULE DirectUpload ----------------------------
(***************************************************************************)
(* Grants for direct uploads to S3 and their confirmation, by several       *)
(* servers at once, over the in-memory issuance store or the one in Redis.  *)
(* A command to Redis may time out and still run later.                     *)
(***************************************************************************)
EXTENDS Naturals, FiniteSets

CONSTANTS
    IssuanceStores,   \* a subset of {"memory", "redis"}
    Grants,           \* grants; each is issued once
    Confirmers,       \* concurrent calls of confirmUpload
    Lifetime,         \* the policy's expiry
    MaxPending,       \* capacity of the in-memory store
    MaxUploadFaults   \* bound: calls that fail or time out
ASSUME UploadAssumption ==
    /\ IssuanceStores \subseteq {"memory", "redis"} /\ "none" \notin Confirmers
    /\ Lifetime \in Nat /\ MaxPending \in Nat \ {0} /\ MaxUploadFaults \in Nat

VARIABLES
    issuanceStore, now,
    issuances,     \* the records of the store
    issued,        \* grants that were handed out
    objects,       \* the uploaded objects: "none", "matching" or "other"
    confirming,    \* what every confirmer does
    late,          \* commands that timed out and may still run
    confirmations, \* how often every grant was confirmed
    consumed,      \* grants whose own reservation completed
    uploadFaults
uploadVars == <<issuanceStore, now, issuances, issued, objects, confirming, late, confirmations, consumed, uploadFaults>>

Free == [state |-> "missing", token |-> "none", audience |-> "none"]
Quiet == [pc |-> "idle", grant |-> "none"]
Audiences == {"scope", "other"}

UploadInit ==
    /\ issuanceStore \in IssuanceStores /\ now = 0
    /\ issuances = [g \in Grants |-> Free] /\ issued = {} /\ objects = [g \in Grants |-> "none"]
    /\ confirming = [c \in Confirmers |-> Quiet] /\ late = {}
    /\ confirmations = [g \in Grants |-> 0] /\ consumed = {} /\ uploadFaults = 0

UploadTypeOK ==
    /\ now \in 0..Lifetime /\ issued \subseteq Grants /\ objects \in [Grants -> {"none", "matching", "other"}]
    /\ \A g \in Grants : issuances[g].state \in {"missing", "pending", "reserved"}

(***************************************************************************)
(* The store's transitions, each atomic.  A token is its confirmer's.       *)
(***************************************************************************)
Expired == now >= Lifetime
\* assertUsableUploadPolicy: the policy's other fields are constant, its expiry is not.
Usable == ~Expired
Live == IF issuanceStore = "redis" /\ Expired THEN [g \in Grants |-> Free] ELSE issuances
save(g, audience) ==
    /\ Live[g].state = "missing" /\ ~Expired
    /\ issuanceStore = "memory" => Cardinality({h \in Grants : issuances[h].state # "missing"}) < MaxPending
    /\ issuances' = [Live EXCEPT ![g] = [state |-> "pending", token |-> "none", audience |-> audience]]
Reservable(g, audience) == Live[g].state = "pending" /\ Live[g].audience = audience /\ ~Expired
reserve(g, token) == [Live EXCEPT ![g].state = "reserved", ![g].token = token]
\* mutant: any reservation of the grant is taken for one's own
matchingAnyToken(g, token) == Live[g].state = "reserved"
matchingReservation(g, token) == Live[g].state = "reserved" /\ Live[g].token = token
Released(g, token) ==
    IF ~matchingReservation(g, token) THEN Live
    ELSE IF Expired THEN [Live EXCEPT ![g] = Free] ELSE [Live EXCEPT ![g].state = "pending", ![g].token = "none"]
Completed(g, token) == IF matchingReservation(g, token) THEN [Live EXCEPT ![g] = Free] ELSE Live

(***************************************************************************)
(* AwsS3Filesystem.                                                         *)
(***************************************************************************)
createDirectUpload(g, audience) ==
    /\ g \notin issued /\ Usable /\ save(g, audience) /\ issued' = issued \union {g}
    /\ UNCHANGED <<issuanceStore, now, objects, confirming, late, confirmations, consumed, uploadFaults>>
\* The presigned POST admits only the bytes and metadata of the policy; anyone else who
\* can write the key puts something else there.
upload(g, object) ==
    /\ g \in issued /\ objects' = [objects EXCEPT ![g] = object]
    /\ UNCHANGED <<issuanceStore, now, issuances, issued, confirming, late, confirmations, consumed, uploadFaults>>

Turn(c, pc) == confirming' = [confirming EXCEPT ![c].pc = pc]
confirmReserves(c, g, audience) ==
    /\ confirming[c].pc = "idle" /\ g \in issued /\ Reservable(g, audience)
    /\ ~\E l \in late : l.token = c        \* tokens are fresh
    /\ issuances' = reserve(g, c) /\ confirming' = [confirming EXCEPT ![c] = [pc |-> "head", grant |-> g]]
    /\ UNCHANGED <<issuanceStore, now, issued, objects, late, confirmations, consumed, uploadFaults>>
\* The policy, then the object's size, type, metadata and checksum
confirmChecks(c) ==
    /\ confirming[c].pc = "head"
    /\ IF Usable /\ objects[confirming[c].grant] = "matching"
       THEN Turn(c, "complete") ELSE Turn(c, "release")
    /\ UNCHANGED <<issuanceStore, now, issuances, issued, objects, late, confirmations, consumed, uploadFaults>>
Completable(g, token) == matchingReservation(g, token) /\ ~Expired
confirmCompletes(c) ==
    LET g == confirming[c].grant IN
    /\ confirming[c].pc = "complete" /\ issuances' = Completed(g, c)
    /\ IF Completable(g, c)
       THEN /\ confirmations' = [confirmations EXCEPT ![g] = @ + 1] /\ consumed' = consumed \union {g}
            /\ confirming' = [confirming EXCEPT ![c] = Quiet]
       ELSE Turn(c, "release") /\ UNCHANGED <<confirmations, consumed>>
    /\ UNCHANGED <<issuanceStore, now, issued, objects, late, uploadFaults>>
confirmReleases(c) ==
    /\ confirming[c].pc = "release" /\ issuances' = Released(confirming[c].grant, c)
    /\ confirming' = [confirming EXCEPT ![c] = Quiet]
    /\ UNCHANGED <<issuanceStore, now, issued, objects, late, confirmations, consumed, uploadFaults>>

(***************************************************************************)
(* Faults and time.                                                         *)
(***************************************************************************)
UploadFault == uploadFaults < MaxUploadFaults /\ uploadFaults' = uploadFaults + 1
\* The call fails: HeadObject, or a command that never ran or still may.
confirmFails(c) ==
    /\ confirming[c].pc # "idle" /\ UploadFault
    /\ issuanceStore = "memory" => confirming[c].pc = "head"
    /\ LET again == IF issuanceStore = "redis" /\ confirming[c].pc \in {"complete", "release"}
                    THEN {{}, {[command |-> confirming[c].pc, grant |-> confirming[c].grant, token |-> c]}} ELSE {{}}
       IN \E l \in again : late' = late \union l
    /\ IF confirming[c].pc = "release" THEN confirming' = [confirming EXCEPT ![c] = Quiet] ELSE Turn(c, "release")
    /\ UNCHANGED <<issuanceStore, now, issuances, issued, objects, confirmations, consumed>>
\* The server dies; the store in memory would die with it.
confirmDies(c) ==
    /\ issuanceStore = "redis" /\ confirming[c].pc # "idle" /\ UploadFault /\ confirming' = [confirming EXCEPT ![c] = Quiet]
    /\ UNCHANGED <<issuanceStore, now, issuances, issued, objects, late, confirmations, consumed>>
runsLate(l) ==
    /\ late' = late \ {l}
    /\ IF l.command = "complete"
       THEN /\ issuances' = Completed(l.grant, l.token)
            /\ consumed' = IF Live[l.grant].token = l.token THEN consumed \union {l.grant} ELSE consumed
       ELSE issuances' = Released(l.grant, l.token) /\ UNCHANGED consumed
    /\ UNCHANGED <<issuanceStore, now, issued, objects, confirming, confirmations, uploadFaults>>
passes ==
    /\ now < Lifetime /\ now' = now + 1
    /\ UNCHANGED <<issuanceStore, issuances, issued, objects, confirming, late, confirmations, consumed, uploadFaults>>

UploadNext ==
    \/ passes \/ \E l \in late : runsLate(l)
    \/ \E g \in Grants, audience \in Audiences : createDirectUpload(g, audience)
    \/ \E g \in Grants, object \in {"matching", "other"} : upload(g, object)
    \/ \E c \in Confirmers :
        \/ \E g \in Grants, audience \in Audiences : confirmReserves(c, g, audience)
        \/ confirmChecks(c) \/ confirmCompletes(c) \/ confirmReleases(c) \/ confirmFails(c) \/ confirmDies(c)

UploadSpec == UploadInit /\ [][UploadNext]_uploadVars

\* A grant is confirmed at most once, and, until it expires, is used up only by a
\* completion of its own reservation: no failed, slow or late confirmation takes it
\* from another.
GrantsAreSpentOnce ==
    \A g \in Grants :
        /\ confirmations[g] <= 1
        /\ g \in issued /\ ~Expired => (issuances[g].state = "missing") = (g \in consumed)
=============================================================================
