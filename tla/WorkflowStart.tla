---------------------------- MODULE WorkflowStart ----------------------------
(***************************************************************************)
(* How a workflow comes to exist: WorkflowRegistry.register and the exact  *)
(* resolution of a definition, WorkflowManager.start, and create of the    *)
(* in-memory and of the SQL store (packages/workflows, workflows-drizzle). *)
(*                                                                         *)
(* Several processes run releases that may register other steps under one  *)
(* name and version.  A start key names a start: whoever repeats it must   *)
(* get the workflow that was created first, or an error.                   *)
(*                                                                         *)
(* A definition is its identity (name and version), the shape of its steps *)
(* (names and compensations), their handlers and the attempts they allow.  *)
(* An input is its canonical text.  Ids come from the idFactory of the     *)
(* application, which may repeat one.                                      *)
(***************************************************************************)
EXTENDS Integers, Sequences, FiniteSets

CONSTANTS
    StartStores,    \* subset of {"memory", "drizzle"}
    Processes,      \* processes, each with a registry
    StartCallers,   \* callers of start()
    DefinitionBatches, \* the lists of definitions that register() is called with
    StartRequests,  \* what a caller may ask: a reference, a start key, an input
    WorkflowIds,    \* what idFactory returns
    MaxStarts       \* bound: calls of start()

\* maxAttempts is a positive integer (validation of a definition).
ASSUME StartAssumption ==
    /\ StartStores \subseteq {"memory", "drizzle"} /\ "database" \notin Processes
    /\ \A batch \in DefinitionBatches : \A i \in DOMAIN batch : batch[i].maxAttempts \in Nat
    /\ MaxStarts \in Nat

VARIABLES
    startStore,     \* the store of the deployment
    registries,     \* registries[p]: the definitions that p has registered
    workflows,      \* workflows[h]: the rows of store h
    starts,         \* starts[c]: the call of start() that c makes
    started         \* how many calls there were

startVars == <<startStore, registries, workflows, starts, started>>

\* The memory store is local to its process.
Homes == Processes \cup {"database"}
HomeOf(p) == IF startStore = "memory" THEN p ELSE "database"

NoRow == [id |-> "none", identity |-> "none", startKey |-> "none", input |-> "none", shape |-> "none", attempts |-> 0]
NoRequest == [identity |-> "none", byValue |-> {}, startKey |-> "none", input |-> "none"]
NoDefinition == [identity |-> "none", shape |-> "none", handlers |-> "none", maxAttempts |-> 0]
NotStarting == [pc |-> "idle", process |-> "none", request |-> NoRequest, definition |-> NoDefinition,
                requested |-> NoRow, persisted |-> NoRow, created |-> FALSE, answer |-> "none"]

StartInit ==
    /\ startStore \in StartStores
    /\ registries = [p \in Processes |-> {}]
    /\ workflows = [h \in Homes |-> {}]
    /\ starts = [c \in StartCallers |-> NotStarting]
    /\ started = 0

Answered(c, answer) == starts' = [starts EXCEPT ![c].pc = "idle", ![c].answer = answer]

(***************************************************************************)
(* Registration and resolution                                             *)
(***************************************************************************)

\* A batch with an identity twice, or with one that is registered, is refused as a whole.
AdmittedDefinitions(registry, batch) ==
    IF \/ \E i, j \in DOMAIN batch : i # j /\ batch[i].identity = batch[j].identity
       \/ \E i \in DOMAIN batch, d \in registry : d.identity = batch[i].identity
    THEN {} ELSE {batch[i] : i \in DOMAIN batch}

registerWorkflows(p) ==
    /\ \E batch \in DefinitionBatches :
          registries' = [registries EXCEPT ![p] = @ \cup AdmittedDefinitions(@, batch)]
    /\ UNCHANGED <<startStore, workflows, starts, started>>

\* Steps, compensations, attempts and the handlers themselves.
sameDefinition(reference, registered) == reference = registered

\* resolveWorkflowDefinitionExact, of the registry; a definition that is passed by value must be
\* the registered one, its handlers included.
resolveExact(p, request) ==
    {d \in registries[p] : /\ d.identity = request.identity
                           /\ \A value \in request.byValue : sameDefinition(value, d)}

(***************************************************************************)
(* start                                                                   *)
(***************************************************************************)

snapshotOf(id, request, definition) ==
    [id |-> id, identity |-> request.identity, startKey |-> request.startKey, input |-> request.input,
     shape |-> definition.shape, attempts |-> 0]

startWorkflow(c) ==
    /\ starts[c].pc = "idle" /\ started < MaxStarts
    /\ started' = started + 1
    /\ \E p \in Processes, request \in StartRequests :
          LET call == [NotStarting EXCEPT !.process = p, !.request = request]
          IN IF request.startKey = "" \/ resolveExact(p, request) = {}
             THEN starts' = [starts EXCEPT ![c] = [NotStarting EXCEPT !.answer = "invalid"]]
             ELSE \E id \in WorkflowIds, definition \in resolveExact(p, request) :
                     starts' = [starts EXCEPT ![c] = [call EXCEPT !.pc = "create", !.definition = definition,
                                                                  !.requested = snapshotOf(id, request, definition)]]
    /\ UNCHANGED <<startStore, registries, workflows>>

(***************************************************************************)
(* create                                                                  *)
(***************************************************************************)

SameStart(row, requested) == row.identity = requested.identity /\ row.startKey = requested.startKey

\* The primary key and the unique constraint, which "on conflict do nothing" meets.
Collides(row, requested) == row.id = requested.id \/ SameStart(row, requested)

\* mutant: whoever uses the key gets the row, whatever its input.
ExistingWhateverInput(rows, requested) == {row \in rows : SameStart(row, requested)}

\* The row of an earlier start, unless it has another input; an id that is taken is a conflict.
Existing(rows, requested) == {row \in rows : SameStart(row, requested) /\ row.input = requested.input}

Returned(c, row, created) ==
    starts' = [starts EXCEPT ![c].pc = "receipt", ![c].persisted = row, ![c].created = created]

ExistingOrConflict(c, rows) ==
    LET found == Existing(rows, starts[c].requested)
    IN \/ found = {} /\ Answered(c, "conflict")
       \/ \E row \in found : Returned(c, row, FALSE)

\* The memory store looks for the start key and for the id, and writes, in one go.
createInMemory(c) ==
    LET h == HomeOf(starts[c].process)
        requested == starts[c].requested
    IN /\ starts[c].pc = "create" /\ startStore = "memory"
       /\ IF \E row \in workflows[h] : SameStart(row, requested) \/ row.id = requested.id
          THEN ExistingOrConflict(c, workflows[h]) /\ UNCHANGED workflows
          ELSE /\ workflows' = [workflows EXCEPT ![h] = @ \cup {requested}]
               /\ Returned(c, requested, TRUE)
       /\ UNCHANGED <<startStore, registries, started>>

\* The SQL store inserts and, when that wrote nothing, reads in a second statement.
insertRow(c) ==
    LET requested == starts[c].requested
    IN /\ starts[c].pc = "create" /\ startStore = "drizzle"
       /\ IF \E row \in workflows["database"] : Collides(row, requested)
          THEN starts' = [starts EXCEPT ![c].pc = "select"] /\ UNCHANGED workflows
          ELSE /\ workflows' = [workflows EXCEPT !["database"] = @ \cup {requested}]
               /\ Returned(c, requested, TRUE)
       /\ UNCHANGED <<startStore, registries, started>>

selectRow(c) ==
    /\ starts[c].pc = "select"
    /\ ExistingOrConflict(c, workflows["database"])
    /\ UNCHANGED <<startStore, registries, workflows, started>>

(***************************************************************************)
(* What start() makes of the answer                                        *)
(***************************************************************************)

\* assertWorkflowCreateReceipt
ReceiptValid(call) ==
    IF call.created THEN call.persisted = call.requested
    ELSE SameStart(call.persisted, call.requested) /\ call.persisted.input = call.requested.input

\* assertWorkflowSnapshotMatchesDefinition: a release may have other steps under the same
\* version, or allow fewer attempts than the row has used.
MatchesDefinition(row, definition) ==
    /\ row.identity = definition.identity /\ row.shape = definition.shape
    /\ row.attempts <= definition.maxAttempts

\* assertStartResult: a row that is returned has to match what was asked.
readReceipt(c) ==
    LET call == starts[c]
    IN /\ call.pc = "receipt"
       /\ Answered(c, IF ~ReceiptValid(call) THEN "contract error"
                      ELSE IF ~MatchesDefinition(call.persisted, call.definition) THEN "identity conflict"
                      ELSE "started")
       /\ UNCHANGED <<startStore, registries, workflows, started>>

\* The process of the caller dies: the row may be there, the registry has to be filled again.
processDies(p) ==
    /\ \E c \in StartCallers : starts[c].pc # "idle" /\ starts[c].process = p
    /\ starts' = [c \in StartCallers |-> IF starts[c].pc # "idle" /\ starts[c].process = p
                                         THEN [NotStarting EXCEPT !.answer = "unknown"] ELSE
                                         IF startStore = "memory" /\ starts[c].process = p THEN NotStarting ELSE starts[c]]
    /\ registries' = [registries EXCEPT ![p] = {}]
    /\ workflows' = [workflows EXCEPT ![p] = {}]
    /\ UNCHANGED <<startStore, started>>

\* A worker with a definition of the same shape uses up an attempt of the row.
attempt(p) ==
    /\ \E row \in workflows[HomeOf(p)], d \in registries[p] :
          /\ MatchesDefinition([row EXCEPT !.attempts = @ + 1], d)
          /\ workflows' = [workflows EXCEPT ![HomeOf(p)] = (@ \ {row}) \cup {[row EXCEPT !.attempts = @ + 1]}]
    /\ UNCHANGED <<startStore, registries, starts, started>>

StartNext ==
    \/ \E p \in Processes : registerWorkflows(p) \/ processDies(p) \/ attempt(p)
    \/ \E c \in StartCallers : startWorkflow(c) \/ createInMemory(c) \/ insertRow(c) \/ selectRow(c) \/ readReceipt(c)

StartSpec == StartInit /\ [][StartNext]_startVars

(***************************************************************************)
(* Properties                                                              *)
(***************************************************************************)

\* The types of the variables.
StartTypeOK ==
    /\ startStore \in StartStores
    /\ DOMAIN registries = Processes /\ DOMAIN workflows = Homes
    /\ \A c \in StartCallers :
          /\ starts[c].pc \in {"idle", "create", "select", "receipt"}
          /\ starts[c].answer \in {"none", "invalid", "conflict", "contract error", "identity conflict", "started", "unknown"}
    /\ started \in 0..MaxStarts

\* A start key and an id name one row of a store, however the starts interleave.
RowsAreOne ==
    \A h \in Homes : \A one, other \in workflows[h] :
       (one.id = other.id \/ SameStart(one, other)) => one = other

\* Whoever is told that the workflow has started finds the one it asked for, with its input
\* and the steps of its release, and so do all who use the key: nobody starts a second one.
AnswersAreKept ==
    \A c \in StartCallers : starts[c].answer = "started" =>
       \E row \in workflows[HomeOf(starts[c].process)] :
          /\ row.id = starts[c].persisted.id
          /\ SameStart(row, starts[c].requested) /\ row.input = starts[c].requested.input
          /\ row.shape = starts[c].definition.shape

\* A caller that is refused has met another input under its key, its id in use, or other steps.
RefusalsAreFounded ==
    \A c \in StartCallers :
       LET call == starts[c]
           rows == workflows[HomeOf(call.process)]
       IN /\ call.answer # "contract error"
          /\ call.answer = "conflict" =>
                \E row \in rows : \/ SameStart(row, call.requested) /\ row.input # call.requested.input
                                  \/ row.id = call.requested.id /\ ~SameStart(row, call.requested)
          /\ call.answer = "identity conflict" =>
                \E row \in rows : /\ ~call.created /\ SameStart(row, call.requested)
                                  /\ ~MatchesDefinition(row, call.definition)

\* A registry holds whole batches, and one definition under an identity.
RegistriesAreWhole ==
    \A p \in Processes :
       /\ \A d, e \in registries[p] : d.identity = e.identity => d = e
       /\ \A d \in registries[p] : \E batch \in DefinitionBatches :
             /\ \E i \in DOMAIN batch : batch[i] = d
             /\ \A i \in DOMAIN batch : batch[i] \in registries[p]

\* The start of a workflow is idempotent: start keys and ids are unique, answers and refusals
\* are founded on the rows, and registration is all or nothing.
StartsAreOne == RowsAreOne /\ AnswersAreKept /\ RefusalsAreFounded /\ RegistriesAreWhole
=============================================================================
