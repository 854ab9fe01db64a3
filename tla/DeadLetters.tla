---------------------------- MODULE DeadLetters -----------------------------
(***************************************************************************)
(* Retry and discard of one dead letter by several operators, through the   *)
(* HTTP handler of the operations pages and the adapter of                  *)
(* reliability_messages or the BullMQ adapter with its receipts.            *)
(* A request carries the id of its operation; a client that does not know   *)
(* the outcome sends it again, and another may reuse the id.  Every step    *)
(* of a server is one call to the database or to Redis, and any may reject, *)
(* a write with or without its effect.                                      *)
(***************************************************************************)
EXTENDS Naturals, FiniteSets

CONSTANTS
    Sources,           \* adapters, a subset of {"reliability", "bullmq"}
    LetterRequests,    \* the requests: operation id, action, the revision its operator saw, and
                       \* whether its availableAt lies ahead (later)
    Servers,           \* requests served at once
    MaxLetterRevision, \* bound: revision of the letter
    MaxLetterFaults    \* bound: calls that reject, servers that die
ASSUME DeadLettersAssumption ==
    /\ Sources \subseteq {"reliability", "bullmq"}
    /\ LetterRequests \subseteq [op : STRING, action : {"retry", "discard"}, revision : Nat, later : BOOLEAN]
    /\ \A r \in LetterRequests : r.op # "none"
    /\ MaxLetterRevision \in Nat /\ MaxLetterFaults \in Nat

VARIABLES
    source,
    letter,       \* the row of the message, or the job
    receipts,     \* reliability_dead_letter_operations
    serving,      \* what every server does
    answers,      \* the definite answers given, with their requests
    effects,      \* the requests that acted on the letter, how often
    letterFaults
letterVars == <<source, letter, receipts, serving, answers, effects, letterFaults>>

Operations == {r.op : r \in LetterRequests}
NoReceipt == [status |-> "none"]
Idle == [pc |-> "idle"]
Failures == {"not_found", "stale_revision", "invalid_state"}

DeadLettersInit ==
    /\ source \in Sources
    /\ \E batch \in BOOLEAN :
          /\ batch => source = "bullmq"
          /\ letter = [state |-> "dead", disposition |-> "active", revision |-> 0, marker |-> "none", batchChild |-> batch]
    /\ receipts = [o \in Operations |-> NoReceipt] /\ serving = [s \in Servers |-> Idle]
    /\ answers = {} /\ effects = [r \in LetterRequests |-> <<0, 0>>] /\ letterFaults = 0

DeadLettersTypeOK ==
    /\ letter.state \in {"dead", "alive"} /\ letter.disposition \in {"active", "discarded"}
    /\ letter.revision \in 0..MaxLetterRevision + 1 /\ letter.marker \in Operations \union {"none"}
    /\ \A o \in Operations : receipts[o].status \in {"none", "pending", "committed", "failed"}
    /\ letterFaults \in 0..MaxLetterFaults

Request(s) == serving[s].request
Goto(s, pc) == serving' = [serving EXCEPT ![s].pc = pc] /\ UNCHANGED answers
Reply(s, answer) ==
    /\ serving' = [serving EXCEPT ![s] = Idle]
    /\ answers' = answers \union IF answer \in Failures \union {"committed"}
                            THEN {[request |-> Request(s), answer |-> answer, early |-> FALSE]} ELSE {}
At(s, pc) == serving[s].pc = pc
Untouched == UNCHANGED <<source, letter, receipts, effects, letterFaults>>

\* A request may be sent again at any time; its operator has seen the revision it names.
receive(s, request) ==
    /\ serving[s] = Idle /\ request.revision <= letter.revision
    /\ serving' = [serving EXCEPT ![s] = [pc |-> "authorize", request |-> request, seen |-> 0, failure |-> "none"]]
    /\ UNCHANGED answers /\ Untouched
\* The abilities are asked anew for every request; an authorization that throws refuses.
authorizes(s) ==
    /\ At(s, "authorize") /\ Untouched
    /\ \E allowed \in BOOLEAN : IF allowed THEN Goto(s, "body") ELSE Reply(s, "forbidden")
\* The BullMQ adapter never discards: what an adapter cannot do is answered before the body is read.
Capable(s) == source = "reliability" \/ Request(s).action = "retry"
\* The BullMQ adapter retries now or not at all: a retry whose availableAt lies ahead of this
\* server's clock is refused before anything is written, and leaves no receipt.  The same request
\* goes through once the clock of its server has got there; the clocks of servers differ.
aheadOfTime(s) ==
    /\ source = "bullmq" /\ Request(s).later
    /\ serving' = [serving EXCEPT ![s] = Idle]
    /\ answers' = answers \union {[request |-> Request(s), answer |-> "invalid_state", early |-> TRUE]}
\* A body that the guards refuse is answered before the adapter is called.
readGuardedJson(s) ==
    /\ At(s, "body") /\ Untouched
    /\ IF ~Capable(s) THEN Reply(s, "invalid_state")
       ELSE Reply(s, "invalid_request") \/ aheadOfTime(s) \/ Goto(s, "lookup")

\* replay, replayReceipt: the receipt of another request is a conflict.
replay(s) ==
    LET receipt == receipts[Request(s).op] IN
    IF receipt.request # Request(s) THEN Reply(s, "operation_conflict")
    ELSE CASE receipt.status = "failed" -> Reply(s, receipt.failure)
           [] receipt.status = "committed" -> Reply(s, "committed")
           [] OTHER -> IF source = "reliability" THEN Goto(s, "reconcile") ELSE Reply(s, "ambiguous_outcome")
Reserved(s) == receipts[Request(s).op].status # "none"

lookup(s) ==
    /\ At(s, "lookup") /\ Untouched
    /\ IF Reserved(s) THEN replay(s) ELSE Goto(s, IF source = "reliability" THEN "insert" ELSE "load")

\* The insert of the receipt, by either adapter; one that finds it taken looks again.
Reservation(s) == [receipts EXCEPT ![Request(s).op] = [status |-> "pending", request |-> Request(s), failure |-> "none"]]
reserveOperation(s) ==
    /\ At(s, "insert") /\ UNCHANGED <<source, letter, effects, letterFaults>>
    /\ IF Reserved(s) THEN Goto(s, "raced") /\ UNCHANGED receipts
       ELSE Goto(s, IF source = "reliability" THEN "update" ELSE "fence") /\ receipts' = Reservation(s)
raced(s) ==
    /\ At(s, "raced") /\ Untouched
    /\ IF Reserved(s) THEN replay(s)
       ELSE Reply(s, IF serving[s].failure = "none" THEN "ambiguous_outcome" ELSE serving[s].failure)

\* Receipts leave pending once, for the request that reserved them.
Finalized(s, status) ==
    LET o == Request(s).op IN
    IF receipts[o].status = "pending" /\ receipts[o].request = Request(s)
    THEN [receipts EXCEPT ![o].status = status, ![o].failure = serving[s].failure] ELSE receipts
finalizeCommitted(s) ==
    /\ At(s, "finalize") /\ receipts' = Finalized(s, "committed")
    /\ Reply(s, IF receipts'[Request(s).op].status = "committed" /\ receipts'[Request(s).op].request = Request(s)
                THEN "committed" ELSE "ambiguous_outcome")
    /\ UNCHANGED <<source, letter, effects, letterFaults>>
finalizeFailed(s) ==
    /\ At(s, "fail") /\ receipts' = Finalized(s, "failed")
    /\ Reply(s, serving[s].failure) /\ UNCHANGED <<source, letter, effects, letterFaults>>
Fails(s, code) == serving' = [serving EXCEPT ![s].pc = "fail", ![s].failure = code] /\ UNCHANGED answers

(***************************************************************************)
(* DrizzleReliabilityDeadLetterAdapter.                                     *)
(***************************************************************************)
Managed(s) ==
    [letter EXCEPT !.state = IF Request(s).action = "retry" THEN "alive" ELSE @,
                   !.disposition = IF Request(s).action = "discard" THEN "discarded" ELSE @,
                   !.revision = @ + 1, !.marker = Request(s).op]
\* how often the request acted, and how often on a revision it does not name
Effect(s) == [effects EXCEPT ![Request(s)] =
    <<@[1] + 1, IF letter.revision = Request(s).revision THEN @[2] ELSE @[2] + 1>>]
matches(s) == letter.state = "dead" /\ letter.disposition = "active" /\ letter.revision = Request(s).revision
updateMessage(s) ==
    /\ At(s, "update") /\ UNCHANGED <<source, receipts, letterFaults>>
    /\ IF matches(s) THEN letter' = Managed(s) /\ effects' = Effect(s) /\ Goto(s, "finalize")
       ELSE Goto(s, "marker") /\ UNCHANGED <<letter, effects>>
\* After an update of no row, and for a pending receipt: did the operation mark the row?
readMarker(s) ==
    /\ serving[s].pc \in {"marker", "reconcile"} /\ Untouched
    /\ IF letter.marker = Request(s).op THEN Goto(s, "finalize")
       ELSE IF At(s, "marker") THEN Goto(s, "row") ELSE Reply(s, "ambiguous_outcome")
readRow(s) ==
    /\ At(s, "row") /\ Untouched
    /\ Fails(s, IF letter.revision # Request(s).revision THEN "stale_revision" ELSE "invalid_state")

(***************************************************************************)
(* BullMQDeadLetterAdapter: the job is read, then its state.  A job that    *)
(* was retried has no finishedOn, so its fence is that of no failed job.    *)
(***************************************************************************)
fence == IF letter.state = "dead" THEN letter.revision ELSE MaxLetterRevision + 1
getJob(s) ==
    /\ serving[s].pc \in {"load", "reload"} /\ Untouched /\ UNCHANGED answers
    /\ serving' = [serving EXCEPT ![s].seen = fence, ![s].pc = IF @ = "load" THEN "state" ELSE "restate"]
getState(s) ==
    /\ At(s, "state") /\ Untouched
    /\ IF letter.state # "dead"
       THEN serving' = [serving EXCEPT ![s].pc = "raced", ![s].failure = "not_found"] /\ UNCHANGED answers
       ELSE IF letter.batchChild THEN Reply(s, "invalid_state") ELSE Goto(s, "insert")
checkFence(s) ==
    /\ At(s, "fence") /\ Untouched
    /\ IF serving[s].seen # Request(s).revision THEN Fails(s, "stale_revision") ELSE Goto(s, "reload")
getStateAgain(s) ==
    /\ At(s, "restate") /\ Untouched
    /\ IF letter.state # "dead" THEN Reply(s, "ambiguous_outcome")
       ELSE IF serving[s].seen # Request(s).revision THEN Fails(s, "invalid_state") ELSE Goto(s, "retry")
retryJob(s) ==
    /\ At(s, "retry") /\ UNCHANGED <<source, receipts, letterFaults>>
    /\ IF letter.state = "dead"
       THEN letter' = [letter EXCEPT !.state = "alive"] /\ effects' = Effect(s) /\ Goto(s, "finalize")
       ELSE Reply(s, "ambiguous_outcome") /\ UNCHANGED <<letter, effects>>

(***************************************************************************)
(* Faults: a call rejects, and a write may have happened; a server dies.    *)
(***************************************************************************)
\* mutant: a write that rejects is taken for one that did nothing
RejectionIsFinal(s) == IF serving[s].pc \in {"update", "retry"} THEN "invalid_state" ELSE "unavailable"
Rejection(s) ==
    LET pc == serving[s].pc IN
    CASE pc \in {"load", "state", "reload", "restate", "update", "retry", "finalize"} -> "ambiguous_outcome"
      [] pc = "fail" /\ serving[s].failure = "invalid_state" /\ source = "bullmq" -> "ambiguous_outcome"
      [] OTHER -> "unavailable"
rejects(s) ==
    /\ serving[s] # Idle /\ serving[s].pc \notin {"authorize", "body"}
    /\ letterFaults < MaxLetterFaults /\ letterFaults' = letterFaults + 1
    /\ \/ UNCHANGED <<letter, receipts, effects>>
       \/ At(s, "insert") /\ ~Reserved(s) /\ receipts' = Reservation(s) /\ UNCHANGED <<letter, effects>>
       \/ At(s, "finalize") /\ receipts' = Finalized(s, "committed") /\ UNCHANGED <<letter, effects>>
       \/ At(s, "fail") /\ receipts' = Finalized(s, "failed") /\ UNCHANGED <<letter, effects>>
       \/ At(s, "update") /\ matches(s) /\ letter' = Managed(s) /\ effects' = Effect(s) /\ UNCHANGED receipts
       \/ At(s, "retry") /\ letter.state = "dead" /\ letter' = [letter EXCEPT !.state = "alive"]
          /\ effects' = Effect(s) /\ UNCHANGED receipts
    /\ IF At(s, "insert") /\ source = "reliability" THEN Goto(s, "raced") ELSE Reply(s, Rejection(s))
    /\ UNCHANGED source
dies(s) ==
    /\ serving[s] # Idle /\ letterFaults < MaxLetterFaults /\ letterFaults' = letterFaults + 1
    /\ serving' = [serving EXCEPT ![s] = Idle] /\ UNCHANGED <<source, letter, receipts, answers, effects>>

\* The worker runs the retried message, which fails for good again.
failsAgain ==
    /\ letter.state = "alive" /\ letter.revision < MaxLetterRevision
    /\ letter' = [letter EXCEPT !.state = "dead", !.revision = IF source = "bullmq" THEN @ + 1 ELSE @]
    /\ UNCHANGED <<source, receipts, serving, answers, effects, letterFaults>>

DeadLettersNext ==
    \/ failsAgain
    \/ \E s \in Servers :
        \/ \E request \in LetterRequests : receive(s, request)
        \/ authorizes(s) \/ readGuardedJson(s)
        \/ lookup(s) \/ reserveOperation(s) \/ raced(s) \/ finalizeCommitted(s) \/ finalizeFailed(s)
        \/ updateMessage(s) \/ readMarker(s) \/ readRow(s)
        \/ getJob(s) \/ getState(s) \/ checkFence(s) \/ getStateAgain(s) \/ retryJob(s)
        \/ rejects(s) \/ dies(s)

DeadLettersSpec == DeadLettersInit /\ [][DeadLettersNext]_letterVars

\* However often a request is sent, whatever is lost or dies: an operation acts on the
\* letter at most once, it did when an answer says committed, and it neither did nor
\* ever will when an answer names a failure.  On reliability_messages it acts on the
\* revision its operator saw.  One refusal decides nothing, and the formula leaves it
\* out: the BullMQ adapter refuses a retry ahead of its availableAt as invalid_state
\* without a receipt, and the same request may act later, or have acted already by the
\* clock of another server.  Only such a retry is ever answered so.
OperationsAreExact ==
    \A r \in LetterRequests :
        LET told == {a.answer : a \in {x \in answers : x.request = r /\ ~x.early}}
            early == {a.answer : a \in {x \in answers : x.request = r /\ x.early}} IN
        /\ effects[r][1] <= 1
        /\ "committed" \in told => effects[r][1] = 1
        /\ told \intersect Failures # {} => effects[r][1] = 0
        /\ early # {} => early = {"invalid_state"} /\ source = "bullmq" /\ r.action = "retry" /\ r.later
        /\ \A q \in LetterRequests : q.op = r.op /\ q # r => effects[q][1] = 0 \/ effects[r][1] = 0
        /\ source = "reliability" => effects[r][2] = 0
=============================================================================
