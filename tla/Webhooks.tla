------------------------------- MODULE Webhooks -------------------------------
(***************************************************************************)
(* A webhook from one application to another (packages/webhooks): the      *)
(* OutgoingWebhookProcessor takes the delivery from the outbox, signs it   *)
(* and posts it, and the WebhookInboxReceiver of the other application     *)
(* verifies it and consumes it through its inbox.                          *)
(*                                                                         *)
(* Between the two the network and what stands in it lose, delay and       *)
(* answer requests; either side changes its signing key on its own; leases *)
(* expire and processes die.  The rows are those of MessageStore; that the *)
(* claim of an inbox row is several statements is in ReliableMessaging,    *)
(* here it is one.  The route that calls receive() belongs to the          *)
(* application: it answers 2xx when the message is settled, 5xx when it is *)
(* busy or to be retried, 4xx otherwise.                                   *)
(***************************************************************************)
EXTENDS MessageStore

CONSTANTS
    HookSenders,     \* the processes of the sending application
    HookAttempts,    \* maxAttempts of the sender's outbox
    HookTries,       \* maxAttempts of the receiver's inbox
    Tolerance,       \* toleranceMs of verifyWebhook, in ticks
    LastHookTick,    \* bound: the clock
    MaxRotations,    \* bound: changes of a signing key
    MaxHookFaults    \* bound: faults of the network, the stores and the processes

ASSUME WebhooksAssumption ==
    {HookAttempts, HookTries} \subseteq Nat \ {0} /\ {Tolerance, LastHookTick, MaxRotations, MaxHookFaults} \subseteq Nat

VARIABLES
    hook,        \* the row of the delivery in the sender's outbox
    hookBody,    \* what the application put into it: an envelope of this delivery, or not
    sending,     \* sending[s]: the delivery as process s works on it
    posts,       \* the requests on their way, at the receiver or answered
    received,    \* the row of the delivery in the receiver's inbox
    hookKeys,    \* the version of the signing key each side holds
    hookTick,    \* the clock
    rotations, hookFaults,   \* how much of the bounds is used up
    hookEffects, hookLapses, \* history: runs of the handler that succeeded, and what repeats them
    refusals                 \* history: the final answers anyone gave

senderVars == <<hook, sending, refusals>>
receiverVars == <<received, hookEffects, hookLapses>>
webhookVars == <<senderVars, receiverVars, hookBody, posts, hookKeys, hookTick, rotations, hookFaults>>

NotSending == [pc |-> "idle", token |-> <<0, 0>>, stamp |-> 0, key |-> 0, result |-> "none"]

\* createWebhookEnvelope and the append of the application.
WebhooksInit ==
    /\ hook = [AppendedRow(1) EXCEPT !.due = TRUE]
    /\ hookBody \in {"envelope", "other"}
    /\ sending = [s \in HookSenders |-> NotSending]
    /\ posts = {}
    /\ received = AbsentRow
    /\ hookKeys = [sender |-> 1, receiver |-> 1]
    /\ hookTick = 0 /\ rotations = 0 /\ hookFaults = 0
    /\ hookEffects = 0 /\ hookLapses = 0 /\ refusals = {}

HookFault == hookFaults < MaxHookFaults /\ hookFaults' = hookFaults + 1
SendingEnds(s, result) == sending' = [sending EXCEPT ![s].pc = "settling", ![s].result = result]
Refusal(why) == refusals' = refusals \cup {why}

(***************************************************************************)
(* The sender                                                              *)
(***************************************************************************)
claimHook(s) ==
    /\ sending[s].pc = "idle" /\ Claimable(hook)
    /\ hook' = Taken(hook)
    /\ sending' = [sending EXCEPT ![s] = [NotSending EXCEPT !.pc = "preparing", !.token = TokenOf(hook')]]
    /\ UNCHANGED <<receiverVars, hookBody, posts, hookKeys, hookTick, rotations, hookFaults, refusals>>

\* assertSafeWebhookUrl, for what the name of the host resolves to: an address is of the
\* public network or not.
privateAddress(address) == address # "public"
assertSafeWebhookUrl(addresses) == addresses # {} /\ \A address \in addresses : ~privateAddress(address)

\* The URL, then the timestamp: before the key is there.
prepareHook(s, addresses) ==
    /\ sending[s].pc = "preparing"
    /\ IF assertSafeWebhookUrl(addresses)
       THEN /\ sending' = [sending EXCEPT ![s].pc = "signing", ![s].stamp = hookTick]
            /\ UNCHANGED <<hookFaults, refusals>>
       ELSE HookFault /\ SendingEnds(s, "fatal") /\ Refusal("unsafe url")
    /\ UNCHANGED <<hook, receiverVars, hookBody, posts, hookKeys, hookTick, rotations>>

\* resolveSecret: the current key; a store that cannot be asked is retried, a key that is
\* missing or revoked is not.
resolveSecret(s) ==
    /\ sending[s].pc = "signing"
    /\ \/ /\ sending' = [sending EXCEPT ![s].pc = "posting", ![s].key = hookKeys.sender]
          /\ UNCHANGED <<hookFaults, refusals>>
       \/ HookFault /\ SendingEnds(s, "retryable") /\ UNCHANGED refusals
       \/ HookFault /\ SendingEnds(s, "fatal") /\ Refusal("no key")
    /\ UNCHANGED <<hook, receiverVars, hookBody, posts, hookKeys, hookTick, rotations>>

\* transport.send, with a signature over the timestamp, the id and the body.
postHook(s) ==
    /\ sending[s].pc = "posting"
    /\ posts' = posts \cup {[by |-> s, token |-> sending[s].token, stamp |-> sending[s].stamp, key |-> sending[s].key,
                             pc |-> "sent", claim |-> <<0, 0>>, status |-> "none"]}
    /\ sending' = [sending EXCEPT ![s].pc = "waiting"]
    /\ UNCHANGED <<hook, refusals, receiverVars, hookBody, hookKeys, hookTick, rotations, hookFaults>>

\* mutant: a redirect, which is not followed, counts as delivered.
succeedsBelow400(status) == status \in {"2xx", "3xx"}

succeeds(status) == status = "2xx"
retryable(status) == status \in {"408", "425", "429", "5xx"}

\* The response, classified by its status.
classify(s, status) ==
    IF succeeds(status) THEN SendingEnds(s, "ok") /\ UNCHANGED refusals
    ELSE IF retryable(status) THEN SendingEnds(s, "retryable") /\ UNCHANGED refusals
    ELSE SendingEnds(s, "fatal") /\ Refusal(status)

answered(s, post) ==
    /\ sending[s].pc = "waiting" /\ post.by = s /\ post.token = sending[s].token /\ post.pc = "answered"
    /\ classify(s, post.status)
    /\ posts' = posts \ {post}
    /\ UNCHANGED <<hook, receiverVars, hookBody, hookKeys, hookTick, rotations, hookFaults>>

\* Something between the two answers; the request may get through all the same.
intercepted(s, status) ==
    /\ sending[s].pc = "waiting" /\ status \in {"3xx", "429", "5xx"}
    /\ HookFault
    /\ classify(s, status)
    /\ \/ posts' = posts
       \/ posts' = {post \in posts : post.by # s \/ post.token # sending[s].token}
    /\ UNCHANGED <<hook, receiverVars, hookBody, hookKeys, hookTick, rotations>>

\* No answer: the timeout, a transport that fails, a lease that was lost.
unanswered(s) ==
    /\ sending[s].pc = "waiting"
    /\ HookFault
    /\ SendingEnds(s, "retryable")
    /\ UNCHANGED <<hook, refusals, receiverVars, hookBody, posts, hookKeys, hookTick, rotations>>

\* What OutboxProcessor makes of the result, for the lease it still holds; retryAfter or
\* the backoff decides when the row is due again.
settleHook(s) ==
    LET state == IF sending[s].result = "ok" THEN "delivered"
                 ELSE IF sending[s].result = "fatal" \/ sending[s].token[2] >= HookAttempts THEN "dead"
                 ELSE "pending"
    IN /\ sending[s].pc = "settling"
       /\ hook' = IF Fenced(hook, sending[s].token) THEN Settled(hook, state) ELSE hook
       /\ sending' = [sending EXCEPT ![s] = NotSending]
       /\ UNCHANGED <<refusals, receiverVars, hookBody, posts, hookKeys, hookTick, rotations, hookFaults>>

senderDies(s) ==
    /\ sending[s].pc # "idle" /\ HookFault
    /\ sending' = [sending EXCEPT ![s] = NotSending]
    /\ UNCHANGED <<hook, refusals, receiverVars, hookBody, posts, hookKeys, hookTick, rotations>>

(***************************************************************************)
(* The receiver                                                            *)
(***************************************************************************)
AnswersPost(post, status) == posts' = (posts \ {post}) \cup {[post EXCEPT !.pc = "answered", !.status = status]}

\* verifyWebhook: the timestamp within the tolerance, and the signature of this key.
verifyWebhook(post) == hookTick - post.stamp <= Tolerance /\ post.key = hookKeys.receiver

\* receive: unauthorized, invalid, or what the claim of the inbox says; a first or an
\* expired message is handed to the handler.
receiveHook(post) ==
    /\ post.pc = "sent"
    /\ \/ ~verifyWebhook(post) /\ AnswersPost(post, "4xx") /\ UNCHANGED received
       \/ verifyWebhook(post) /\ hookBody = "other" /\ AnswersPost(post, "4xx") /\ UNCHANGED received
       \/ /\ verifyWebhook(post) /\ hookBody = "envelope"
          /\ received.state # "absent" /\ InboxRead(received) # "claimable"
          /\ AnswersPost(post, IF InboxRead(received) = "duplicate" THEN "2xx" ELSE "5xx")
          /\ UNCHANGED received
       \/ /\ verifyWebhook(post) /\ hookBody = "envelope"
          /\ received.state = "absent" \/ InboxRead(received) = "claimable"
          /\ received' = Taken(received)
          /\ posts' = (posts \ {post}) \cup {[post EXCEPT !.pc = "handling", !.claim = TokenOf(received')]}
    /\ UNCHANGED <<senderVars, hookEffects, hookLapses, hookBody, hookKeys, hookTick, rotations, hookFaults>>

\* InboxConsumer.consume from the handler on: delivered, retry or dead for the lease that
\* is held, busy without it.
consumeHook(post, result) ==
    LET held == Fenced(received, post.claim)
        state == IF result = "ok" THEN "delivered"
                 ELSE IF result = "fatal" \/ post.claim[2] >= HookTries THEN "dead" ELSE "pending"
    IN /\ post.pc = "handling"
       /\ received' = IF held THEN Settled(received, state) ELSE received
       /\ AnswersPost(post, IF ~held \/ state = "pending" THEN "5xx" ELSE IF state = "dead" THEN "4xx" ELSE "2xx")
       /\ hookEffects' = IF result = "ok" THEN hookEffects + 1 ELSE hookEffects
       /\ UNCHANGED <<senderVars, hookLapses, hookBody, hookKeys, hookTick, rotations, hookFaults>>

\* The receiving process dies while it handles a request.
receiverDies(post) ==
    /\ post.pc = "handling" /\ HookFault
    /\ posts' = posts \ {post}
    /\ UNCHANGED <<senderVars, receiverVars, hookBody, hookKeys, hookTick, rotations>>

(***************************************************************************)
(* Time, and the operators of either side                                  *)
(***************************************************************************)
hookLeaseExpires ==
    /\ hook.state = "processing" /\ hook.live /\ HookFault
    /\ hook' = [hook EXCEPT !.live = FALSE]
    /\ UNCHANGED <<sending, refusals, receiverVars, hookBody, posts, hookKeys, hookTick, rotations>>

inboxLeaseExpires ==
    /\ received.state = "processing" /\ received.live /\ HookFault
    /\ received' = [received EXCEPT !.live = FALSE]
    /\ hookLapses' = hookLapses + 1
    /\ UNCHANGED <<senderVars, hookEffects, hookBody, posts, hookKeys, hookTick, rotations>>

hookRetryIsDue ==
    /\ \/ hook.state = "pending" /\ ~hook.due /\ hook' = [hook EXCEPT !.due = TRUE] /\ UNCHANGED received
       \/ received.state = "pending" /\ ~received.due /\ received' = [received EXCEPT !.due = TRUE] /\ UNCHANGED hook
    /\ UNCHANGED <<sending, refusals, hookEffects, hookLapses, hookBody, posts, hookKeys, hookTick, rotations, hookFaults>>

hookTicks ==
    /\ hookTick < LastHookTick
    /\ hookTick' = hookTick + 1
    /\ UNCHANGED <<senderVars, receiverVars, hookBody, posts, hookKeys, rotations, hookFaults>>

rotate(side) ==
    /\ rotations < MaxRotations /\ rotations' = rotations + 1
    /\ hookKeys' = [hookKeys EXCEPT ![side] = @ + 1]
    /\ UNCHANGED <<senderVars, receiverVars, hookBody, posts, hookTick, hookFaults>>

WebhooksNext ==
    \/ hookLeaseExpires \/ inboxLeaseExpires \/ hookRetryIsDue \/ hookTicks
    \/ \E side \in {"sender", "receiver"} : rotate(side)
    \/ \E s \in HookSenders :
          \/ claimHook(s) \/ resolveSecret(s) \/ postHook(s)
          \/ unanswered(s) \/ settleHook(s) \/ senderDies(s)
          \/ \E status \in {"3xx", "429", "5xx"} : intercepted(s, status)
          \/ \E post \in posts : answered(s, post)
          \/ \E addresses \in SUBSET {"public", "private"} : prepareHook(s, addresses)
    \/ \E post \in posts :
          receiveHook(post) \/ receiverDies(post) \/ \E result \in {"ok", "retryable", "fatal"} : consumeHook(post, result)

WebhooksSpec == WebhooksInit /\ [][WebhooksNext]_webhookVars

\* Types.
WebhooksTypeOK ==
    /\ hook \in Row /\ received \in Row /\ hookTick \in 0..LastHookTick
    /\ \A post \in posts : post.pc \in {"sent", "handling", "answered"}

\* What the two sides may believe of each other (OutgoingWebhookProcessor,
\* WebhookInboxReceiver): what the sender books as delivered the receiver has settled for
\* good, whatever the network did; the sender gives up only after its attempts or on a
\* final refusal; and the handler succeeds once, unless a lease of the inbox expired.
WebhooksAreAccountable ==
    /\ hook.state = "delivered" => Terminal(received)
    /\ hook.state = "dead" => hook.attempts >= HookAttempts \/ refusals # {}
    /\ hookEffects <= 1 + hookLapses
=============================================================================
