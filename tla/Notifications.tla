---------------------------- MODULE Notifications ----------------------------
(***************************************************************************)
(* Queued notifications (packages/notifications, notifications-queue and   *)
(* the mail, database, webhook and broadcast channels): the dispatcher     *)
(* pushes one job per channel of a recipient, the job claims its delivery  *)
(* in an inbox, resolves the recipient again and hands the notification to *)
(* the channel.                                                            *)
(*                                                                         *)
(* One notification of one recipient is followed, and the queue is seen    *)
(* through what the job relies on: an id is admitted once, a job runs      *)
(* until it ends or its tries are used up, and the job of a worker that    *)
(* died is run again.  Payloads are data, except for the locale, which a   *)
(* retry may find changed.                                                 *)
(***************************************************************************)
EXTENDS MessageStore, FiniteSets

CONSTANTS
    Notified,          \* the sets of channels via() may answer
    NotificationRunners, \* queue workers
    NotificationTries, \* QueuedNotificationJob.tries
    MaxSends,          \* bound: calls of send()
    MaxNotificationFaults  \* bound: crashes, lost leases, failed calls, edits of the recipient
ASSUME NotificationsAssumption ==
    /\ NotificationTries \in Nat /\ MaxSends \in Nat \ {0} /\ MaxNotificationFaults \in Nat

VARIABLES
    setting,     \* what the deployment and the call of send() fix
    profile,     \* the recipient, as the resolver finds it
    sender,      \* the current send(): the pushes that are left
    jobs,        \* jobs[d]: the queue's job of delivery d
    rows,        \* rows[d]: the inbox row of delivery d
    runner,      \* runner[w]: the job w runs
    kept,        \* the rows the database channel and the webhook outbox hold
    sent,        \* history: what the channels accepted, by delivery
    dropped,     \* history: deliveries that ended without a send, on purpose
    lapses,      \* history: claims that had called their channel when their outcome was lost
    notificationFaults     \* how much of MaxNotificationFaults is used up

notificationVars == <<setting, profile, sender, jobs, rows, runner, kept, sent, dropped, lapses, notificationFaults>>

Tenants == {"none", "t1", "t2"}
Channels == UNION Notified

\* deterministicId, crypto.randomUUID: a delivery of a named dispatch has the same
\* id in every send(), any other delivery an id of its own.
Deliveries == Channels \X (0..MaxSends)
deliveryId(channel, n) == <<channel, IF setting.named THEN 0 ELSE n>>

Snapshot == [tenant : Tenants, locale : {"l1", "l2"}]
NoSnapshot == [tenant |-> "none", locale |-> "l1"]

Away == [pc |-> "idle", d |-> <<"none", 0>>, token |-> <<0, 0>>, read |-> NoSnapshot,
         result |-> "none", leaseLost |-> FALSE]

NotificationsInit ==
    \* a memory inbox that is allowed behaves as a durable one
    /\ setting \in [named : BOOLEAN, tenant : {"none", "t1"}, inbox : {"none", "memory", "durable"},
                    requireDurable : BOOLEAN]
    /\ setting.requireDurable <=> setting.inbox # "none"
    /\ profile \in [present : {TRUE}, tenant : {setting.tenant}, channels : Notified,
                    route : {"none", setting.tenant}, locale : {"l1"}]
    /\ sender = [left |-> {}, sends |-> 0]
    /\ jobs = [d \in Deliveries |-> [state |-> "none", tries |-> 0]]
    /\ rows = [d \in Deliveries |-> AbsentRow]
    /\ runner = [w \in NotificationRunners |-> Away]
    /\ kept = {}
    /\ sent = [d \in Deliveries |-> 0]
    /\ dropped = {}
    /\ lapses = [d \in Deliveries |-> 0]
    /\ notificationFaults = 0

NotificationFault == notificationFaults < MaxNotificationFaults /\ notificationFaults' = notificationFaults + 1

(***************************************************************************)
(* QueuedNotificationDispatcher.send                                       *)
(***************************************************************************)

\* Everything is validated before the first push: the codec, the recipient, the delays.
\* A second send() without a dispatch id is another notification, so it is not followed.
send ==
    /\ sender.left = {} /\ sender.sends < (IF setting.named THEN MaxSends ELSE 1)
    /\ profile.present
    /\ sender' = [left |-> profile.channels, sends |-> sender.sends + 1]
    /\ UNCHANGED <<setting, profile, jobs, rows, runner, kept, sent, dropped, lapses, notificationFaults>>

\* queue.push: an id the queue has seen admits no second job.
push(channel) ==
    /\ channel \in sender.left
    /\ LET d == deliveryId(channel, sender.sends) IN
       jobs' = [jobs EXCEPT ![d] = IF @.state = "none" THEN [@ EXCEPT !.state = "waiting"] ELSE @]
    /\ sender' = [sender EXCEPT !.left = @ \ {channel}]
    /\ UNCHANGED <<setting, profile, rows, runner, kept, sent, dropped, lapses, notificationFaults>>

\* A push rejects: send() rejects with some of the jobs pushed, and may be called again.
pushFails ==
    /\ sender.left # {}
    /\ NotificationFault
    /\ sender' = [sender EXCEPT !.left = {}]
    /\ UNCHANGED <<setting, profile, jobs, rows, runner, kept, sent, dropped, lapses>>

(***************************************************************************)
(* QueuedNotificationJob.handle                                            *)
(***************************************************************************)

Runs(w, pc) == runner[w].pc = pc
Goes(w, pc, result) == runner' = [runner EXCEPT ![w].pc = pc, ![w].result = result]

take(w, d) ==
    /\ Runs(w, "idle") /\ jobs[d].state = "waiting"
    /\ jobs' = [jobs EXCEPT ![d].state = "active"]
    /\ runner' = [runner EXCEPT ![w] = [Away EXCEPT !.pc = "starting", !.d = d]]
    /\ UNCHANGED <<setting, profile, sender, rows, kept, sent, dropped, lapses, notificationFaults>>

durableInboxRequired(w) ==
    /\ Runs(w, "starting")
    /\ setting.requireDurable /\ setting.inbox # "durable"
    /\ Goes(w, "ending", "fatal")
    /\ UNCHANGED <<setting, profile, sender, jobs, rows, kept, sent, dropped, lapses, notificationFaults>>

deliverWithoutInbox(w) ==
    /\ Runs(w, "starting")
    /\ ~setting.requireDurable /\ setting.inbox = "none"
    /\ Goes(w, "resolving", "none")
    /\ UNCHANGED <<setting, profile, sender, jobs, rows, kept, sent, dropped, lapses, notificationFaults>>

\* mutant: busy counts as handled elsewhere.
consumeBusyIsDone(answer) == IF answer \in {"busy", "duplicate"} THEN "ok" ELSE "claimed"

\* consume: a claim that is not granted is the result of consume.
consume(answer) ==
    IF answer = "duplicate" THEN "ok" ELSE IF answer = "busy" THEN "throws" ELSE "claimed"

claimInbox(w) ==
    /\ Runs(w, "starting")
    /\ setting.inbox # "none" /\ (setting.requireDurable => setting.inbox = "durable")
    /\ LET d == runner[w].d
           absent == rows[d].state = "absent"
           row == Taken(IF absent THEN AppendedRow(1) ELSE rows[d])
           answer == IF absent THEN "claimable" ELSE InboxRead(rows[d])
           result == consume(answer)
       IN IF result = "claimed"
          THEN /\ rows' = [rows EXCEPT ![d] = row]
               /\ runner' = [runner EXCEPT ![w].pc = "resolving", ![w].token = TokenOf(row)]
          ELSE Goes(w, "ending", result) /\ UNCHANGED rows
    /\ UNCHANGED <<setting, profile, sender, jobs, kept, sent, dropped, lapses, notificationFaults>>

(***************************************************************************)
(* deliver, sendChannel and the channels                                   *)
(***************************************************************************)

\* deliver: the tenant of the dispatch, when there is one, is the tenant the
\* recipient has now; the queue restores the tenant of the dispatch as the ambient one.
tenantMismatch(trusted) == setting.tenant # "none" /\ setting.tenant # trusted

\* assertTenant and the checks of the database and broadcast channels: the tenant of
\* the route, when there is one, is the trusted one.
routeMismatch(route, trusted) == route # "none" /\ route # trusted

\* deliver up to sendChannel: the recipient is resolved, and what it says now decides.
resolve(w) ==
    /\ Runs(w, "resolving")
    /\ LET d == runner[w].d
           gone == ~profile.present \/ (~tenantMismatch(profile.tenant) /\ d[1] \notin profile.channels)
       IN /\ IF gone THEN Goes(w, "settling", "ok")
             ELSE IF tenantMismatch(profile.tenant) THEN Goes(w, "settling", "fatal")
             ELSE runner' = [runner EXCEPT ![w].pc = "composing",
                                           ![w].read = [tenant |-> profile.tenant, locale |-> profile.locale]]
          /\ dropped' = IF gone THEN dropped \cup {d} ELSE dropped
    /\ UNCHANGED <<setting, profile, sender, jobs, rows, kept, sent, lapses, notificationFaults>>

Refuses(w, pc, result) ==
    /\ NotificationFault
    /\ Goes(w, pc, result)
    /\ UNCHANGED <<setting, profile, sender, jobs, rows, kept, sent, dropped, lapses>>

\* validateQueuedNotificationPayload: the job was written by another version, or is broken.
invalidPayload(w) == Runs(w, "starting") /\ Refuses(w, "ending", "fatal")

\* decode, resolve: a type or a version that this worker does not have registered.
refuseToDecode(w) == Runs(w, "resolving") /\ Refuses(w, "settling", "fatal")

\* The validation of a channel refuses what the notification or its route says now;
\* that is an error like any other, so the job tries again.
refuseMail(w) == Runs(w, "composing") /\ runner[w].d[1] = "mail" /\ Refuses(w, "settling", "throws")
refuseRecord(w) == Runs(w, "composing") /\ runner[w].d[1] = "database" /\ Refuses(w, "settling", "throws")
refuseWebhook(w) == Runs(w, "composing") /\ runner[w].d[1] = "webhook" /\ Refuses(w, "settling", "throws")
refuseBroadcast(w) == Runs(w, "composing") /\ runner[w].d[1] = "broadcast" /\ Refuses(w, "settling", "throws")

\* sendChannel and send of a channel up to the last throwIfAborted: a lost lease aborts here.
sendChannel(w, channel, mismatch) ==
    /\ Runs(w, "composing") /\ runner[w].d[1] = channel
    /\ IF runner[w].leaseLost \/ mismatch THEN Goes(w, "settling", "throws") ELSE Goes(w, "calling", "none")
    /\ UNCHANGED <<setting, profile, sender, jobs, rows, kept, sent, dropped, lapses, notificationFaults>>

\* A mail route carries no tenant; the other channels compare theirs with the trusted one.
composeMail(w) == sendChannel(w, "mail", FALSE)
composeRecord(w) == sendChannel(w, "database", routeMismatch(profile.route, runner[w].read.tenant))
composeWebhook(w) == sendChannel(w, "webhook", routeMismatch(profile.route, runner[w].read.tenant))
composeBroadcast(w) == sendChannel(w, "broadcast", routeMismatch(profile.route, runner[w].read.tenant))

Keeps(channel) == channel \in {"database", "webhook"}

\* deterministicRecordId, recordKey, the outbox: the key that makes a second put a duplicate.
recordKey(d, read) == <<d, IF d[1] = "database" THEN read.tenant ELSE "none">>
SameKey(d, read) == {k \in kept : k.key = recordKey(d, read)}
Accept(d) == sent' = [sent EXCEPT ![d] = @ + 1]

\* mailer.send, broadcast: nothing tells a second call from the first.
handOver(w) ==
    /\ Runs(w, "calling") /\ ~Keeps(runner[w].d[1])
    /\ Accept(runner[w].d)
    /\ Goes(w, "settling", "ok")
    /\ UNCHANGED <<setting, profile, sender, jobs, rows, kept, dropped, lapses, notificationFaults>>

\* notificationFingerprint: what is compared when the key is there already.
fingerprint(d, read) == [key |-> recordKey(d, read), d |-> d, print |-> read]

\* put, append: a row that exists is a duplicate when its fingerprint is the same, and
\* an idempotency conflict when it is not.
put(w) ==
    /\ Runs(w, "calling") /\ Keeps(runner[w].d[1])
    /\ LET d == runner[w].d
           row == fingerprint(d, runner[w].read)
       IN IF SameKey(d, runner[w].read) # {}
          THEN /\ Goes(w, "settling", IF row \in kept THEN "ok" ELSE "throws")
               /\ UNCHANGED <<kept, sent>>
          ELSE kept' = kept \cup {row} /\ Accept(d) /\ Goes(w, "settling", "ok")
    /\ UNCHANGED <<setting, profile, sender, jobs, rows, dropped, lapses, notificationFaults>>

\* The call rejects, and what it asked for was not done, or was (mail, broadcast).
channelFails(w) ==
    /\ Runs(w, "calling")
    /\ NotificationFault
    /\ LET d == runner[w].d IN
       \/ UNCHANGED <<sent, lapses>>
       \/ ~Keeps(d[1]) /\ Accept(d) /\ lapses' = [lapses EXCEPT ![d] = @ + 1]
    /\ Goes(w, "settling", "throws")
    /\ UNCHANGED <<setting, profile, sender, jobs, rows, kept, dropped>>

\* consume after handle: the claim is settled if it still holds, and a lost lease or a
\* refused transition makes the job throw; without an inbox the result is the job's.
settle(w) ==
    /\ Runs(w, "settling")
    /\ LET d == runner[w].d
           result == runner[w].result
           state == CASE result = "ok" -> "delivered" [] result = "fatal" -> "dead" [] OTHER -> "pending"
       IN IF setting.inbox = "none" THEN Goes(w, "ending", result) /\ UNCHANGED rows
          ELSE IF runner[w].leaseLost \/ ~Fenced(rows[d], runner[w].token)
          THEN Goes(w, "ending", "throws") /\ UNCHANGED rows
          ELSE /\ rows' = [rows EXCEPT ![d] = Settled(@, state)]
               /\ Goes(w, "ending", result)
    /\ UNCHANGED <<setting, profile, sender, jobs, kept, sent, dropped, lapses, notificationFaults>>

\* The queue, when handle ends: done, failed, or another attempt.
end(w) ==
    /\ Runs(w, "ending")
    /\ LET d == runner[w].d
           tries == jobs[d].tries + 1
           state == CASE runner[w].result = "ok" -> "done"
                      [] runner[w].result = "fatal" -> "failed"
                      [] OTHER -> IF tries < NotificationTries THEN "waiting" ELSE "failed"
       IN jobs' = [jobs EXCEPT ![d] = [state |-> state, tries |-> tries]]
    /\ runner' = [runner EXCEPT ![w] = Away]
    /\ UNCHANGED <<setting, profile, sender, rows, kept, sent, dropped, lapses, notificationFaults>>

(***************************************************************************)
(* Crashes, leases, deadlines and edits of the recipient                   *)
(***************************************************************************)
ChannelCalled(w) ==
    \/ runner[w].pc = "calling"
    \/ runner[w].pc = "settling" /\ runner[w].result = "ok"
    \/ runner[w].pc = "ending" /\ runner[w].result = "ok" /\ setting.inbox = "none"
Lapses(w) == lapses' = [lapses EXCEPT ![runner[w].d] = @ + (IF ChannelCalled(w) THEN 1 ELSE 0)]

\* The worker dies, and the queue finds its job stalled; the inbox row, if any, stays
\* claimed until its lease expires.
dieRunner(w) ==
    /\ ~Runs(w, "idle")
    /\ NotificationFault
    /\ Lapses(w)
    /\ jobs' = [jobs EXCEPT ![runner[w].d].state = "waiting"]
    /\ runner' = [runner EXCEPT ![w] = Away]
    /\ UNCHANGED <<setting, profile, sender, rows, kept, sent, dropped>>

Owns(w, d) == /\ runner[w].pc \in {"resolving", "composing", "calling", "settling"}
              /\ runner[w].d = d /\ runner[w].token = TokenOf(rows[d])

\* A renewal comes too late and the owner learns it, or the owner is gone.
leaseExpires(d) ==
    /\ rows[d].state = "processing" /\ rows[d].live
    /\ rows' = [rows EXCEPT ![d].live = FALSE]
    /\ \/ /\ \A w \in NotificationRunners : ~Owns(w, d)
          /\ UNCHANGED <<runner, lapses, notificationFaults>>
       \/ \E w \in NotificationRunners :
             /\ Owns(w, d) /\ NotificationFault /\ Lapses(w)
             /\ runner' = [runner EXCEPT ![w].leaseLost = TRUE]
    /\ UNCHANGED <<setting, profile, sender, jobs, kept, sent, dropped>>

retryIsDue(d) ==
    /\ rows[d].state = "pending" /\ ~rows[d].due
    /\ rows' = [rows EXCEPT ![d].due = TRUE]
    /\ UNCHANGED <<setting, profile, sender, jobs, runner, kept, sent, dropped, lapses, notificationFaults>>

\* The application edits the recipient between two attempts.
edit ==
    /\ NotificationFault
    /\ profile' \in {[profile EXCEPT !.present = FALSE], [profile EXCEPT !.tenant = "t2"],
                     [profile EXCEPT !.locale = "l2"], [profile EXCEPT !.channels = {}]}
    /\ profile' # profile
    /\ UNCHANGED <<setting, sender, jobs, rows, runner, kept, sent, dropped, lapses>>

NotificationsNext ==
    \/ send \/ pushFails \/ edit
    \/ \E channel \in Channels : push(channel)
    \/ \E d \in Deliveries : leaseExpires(d) \/ retryIsDue(d)
    \/ \E w \in NotificationRunners :
          \/ \E d \in Deliveries : take(w, d)
          \/ durableInboxRequired(w) \/ deliverWithoutInbox(w) \/ claimInbox(w)
          \/ invalidPayload(w) \/ refuseToDecode(w)
          \/ refuseMail(w) \/ refuseRecord(w) \/ refuseWebhook(w) \/ refuseBroadcast(w)
          \/ composeMail(w) \/ composeRecord(w) \/ composeWebhook(w) \/ composeBroadcast(w)
          \/ resolve(w) \/ handOver(w) \/ put(w) \/ channelFails(w)
          \/ settle(w) \/ end(w) \/ dieRunner(w)

NotificationsSpec == NotificationsInit /\ [][NotificationsNext]_notificationVars

(***************************************************************************)
(* Properties                                                              *)
(***************************************************************************)

\* Types.
NotificationsTypeOK ==
    /\ jobs \in [Deliveries -> [state : {"none", "waiting", "active", "done", "failed"}, tries : Nat]]
    /\ rows \in [Deliveries -> Row]
    /\ \A k \in kept : k.d \in Deliveries /\ k.print \in Snapshot
    /\ dropped \subseteq Deliveries

\* What the retries of a notification may do (QueuedNotificationJob, the channels):
\* a channel accepts a delivery a second time only when an earlier claim had called it
\* and lost its outcome; the database channel and the webhook outbox keep one row of a
\* delivery, unless the recipient changed its tenant and the dispatch named none;
\* a job ends without an error only when its channel accepted the notification, the
\* recipient no longer wants it, or the inbox records the delivery as dead.
DeliveriesAreSettled ==
    /\ \A d \in Deliveries : sent[d] <= 1 + lapses[d]
    /\ \A a, b \in kept : a.d = b.d /\ a # b =>
          /\ setting.tenant = "none" /\ a.print.tenant # b.print.tenant /\ a.d[1] = "database"
    /\ \A d \in Deliveries :
          jobs[d].state = "done" => sent[d] > 0 \/ d \in dropped \/ rows[d].state = "dead"
=============================================================================
