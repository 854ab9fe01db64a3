---------------------------- MODULE ServiceProofs ----------------------------
(***************************************************************************)
(* Theorems about services of MCPlatform, for every value of their           *)
(* constants.                                                               *)
(***************************************************************************)
EXTENDS Notifications, DeadLetterPage, Webhooks, DeadLetters, Filesystem, FiniteSetTheorems, SequenceTheorems, TLAPS

(***************************************************************************)
(* Notifications.  A delivery has at most one runner, so that what its      *)
(* channel accepted beyond the outcomes that were lost is the runner's or   *)
(* is settled.                                                              *)
(***************************************************************************)
RunnerPcs == {"idle", "starting", "resolving", "composing", "calling", "settling", "ending"}
Claimed == {"resolving", "composing", "calling", "settling"}
RunnerState == [pc : RunnerPcs, d : Deliveries \cup {<<"none", 0>>}, token : Nat \X Nat, read : Snapshot,
                result : {"none", "ok", "throws", "fatal"}, leaseLost : BOOLEAN]
Profile == [present : BOOLEAN, tenant : Tenants, channels : SUBSET Channels, route : Tenants, locale : {"l1", "l2"}]

NotificationTypes ==
    /\ setting \in [named : BOOLEAN, tenant : {"none", "t1"}, inbox : {"none", "memory", "durable"},
                    requireDurable : BOOLEAN]
    /\ setting.requireDurable <=> setting.inbox # "none"
    /\ profile \in Profile
    /\ sender \in [left : SUBSET Channels, sends : 0..MaxSends]
    /\ jobs \in [Deliveries -> [state : {"none", "waiting", "active", "done", "failed"}, tries : Nat]]
    /\ rows \in [Deliveries -> Row]
    /\ runner \in [NotificationRunners -> RunnerState]
    /\ sent \in [Deliveries -> Nat] /\ lapses \in [Deliveries -> Nat] /\ dropped \subseteq Deliveries

\* Each key has one row, of a recipient of the dispatch's tenant, that a channel accepted.
KeptIsSound ==
    \A k \in kept :
        /\ k.d \in Deliveries /\ k.print \in Snapshot /\ k = fingerprint(k.d, k.print) /\ sent[k.d] > 0
        /\ setting.tenant # "none" => k.print.tenant = setting.tenant
        /\ \A other \in kept : other.key = k.key => other = k

RunnerAt(w, d) == runner[w].pc # "idle" /\ runner[w].d = d
RunnersAreAlone ==
    /\ \A w \in NotificationRunners : runner[w].pc # "idle" =>
          runner[w].d \in Deliveries /\ jobs[runner[w].d].state = "active"
    /\ \A v, w \in NotificationRunners : \A d \in Deliveries : RunnerAt(v, d) /\ RunnerAt(w, d) => v = w

\* The outcome of a runner is not lost yet.
HasOutcome(s) == s.result = "ok" /\ (s.pc = "ending" \/ (s.pc = "settling" /\ ~s.leaseLost))

\* A runner, the row of its delivery, what was sent and lapsed of it, and whether it was dropped.
RunnerFits(s, row, times, lost, gone) ==
    /\ s.pc \in Claimed /\ setting.inbox # "none" =>
          row.state = "processing" /\ TokenOf(row) = s.token /\ (row.live <=> ~s.leaseLost)
    /\ s.pc = "starting" => ~s.leaseLost
    /\ s.pc \in {"composing", "calling"} /\ setting.tenant # "none" => s.read.tenant = setting.tenant
    /\ s.pc = "calling" /\ s.leaseLost => times + 1 <= lost
    /\ s.pc = "settling" => s.result # "none"
    /\ s.pc = "settling" /\ s.result = "ok" => times > 0 \/ gone
    /\ s.pc = "ending" => s.result # "none"
    /\ s.pc = "ending" /\ s.result = "ok" => times > 0 \/ gone \/ row.state = "dead"
    /\ s.pc = "ending" /\ s.result = "ok" /\ setting.inbox # "none" => Terminal(row)

\* What was sent is paid by lost outcomes but for one, whose outcome is known.
DeliveryFits(d) ==
    /\ sent[d] <= lapses[d] + 1
    /\ \/ sent[d] <= lapses[d] \/ jobs[d].state = "done" \/ Terminal(rows[d])
       \/ \E w \in NotificationRunners : RunnerAt(w, d) /\ HasOutcome(runner[w])
    /\ jobs[d].state = "done" => sent[d] > 0 \/ d \in dropped \/ rows[d].state = "dead"
    /\ rows[d].state = "delivered" => sent[d] > 0 \/ d \in dropped
    /\ setting.inbox = "none" => rows[d].state = "absent"

NotificationsInv ==
    /\ NotificationTypes /\ KeptIsSound /\ RunnersAreAlone
    /\ \A w \in NotificationRunners : runner[w].pc # "idle" =>
          LET d == runner[w].d IN RunnerFits(runner[w], rows[d], sent[d], lapses[d], d \in dropped)
    /\ \A d \in Deliveries : DeliveryFits(d)

LEMMA NotificationsStart == NotificationsInit => NotificationsInv
<1> SUFFICES ASSUME NotificationsInit PROVE NotificationsInv
  OBVIOUS
<1>1. AbsentRow \in Row /\ AbsentRow.state = "absent"
  BY DEF AbsentRow, Row
<1>2. Away \in RunnerState /\ Away.pc = "idle"
  BY DEF Away, RunnerState, RunnerPcs, NoSnapshot, Snapshot, Tenants
<1>3. setting \in [named : BOOLEAN, tenant : {"none", "t1"}, inbox : {"none", "memory", "durable"},
                    requireDurable : BOOLEAN]
  BY DEF NotificationsInit
<1>4. profile \in Profile
  <2>1. /\ profile \in [present : {TRUE}, tenant : {setting.tenant}, channels : Notified,
                        route : {"none", setting.tenant}, locale : {"l1"}]
        /\ setting.tenant \in Tenants
    BY <1>3 DEF NotificationsInit, Tenants
  <2>2. \A channels \in Notified : channels \in SUBSET Channels
    BY DEF Channels
  <2>3. \A route \in {"none", setting.tenant} : route \in Tenants
    BY <2>1 DEF Tenants
  <2> QED  BY <2>1, <2>2, <2>3 DEF Profile
<1>5. sender \in [left : SUBSET Channels, sends : 0..MaxSends]
  BY NotificationsAssumption DEF NotificationsInit
<1>6. /\ \A d \in Deliveries : jobs[d].state = "none" /\ rows[d] = AbsentRow /\ sent[d] = 0 /\ lapses[d] = 0
      /\ \A w \in NotificationRunners : runner[w].pc = "idle"
      /\ kept = {} /\ dropped = {}
  BY <1>2 DEF NotificationsInit
<1>7. NotificationTypes
  BY <1>1, <1>2, <1>3, <1>4, <1>5 DEF NotificationsInit, NotificationTypes
<1>8. \A d \in Deliveries : DeliveryFits(d)
  BY <1>1, <1>6 DEF DeliveryFits
<1> QED  BY <1>6, <1>7, <1>8 DEF NotificationsInv, KeptIsSound, RunnersAreAlone, RunnerAt

\* Where a runner goes with a result.
LEMMA GoesOn ==
    ASSUME NotificationTypes, NEW w \in NotificationRunners, NEW pc \in RunnerPcs,
           NEW result \in {"none", "ok", "throws", "fatal"}, Goes(w, pc, result)
    PROVE  \E s \in RunnerState :
              /\ runner' = [runner EXCEPT ![w] = s] /\ s.pc = pc /\ s.result = result /\ s.d = runner[w].d
              /\ s.token = runner[w].token /\ s.read = runner[w].read /\ s.leaseLost = runner[w].leaseLost
<1>1. runner \in [NotificationRunners -> RunnerState] /\ runner[w] \in RunnerState
  BY DEF NotificationTypes
<1> DEFINE s == [runner[w] EXCEPT !.pc = pc, !.result = result]
<1>2. s \in RunnerState
  BY <1>1, Zenon DEF RunnerState
<1>3. /\ s.pc = pc /\ s.result = result /\ s.d = runner[w].d
      /\ s.token = runner[w].token /\ s.read = runner[w].read /\ s.leaseLost = runner[w].leaseLost
  BY <1>1 DEF RunnerState
<1>4. runner' = [runner EXCEPT ![w] = s]
  BY <1>1 DEF Goes
<1> HIDE DEF s
<1> QED  BY <1>2, <1>3, <1>4

\* What is known of the delivery of a runner.
LEMMA RunnerFacts ==
    ASSUME NotificationsInv, NEW w \in NotificationRunners, runner[w].pc # "idle"
    PROVE  /\ runner[w] \in RunnerState /\ runner[w].d \in Deliveries /\ jobs[runner[w].d].state = "active"
           /\ rows[runner[w].d] \in Row /\ sent[runner[w].d] \in Nat /\ lapses[runner[w].d] \in Nat
           /\ RunnerFits(runner[w], rows[runner[w].d], sent[runner[w].d], lapses[runner[w].d],
                         runner[w].d \in dropped)
           /\ DeliveryFits(runner[w].d)
           /\ sent[runner[w].d] <= lapses[runner[w].d] + 1
           /\ ~Terminal(rows[runner[w].d]) /\ ~HasOutcome(runner[w]) => sent[runner[w].d] <= lapses[runner[w].d]
           /\ rows[runner[w].d].state = "delivered" => sent[runner[w].d] > 0 \/ runner[w].d \in dropped
           /\ setting.inbox = "none" => rows[runner[w].d].state = "absent"
<1>1. PICK d \in Deliveries : d = runner[w].d /\ jobs[d].state = "active"
  BY DEF NotificationsInv, RunnersAreAlone
<1>2. DeliveryFits(d) /\ RunnerFits(runner[w], rows[d], sent[d], lapses[d], d \in dropped)
  BY <1>1 DEF NotificationsInv
<1>3. runner[w] \in RunnerState /\ rows[d] \in Row /\ sent[d] \in Nat /\ lapses[d] \in Nat
  BY DEF NotificationsInv, NotificationTypes
<1>4. \A v \in NotificationRunners : RunnerAt(v, d) => v = w
  BY <1>1 DEF NotificationsInv, RunnersAreAlone, RunnerAt
<1>5. ~Terminal(rows[d]) /\ ~HasOutcome(runner[w]) => sent[d] <= lapses[d]
  BY <1>1, <1>2, <1>4 DEF DeliveryFits
<1>6. /\ sent[d] <= lapses[d] + 1
      /\ rows[d].state = "delivered" => sent[d] > 0 \/ d \in dropped
      /\ setting.inbox = "none" => rows[d].state = "absent"
  BY <1>2 DEF DeliveryFits
<1> QED  BY <1>1, <1>2, <1>3, <1>5, <1>6

\* A runner goes on with its delivery, and disturbs no other one.
LEMMA RunnerMoves ==
    ASSUME NotificationsInv, NEW w \in NotificationRunners, runner[w].pc # "idle",
           NEW s \in RunnerState, s.pc # "idle", s.d = runner[w].d, runner' = [runner EXCEPT ![w] = s],
           UNCHANGED <<setting, profile, sender, jobs>>,
           NEW d \in Deliveries, d = runner[w].d, NEW row \in Row, NEW times \in Nat, NEW lost \in Nat,
           rows' = [rows EXCEPT ![d] = row], sent' = [sent EXCEPT ![d] = times], lapses' = [lapses EXCEPT ![d] = lost],
           dropped \subseteq dropped', dropped' \subseteq Deliveries, sent[d] <= times,
           times <= lost + 1, times <= lost \/ Terminal(row) \/ HasOutcome(s),
           row.state = "delivered" => times > 0 \/ d \in dropped',
           setting.inbox = "none" => row.state = "absent",
           RunnerFits(s, row, times, lost, d \in dropped'), KeptIsSound'
    PROVE  NotificationsInv'
<1>1. /\ runner' \in [NotificationRunners -> RunnerState] /\ runner'[w] = s
      /\ \A v \in NotificationRunners : v # w => runner'[v] = runner[v]
      /\ rows' \in [Deliveries -> Row] /\ rows'[d] = row /\ \A e \in Deliveries : e # d => rows'[e] = rows[e]
      /\ sent' \in [Deliveries -> Nat] /\ sent'[d] = times /\ \A e \in Deliveries : e # d => sent'[e] = sent[e]
      /\ lapses' \in [Deliveries -> Nat] /\ lapses'[d] = lost /\ \A e \in Deliveries : e # d => lapses'[e] = lapses[e]
  BY DEF NotificationsInv, NotificationTypes
<1>2. NotificationTypes'
  BY <1>1 DEF NotificationsInv, NotificationTypes
<1>3. \A v \in NotificationRunners : runner'[v].d = runner[v].d /\ (runner'[v].pc # "idle" <=> runner[v].pc # "idle")
  BY <1>1
<1>4. RunnersAreAlone'
  BY <1>3 DEF NotificationsInv, RunnersAreAlone, RunnerAt
<1>5. ASSUME NEW v \in NotificationRunners, runner'[v].pc # "idle"
      PROVE  RunnerFits(runner[v], rows[runner[v].d], sent[runner[v].d], lapses[runner[v].d], runner[v].d \in dropped)'
  <2>1. CASE v = w
    BY <1>1, <2>1 DEF RunnerFits
  <2>2. CASE v # w
    <3>1. PICK e \in Deliveries : e = runner[v].d /\ e # d
      BY <1>3, <1>5, <2>2 DEF NotificationsInv, RunnersAreAlone, RunnerAt
    <3>2. RunnerFits(runner[v], rows[e], sent[e], lapses[e], e \in dropped)
      BY <1>3, <1>5, <3>1 DEF NotificationsInv
    <3> QED  BY <1>1, <2>2, <3>1, <3>2 DEF RunnerFits
  <2> QED  BY <2>1, <2>2
<1>6. ASSUME NEW e \in Deliveries PROVE DeliveryFits(e)'
  <2>1. jobs' = jobs /\ setting' = setting
    OBVIOUS
  <2>2. CASE e = d
    <3>1. jobs[d].state # "done"
      BY DEF NotificationsInv, RunnersAreAlone
    <3>2. RunnerAt(w, d)'
      BY <1>1 DEF RunnerAt
    <3> QED  BY <1>1, <2>1, <2>2, <3>1, <3>2 DEF DeliveryFits
  <2>3. CASE e # d
    <3>1. DeliveryFits(e)
      BY DEF NotificationsInv
    <3>2. \A v \in NotificationRunners : RunnerAt(v, e) => v # w /\ RunnerAt(v, e)' /\ runner'[v] = runner[v]
      BY <1>1, <2>3 DEF RunnerAt
    <3>3. /\ rows'[e] = rows[e] /\ sent'[e] = sent[e] /\ lapses'[e] = lapses[e]
      BY <1>1, <2>3
    <3> QED  BY <2>1, <3>1, <3>2, <3>3 DEF DeliveryFits
  <2> QED  BY <2>2, <2>3
<1> QED  BY <1>2, <1>4, <1>5, <1>6 DEF NotificationsInv

\* A runner goes on, and only that changes but for a delivery that is dropped.
LEMMA RunnerTurns ==
    ASSUME NotificationsInv, NEW w \in NotificationRunners, runner[w].pc # "idle",
           NEW s \in RunnerState, s.pc # "idle", s.d = runner[w].d, runner' = [runner EXCEPT ![w] = s],
           UNCHANGED <<setting, profile, sender, jobs, rows, kept, sent, lapses>>,
           NEW d \in Deliveries, d = runner[w].d, dropped \subseteq dropped', dropped' \subseteq Deliveries,
           sent[d] <= lapses[d] \/ Terminal(rows[d]) \/ HasOutcome(s),
           RunnerFits(s, rows[d], sent[d], lapses[d], d \in dropped')
    PROVE  NotificationsInv'
<1>1. PICK row \in Row, times \in Nat, lost \in Nat : row = rows[d] /\ times = sent[d] /\ lost = lapses[d]
  BY RunnerFacts
<1>2. /\ times <= lost + 1 /\ sent[d] <= times
      /\ row.state = "delivered" => times > 0 \/ d \in dropped'
      /\ setting.inbox = "none" => row.state = "absent"
  BY <1>1, RunnerFacts
<1>3. /\ rows' = [rows EXCEPT ![d] = row] /\ sent' = [sent EXCEPT ![d] = times]
      /\ lapses' = [lapses EXCEPT ![d] = lost]
  BY <1>1 DEF NotificationsInv, NotificationTypes
<1>4. KeptIsSound'
  BY DEF NotificationsInv, KeptIsSound, fingerprint, recordKey
<1>5. /\ times <= lost \/ Terminal(row) \/ HasOutcome(s)
      /\ RunnerFits(s, row, times, lost, d \in dropped')
  BY <1>1
<1>6. UNCHANGED <<setting, profile, sender, jobs>>
  OBVIOUS
<1> QED  BY <1>2, <1>3, <1>4, <1>5, <1>6, RunnerMoves

LEMMA StartingSteps ==
    ASSUME NotificationsInv, NEW w \in NotificationRunners,
           durableInboxRequired(w) \/ deliverWithoutInbox(w) \/ invalidPayload(w)
    PROVE  NotificationsInv'
<1>1. /\ runner[w].pc = "starting" /\ UNCHANGED <<setting, profile, sender, jobs, rows, kept, sent, dropped, lapses>>
      /\ \/ Goes(w, "ending", "fatal")
         \/ Goes(w, "resolving", "none") /\ setting.inbox = "none"
  BY DEF durableInboxRequired, deliverWithoutInbox, invalidPayload, Refuses, Runs
<1>2. PICK d \in Deliveries : d = runner[w].d
  BY <1>1, RunnerFacts
<1>3. PICK s \in RunnerState :
          /\ runner' = [runner EXCEPT ![w] = s] /\ s.d = d
          /\ \/ s.pc = "ending" /\ s.result = "fatal"
             \/ s.pc = "resolving" /\ setting.inbox = "none"
  <2>1. CASE Goes(w, "ending", "fatal")
    BY <1>2, <2>1, GoesOn DEF NotificationsInv, RunnerPcs
  <2>2. CASE Goes(w, "resolving", "none") /\ setting.inbox = "none"
    BY <1>2, <2>2, GoesOn DEF NotificationsInv, RunnerPcs
  <2> QED  BY <1>1, <2>1, <2>2
<1>4. sent[d] <= lapses[d] \/ Terminal(rows[d])
  BY <1>1, <1>2, RunnerFacts DEF HasOutcome
<1>5. RunnerFits(s, rows[d], sent[d], lapses[d], d \in dropped')
  BY <1>3 DEF RunnerFits, Claimed
<1>6. dropped' \subseteq Deliveries
  BY <1>1 DEF NotificationsInv, NotificationTypes
<1> QED  BY <1>1, <1>2, <1>3, <1>4, <1>5, <1>6, RunnerTurns

LEMMA TakenFits ==
    ASSUME NEW row \in Row
    PROVE  /\ Taken(row) \in Row /\ TokenOf(Taken(row)) \in Nat \X Nat
           /\ Taken(row).state = "processing" /\ Taken(row).live = TRUE
<1>1. row.attempts + 1 \in Nat /\ row.epoch \in Nat
  BY DEF Row
<1>2. Taken(row) \in Row
  BY <1>1, Zenon DEF Taken, Row
<1>3. /\ Taken(row).state = "processing" /\ Taken(row).live = TRUE /\ Taken(row).attempts = row.attempts + 1
      /\ Taken(row).epoch = row.epoch
  BY DEF Taken, Row
<1> QED  BY <1>1, <1>2, <1>3 DEF TokenOf

\* A claim that is granted makes the row the runner's.
LEMMA claimInboxSteps ==
    ASSUME NotificationsInv, NEW w \in NotificationRunners, claimInbox(w)
    PROVE  NotificationsInv'
<1>1. /\ runner[w].pc = "starting" /\ setting.inbox # "none"
      /\ UNCHANGED <<setting, profile, sender, jobs, kept, sent, dropped, lapses>>
  BY DEF claimInbox, Runs
<1>2. PICK d \in Deliveries : d = runner[w].d
  BY <1>1, RunnerFacts
<1>3. /\ rows[d] \in Row /\ runner[w] \in RunnerState /\ sent[d] \in Nat /\ lapses[d] \in Nat
      /\ sent[d] <= lapses[d] \/ Terminal(rows[d])
      /\ sent[d] <= lapses[d] + 1
      /\ ~runner[w].leaseLost
      /\ rows[d].state = "delivered" => sent[d] > 0 \/ d \in dropped
  BY <1>1, <1>2, RunnerFacts DEF HasOutcome, RunnerFits
<1>4. dropped' \subseteq Deliveries
  BY <1>1 DEF NotificationsInv, NotificationTypes
<1> DEFINE absent == rows[d].state = "absent"
           stored == IF absent THEN AppendedRow(1) ELSE rows[d]
           row == Taken(stored)
           answer == IF absent THEN "claimable" ELSE InboxRead(rows[d])
           result == consume(answer)
<1>5. IF result = "claimed"
      THEN /\ rows' = [rows EXCEPT ![d] = row]
           /\ runner' = [runner EXCEPT ![w].pc = "resolving", ![w].token = TokenOf(row)]
      ELSE Goes(w, "ending", result) /\ UNCHANGED rows
  BY <1>2 DEF claimInbox
<1>6. stored \in Row
  BY <1>3 DEF AppendedRow, Row
<1>7. row \in Row /\ TokenOf(row) \in Nat \X Nat /\ row.state = "processing" /\ row.live = TRUE
  BY <1>6, TakenFits
<1>8. result = "claimed" => ~Terminal(rows[d])
  BY DEF consume, InboxRead, Terminal
<1>9. result # "claimed" => result \in {"ok", "throws"} /\ (result = "ok" => Terminal(rows[d]))
  BY DEF consume, InboxRead, Terminal
<1>10. CASE result = "claimed"
  <2> DEFINE h == [runner[w] EXCEPT !.pc = "resolving", !.token = TokenOf(row)]
  <2>1. runner' = [runner EXCEPT ![w] = h] /\ rows' = [rows EXCEPT ![d] = row]
    BY <1>5, <1>10 DEF NotificationsInv, NotificationTypes
  <2>2. row \in Row /\ TokenOf(row) \in Nat \X Nat /\ row.state = "processing" /\ row.live = TRUE /\ ~Terminal(row)
    BY <1>7 DEF Terminal
  <2> HIDE DEF row
  <2>3. h \in RunnerState
    BY <1>3, <2>2, Zenon DEF RunnerState, RunnerPcs
  <2>4. h.pc = "resolving" /\ h.token = TokenOf(row) /\ h.d = d /\ h.leaseLost = runner[w].leaseLost
    BY <1>2, <1>3 DEF RunnerState
  <2> HIDE DEF h
  <2>5. PICK s \in RunnerState : s = h
    BY <2>3
  <2>6. s.pc = "resolving" /\ s.token = TokenOf(row) /\ s.d = d /\ ~s.leaseLost
    BY <1>3, <2>4, <2>5
  <2>7. RunnerFits(s, row, sent[d], lapses[d], d \in dropped')
    BY <2>2, <2>6 DEF RunnerFits
  <2>8. sent' = [sent EXCEPT ![d] = sent[d]] /\ lapses' = [lapses EXCEPT ![d] = lapses[d]]
    BY <1>1 DEF NotificationsInv, NotificationTypes
  <2>9. KeptIsSound'
    BY <1>1 DEF NotificationsInv, KeptIsSound, fingerprint, recordKey
  <2>10. sent[d] <= lapses[d] /\ sent[d] <= lapses[d] + 1
    BY <1>3, <1>8, <1>10
  <2>11. runner' = [runner EXCEPT ![w] = s]
    BY <2>1, <2>5
  <2>12. /\ UNCHANGED <<setting, profile, sender, jobs>> /\ sent[d] <= sent[d]
         /\ row.state # "delivered" /\ dropped \subseteq dropped'
    BY <1>1, <1>3, <2>2
  <2>13. runner[w].pc # "idle" /\ s.pc # "idle" /\ s.d = runner[w].d
    BY <1>1, <1>2, <2>6
  <2>14. sent[d] \in Nat /\ lapses[d] \in Nat /\ (sent[d] <= lapses[d] \/ Terminal(row) \/ HasOutcome(s))
    BY <1>3, <2>10
  <2>15. (row.state = "delivered" => sent[d] > 0 \/ d \in dropped') /\ (setting.inbox = "none" => row.state = "absent")
    BY <1>1, <2>12
  <2>16. PICK times \in Nat, lost \in Nat : times = sent[d] /\ lost = lapses[d]
    BY <2>14
  <2>17. /\ RunnerFits(s, row, times, lost, d \in dropped') /\ times <= lost + 1 /\ sent[d] <= times
         /\ times <= lost \/ Terminal(row) \/ HasOutcome(s)
         /\ row.state = "delivered" => times > 0 \/ d \in dropped'
         /\ sent' = [sent EXCEPT ![d] = times] /\ lapses' = [lapses EXCEPT ![d] = lost]
    BY <2>7, <2>8, <2>10, <2>12, <2>14, <2>15, <2>16
  <2>18. row \in Row /\ s \in RunnerState /\ rows' = [rows EXCEPT ![d] = row] /\ d = runner[w].d
    BY <1>2, <2>1, <2>2, <2>3, <2>5
  <2> QED  BY <1>4, <2>9, <2>11, <2>12, <2>13, <2>15, <2>16, <2>17, <2>18, RunnerMoves
<1>11. CASE result # "claimed"
  <2>1. PICK r \in {"ok", "throws"} : r = result
    BY <1>9, <1>11
  <2>2. Goes(w, "ending", r) /\ UNCHANGED rows /\ (r = "ok" => Terminal(rows[d]))
    BY <1>5, <1>9, <1>11, <2>1
  <2>3. PICK s \in RunnerState : /\ runner' = [runner EXCEPT ![w] = s] /\ s.d = d /\ s.pc = "ending" /\ s.result = r
    BY <1>2, <2>2, GoesOn DEF NotificationsInv, RunnerPcs
  <2>4. RunnerFits(s, rows[d], sent[d], lapses[d], d \in dropped')
    BY <1>1, <1>3, <2>2, <2>3 DEF RunnerFits, Terminal, Claimed
  <2> QED  BY <1>1, <1>2, <1>3, <1>4, <2>2, <2>3, <2>4, RunnerTurns
<1> QED  BY <1>10, <1>11

\* Refusals: the runner has called no channel.
LEMMA RefusingSteps ==
    ASSUME NotificationsInv, NEW w \in NotificationRunners,
           refuseToDecode(w) \/ refuseMail(w) \/ refuseRecord(w) \/ refuseWebhook(w) \/ refuseBroadcast(w)
    PROVE  NotificationsInv'
<1>1. /\ runner[w].pc \in {"resolving", "composing"} /\ UNCHANGED <<setting, profile, sender, jobs, rows, kept, sent, dropped, lapses>>
      /\ Goes(w, "settling", "fatal") \/ Goes(w, "settling", "throws")
  BY DEF refuseToDecode, refuseMail, refuseRecord, refuseWebhook, refuseBroadcast, Refuses, Runs
<1>2. PICK d \in Deliveries : d = runner[w].d
  BY <1>1, RunnerFacts
<1>3. PICK s \in RunnerState :
          /\ runner' = [runner EXCEPT ![w] = s] /\ s.d = d /\ s.pc = "settling" /\ s.result \in {"fatal", "throws"}
          /\ s.token = runner[w].token /\ s.leaseLost = runner[w].leaseLost
  <2>1. CASE Goes(w, "settling", "fatal")
    BY <1>2, <2>1, GoesOn DEF NotificationsInv, RunnerPcs
  <2>2. CASE Goes(w, "settling", "throws")
    BY <1>2, <2>2, GoesOn DEF NotificationsInv, RunnerPcs
  <2> QED  BY <1>1, <2>1, <2>2
<1>4. /\ RunnerFits(runner[w], rows[d], sent[d], lapses[d], d \in dropped)
      /\ sent[d] <= lapses[d] \/ Terminal(rows[d])
  BY <1>1, <1>2, RunnerFacts DEF HasOutcome
<1>5. RunnerFits(s, rows[d], sent[d], lapses[d], d \in dropped')
  BY <1>1, <1>3, <1>4 DEF RunnerFits, Claimed
<1>6. dropped' \subseteq Deliveries
  BY <1>1 DEF NotificationsInv, NotificationTypes
<1> QED  BY <1>1, <1>2, <1>3, <1>4, <1>5, <1>6, RunnerTurns

\* The recipient as it is now: the tenant of the dispatch, or nothing is sent.
LEMMA resolveSteps ==
    ASSUME NotificationsInv, NEW w \in NotificationRunners, resolve(w)
    PROVE  NotificationsInv'
<1>1. runner[w].pc = "resolving" /\ UNCHANGED <<setting, profile, sender, jobs, rows, kept, sent, lapses>>
  BY DEF resolve, Runs
<1>2. PICK d \in Deliveries : d = runner[w].d
  BY <1>1, RunnerFacts
<1>3. /\ RunnerFits(runner[w], rows[d], sent[d], lapses[d], d \in dropped) /\ runner[w] \in RunnerState
      /\ sent[d] <= lapses[d] \/ Terminal(rows[d])
  BY <1>1, <1>2, RunnerFacts DEF HasOutcome
<1> DEFINE gone == ~profile.present \/ (~tenantMismatch(profile.tenant) /\ d[1] \notin profile.channels)
           h == [runner[w] EXCEPT !.pc = "composing", !.read = [tenant |-> profile.tenant, locale |-> profile.locale]]
<1>4. /\ IF gone THEN Goes(w, "settling", "ok")
         ELSE IF tenantMismatch(profile.tenant) THEN Goes(w, "settling", "fatal")
         ELSE runner' = [runner EXCEPT ![w] = h]
      /\ dropped' = IF gone THEN dropped \cup {d} ELSE dropped
  BY <1>2 DEF resolve, NotificationsInv, NotificationTypes
<1>5. dropped \subseteq dropped' /\ dropped' \subseteq Deliveries
  BY <1>4 DEF NotificationsInv, NotificationTypes
<1>6. CASE gone
  <2>1. Goes(w, "settling", "ok") /\ d \in dropped'
    BY <1>4, <1>6
  <2>2. PICK s \in RunnerState :
            /\ runner' = [runner EXCEPT ![w] = s] /\ s.d = d /\ s.pc = "settling" /\ s.result = "ok"
            /\ s.token = runner[w].token /\ s.leaseLost = runner[w].leaseLost
    BY <1>2, <2>1, GoesOn DEF NotificationsInv, RunnerPcs
  <2>3. RunnerFits(s, rows[d], sent[d], lapses[d], d \in dropped')
    BY <1>1, <1>3, <2>1, <2>2 DEF RunnerFits, Claimed
  <2> QED  BY <1>1, <1>2, <1>3, <1>5, <2>2, <2>3, RunnerTurns
<1>7. CASE ~gone /\ tenantMismatch(profile.tenant)
  <2>1. Goes(w, "settling", "fatal")
    BY <1>4, <1>7
  <2>2. PICK s \in RunnerState :
            /\ runner' = [runner EXCEPT ![w] = s] /\ s.d = d /\ s.pc = "settling" /\ s.result = "fatal"
            /\ s.token = runner[w].token /\ s.leaseLost = runner[w].leaseLost
    BY <1>2, <2>1, GoesOn DEF NotificationsInv, RunnerPcs
  <2>3. RunnerFits(s, rows[d], sent[d], lapses[d], d \in dropped')
    BY <1>1, <1>3, <2>2 DEF RunnerFits, Claimed
  <2> QED  BY <1>1, <1>2, <1>3, <1>5, <2>2, <2>3, RunnerTurns
<1>8. CASE ~gone /\ ~tenantMismatch(profile.tenant)
  <2>1. runner' = [runner EXCEPT ![w] = h]
    BY <1>4, <1>8
  <2>2. [tenant |-> profile.tenant, locale |-> profile.locale] \in Snapshot
    BY DEF NotificationsInv, NotificationTypes, Profile, Snapshot
  <2>3. h \in RunnerState
    BY <1>3, <2>2, Zenon DEF RunnerState, RunnerPcs
  <2>4. /\ h.pc = "composing" /\ h.d = d /\ h.token = runner[w].token /\ h.leaseLost = runner[w].leaseLost
        /\ h.read = [tenant |-> profile.tenant, locale |-> profile.locale]
    BY <1>2, <1>3 DEF RunnerState
  <2> HIDE DEF h
  <2>5. PICK s \in RunnerState : s = h
    BY <2>3
  <2>6. /\ runner' = [runner EXCEPT ![w] = s] /\ s.pc = "composing" /\ s.d = d /\ s.token = runner[w].token
        /\ s.leaseLost = runner[w].leaseLost /\ s.read.tenant = profile.tenant
    BY <2>1, <2>4, <2>5
  <2>7. RunnerFits(s, rows[d], sent[d], lapses[d], d \in dropped')
    BY <1>1, <1>3, <1>8, <2>6 DEF RunnerFits, Claimed, tenantMismatch
  <2> QED  BY <1>1, <1>2, <1>3, <1>5, <2>6, <2>7, RunnerTurns
<1> QED  BY <1>6, <1>7, <1>8

\* A channel is called under a lease that is held.
LEMMA ComposingSteps ==
    ASSUME NotificationsInv, NEW w \in NotificationRunners, NEW channel, NEW mismatch, sendChannel(w, channel, mismatch)
    PROVE  NotificationsInv'
<1>1. /\ runner[w].pc = "composing" /\ UNCHANGED <<setting, profile, sender, jobs, rows, kept, sent, dropped, lapses>>
      /\ \/ Goes(w, "settling", "throws")
         \/ Goes(w, "calling", "none") /\ ~runner[w].leaseLost
  BY DEF sendChannel, Runs
<1>2. PICK d \in Deliveries : d = runner[w].d
  BY <1>1, RunnerFacts
<1>3. PICK s \in RunnerState :
          /\ runner' = [runner EXCEPT ![w] = s] /\ s.d = d
          /\ s.token = runner[w].token /\ s.leaseLost = runner[w].leaseLost /\ s.read = runner[w].read
          /\ \/ s.pc = "settling" /\ s.result = "throws"
             \/ s.pc = "calling" /\ ~runner[w].leaseLost
  <2>1. CASE Goes(w, "settling", "throws")
    BY <1>2, <2>1, GoesOn DEF NotificationsInv, RunnerPcs
  <2>2. CASE Goes(w, "calling", "none") /\ ~runner[w].leaseLost
    BY <1>2, <2>2, GoesOn DEF NotificationsInv, RunnerPcs
  <2> QED  BY <1>1, <2>1, <2>2
<1>4. /\ RunnerFits(runner[w], rows[d], sent[d], lapses[d], d \in dropped)
      /\ sent[d] <= lapses[d] \/ Terminal(rows[d])
  BY <1>1, <1>2, RunnerFacts DEF HasOutcome
<1>5. RunnerFits(s, rows[d], sent[d], lapses[d], d \in dropped')
  BY <1>1, <1>3, <1>4 DEF RunnerFits, Claimed
<1>6. dropped' \subseteq Deliveries
  BY <1>1 DEF NotificationsInv, NotificationTypes
<1> QED  BY <1>1, <1>2, <1>3, <1>4, <1>5, <1>6, RunnerTurns

\* A call of a channel is accepted once by a runner, or its outcome is lost.
LEMMA CallingFacts ==
    ASSUME NotificationsInv, NEW w \in NotificationRunners, runner[w].pc = "calling"
    PROVE  /\ sent[runner[w].d] <= lapses[runner[w].d] /\ ~Terminal(rows[runner[w].d])
           /\ runner[w].leaseLost => sent[runner[w].d] + 1 <= lapses[runner[w].d]
<1>1. PICK d \in Deliveries : d = runner[w].d
  BY RunnerFacts
<1>2. /\ RunnerFits(runner[w], rows[d], sent[d], lapses[d], d \in dropped)
      /\ sent[d] <= lapses[d] \/ Terminal(rows[d])
      /\ setting.inbox = "none" => rows[d].state = "absent"
  BY <1>1, RunnerFacts DEF HasOutcome
<1>3. ~Terminal(rows[d])
  BY <1>2 DEF RunnerFits, Claimed, Terminal
<1> QED  BY <1>1, <1>2, <1>3 DEF RunnerFits

LEMMA handOverSteps ==
    ASSUME NotificationsInv, NEW w \in NotificationRunners, handOver(w)
    PROVE  NotificationsInv'
<1>1. /\ runner[w].pc = "calling" /\ Goes(w, "settling", "ok") /\ Accept(runner[w].d)
      /\ UNCHANGED <<setting, profile, sender, jobs, rows, kept, dropped, lapses>>
  BY DEF handOver, Runs
<1>2. PICK d \in Deliveries : d = runner[w].d
  BY <1>1, RunnerFacts
<1>3. /\ rows[d] \in Row /\ sent[d] \in Nat /\ lapses[d] \in Nat /\ runner[w] \in RunnerState
      /\ RunnerFits(runner[w], rows[d], sent[d], lapses[d], d \in dropped)
      /\ rows[d].state = "delivered" => sent[d] > 0 \/ d \in dropped
      /\ setting.inbox = "none" => rows[d].state = "absent"
  BY <1>1, <1>2, RunnerFacts
<1>4. sent[d] <= lapses[d] /\ (runner[w].leaseLost => sent[d] + 1 <= lapses[d])
  BY <1>1, <1>2, CallingFacts
<1>5. PICK row \in Row, times \in Nat, lost \in Nat : row = rows[d] /\ times = sent[d] + 1 /\ lost = lapses[d]
  <2>1. sent[d] + 1 \in Nat
    BY <1>3
  <2> QED  BY <1>3, <2>1, Zenon
<1>6. PICK s \in RunnerState :
            /\ runner' = [runner EXCEPT ![w] = s] /\ s.d = d /\ s.pc = "settling" /\ s.result = "ok"
            /\ s.token = runner[w].token /\ s.leaseLost = runner[w].leaseLost
  BY <1>1, <1>2, GoesOn DEF NotificationsInv, RunnerPcs
<1>7. RunnerFits(s, row, times, lost, d \in dropped')
  BY <1>1, <1>3, <1>5, <1>6 DEF RunnerFits, Claimed
<1>8. /\ rows' = [rows EXCEPT ![d] = row] /\ sent' = [sent EXCEPT ![d] = times]
      /\ lapses' = [lapses EXCEPT ![d] = lost]
  BY <1>1, <1>2, <1>5 DEF NotificationsInv, NotificationTypes, Accept
<1>9. /\ times <= lost + 1 /\ (times <= lost \/ Terminal(row) \/ HasOutcome(s)) /\ sent[d] <= times
      /\ row.state = "delivered" => times > 0 \/ d \in dropped'
      /\ setting.inbox = "none" => row.state = "absent"
  BY <1>1, <1>3, <1>4, <1>5, <1>6 DEF HasOutcome
<1>10. KeptIsSound'
  <2>1. \A e \in Deliveries : sent[e] > 0 => sent'[e] > 0
    BY <1>3, <1>5, <1>8 DEF NotificationsInv, NotificationTypes
  <2> QED  BY <1>1, <2>1 DEF NotificationsInv, KeptIsSound, fingerprint, recordKey
<1>11. dropped \subseteq dropped' /\ dropped' \subseteq Deliveries /\ UNCHANGED <<setting, profile, sender, jobs>>
  BY <1>1 DEF NotificationsInv, NotificationTypes
<1>12. runner[w].pc # "idle" /\ s.pc # "idle" /\ s.d = runner[w].d /\ runner' = [runner EXCEPT ![w] = s]
  BY <1>1, <1>2, <1>6
<1> QED  BY <1>2, <1>7, <1>8, <1>9, <1>10, <1>11, <1>12, RunnerMoves

\* A row is put under a key that no row has.
LEMMA putSteps ==
    ASSUME NotificationsInv, NEW w \in NotificationRunners, put(w)
    PROVE  NotificationsInv'
<1>1. /\ runner[w].pc = "calling" /\ Keeps(runner[w].d[1])
      /\ UNCHANGED <<setting, profile, sender, jobs, rows, dropped, lapses>>
  BY DEF put, Runs
<1>2. PICK d \in Deliveries : d = runner[w].d
  BY <1>1, RunnerFacts
<1>3. /\ rows[d] \in Row /\ sent[d] \in Nat /\ lapses[d] \in Nat /\ runner[w] \in RunnerState
      /\ RunnerFits(runner[w], rows[d], sent[d], lapses[d], d \in dropped)
      /\ rows[d].state = "delivered" => sent[d] > 0 \/ d \in dropped
      /\ setting.inbox = "none" => rows[d].state = "absent"
  BY <1>1, <1>2, RunnerFacts
<1>4. sent[d] <= lapses[d] /\ (runner[w].leaseLost => sent[d] + 1 <= lapses[d])
  BY <1>1, <1>2, CallingFacts
<1>5. dropped \subseteq dropped' /\ dropped' \subseteq Deliveries /\ UNCHANGED <<setting, profile, sender, jobs>>
  BY <1>1 DEF NotificationsInv, NotificationTypes
<1> DEFINE new == fingerprint(d, runner[w].read)
<1>6. CASE SameKey(d, runner[w].read) # {}
  <2>1. PICK result \in {"ok", "throws"} : Goes(w, "settling", result) /\ (result = "ok" => new \in kept)
    BY <1>2, <1>6 DEF put
  <2>2. UNCHANGED <<kept, sent>>
    BY <1>2, <1>6 DEF put
  <2>3. PICK s \in RunnerState :
            /\ runner' = [runner EXCEPT ![w] = s] /\ s.d = d /\ s.pc = "settling" /\ s.result = result
            /\ s.token = runner[w].token /\ s.leaseLost = runner[w].leaseLost
    BY <1>2, <2>1, GoesOn DEF NotificationsInv, RunnerPcs
  <2>4. result = "ok" => sent[d] > 0
    <3>1. new.d = d
      BY DEF fingerprint
    <3> QED  BY <2>1, <3>1 DEF NotificationsInv, KeptIsSound
  <2>5. RunnerFits(s, rows[d], sent[d], lapses[d], d \in dropped')
    BY <1>1, <1>3, <2>3, <2>4 DEF RunnerFits, Claimed
  <2> QED  BY <1>1, <1>2, <1>4, <1>5, <2>2, <2>3, <2>5, RunnerTurns
<1>7. CASE SameKey(d, runner[w].read) = {}
  <2>1. kept' = kept \cup {new} /\ Accept(d) /\ Goes(w, "settling", "ok")
    BY <1>2, <1>7 DEF put
  <2>2. PICK row \in Row, times \in Nat, lost \in Nat : row = rows[d] /\ times = sent[d] + 1 /\ lost = lapses[d]
    <3>1. sent[d] + 1 \in Nat
      BY <1>3
    <3> QED  BY <1>3, <3>1, Zenon
  <2>3. PICK s \in RunnerState :
            /\ runner' = [runner EXCEPT ![w] = s] /\ s.d = d /\ s.pc = "settling" /\ s.result = "ok"
            /\ s.token = runner[w].token /\ s.leaseLost = runner[w].leaseLost
    BY <1>2, <2>1, GoesOn DEF NotificationsInv, RunnerPcs
  <2>4. RunnerFits(s, row, times, lost, d \in dropped')
    BY <1>1, <1>3, <2>2, <2>3 DEF RunnerFits, Claimed
  <2>5. /\ rows' = [rows EXCEPT ![d] = row] /\ sent' = [sent EXCEPT ![d] = times]
        /\ lapses' = [lapses EXCEPT ![d] = lost]
    BY <1>1, <2>1, <2>2 DEF NotificationsInv, NotificationTypes, Accept
  <2>6. /\ times <= lost + 1 /\ (times <= lost \/ Terminal(row) \/ HasOutcome(s)) /\ sent[d] <= times
        /\ row.state = "delivered" => times > 0 \/ d \in dropped'
        /\ setting.inbox = "none" => row.state = "absent"
    BY <1>1, <1>3, <1>4, <2>2, <2>3 DEF HasOutcome
  <2>7. KeptIsSound'
    <3>1. \A e \in Deliveries : sent[e] > 0 => sent'[e] > 0
      BY <1>3, <2>2, <2>5 DEF NotificationsInv, NotificationTypes
    <3>2. sent'[d] > 0
      BY <1>3, <2>2, <2>5 DEF NotificationsInv, NotificationTypes
    <3>3. /\ new.d = d /\ new.print = runner[w].read /\ new.key = recordKey(d, runner[w].read) /\ new.print \in Snapshot
          /\ new = fingerprint(new.d, new.print)
      BY <1>3 DEF fingerprint, RunnerState
    <3>4. setting.tenant # "none" => new.print.tenant = setting.tenant
      BY <1>1, <1>3, <3>3 DEF RunnerFits
    <3>5. \A k \in kept : k.key # new.key
      BY <1>7, <3>3 DEF SameKey
    <3> HIDE DEF new
    <3>6. ASSUME NEW k \in kept'
          PROVE  /\ k.d \in Deliveries /\ k.print \in Snapshot /\ k = fingerprint(k.d, k.print) /\ sent'[k.d] > 0
                 /\ setting.tenant # "none" => k.print.tenant = setting.tenant
                 /\ \A other \in kept' : other.key = k.key => other = k
      <4>1. CASE k = new
        BY <2>1, <3>2, <3>3, <3>4, <3>5, <4>1
      <4>2. CASE k \in kept
        BY <2>1, <3>1, <3>5, <4>2 DEF NotificationsInv, KeptIsSound
      <4> QED  BY <2>1, <4>1, <4>2
    <3>7. \A e, read : fingerprint(e, read)' = fingerprint(e, read)
      BY DEF fingerprint, recordKey
    <3> QED  BY <1>1, <3>6 DEF KeptIsSound, fingerprint, recordKey
  <2>8. runner[w].pc # "idle" /\ s.pc # "idle" /\ s.d = runner[w].d /\ runner' = [runner EXCEPT ![w] = s]
    BY <1>1, <1>2, <2>3
  <2> QED  BY <1>2, <1>5, <2>4, <2>5, <2>6, <2>7, <2>8, RunnerMoves
<1> QED  BY <1>6, <1>7

\* A call that rejects may have been accepted all the same; then its outcome is lost.
LEMMA channelFailsSteps ==
    ASSUME NotificationsInv, NEW w \in NotificationRunners, channelFails(w)
    PROVE  NotificationsInv'
<1>1. /\ runner[w].pc = "calling" /\ Goes(w, "settling", "throws")
      /\ UNCHANGED <<setting, profile, sender, jobs, rows, kept, dropped>>
  BY DEF channelFails, Runs
<1>2. PICK d \in Deliveries : d = runner[w].d
  BY <1>1, RunnerFacts
<1>3. /\ rows[d] \in Row /\ sent[d] \in Nat /\ lapses[d] \in Nat /\ runner[w] \in RunnerState
      /\ RunnerFits(runner[w], rows[d], sent[d], lapses[d], d \in dropped)
      /\ rows[d].state = "delivered" => sent[d] > 0 \/ d \in dropped
      /\ setting.inbox = "none" => rows[d].state = "absent"
      /\ sent[d] <= lapses[d]
  BY <1>1, <1>2, RunnerFacts, CallingFacts
<1>4. PICK row \in Row : row = rows[d]
  BY <1>3
<1>5. PICK times \in Nat, lost \in Nat :
          /\ sent' = [sent EXCEPT ![d] = times] /\ lapses' = [lapses EXCEPT ![d] = lost]
          /\ times >= sent[d] /\ times <= lost
  <2>1. CASE UNCHANGED <<sent, lapses>>
    <3>1. sent' = [sent EXCEPT ![d] = sent[d]] /\ lapses' = [lapses EXCEPT ![d] = lapses[d]]
      BY <2>1 DEF NotificationsInv, NotificationTypes
    <3>2. sent[d] >= sent[d] /\ sent[d] <= lapses[d]
      BY <1>3
    <3> QED  BY <1>3, <3>1, <3>2, Zenon
  <2>2. CASE Accept(d) /\ lapses' = [lapses EXCEPT ![d] = @ + 1]
    <3>1. sent' = [sent EXCEPT ![d] = sent[d] + 1] /\ lapses' = [lapses EXCEPT ![d] = lapses[d] + 1]
      BY <2>2 DEF NotificationsInv, NotificationTypes, Accept
    <3>2. sent[d] + 1 \in Nat /\ lapses[d] + 1 \in Nat /\ sent[d] + 1 >= sent[d] /\ sent[d] + 1 <= lapses[d] + 1
      BY <1>3
    <3> QED  BY <3>1, <3>2
  <2> QED  BY <1>2, <2>1, <2>2 DEF channelFails
<1>6. PICK s \in RunnerState :
            /\ runner' = [runner EXCEPT ![w] = s] /\ s.d = d /\ s.pc = "settling" /\ s.result = "throws"
            /\ s.token = runner[w].token /\ s.leaseLost = runner[w].leaseLost
  BY <1>1, <1>2, GoesOn DEF NotificationsInv, RunnerPcs
<1>7. RunnerFits(s, row, times, lost, d \in dropped')
  BY <1>1, <1>3, <1>4, <1>6 DEF RunnerFits, Claimed
<1>8. rows' = [rows EXCEPT ![d] = row]
  BY <1>1, <1>4 DEF NotificationsInv, NotificationTypes
<1>9. /\ times <= lost + 1 /\ times <= lost /\ sent[d] <= times
      /\ row.state = "delivered" => times > 0 \/ d \in dropped'
      /\ setting.inbox = "none" => row.state = "absent"
  BY <1>1, <1>3, <1>4, <1>5
<1>10. KeptIsSound'
  <2>1. \A e \in Deliveries : sent[e] > 0 => sent'[e] > 0
    BY <1>3, <1>5 DEF NotificationsInv, NotificationTypes
  <2> QED  BY <1>1, <2>1 DEF NotificationsInv, KeptIsSound, fingerprint, recordKey
<1>11. dropped \subseteq dropped' /\ dropped' \subseteq Deliveries /\ UNCHANGED <<setting, profile, sender, jobs>>
  BY <1>1 DEF NotificationsInv, NotificationTypes
<1>12. runner[w].pc # "idle" /\ s.pc # "idle" /\ s.d = runner[w].d /\ runner' = [runner EXCEPT ![w] = s]
  BY <1>1, <1>2, <1>6
<1> QED  BY <1>2, <1>5, <1>7, <1>8, <1>9, <1>10, <1>11, <1>12, RunnerMoves

LEMMA SettledFits ==
    ASSUME NEW row \in Row, NEW state \in {"pending", "delivered", "dead"}
    PROVE  Settled(row, state) \in Row /\ Settled(row, state).state = state
<1>1. Settled(row, state) \in Row
  BY Zenon DEF Settled, Row
<1>2. Settled(row, state).state = state
  BY DEF Settled, Row
<1> QED  BY <1>1, <1>2

\* The inbox takes the result of a claim that still holds.
LEMMA settleSteps ==
    ASSUME NotificationsInv, NEW w \in NotificationRunners, settle(w)
    PROVE  NotificationsInv'
<1>1. runner[w].pc = "settling" /\ UNCHANGED <<setting, profile, sender, jobs, kept, sent, dropped, lapses>>
  BY DEF settle, Runs
<1>2. PICK d \in Deliveries : d = runner[w].d
  BY <1>1, RunnerFacts
<1>3. /\ rows[d] \in Row /\ sent[d] \in Nat /\ lapses[d] \in Nat /\ runner[w] \in RunnerState
      /\ RunnerFits(runner[w], rows[d], sent[d], lapses[d], d \in dropped)
      /\ sent[d] <= lapses[d] + 1
      /\ ~Terminal(rows[d]) /\ ~HasOutcome(runner[w]) => sent[d] <= lapses[d]
      /\ rows[d].state = "delivered" => sent[d] > 0 \/ d \in dropped
      /\ setting.inbox = "none" => rows[d].state = "absent"
  BY <1>1, <1>2, RunnerFacts
<1>4. PICK result \in {"ok", "throws", "fatal"} : result = runner[w].result
  BY <1>1, <1>3 DEF RunnerFits, RunnerState
<1>5. result = "ok" => sent[d] > 0 \/ d \in dropped
  BY <1>1, <1>3, <1>4 DEF RunnerFits
<1>6. dropped \subseteq dropped' /\ dropped' \subseteq Deliveries /\ UNCHANGED <<setting, profile, sender, jobs>>
  BY <1>1 DEF NotificationsInv, NotificationTypes
<1>7. ~Terminal(rows[d])
  BY <1>1, <1>3 DEF RunnerFits, Claimed, Terminal
<1>8. CASE setting.inbox = "none"
  <2>1. Goes(w, "ending", result) /\ UNCHANGED rows
    BY <1>4, <1>8 DEF settle
  <2>2. PICK s \in RunnerState :
            runner' = [runner EXCEPT ![w] = s] /\ s.d = d /\ s.pc = "ending" /\ s.result = result
    BY <1>2, <2>1, GoesOn DEF NotificationsInv, RunnerPcs
  <2>3. RunnerFits(s, rows[d], sent[d], lapses[d], d \in dropped')
    BY <1>1, <1>5, <1>8, <2>2 DEF RunnerFits, Claimed
  <2>4. sent[d] <= lapses[d] \/ HasOutcome(s)
    BY <1>3, <1>4, <1>7, <2>2 DEF HasOutcome
  <2> QED  BY <1>1, <1>2, <1>6, <2>1, <2>2, <2>3, <2>4, RunnerTurns
<1>9. CASE setting.inbox # "none" /\ (runner[w].leaseLost \/ ~Fenced(rows[d], runner[w].token))
  <2>1. Goes(w, "ending", "throws") /\ UNCHANGED rows
    BY <1>2, <1>9 DEF settle
  <2>2. PICK s \in RunnerState :
            runner' = [runner EXCEPT ![w] = s] /\ s.d = d /\ s.pc = "ending" /\ s.result = "throws"
    BY <1>2, <2>1, GoesOn DEF NotificationsInv, RunnerPcs
  <2>3. runner[w].leaseLost
    BY <1>1, <1>3, <1>9 DEF RunnerFits, Claimed, Fenced
  <2>4. sent[d] <= lapses[d]
    BY <1>1, <1>3, <1>7, <2>3 DEF HasOutcome
  <2>5. RunnerFits(s, rows[d], sent[d], lapses[d], d \in dropped')
    BY <2>2 DEF RunnerFits, Claimed
  <2> QED  BY <1>1, <1>2, <1>6, <2>1, <2>2, <2>4, <2>5, RunnerTurns
<1>10. CASE setting.inbox # "none" /\ ~(runner[w].leaseLost \/ ~Fenced(rows[d], runner[w].token))
  <2>1. PICK state \in {"pending", "delivered", "dead"} :
            /\ rows' = [rows EXCEPT ![d] = Settled(rows[d], state)] /\ Goes(w, "ending", result)
            /\ state = CASE result = "ok" -> "delivered" [] result = "fatal" -> "dead" [] OTHER -> "pending"
    <3>1. /\ rows' = [rows EXCEPT ![d] = Settled(rows[d], CASE result = "ok" -> "delivered" [] result = "fatal" -> "dead"
                                                          [] OTHER -> "pending")]
          /\ Goes(w, "ending", result)
      BY <1>2, <1>4, <1>10 DEF settle, NotificationsInv, NotificationTypes
    <3> QED  BY <1>4, <3>1
  <2>2. PICK s \in RunnerState :
            runner' = [runner EXCEPT ![w] = s] /\ s.d = d /\ s.pc = "ending" /\ s.result = result
    BY <1>2, <2>1, GoesOn DEF NotificationsInv, RunnerPcs
  <2>3. PICK row \in Row : row = Settled(rows[d], state) /\ row.state = state
    BY <1>3, SettledFits
  <2>4. PICK times \in Nat, lost \in Nat : times = sent[d] /\ lost = lapses[d]
    BY <1>3
  <2>5. result = "ok" <=> state = "delivered"
    BY <2>1
  <2>6. RunnerFits(s, row, times, lost, d \in dropped')
    BY <1>1, <1>5, <2>2, <2>3, <2>4, <2>5 DEF RunnerFits, Claimed, Terminal
  <2>7. /\ times <= lost + 1 /\ (times <= lost \/ Terminal(row) \/ HasOutcome(s)) /\ sent[d] <= times
        /\ row.state = "delivered" => times > 0 \/ d \in dropped'
        /\ setting.inbox = "none" => row.state = "absent"
    BY <1>1, <1>3, <1>4, <1>5, <1>7, <1>10, <2>2, <2>3, <2>4, <2>5 DEF HasOutcome
  <2>8. /\ rows' = [rows EXCEPT ![d] = row] /\ sent' = [sent EXCEPT ![d] = times]
        /\ lapses' = [lapses EXCEPT ![d] = lost]
    BY <1>1, <2>1, <2>3, <2>4 DEF NotificationsInv, NotificationTypes
  <2>9. KeptIsSound'
    BY <1>1 DEF NotificationsInv, KeptIsSound, fingerprint, recordKey
  <2>10. runner[w].pc # "idle" /\ s.pc # "idle" /\ s.d = runner[w].d /\ runner' = [runner EXCEPT ![w] = s]
    BY <1>1, <1>2, <2>2
  <2> QED  BY <1>2, <1>6, <2>6, <2>7, <2>8, <2>9, <2>10, RunnerMoves
<1> QED  BY <1>8, <1>9, <1>10

\* The queue gives the job to a runner or takes it back.
LEMMA QueueMoves ==
    ASSUME NotificationsInv, NEW w \in NotificationRunners, NEW d \in Deliveries, NEW s \in RunnerState,
           NEW j \in [state : {"none", "waiting", "active", "done", "failed"}, tries : Nat], NEW lost \in Nat,
           runner[w].pc # "idle" => runner[w].d = d, \A v \in NotificationRunners : RunnerAt(v, d) => v = w,
           s.pc # "idle" => s.d = d /\ j.state = "active" /\ RunnerFits(s, rows[d], sent[d], lost, d \in dropped),
           runner' = [runner EXCEPT ![w] = s], jobs' = [jobs EXCEPT ![d] = j], lapses' = [lapses EXCEPT ![d] = lost],
           UNCHANGED <<setting, profile, sender, rows, kept, sent, dropped>>,
           sent[d] <= lost + 1, sent[d] <= lost \/ j.state = "done" \/ Terminal(rows[d]),
           j.state = "done" => sent[d] > 0 \/ d \in dropped \/ rows[d].state = "dead"
    PROVE  NotificationsInv'
<1>1. /\ runner' \in [NotificationRunners -> RunnerState] /\ runner'[w] = s
      /\ \A v \in NotificationRunners : v # w => runner'[v] = runner[v]
      /\ jobs' \in [Deliveries -> [state : {"none", "waiting", "active", "done", "failed"}, tries : Nat]]
      /\ jobs'[d] = j /\ \A e \in Deliveries : e # d => jobs'[e] = jobs[e]
      /\ lapses' \in [Deliveries -> Nat] /\ lapses'[d] = lost /\ \A e \in Deliveries : e # d => lapses'[e] = lapses[e]
  BY DEF NotificationsInv, NotificationTypes
<1>2. UNCHANGED <<setting, profile, sender, rows, kept, sent, dropped>>
  OBVIOUS
<1>3. NotificationTypes'
  BY <1>1, <1>2 DEF NotificationsInv, NotificationTypes
<1>4. KeptIsSound'
  BY <1>2 DEF NotificationsInv, KeptIsSound, fingerprint, recordKey
<1>5. \A v \in NotificationRunners : v # w /\ runner[v].pc # "idle" => runner[v].d # d /\ runner[v].d \in Deliveries
  BY DEF NotificationsInv, RunnersAreAlone, RunnerAt
<1>6. RunnersAreAlone'
  BY <1>1, <1>5 DEF NotificationsInv, RunnersAreAlone, RunnerAt
<1>7. ASSUME NEW v \in NotificationRunners, runner'[v].pc # "idle"
      PROVE  RunnerFits(runner[v], rows[runner[v].d], sent[runner[v].d], lapses[runner[v].d], runner[v].d \in dropped)'
  <2>1. CASE v = w
    BY <1>1, <1>2, <1>7, <2>1 DEF RunnerFits
  <2>2. CASE v # w
    <3>1. PICK e \in Deliveries : e = runner[v].d /\ e # d /\ runner[v].pc # "idle"
      BY <1>1, <1>5, <1>7, <2>2
    <3>2. RunnerFits(runner[v], rows[e], sent[e], lapses[e], e \in dropped)
      BY <3>1 DEF NotificationsInv
    <3> QED  BY <1>1, <1>2, <2>2, <3>1, <3>2 DEF RunnerFits
  <2> QED  BY <2>1, <2>2
<1>8. ASSUME NEW e \in Deliveries PROVE DeliveryFits(e)'
  <2>1. DeliveryFits(e)
    BY DEF NotificationsInv
  <2>2. CASE e = d
    BY <1>1, <1>2, <2>1, <2>2 DEF DeliveryFits
  <2>3. CASE e # d
    <3>1. \A v \in NotificationRunners : RunnerAt(v, e) => v # w /\ RunnerAt(v, e)' /\ runner'[v] = runner[v]
      BY <1>1, <2>3 DEF RunnerAt
    <3>2. jobs'[e] = jobs[e] /\ lapses'[e] = lapses[e]
      BY <1>1, <2>3
    <3> QED  BY <1>2, <2>1, <3>1, <3>2 DEF DeliveryFits
  <2> QED  BY <2>2, <2>3
<1> QED  BY <1>3, <1>4, <1>6, <1>7, <1>8 DEF NotificationsInv

LEMMA takeSteps ==
    ASSUME NotificationsInv, NEW w \in NotificationRunners, NEW d \in Deliveries, take(w, d)
    PROVE  NotificationsInv'
<1>1. /\ runner[w].pc = "idle" /\ jobs[d].state = "waiting"
      /\ UNCHANGED <<setting, profile, sender, rows, kept, sent, dropped, lapses>>
  BY DEF take, Runs
<1> DEFINE h == [Away EXCEPT !.pc = "starting", !.d = d]
           k == [jobs[d] EXCEPT !.state = "active"]
<1>2. h \in RunnerState /\ h.pc = "starting" /\ h.d = d /\ h.leaseLost = FALSE
  BY DEF Away, RunnerState, RunnerPcs, NoSnapshot, Snapshot, Tenants
<1>3. k \in [state : {"none", "waiting", "active", "done", "failed"}, tries : Nat] /\ k.state = "active"
  BY DEF NotificationsInv, NotificationTypes
<1>4. runner' = [runner EXCEPT ![w] = h] /\ jobs' = [jobs EXCEPT ![d] = k]
  BY DEF take, NotificationsInv, NotificationTypes
<1> HIDE DEF h, k
<1>5. PICK s \in RunnerState : s = h
  BY <1>2
<1>6. PICK j \in [state : {"none", "waiting", "active", "done", "failed"}, tries : Nat] : j = k
  BY <1>3
<1>7. \A v \in NotificationRunners : ~RunnerAt(v, d)
  BY <1>1 DEF NotificationsInv, RunnersAreAlone, RunnerAt
<1>8. PICK lost \in Nat : lost = lapses[d]
  BY DEF NotificationsInv, NotificationTypes
<1>9. DeliveryFits(d) /\ sent[d] <= lost + 1 /\ (sent[d] <= lost \/ Terminal(rows[d]))
  BY <1>1, <1>7, <1>8 DEF NotificationsInv, DeliveryFits
<1>10. s.pc = "starting" /\ s.d = d /\ ~s.leaseLost /\ j.state = "active"
  BY <1>2, <1>3, <1>5, <1>6
<1>11. RunnerFits(s, rows[d], sent[d], lost, d \in dropped)
  BY <1>10 DEF RunnerFits, Claimed
<1>12. lapses' = [lapses EXCEPT ![d] = lost]
  BY <1>1, <1>8 DEF NotificationsInv, NotificationTypes
<1>13. runner' = [runner EXCEPT ![w] = s] /\ jobs' = [jobs EXCEPT ![d] = j]
  BY <1>4, <1>5, <1>6
<1> QED  BY <1>1, <1>7, <1>9, <1>10, <1>11, <1>12, <1>13, QueueMoves

\* The runner of a delivery has gone, and its outcome is counted as lost unless it is known.
LEMMA Leaving ==
    ASSUME NotificationsInv, NEW w \in NotificationRunners, runner[w].pc # "idle",
           NEW d \in Deliveries, d = runner[w].d, NEW lost \in Nat, lapses' = [lapses EXCEPT ![d] = lost],
           NEW j \in [state : {"none", "waiting", "active", "done", "failed"}, tries : Nat],
           runner' = [runner EXCEPT ![w] = Away], jobs' = [jobs EXCEPT ![d] = j],
           UNCHANGED <<setting, profile, sender, rows, kept, sent, dropped>>,
           lapses[d] <= lost, sent[d] <= lost \/ j.state = "done" \/ Terminal(rows[d]),
           j.state = "done" => sent[d] > 0 \/ d \in dropped \/ rows[d].state = "dead"
    PROVE  NotificationsInv'
<1>1. Away \in RunnerState /\ Away.pc = "idle"
  BY DEF Away, RunnerState, RunnerPcs, NoSnapshot, Snapshot, Tenants
<1>2. PICK s \in RunnerState : s = Away
  BY <1>1
<1>3. \A v \in NotificationRunners : RunnerAt(v, d) => v = w
  BY DEF NotificationsInv, RunnersAreAlone, RunnerAt
<1>4. sent[d] \in Nat /\ lapses[d] \in Nat /\ sent[d] <= lapses[d] + 1
  BY RunnerFacts
<1>5. sent[d] <= lost + 1
  BY <1>4
<1>6. s.pc = "idle" /\ runner' = [runner EXCEPT ![w] = s]
  BY <1>1, <1>2
<1> QED  BY <1>3, <1>5, <1>6, QueueMoves

LEMMA endSteps ==
    ASSUME NotificationsInv, NEW w \in NotificationRunners, end(w)
    PROVE  NotificationsInv'
<1>1. /\ runner[w].pc = "ending" /\ runner' = [runner EXCEPT ![w] = Away]
      /\ UNCHANGED <<setting, profile, sender, rows, kept, sent, dropped, lapses>>
  BY DEF end, Runs
<1>2. PICK d \in Deliveries : d = runner[w].d
  BY <1>1, RunnerFacts
<1>3. /\ sent[d] \in Nat /\ lapses[d] \in Nat
      /\ RunnerFits(runner[w], rows[d], sent[d], lapses[d], d \in dropped)
      /\ ~Terminal(rows[d]) /\ ~HasOutcome(runner[w]) => sent[d] <= lapses[d]
  BY <1>1, <1>2, RunnerFacts
<1> DEFINE tries == jobs[d].tries + 1
           state == CASE runner[w].result = "ok" -> "done"
                      [] runner[w].result = "fatal" -> "failed"
                      [] OTHER -> IF tries < NotificationTries THEN "waiting" ELSE "failed"
<1>4. jobs' = [jobs EXCEPT ![d] = [state |-> state, tries |-> tries]]
  BY <1>2 DEF end
<1>5. tries \in Nat
  BY DEF NotificationsInv, NotificationTypes
<1>6. state \in {"done", "failed", "waiting"} /\ (state = "done" <=> runner[w].result = "ok")
  OBVIOUS
<1> HIDE DEF state, tries
<1>7. PICK j \in [state : {"none", "waiting", "active", "done", "failed"}, tries : Nat] :
          j = [state |-> state, tries |-> tries]
  BY <1>5, <1>6
<1>8. j.state = "done" <=> runner[w].result = "ok"
  BY <1>6, <1>7
<1>9. sent[d] <= lapses[d] \/ j.state = "done" \/ Terminal(rows[d])
  BY <1>1, <1>3, <1>8 DEF HasOutcome
<1>10. j.state = "done" => sent[d] > 0 \/ d \in dropped \/ rows[d].state = "dead"
  BY <1>1, <1>3, <1>8 DEF RunnerFits
<1>11. PICK lost \in Nat : lost = lapses[d]
  BY <1>3
<1>12. lapses' = [lapses EXCEPT ![d] = lost] /\ lapses[d] <= lost
  BY <1>1, <1>3, <1>11 DEF NotificationsInv, NotificationTypes
<1> QED  BY <1>1, <1>2, <1>4, <1>7, <1>9, <1>10, <1>11, <1>12, Leaving

LEMMA dieRunnerSteps ==
    ASSUME NotificationsInv, NEW w \in NotificationRunners, dieRunner(w)
    PROVE  NotificationsInv'
<1>1. /\ runner[w].pc # "idle" /\ runner' = [runner EXCEPT ![w] = Away] /\ Lapses(w)
      /\ UNCHANGED <<setting, profile, sender, rows, kept, sent, dropped>>
  BY DEF dieRunner, Runs
<1>2. PICK d \in Deliveries : d = runner[w].d
  BY <1>1, RunnerFacts
<1>3. /\ sent[d] \in Nat /\ lapses[d] \in Nat /\ sent[d] <= lapses[d] + 1
      /\ RunnerFits(runner[w], rows[d], sent[d], lapses[d], d \in dropped)
      /\ ~Terminal(rows[d]) /\ ~HasOutcome(runner[w]) => sent[d] <= lapses[d]
  BY <1>1, <1>2, RunnerFacts
<1>4. PICK j \in [state : {"none", "waiting", "active", "done", "failed"}, tries : Nat] :
          j.state = "waiting" /\ jobs' = [jobs EXCEPT ![d] = j]
  <2>1. jobs' = [jobs EXCEPT ![d] = [jobs[d] EXCEPT !.state = "waiting"]]
    BY <1>2 DEF dieRunner, NotificationsInv, NotificationTypes
  <2>2. /\ [jobs[d] EXCEPT !.state = "waiting"] \in [state : {"none", "waiting", "active", "done", "failed"}, tries : Nat]
        /\ [jobs[d] EXCEPT !.state = "waiting"].state = "waiting"
    BY DEF NotificationsInv, NotificationTypes
  <2> QED  BY <2>1, <2>2
<1>5. PICK lost \in Nat : /\ lapses' = [lapses EXCEPT ![d] = lost]
                          /\ lost = lapses[d] + (IF ChannelCalled(w) THEN 1 ELSE 0)
  <2>1. lapses' = [lapses EXCEPT ![d] = lapses[d] + (IF ChannelCalled(w) THEN 1 ELSE 0)]
    BY <1>1, <1>2 DEF Lapses, NotificationsInv, NotificationTypes
  <2>2. lapses[d] + (IF ChannelCalled(w) THEN 1 ELSE 0) \in Nat
    BY <1>3
  <2> QED  BY <2>1, <2>2
<1>6. HasOutcome(runner[w]) => ChannelCalled(w) \/ Terminal(rows[d])
  BY <1>3 DEF HasOutcome, ChannelCalled, RunnerFits
<1>7. sent[d] <= lost \/ Terminal(rows[d])
  BY <1>3, <1>5, <1>6
<1>8. lapses[d] <= lost
  BY <1>3, <1>5
<1> QED  BY <1>1, <1>2, <1>4, <1>5, <1>7, <1>8, Leaving

\* A row of the inbox changes under nobody, but not in its state.
LEMMA RowTurns ==
    ASSUME NotificationsInv, NEW d \in Deliveries, NEW row \in Row, row.state = rows[d].state,
           rows' = [rows EXCEPT ![d] = row],
           UNCHANGED <<setting, profile, sender, jobs, runner, kept, sent, dropped, lapses>>,
           \A w \in NotificationRunners : RunnerAt(w, d) => runner[w].pc \notin Claimed
    PROVE  NotificationsInv'
<1>1. /\ rows' \in [Deliveries -> Row] /\ rows'[d] = row /\ \A e \in Deliveries : e # d => rows'[e] = rows[e]
      /\ \A e \in Deliveries : rows'[e].state = rows[e].state
  BY DEF NotificationsInv, NotificationTypes
<1>2. UNCHANGED <<setting, profile, sender, jobs, runner, kept, sent, dropped, lapses>>
  OBVIOUS
<1>3. NotificationTypes'
  BY <1>1, <1>2 DEF NotificationsInv, NotificationTypes
<1>4. KeptIsSound' /\ RunnersAreAlone'
  BY <1>2 DEF NotificationsInv, KeptIsSound, fingerprint, recordKey, RunnersAreAlone, RunnerAt
<1>5. ASSUME NEW v \in NotificationRunners, runner'[v].pc # "idle"
      PROVE  RunnerFits(runner[v], rows[runner[v].d], sent[runner[v].d], lapses[runner[v].d], runner[v].d \in dropped)'
  <2>1. PICK e \in Deliveries : e = runner[v].d
    BY <1>2, <1>5 DEF NotificationsInv, RunnersAreAlone
  <2>2. RunnerFits(runner[v], rows[e], sent[e], lapses[e], e \in dropped)
    BY <1>2, <1>5, <2>1 DEF NotificationsInv
  <2>3. e = d => runner[v].pc \notin Claimed
    BY <1>2, <1>5, <2>1 DEF RunnerAt
  <2>4. rows'[e].state = rows[e].state /\ (e # d => rows'[e] = rows[e])
    BY <1>1
  <2> QED  BY <1>2, <2>1, <2>2, <2>3, <2>4 DEF RunnerFits, Terminal
<1>6. \A e \in Deliveries : DeliveryFits(e)'
  BY <1>1, <1>2 DEF NotificationsInv, DeliveryFits, Terminal, RunnerAt
<1> QED  BY <1>3, <1>4, <1>5, <1>6 DEF NotificationsInv

LEMMA retryIsDueSteps ==
    ASSUME NotificationsInv, NEW d \in Deliveries, retryIsDue(d)
    PROVE  NotificationsInv'
<1>1. /\ rows[d].state = "pending" /\ rows' = [rows EXCEPT ![d] = [rows[d] EXCEPT !.due = TRUE]]
      /\ UNCHANGED <<setting, profile, sender, jobs, runner, kept, sent, dropped, lapses>>
  BY DEF retryIsDue, NotificationsInv, NotificationTypes
<1>2. PICK row \in Row : row = [rows[d] EXCEPT !.due = TRUE] /\ row.state = "pending"
  <2>1. rows[d] \in Row
    BY DEF NotificationsInv, NotificationTypes
  <2>2. [rows[d] EXCEPT !.due = TRUE] \in Row
    BY <2>1, Zenon DEF Row
  <2>3. [rows[d] EXCEPT !.due = TRUE].state = "pending"
    BY <1>1, <2>1 DEF Row
  <2> QED  BY <2>2, <2>3
<1>3. ASSUME NEW w \in NotificationRunners, RunnerAt(w, d) PROVE runner[w].pc \notin Claimed
  <2>1. /\ RunnerFits(runner[w], rows[d], sent[d], lapses[d], d \in dropped)
        /\ setting.inbox = "none" => rows[d].state = "absent"
    BY <1>3, RunnerFacts DEF RunnerAt
  <2> QED  BY <1>1, <2>1 DEF RunnerFits
<1> QED  BY <1>1, <1>2, <1>3, RowTurns

\* A lease that lapses under its runner takes the outcome with it.
LEMMA leaseExpiresSteps ==
    ASSUME NotificationsInv, NEW d \in Deliveries, leaseExpires(d)
    PROVE  NotificationsInv'
<1>1. /\ rows[d].state = "processing" /\ rows[d].live
      /\ rows' = [rows EXCEPT ![d] = [rows[d] EXCEPT !.live = FALSE]]
      /\ UNCHANGED <<setting, profile, sender, jobs, kept, sent, dropped>>
  BY DEF leaseExpires, NotificationsInv, NotificationTypes
<1>2. rows[d] \in Row
  BY DEF NotificationsInv, NotificationTypes
<1>3. PICK row \in Row : /\ row = [rows[d] EXCEPT !.live = FALSE] /\ row.state = "processing" /\ row.live = FALSE
                         /\ TokenOf(row) = TokenOf(rows[d])
  <2>1. [rows[d] EXCEPT !.live = FALSE] \in Row
    BY <1>2, Zenon DEF Row
  <2>2. /\ [rows[d] EXCEPT !.live = FALSE].state = "processing" /\ [rows[d] EXCEPT !.live = FALSE].live = FALSE
        /\ [rows[d] EXCEPT !.live = FALSE].epoch = rows[d].epoch
        /\ [rows[d] EXCEPT !.live = FALSE].attempts = rows[d].attempts
    BY <1>1, <1>2 DEF Row
  <2> QED  BY <2>1, <2>2 DEF TokenOf
<1>4. CASE /\ \A w \in NotificationRunners : ~Owns(w, d)
           /\ UNCHANGED <<runner, lapses, notificationFaults>>
  <2>1. ASSUME NEW w \in NotificationRunners, RunnerAt(w, d) PROVE runner[w].pc \notin Claimed
    <3>1. /\ RunnerFits(runner[w], rows[d], sent[d], lapses[d], d \in dropped)
          /\ setting.inbox = "none" => rows[d].state = "absent"
      BY <2>1, RunnerFacts DEF RunnerAt
    <3>2. ~Owns(w, d)
      BY <1>4
    <3> QED  BY <1>1, <2>1, <3>1, <3>2 DEF RunnerFits, Owns, RunnerAt, Claimed
  <2> QED  BY <1>1, <1>3, <1>4, <2>1, RowTurns
<1>5. ASSUME NEW w \in NotificationRunners, Owns(w, d), Lapses(w), runner' = [runner EXCEPT ![w].leaseLost = TRUE]
      PROVE  NotificationsInv'
  <2>1. runner[w].pc \in Claimed /\ runner[w].d = d /\ runner[w].token = TokenOf(rows[d]) /\ runner[w].pc # "idle"
    BY <1>5 DEF Owns, Claimed
  <2>2. /\ sent[d] \in Nat /\ lapses[d] \in Nat /\ runner[w] \in RunnerState /\ sent[d] <= lapses[d] + 1
        /\ RunnerFits(runner[w], rows[d], sent[d], lapses[d], d \in dropped)
        /\ ~Terminal(rows[d]) /\ ~HasOutcome(runner[w]) => sent[d] <= lapses[d]
        /\ setting.inbox = "none" => rows[d].state = "absent"
    BY <2>1, RunnerFacts
  <2>3. setting.inbox # "none" /\ ~Terminal(rows[d]) /\ ~runner[w].leaseLost
    BY <1>1, <2>1, <2>2 DEF RunnerFits, Terminal
  <2> DEFINE h == [runner[w] EXCEPT !.leaseLost = TRUE]
  <2>4. h \in RunnerState
    BY <2>2, Zenon DEF RunnerState
  <2>5. /\ h.pc = runner[w].pc /\ h.d = d /\ h.token = runner[w].token /\ h.read = runner[w].read
        /\ h.result = runner[w].result /\ h.leaseLost = TRUE
    BY <2>1, <2>2 DEF RunnerState
  <2>6. runner' = [runner EXCEPT ![w] = h]
    BY <1>5 DEF NotificationsInv, NotificationTypes
  <2> HIDE DEF h
  <2>7. PICK s \in RunnerState : s = h
    BY <2>4
  <2>8. /\ s.pc = runner[w].pc /\ s.d = d /\ s.token = runner[w].token /\ s.read = runner[w].read
        /\ s.result = runner[w].result /\ s.leaseLost /\ runner' = [runner EXCEPT ![w] = s]
    BY <2>5, <2>6, <2>7
  <2>9. PICK times \in Nat, lost \in Nat :
            times = sent[d] /\ lost = lapses[d] + (IF ChannelCalled(w) THEN 1 ELSE 0)
    <3>1. lapses[d] + (IF ChannelCalled(w) THEN 1 ELSE 0) \in Nat
      BY <2>2
    <3> QED  BY <2>2, <3>1, Zenon
  <2>10. /\ sent' = [sent EXCEPT ![d] = times] /\ lapses' = [lapses EXCEPT ![d] = lost]
         /\ rows' = [rows EXCEPT ![d] = row]
    BY <1>1, <1>3, <1>5, <2>1, <2>9 DEF Lapses, NotificationsInv, NotificationTypes
  <2>11. times <= lost
    <3>1. CASE HasOutcome(runner[w])
      BY <2>1, <2>2, <2>9, <3>1 DEF HasOutcome, ChannelCalled, Claimed
    <3>2. CASE ~HasOutcome(runner[w])
      BY <2>2, <2>3, <2>9, <3>2
    <3> QED  BY <3>1, <3>2
  <2>12. runner[w].pc = "calling" => times + 1 <= lost
    BY <2>2, <2>3, <2>9 DEF HasOutcome, ChannelCalled
  <2>13. RunnerFits(s, row, times, lost, d \in dropped')
    BY <1>1, <1>3, <2>1, <2>2, <2>8, <2>9, <2>12 DEF RunnerFits, Claimed
  <2>14. KeptIsSound'
    BY <1>1 DEF NotificationsInv, KeptIsSound, fingerprint, recordKey
  <2>15. /\ dropped \subseteq dropped' /\ dropped' \subseteq Deliveries /\ UNCHANGED <<setting, profile, sender, jobs>>
         /\ sent[d] <= times /\ times <= lost + 1 /\ row.state # "delivered" /\ (setting.inbox = "none" => row.state = "absent")
    BY <1>1, <1>3, <2>2, <2>3, <2>9, <2>11 DEF NotificationsInv, NotificationTypes
  <2> QED  BY <2>1, <2>8, <2>10, <2>11, <2>13, <2>14, <2>15, RunnerMoves
<1> QED  BY <1>4, <1>5 DEF leaseExpires

\* What the caller and the recipient do touches no delivery that was pushed.
LEMMA OutsideSteps ==
    ASSUME NotificationsInv, profile' \in Profile, sender' \in [left : SUBSET Channels, sends : 0..MaxSends],
           UNCHANGED <<setting, jobs, rows, runner, kept, sent, dropped, lapses>>
    PROVE  NotificationsInv'
<1>1. UNCHANGED <<setting, jobs, rows, runner, kept, sent, dropped, lapses>>
  OBVIOUS
<1>2. NotificationTypes'
  BY <1>1 DEF NotificationsInv, NotificationTypes
<1>3. KeptIsSound' /\ RunnersAreAlone'
  BY <1>1 DEF NotificationsInv, KeptIsSound, fingerprint, recordKey, RunnersAreAlone, RunnerAt
<1>4. \A e \in Deliveries : DeliveryFits(e)'
  BY <1>1 DEF NotificationsInv, DeliveryFits, RunnerAt
<1>5. \A w \in NotificationRunners : (runner[w].pc # "idle" =>
          LET d == runner[w].d IN RunnerFits(runner[w], rows[d], sent[d], lapses[d], d \in dropped))'
  BY <1>1 DEF NotificationsInv, RunnerFits
<1> QED  BY <1>2, <1>3, <1>4, <1>5 DEF NotificationsInv

LEMMA SenderSteps == NotificationsInv /\ (send \/ pushFails \/ edit) => NotificationsInv'
<1> SUFFICES ASSUME NotificationsInv, send \/ pushFails \/ edit PROVE NotificationsInv'
  OBVIOUS
<1>1. UNCHANGED <<setting, jobs, rows, runner, kept, sent, dropped, lapses>>
  BY DEF send, pushFails, edit
<1>2. profile \in Profile /\ sender \in [left : SUBSET Channels, sends : 0..MaxSends]
  BY DEF NotificationsInv, NotificationTypes
<1>3. CASE send
  <2>1. profile.channels \in SUBSET Channels /\ sender.sends + 1 \in 0..MaxSends
    BY <1>2, <1>3, NotificationsAssumption DEF send, Profile
  <2> QED  BY <1>1, <1>2, <1>3, <2>1, OutsideSteps DEF send
<1>4. CASE pushFails
  BY <1>1, <1>2, <1>4, OutsideSteps DEF pushFails
<1>5. CASE edit
  <2>1. profile' \in Profile
    BY <1>2, <1>5 DEF edit, Profile, Tenants
  <2> QED  BY <1>1, <1>2, <1>5, <2>1, OutsideSteps DEF edit
<1> QED  BY <1>3, <1>4, <1>5

\* An id is admitted once.
LEMMA pushSteps ==
    ASSUME NotificationsInv, NEW channel \in Channels, push(channel)
    PROVE  NotificationsInv'
<1>1. /\ channel \in sender.left /\ UNCHANGED <<setting, profile, rows, runner, kept, sent, dropped, lapses>>
      /\ sender' = [sender EXCEPT !.left = @ \ {channel}]
  BY DEF push
<1>2. PICK d \in Deliveries : d = deliveryId(channel, sender.sends)
  <2>1. sender.sends \in 0..MaxSends /\ 0 \in 0..MaxSends
    BY NotificationsAssumption DEF NotificationsInv, NotificationTypes
  <2>2. PICK n \in 0..MaxSends : n = IF setting.named THEN 0 ELSE sender.sends
    BY <2>1, Zenon
  <2>3. <<channel, n>> \in Deliveries /\ <<channel, n>> = deliveryId(channel, sender.sends)
    BY <2>2 DEF deliveryId, Deliveries
  <2> QED  BY <2>3, Zenon
<1>3. jobs' = [jobs EXCEPT ![d] = IF jobs[d].state = "none" THEN [jobs[d] EXCEPT !.state = "waiting"] ELSE jobs[d]]
  BY <1>2 DEF push, NotificationsInv, NotificationTypes
<1>4. /\ jobs' \in [Deliveries -> [state : {"none", "waiting", "active", "done", "failed"}, tries : Nat]]
      /\ \A e \in Deliveries : \/ jobs'[e].state = jobs[e].state
                               \/ jobs[e].state = "none" /\ jobs'[e].state = "waiting"
  BY <1>3 DEF NotificationsInv, NotificationTypes
<1>5. sender' \in [left : SUBSET Channels, sends : 0..MaxSends]
  BY <1>1 DEF NotificationsInv, NotificationTypes
<1>6. NotificationTypes'
  BY <1>1, <1>4, <1>5 DEF NotificationsInv, NotificationTypes
<1>7. KeptIsSound'
  BY <1>1 DEF NotificationsInv, KeptIsSound, fingerprint, recordKey
<1>8. RunnersAreAlone'
  BY <1>1, <1>4 DEF NotificationsInv, RunnersAreAlone, RunnerAt
<1>9. \A e \in Deliveries : DeliveryFits(e)'
  BY <1>1, <1>4 DEF NotificationsInv, DeliveryFits, RunnerAt
<1>10. \A w \in NotificationRunners : (runner[w].pc # "idle" =>
          LET e == runner[w].d IN RunnerFits(runner[w], rows[e], sent[e], lapses[e], e \in dropped))'
  BY <1>1 DEF NotificationsInv, RunnerFits
<1> QED  BY <1>6, <1>7, <1>8, <1>9, <1>10 DEF NotificationsInv

LEMMA NotificationsSteps == NotificationsInv /\ [NotificationsNext]_notificationVars => NotificationsInv'
<1> SUFFICES ASSUME NotificationsInv, [NotificationsNext]_notificationVars PROVE NotificationsInv'
  OBVIOUS
<1>1. CASE UNCHANGED notificationVars
  <2>1. /\ UNCHANGED <<setting, jobs, rows, runner, kept, sent, dropped, lapses>> /\ profile' = profile /\ sender' = sender
    BY <1>1 DEF notificationVars
  <2> QED  BY <2>1, OutsideSteps DEF NotificationsInv, NotificationTypes
<1>2. ASSUME NEW w \in NotificationRunners,
             composeMail(w) \/ composeRecord(w) \/ composeWebhook(w) \/ composeBroadcast(w)
      PROVE  NotificationsInv'
  BY <1>2, ComposingSteps DEF composeMail, composeRecord, composeWebhook, composeBroadcast
<1>3. CASE NotificationsNext
  BY <1>2, <1>3, SenderSteps, pushSteps, leaseExpiresSteps, retryIsDueSteps, takeSteps, StartingSteps, claimInboxSteps,
     RefusingSteps, resolveSteps, handOverSteps, putSteps, channelFailsSteps, settleSteps, endSteps, dieRunnerSteps
     DEF NotificationsNext
<1> QED  BY <1>1, <1>3

\* However runners die, leases lapse, calls fail and the recipient changes, a channel accepts a
\* delivery again only when an outcome was lost, what is kept of it is one row, and a job ends
\* without an error only on good grounds (DeliveriesAreSettled).
THEOREM DeliveriesAreAlwaysSettled == NotificationsSpec => [](NotificationsTypeOK /\ DeliveriesAreSettled)
<1>1. NotificationsInv => NotificationsTypeOK
  BY DEF NotificationsInv, NotificationTypes, KeptIsSound, NotificationsTypeOK
<1>2. NotificationsInv => DeliveriesAreSettled
  <2> SUFFICES ASSUME NotificationsInv PROVE DeliveriesAreSettled
    OBVIOUS
  <2>1. \A d \in Deliveries : sent[d] <= 1 + lapses[d]
    BY DEF NotificationsInv, NotificationTypes, DeliveryFits
  <2>2. \A d \in Deliveries :
           jobs[d].state = "done" => sent[d] > 0 \/ d \in dropped \/ rows[d].state = "dead"
    BY DEF NotificationsInv, DeliveryFits
  <2>3. ASSUME NEW a \in kept, NEW b \in kept, a.d = b.d, a # b
        PROVE  setting.tenant = "none" /\ a.print.tenant # b.print.tenant /\ a.d[1] = "database"
    <3>1. /\ a.key = recordKey(a.d, a.print) /\ b.key = recordKey(b.d, b.print) /\ a.key # b.key
          /\ setting.tenant # "none" => a.print.tenant = setting.tenant /\ b.print.tenant = setting.tenant
      <4>1. a = fingerprint(a.d, a.print) /\ b = fingerprint(b.d, b.print)
        BY DEF NotificationsInv, KeptIsSound
      <4>2. \A e, read : fingerprint(e, read).key = recordKey(e, read)
        BY DEF fingerprint
      <4> QED  BY <2>3, <4>1, <4>2 DEF NotificationsInv, KeptIsSound
    <3> QED  BY <2>3, <3>1 DEF recordKey
  <2> QED  BY <2>1, <2>2, <2>3 DEF DeliveriesAreSettled
<1> QED  BY <1>1, <1>2, NotificationsStart, NotificationsSteps, PTL DEF NotificationsSpec

(***************************************************************************)
(* The page of dead letters.  The latest request of a kind is the one that  *)
(* the page stands for, and one operation is under way at most.             *)
(***************************************************************************)
Place == PageFilters \X (1..MaxPages)
Key == LetterKeys \union {"none"}
PageState ==
    [bootstrap : BOOLEAN, items : {<<>>} \union Place, selected : Key, payload : Key, filters : PageFilters,
     applied : PageFilters, cursorStack : Seq(1..MaxPages), nextCursor : 0..MaxPages, loading : BOOLEAN,
     detailLoading : BOOLEAN, payloadLoading : BOOLEAN, mutationLoading : BOOLEAN, pendingMutation : Key,
     listed : BOOLEAN]
PageRequest == [kind : {"bootstrap", "list", "detail", "payload", "mutation"}, for : Place \union Key \union {"sources"},
            latest : BOOLEAN, ends : BOOLEAN]
Shown(p) == <<p.applied, Top(p)>>
Busy(r) == r.kind = "mutation" \/ r.ends

\* What is shown, of the key asked for and the operation that is undecided.
PageFits(p, key, operation) ==
    /\ p \in PageState /\ Len(p.cursorStack) \in 1..MaxPages /\ key \in Key /\ operation \in Key
    /\ p.selected \in {key, "none"} /\ p.payload \in {p.selected, "none"}
    /\ ~p.listed => p.items = <<>>
    /\ ~p.loading => p.items \in {<<>>, Shown(p)}
    /\ p.pendingMutation \in {operation, "none"}
    /\ operation # "none" => key = operation

\* A request in flight.
RequestFits(r, p, key, operation) ==
    /\ r \in PageRequest /\ (r.ends => r.kind = "list")
    /\ r.kind = "list" => r.for \in Place /\ p.listed
    /\ r.kind = "detail" => r.for \in LetterKeys
    /\ r.kind = "payload" => r.for \in LetterKeys
    /\ r.latest /\ r.kind = "list" => r.for = Shown(p)
    /\ r.latest /\ r.kind = "detail" => r.for = key
    /\ r.kind = "mutation" => r.for = operation /\ operation # "none"

OneIsBusy(requests, p, operation) ==
    /\ \A r, s \in requests : Busy(r) /\ Busy(s) => r = s
    /\ p.mutationLoading <=> \E r \in requests : Busy(r)
    /\ operation # "none" => p.pendingMutation = operation \/ \E r \in requests : r.kind = "mutation"

PageInv ==
    /\ PageFits(page, asked, undecided)
    /\ \A r \in inFlight : RequestFits(r, page, asked, undecided)
    /\ OneIsBusy(inFlight, page, undecided)

LEMMA PageStart == PageInit => PageInv
<1> SUFFICES ASSUME PageInit PROVE PageInv
  OBVIOUS
<1>1. /\ <<1>> \in Seq(1..MaxPages) /\ Len(<<1>>) \in 1..MaxPages /\ 0 \in 0..MaxPages
      /\ "first" \in PageFilters /\ "none" \in Key
  BY PageAssumption DEF Key
<1>2. page \in PageState /\ Len(page.cursorStack) \in 1..MaxPages
  BY <1>1 DEF PageInit, PageState
<1>3. PageFits(page, asked, undecided)
  BY <1>1, <1>2 DEF PageInit, PageFits
<1> QED  BY <1>3 DEF PageInit, PageInv, OneIsBusy

\* The requests that are left, and the one that is new.
LEMMA Superseding ==
    ASSUME \A r \in inFlight : r \in PageRequest, NEW kinds, NEW s \in Superseded(kinds)
    PROVE  \E r \in inFlight : /\ s \in PageRequest /\ s.kind = r.kind /\ s.for = r.for /\ s.ends = r.ends
                               /\ s.latest <=> r.latest /\ r.kind \notin kinds
                               /\ r.kind \notin kinds => s = r
<1>1. PICK r \in inFlight : s = [r EXCEPT !.latest = @ /\ r.kind \notin kinds]
  BY DEF Superseded
<1>2. s \in PageRequest /\ s.kind = r.kind /\ s.for = r.for /\ s.ends = r.ends /\ (s.latest <=> r.latest /\ r.kind \notin kinds)
  BY <1>1 DEF PageRequest
<1>3. r.kind \notin kinds => s = r
  BY <1>1 DEF PageRequest
<1> QED  BY <1>2, <1>3

LEMMA SupersededStay ==
    ASSUME NEW kinds, NEW r \in inFlight, r \in PageRequest
    PROVE  \E s \in Superseded(kinds) : s.kind = r.kind /\ s.ends = r.ends /\ (r.kind \notin kinds => s = r)
<1> DEFINE s == [r EXCEPT !.latest = @ /\ r.kind \notin kinds]
<1>1. s \in Superseded(kinds) /\ s.kind = r.kind /\ s.ends = r.ends /\ (r.kind \notin kinds => s = r)
  BY DEF Superseded, PageRequest
<1> QED  BY <1>1, Zenon

\* Requests that supersede others leave one of them busy.
LEMMA SupersededAreFit ==
    ASSUME PageInv, NEW kinds
    PROVE  /\ \A r \in Superseded(kinds) : /\ RequestFits(r, page, asked, undecided)
                                           /\ r.latest => r.kind \notin kinds /\ r \in inFlight
           /\ \A r, s \in Superseded(kinds) : Busy(r) /\ Busy(s) => r = s
           /\ \A r \in Superseded(kinds) : Busy(r) => page.mutationLoading
           /\ page.mutationLoading => \E r \in Superseded(kinds) : Busy(r)
           /\ \A r \in Superseded(kinds) : r.kind = "mutation" => undecided # "none"
           /\ (\E r \in inFlight : r.kind = "mutation") => \E r \in Superseded(kinds) : r.kind = "mutation"
<1>1. \A r \in inFlight : r \in PageRequest /\ RequestFits(r, page, asked, undecided)
  BY DEF PageInv, RequestFits
<1>2. ASSUME NEW r \in Superseded(kinds)
      PROVE  RequestFits(r, page, asked, undecided) /\ (r.latest => r.kind \notin kinds /\ r \in inFlight) /\ (Busy(r) => page.mutationLoading)
  <2>1. PICK s \in inFlight : /\ r \in PageRequest /\ r.kind = s.kind /\ r.for = s.for /\ r.ends = s.ends
                              /\ r.latest <=> s.latest /\ s.kind \notin kinds
                              /\ s.kind \notin kinds => r = s
    BY <1>1, Superseding
  <2>2. Busy(r) => page.mutationLoading
    BY <2>1 DEF Busy, PageInv, OneIsBusy
  <2>3. RequestFits(s, page, asked, undecided)
    BY <1>1, <2>1
  <2> QED  BY <2>1, <2>2, <2>3 DEF RequestFits
<1>3. ASSUME NEW a \in Superseded(kinds), NEW b \in Superseded(kinds), Busy(a), Busy(b)
      PROVE  a = b
  <2>1. PICK r \in inFlight : a = [r EXCEPT !.latest = @ /\ r.kind \notin kinds]
    BY DEF Superseded
  <2>2. PICK s \in inFlight : b = [s EXCEPT !.latest = @ /\ s.kind \notin kinds]
    BY DEF Superseded
  <2>3. Busy(r) /\ Busy(s)
    BY <1>1, <1>3, <2>1, <2>2 DEF Busy, PageRequest
  <2> QED  BY <2>1, <2>2, <2>3 DEF PageInv, OneIsBusy
<1>4. page.mutationLoading => \E r \in Superseded(kinds) : Busy(r)
  <2> SUFFICES ASSUME page.mutationLoading PROVE \E r \in Superseded(kinds) : Busy(r)
    OBVIOUS
  <2>1. PICK r \in inFlight : Busy(r)
    BY DEF PageInv, OneIsBusy
  <2>2. PICK s \in Superseded(kinds) : s.kind = r.kind /\ s.ends = r.ends
    BY <1>1, SupersededStay
  <2> QED  BY <2>1, <2>2 DEF Busy
<1>5. (\E r \in inFlight : r.kind = "mutation") => \E r \in Superseded(kinds) : r.kind = "mutation"
  <2> SUFFICES ASSUME NEW r \in inFlight, r.kind = "mutation" PROVE \E s \in Superseded(kinds) : s.kind = "mutation"
    OBVIOUS
  <2>1. PICK s \in Superseded(kinds) : s.kind = r.kind
    BY <1>1, SupersededStay
  <2> QED  BY <2>1
<1> QED  BY <1>2, <1>3, <1>4, <1>5 DEF RequestFits

LEMMA BusyStay ==
    ASSUME NEW p, NEW q, NEW operation, NEW before, NEW after, OneIsBusy(before, p, operation),
           q.mutationLoading = p.mutationLoading, q.pendingMutation = p.pendingMutation,
           \A r : Busy(r) => (r \in after <=> r \in before)
    PROVE  OneIsBusy(after, q, operation)
<1>1. \A r, s \in after : Busy(r) /\ Busy(s) => r = s
  BY DEF OneIsBusy
<1>2. (\E r \in after : Busy(r)) <=> \E r \in before : Busy(r)
  OBVIOUS
<1>3. (\E r \in after : r.kind = "mutation") <=> \E r \in before : r.kind = "mutation"
  BY DEF Busy
<1> QED  BY <1>1, <1>2, <1>3 DEF OneIsBusy

LEMMA SupersededAreBusy ==
    ASSUME PageInv, NEW kinds
    PROVE  OneIsBusy(Superseded(kinds), page, undecided)
<1>1. \A r, s \in Superseded(kinds) : Busy(r) /\ Busy(s) => r = s
  BY SupersededAreFit
<1>2. page.mutationLoading <=> \E r \in Superseded(kinds) : Busy(r)
  BY SupersededAreFit DEF PageInv, PageFits, PageState
<1>3. undecided # "none" => page.pendingMutation = undecided \/ \E r \in Superseded(kinds) : r.kind = "mutation"
  BY SupersededAreFit DEF PageInv, OneIsBusy
<1> QED  BY <1>1, <1>2, <1>3 DEF OneIsBusy

\* Facts of the page.
LEMMA PageFacts ==
    PageInv => /\ page \in PageState /\ Len(page.cursorStack) \in 1..MaxPages
               /\ page.cursorStack \in Seq(1..MaxPages) /\ Top(page) \in 1..MaxPages /\ Shown(page) \in Place
               /\ asked \in Key /\ undecided \in Key
               /\ (~page.mutationLoading => \A r \in inFlight : ~Busy(r))
               /\ (~page.mutationLoading /\ page.pendingMutation = "none" => undecided = "none")
<1> SUFFICES ASSUME PageInv
    PROVE  /\ page \in PageState /\ Len(page.cursorStack) \in 1..MaxPages
           /\ page.cursorStack \in Seq(1..MaxPages) /\ Top(page) \in 1..MaxPages /\ Shown(page) \in Place
           /\ asked \in Key /\ undecided \in Key
           /\ (~page.mutationLoading => \A r \in inFlight : ~Busy(r))
           /\ (~page.mutationLoading /\ page.pendingMutation = "none" => undecided = "none")
  OBVIOUS
<1>1. page \in PageState /\ Len(page.cursorStack) \in 1..MaxPages /\ asked \in Key /\ undecided \in Key
  BY DEF PageInv, PageFits
<1>2. page.cursorStack \in Seq(1..MaxPages) /\ page.applied \in PageFilters
  BY <1>1 DEF PageState
<1>3. Top(page) \in 1..MaxPages
  BY <1>1, <1>2, PageAssumption DEF Top
<1>4. Shown(page) \in Place
  BY <1>2, <1>3 DEF Shown, Place
<1>5. ~page.mutationLoading => \A r \in inFlight : ~Busy(r)
  BY DEF PageInv, OneIsBusy
<1>6. ~page.mutationLoading /\ page.pendingMutation = "none" => undecided = "none"
  BY <1>5 DEF PageInv, OneIsBusy, Busy
<1> QED  BY <1>1, <1>2, <1>3, <1>4, <1>5, <1>6

\* A list is asked for what the page p, left without a selection, will show.
LEMMA ListIsAskedFor ==
    ASSUME PageInv, NEW p \in PageState, ~page.mutationLoading, page.pendingMutation = "none",
           Len(p.cursorStack) \in 1..MaxPages,
           p.mutationLoading = page.mutationLoading, p.pendingMutation = page.pendingMutation,
           loadPage(clearSelection(p), {"detail", "payload"}), UNCHANGED <<asked, undecided>>
    PROVE  PageInv'
<1> DEFINE kinds == {"list", "detail", "payload"}
           shown == clearSelection(p)
           new == [kind |-> "list", for |-> Shown(p), latest |-> TRUE, ends |-> FALSE]
<1>1. /\ shown \in PageState /\ shown.cursorStack = p.cursorStack /\ shown.applied = p.applied
      /\ shown.selected = "none" /\ shown.payload = "none"
      /\ shown.mutationLoading = p.mutationLoading /\ shown.pendingMutation = p.pendingMutation
  BY DEF clearSelection, PageState, Key
<1>2. page' = [shown EXCEPT !.loading = TRUE, !.listed = TRUE]
  BY DEF loadPage
<1>3. inFlight' = Superseded(kinds) \union {new}
  <2>1. {"list"} \union {"detail", "payload"} = kinds
    OBVIOUS
  <2> QED  BY <1>1, <2>1 DEF loadPage, Issue, Shown, Top
<1>4. /\ page' \in PageState /\ page'.cursorStack = p.cursorStack /\ page'.applied = p.applied
      /\ page'.selected = "none" /\ page'.payload = "none" /\ page'.loading /\ page'.listed
      /\ page'.mutationLoading = page.mutationLoading /\ page'.pendingMutation = page.pendingMutation
  BY <1>1, <1>2 DEF PageState
<1>5. Shown(p) \in Place /\ Shown(page') = Shown(p)
  <2>1. p.cursorStack \in Seq(1..MaxPages) /\ p.applied \in PageFilters
    BY DEF PageState
  <2>2. Top(p) \in 1..MaxPages
    BY <2>1, PageAssumption DEF Top
  <2> QED  BY <1>4, <2>1, <2>2 DEF Shown, Top, Place
<1>6. PageFits(page', asked, undecided)
  BY <1>4 DEF PageInv, PageFits
<1>7. RequestFits(new, page', asked, undecided)
  BY <1>4, <1>5 DEF RequestFits, PageRequest
<1>8. ASSUME NEW r \in Superseded(kinds) PROVE RequestFits(r, page', asked, undecided)
  BY <1>4, <1>8, SupersededAreFit DEF RequestFits
<1>9. OneIsBusy(inFlight', page', undecided)
  <2>1. ~Busy(new)
    BY DEF Busy
  <2>2. OneIsBusy(Superseded(kinds), page, undecided)
    BY SupersededAreBusy
  <2>3. \A r : Busy(r) => (r \in inFlight' <=> r \in Superseded(kinds))
    BY <1>3, <2>1
  <2> QED  BY <1>4, <2>2, <2>3, BusyStay
<1> QED  BY <1>3, <1>6, <1>7, <1>8, <1>9 DEF PageInv

LEMMA ListSteps == PageInv /\ (next \/ back \/ \E f \in PageFilters : search(f)) => PageInv'
<1>1. ASSUME PageInv, next PROVE PageInv'
  <2> DEFINE p == [page EXCEPT !.cursorStack = Append(@, page.nextCursor)]
  <2>1. p \in PageState /\ Len(p.cursorStack) \in 1..MaxPages
    <3>1. page.nextCursor \in 1..MaxPages /\ Len(page.cursorStack) < MaxPages
      BY <1>1, PageFacts, PageAssumption DEF next, PageState
    <3>2. /\ Append(page.cursorStack, page.nextCursor) \in Seq(1..MaxPages)
          /\ Len(Append(page.cursorStack, page.nextCursor)) \in 1..MaxPages
      BY <1>1, <3>1, PageFacts, PageAssumption
    <3> QED  BY <1>1, <3>2, PageFacts DEF PageState
  <2>2. p.mutationLoading = page.mutationLoading /\ p.pendingMutation = page.pendingMutation
    BY <1>1, PageFacts DEF PageState
  <2> QED  BY <1>1, <2>1, <2>2, ListIsAskedFor DEF next, Blocked
<1>2. ASSUME PageInv, back PROVE PageInv'
  <2> DEFINE p == [page EXCEPT !.cursorStack = SubSeq(@, 1, Len(@) - 1)]
  <2>1. p \in PageState /\ Len(p.cursorStack) \in 1..MaxPages
    <3>1. Len(page.cursorStack) \in 2..MaxPages
      BY <1>2, PageFacts, PageAssumption DEF back
    <3>2. /\ SubSeq(page.cursorStack, 1, Len(page.cursorStack) - 1) \in Seq(1..MaxPages)
          /\ Len(SubSeq(page.cursorStack, 1, Len(page.cursorStack) - 1)) \in 1..MaxPages
      BY <1>2, <3>1, PageFacts, PageAssumption
    <3> QED  BY <1>2, <3>2, PageFacts DEF PageState
  <2>2. p.mutationLoading = page.mutationLoading /\ p.pendingMutation = page.pendingMutation
    BY <1>2, PageFacts DEF PageState
  <2> QED  BY <1>2, <2>1, <2>2, ListIsAskedFor DEF back, Blocked
<1>3. ASSUME PageInv, NEW f \in PageFilters, search(f) PROVE PageInv'
  <2> DEFINE p == [page EXCEPT !.filters = f, !.applied = f, !.cursorStack = <<1>>]
  <2>1. p \in PageState /\ Len(p.cursorStack) \in 1..MaxPages
    <3>1. <<1>> \in Seq(1..MaxPages) /\ Len(<<1>>) \in 1..MaxPages
      BY PageAssumption
    <3> QED  BY <1>3, <3>1, PageFacts DEF PageState
  <2>2. p.mutationLoading = page.mutationLoading /\ p.pendingMutation = page.pendingMutation
    BY <1>3, PageFacts DEF PageState
  <2> QED  BY <1>3, <2>1, <2>2, ListIsAskedFor DEF search, Blocked
<1> QED  BY <1>1, <1>2, <1>3

\* The page changes and no request is issued or answered.
LEMMA PageAlone ==
    ASSUME PageInv, UNCHANGED <<inFlight, asked, undecided>>, PageFits(page', asked, undecided),
           page'.applied = page.applied, page'.cursorStack = page.cursorStack, page'.listed = page.listed,
           page'.mutationLoading = page.mutationLoading, page'.pendingMutation = page.pendingMutation
    PROVE  PageInv'
<1>1. Shown(page') = Shown(page)
  BY DEF Shown, Top
<1>2. \A r \in inFlight : RequestFits(r, page', asked, undecided)
  BY <1>1 DEF PageInv, RequestFits
<1>3. OneIsBusy(inFlight, page', undecided)
  BY DEF PageInv, OneIsBusy
<1> QED  BY <1>2, <1>3 DEF PageInv

\* A request of a kind other than list and mutation is issued, and others are superseded.
LEMMA RequestIsIssued ==
    ASSUME PageInv, NEW new, NEW kinds, NEW key \in Key, inFlight' = Superseded(kinds) \union {new}, asked' = key,
           undecided' = undecided, PageFits(page', key, undecided), RequestFits(new, page', key, undecided),
           new.kind \notin {"list", "mutation"}, key = asked \/ "detail" \in kinds,
           page'.applied = page.applied, page'.cursorStack = page.cursorStack, page'.listed = page.listed,
           page'.mutationLoading = page.mutationLoading, page'.pendingMutation = page.pendingMutation
    PROVE  PageInv'
<1>1. Shown(page') = Shown(page)
  BY DEF Shown, Top
<1>2. ASSUME NEW r \in Superseded(kinds) PROVE RequestFits(r, page', key, undecided)
  <2>1. RequestFits(r, page, asked, undecided) /\ (r.latest => r.kind \notin kinds)
    BY SupersededAreFit
  <2> QED  BY <1>1, <2>1 DEF RequestFits
<1>3. OneIsBusy(inFlight', page', undecided)
  <2>1. ~Busy(new)
    BY DEF Busy, RequestFits
  <2>2. OneIsBusy(Superseded(kinds), page, undecided)
    BY SupersededAreBusy
  <2>3. \A r : Busy(r) => (r \in inFlight' <=> r \in Superseded(kinds))
    BY <2>1
  <2> QED  BY <2>2, <2>3, BusyStay
<1> QED  BY <1>2, <1>3 DEF PageInv

LEMMA RequestSteps ==
    PageInv /\ (initialize \/ revealPayload \/ \E k \in LetterKeys : select(k)) => PageInv'
<1>1. ASSUME PageInv, initialize PROVE PageInv'
  <2> DEFINE new == [kind |-> "bootstrap", for |-> "sources", latest |-> TRUE, ends |-> FALSE]
             kinds == {"bootstrap"} \union {}
  <2>1. /\ page' = [page EXCEPT !.loading = TRUE] /\ asked' = asked /\ undecided' = undecided
        /\ inFlight' = Superseded(kinds) \union {new}
    BY <1>1 DEF initialize, Issue
  <2>2. PageFits(page', asked, undecided)
    BY <1>1, <2>1 DEF PageInv, PageFits, PageState
  <2>3. RequestFits(new, page', asked, undecided)
    BY DEF RequestFits, PageRequest
  <2>4. /\ page'.applied = page.applied /\ page'.cursorStack = page.cursorStack
        /\ page'.mutationLoading = page.mutationLoading /\ page'.pendingMutation = page.pendingMutation
        /\ page'.listed = page.listed
    BY <1>1, <2>1, PageFacts DEF PageState
  <2> QED  BY <1>1, <2>1, <2>2, <2>3, <2>4, PageFacts, RequestIsIssued
<1>2. ASSUME PageInv, revealPayload PROVE PageInv'
  <2> DEFINE new == [kind |-> "payload", for |-> page.selected, latest |-> TRUE, ends |-> FALSE]
             kinds == {"payload"} \union {}
  <2>1. /\ page.selected # "none" /\ page' = [page EXCEPT !.payload = "none", !.payloadLoading = TRUE]
        /\ asked' = asked /\ undecided' = undecided /\ inFlight' = Superseded(kinds) \union {new}
    BY <1>2 DEF revealPayload, Issue
  <2>2. PageFits(page', asked, undecided)
    <3>1. page' \in PageState
      BY <1>2, <2>1, PageFacts DEF PageState, Key
    <3> QED  BY <1>2, <2>1, <3>1 DEF PageInv, PageFits, PageState, Shown, Top
  <2>3. RequestFits(new, page', asked, undecided)
    <3>1. page.selected \in LetterKeys
      BY <1>2, <2>1, PageFacts DEF PageState, Key
    <3> QED  BY <3>1 DEF RequestFits, PageRequest, Key
  <2>4. /\ page'.applied = page.applied /\ page'.cursorStack = page.cursorStack
        /\ page'.mutationLoading = page.mutationLoading /\ page'.pendingMutation = page.pendingMutation
        /\ page'.listed = page.listed
    BY <1>2, <2>1, PageFacts DEF PageState
  <2> QED  BY <1>2, <2>1, <2>2, <2>3, <2>4, PageFacts, RequestIsIssued
<1>3. ASSUME PageInv, NEW k \in LetterKeys, select(k) PROVE PageInv'
  <2> DEFINE new == [kind |-> "detail", for |-> k, latest |-> TRUE, ends |-> FALSE]
             kinds == {"detail"} \union {"payload"}
             standing == IF page.pendingMutation = "none" THEN "none" ELSE page.selected
  <2>1. /\ ~page.mutationLoading /\ page.pendingMutation \in {"none", k}
        /\ page' = [page EXCEPT !.selected = standing, !.payload = "none", !.payloadLoading = FALSE, !.detailLoading = TRUE]
        /\ asked' = k /\ undecided' = undecided /\ inFlight' = Superseded(kinds) \union {new}
    BY <1>3 DEF select, Issue
  <2>2. standing \in {k, "none"} /\ (undecided # "none" => k = undecided)
    BY <1>3, <2>1, PageFacts DEF PageInv, PageFits
  <2>3. PageFits(page', k, undecided)
    <3>1. page' \in PageState /\ k \in Key
      BY <1>3, <2>1, <2>2, PageFacts DEF PageState, Key
    <3> QED  BY <1>3, <2>1, <2>2, <3>1 DEF PageInv, PageFits, PageState, Shown, Top
  <2>4. RequestFits(new, page', k, undecided)
    BY DEF RequestFits, PageRequest, Key
  <2>5. /\ page'.applied = page.applied /\ page'.cursorStack = page.cursorStack
        /\ page'.mutationLoading = page.mutationLoading /\ page'.pendingMutation = page.pendingMutation
        /\ page'.listed = page.listed
    BY <1>3, <2>1, PageFacts DEF PageState
  <2>6. "detail" \in kinds /\ new.kind \notin {"list", "mutation"} /\ k \in Key
    BY DEF Key
  <2> QED  BY <1>3, <2>1, <2>3, <2>4, <2>5, <2>6, RequestIsIssued
<1> QED  BY <1>1, <1>2, <1>3

LEMMA OperatorSteps ==
    PageInv /\ (abandonPendingOperation \/ \E f \in PageFilters : setFilter(f)) => PageInv'
<1>1. ASSUME PageInv, abandonPendingOperation PROVE PageInv'
  <2>1. /\ ~page.mutationLoading /\ page' = [page EXCEPT !.pendingMutation = "none"] /\ undecided' = "none"
        /\ inFlight' = inFlight /\ asked' = asked
    BY <1>1 DEF abandonPendingOperation
  <2>2. page' \in PageState /\ "none" \in Key
    BY <1>1, <2>1, PageFacts DEF PageState, Key
  <2>3. PageFits(page', asked, "none")
    BY <1>1, <2>1, <2>2 DEF PageInv, PageFits, PageState, Shown, Top
  <2>4. \A r \in inFlight : ~Busy(r)
    BY <1>1, <2>1, PageFacts
  <2>5. Shown(page') = Shown(page) /\ ~page'.mutationLoading /\ page'.listed = page.listed
    BY <1>1, <2>1, PageFacts DEF Shown, Top, PageState
  <2>6. \A r \in inFlight : RequestFits(r, page', asked, "none")
    BY <1>1, <2>4, <2>5 DEF PageInv, RequestFits, Busy
  <2>7. OneIsBusy(inFlight, page', "none")
    BY <2>4, <2>5 DEF OneIsBusy
  <2> QED  BY <2>1, <2>3, <2>6, <2>7 DEF PageInv
<1>2. ASSUME PageInv, NEW f \in PageFilters, setFilter(f) PROVE PageInv'
  <2>1. page' = [page EXCEPT !.filters = f] /\ UNCHANGED <<inFlight, asked, undecided>>
    BY <1>2 DEF setFilter
  <2>2. PageFits(page', asked, undecided)
    BY <1>2, <2>1 DEF PageInv, PageFits, PageState, Shown, Top
  <2>3. /\ page'.applied = page.applied /\ page'.cursorStack = page.cursorStack
        /\ page'.mutationLoading = page.mutationLoading /\ page'.pendingMutation = page.pendingMutation
        /\ page'.listed = page.listed
    BY <1>2, <2>1, PageFacts DEF PageState
  <2> QED  BY <1>2, <2>1, <2>2, <2>3, PageAlone
<1> QED  BY <1>1, <1>2

LEMMA SubmitSteps == PageInv /\ (\E k \in LetterKeys : submitMutation(k)) => PageInv'
<1> SUFFICES ASSUME PageInv, NEW k \in LetterKeys, submitMutation(k) PROVE PageInv'
  OBVIOUS
<1> DEFINE new == [kind |-> "mutation", for |-> k, latest |-> TRUE, ends |-> FALSE]
           kinds == {"mutation"} \union {}
<1>1. /\ ~page.mutationLoading /\ page' = [page EXCEPT !.mutationLoading = TRUE] /\ undecided' = k /\ asked' = asked
      /\ inFlight' = Superseded(kinds) \union {new}
  BY DEF submitMutation, Issue
<1>2. k # "none" /\ k \in Key
  BY PageAssumption DEF Key
<1>3. /\ k = IF page.pendingMutation = "none" THEN page.selected ELSE page.pendingMutation
      /\ page.selected \in {asked, "none"} /\ page.pendingMutation \in {undecided, "none"}
      /\ undecided # "none" => asked = undecided
  BY DEF submitMutation, PageInv, PageFits
<1>4. asked = k
  BY <1>2, <1>3
<1>5. page.pendingMutation \in {k, "none"}
  BY <1>3
<1>6. PageFits(page', asked, k)
  <2>1. page' \in PageState
    BY <1>1, PageFacts DEF PageState
  <2> QED  BY <1>1, <1>2, <1>4, <1>5, <2>1 DEF PageInv, PageFits, PageState, Shown, Top
<1>7. Shown(page') = Shown(page) /\ page'.mutationLoading /\ page'.listed = page.listed
  BY <1>1, PageFacts DEF Shown, Top, PageState
<1>8. RequestFits(new, page', asked, k)
  BY <1>2 DEF RequestFits, PageRequest, Key
<1>9. \A r \in Superseded(kinds) : ~Busy(r) /\ RequestFits(r, page, asked, undecided)
  BY <1>1, SupersededAreFit
<1>10. \A r \in Superseded(kinds) : RequestFits(r, page', asked, k)
  BY <1>7, <1>9 DEF RequestFits, Busy
<1>11. OneIsBusy(inFlight', page', k)
  <2>1. \A r \in inFlight' : Busy(r) => r = new
    BY <1>1, <1>9
  <2>2. new \in inFlight' /\ Busy(new) /\ new.kind = "mutation"
    BY <1>1 DEF Busy
  <2> QED  BY <1>7, <2>1, <2>2 DEF OneIsBusy
<1> QED  BY <1>1, <1>6, <1>8, <1>10, <1>11 DEF PageInv

\* A request that is not busy is answered.
LEMMA RequestIsAnswered ==
    ASSUME PageInv, NEW r \in inFlight, ~Busy(r), inFlight' = inFlight \ {r}, UNCHANGED <<asked, undecided>>,
           PageFits(page', asked, undecided),
           page'.applied = page.applied, page'.cursorStack = page.cursorStack, page'.listed = page.listed,
           page'.mutationLoading = page.mutationLoading, page'.pendingMutation = page.pendingMutation
    PROVE  PageInv'
<1>1. Shown(page') = Shown(page)
  BY DEF Shown, Top
<1>2. \A s \in inFlight' : RequestFits(s, page', asked, undecided)
  BY <1>1 DEF PageInv, RequestFits
<1>3. OneIsBusy(inFlight', page', undecided)
  <2>1. \A s : Busy(s) => (s \in inFlight' <=> s \in inFlight)
    OBVIOUS
  <2>2. OneIsBusy(inFlight, page, undecided)
    BY DEF PageInv
  <2> QED  BY <2>1, <2>2, BusyStay
<1> QED  BY <1>2, <1>3 DEF PageInv

LEMMA bootstrapSteps ==
    ASSUME PageInv, NEW r \in inFlight, NEW ok \in BOOLEAN, bootstrapAnswered(r, ok)
    PROVE  PageInv'
<1>1. r.kind = "bootstrap" /\ UNCHANGED <<asked, undecided>>
  BY DEF bootstrapAnswered
<1>2. ~Busy(r) /\ r \in PageRequest
  BY <1>1 DEF PageInv, RequestFits, Busy
<1>3. CASE r.latest /\ ok
  <2> DEFINE new == [kind |-> "list", for |-> <<"first", Top(page)>>, latest |-> TRUE, ends |-> FALSE]
             kinds == {"list"}
  <2>1. /\ page' = [page EXCEPT !.bootstrap = TRUE, !.filters = "first", !.applied = "first",
                                !.loading = TRUE, !.listed = TRUE]
        /\ inFlight' = (Superseded(kinds) \ {r}) \union {new}
    BY <1>3 DEF bootstrapAnswered
  <2>2. /\ page' \in PageState /\ page'.applied = "first" /\ page'.cursorStack = page.cursorStack
        /\ page'.mutationLoading = page.mutationLoading /\ page'.pendingMutation = page.pendingMutation
        /\ page'.loading /\ page'.listed /\ page'.selected = page.selected /\ page'.payload = page.payload
    BY <2>1, PageFacts, PageAssumption DEF PageState
  <2>3. PageFits(page', asked, undecided)
    BY <2>2 DEF PageInv, PageFits
  <2>4. Shown(page') = <<"first", Top(page)>> /\ Shown(page') \in Place
    BY <2>2, PageFacts, PageAssumption DEF Shown, Top, Place
  <2>5. RequestFits(new, page', asked, undecided) /\ ~Busy(new)
    BY <2>2, <2>4 DEF RequestFits, PageRequest, Busy
  <2>6. ASSUME NEW s \in Superseded(kinds) PROVE RequestFits(s, page', asked, undecided)
    <3>1. RequestFits(s, page, asked, undecided) /\ (s.latest => s.kind \notin kinds)
      BY SupersededAreFit
    <3> QED  BY <2>2, <3>1 DEF RequestFits
  <2>7. OneIsBusy(inFlight', page', undecided)
    <3>1. OneIsBusy(Superseded(kinds), page, undecided)
      BY SupersededAreBusy
    <3>2. \A s : Busy(s) => (s \in inFlight' <=> s \in Superseded(kinds))
      BY <1>2, <2>1, <2>5
    <3> QED  BY <2>2, <3>1, <3>2, BusyStay
  <2> QED  BY <1>1, <2>1, <2>3, <2>5, <2>6, <2>7 DEF PageInv
<1>4. CASE ~(r.latest /\ ok)
  <2>1. page' = [page EXCEPT !.loading = @ /\ (~r.latest \/ page.listed)] /\ inFlight' = inFlight \ {r}
    BY <1>4 DEF bootstrapAnswered, Answered
  <2>2. /\ page' \in PageState /\ page'.applied = page.applied /\ page'.cursorStack = page.cursorStack
        /\ page'.mutationLoading = page.mutationLoading /\ page'.pendingMutation = page.pendingMutation
        /\ page'.listed = page.listed /\ page'.items = page.items
        /\ page'.selected = page.selected /\ page'.payload = page.payload
        /\ page'.loading <=> page.loading /\ (~r.latest \/ page.listed)
    BY <1>2, <2>1, PageFacts DEF PageState, PageRequest
  <2>3. Shown(page') = Shown(page)
    BY <2>2 DEF Shown, Top
  <2>4. PageFits(page', asked, undecided)
    BY <2>2, <2>3 DEF PageInv, PageFits
  <2> QED  BY <1>1, <1>2, <2>1, <2>2, <2>4, RequestIsAnswered
<1> QED  BY <1>3, <1>4

LEMMA detailSteps ==
    ASSUME PageInv, NEW r \in inFlight, NEW ok \in BOOLEAN, detailAnswered(r, ok)
    PROVE  PageInv'
<1>1. /\ r.kind = "detail" /\ UNCHANGED <<asked, undecided>> /\ inFlight' = inFlight \ {r}
      /\ r.latest => page' = [page EXCEPT !.selected = IF ok THEN r.for ELSE @, !.detailLoading = FALSE]
      /\ ~r.latest => page' = page
  BY DEF detailAnswered, Answered
<1>2. ~Busy(r) /\ r.for \in LetterKeys /\ (r.latest => r.for = asked)
  BY <1>1 DEF PageInv, RequestFits, Busy
<1>3. /\ page' \in PageState /\ page'.applied = page.applied /\ page'.cursorStack = page.cursorStack
      /\ page'.mutationLoading = page.mutationLoading /\ page'.pendingMutation = page.pendingMutation
      /\ page'.listed = page.listed /\ page'.items = page.items /\ page'.loading = page.loading
      /\ page'.payload = page.payload
      /\ \/ page'.selected = page.selected
         \/ page'.selected = asked /\ asked # "none"
  BY <1>1, <1>2, PageFacts, PageAssumption DEF PageState, Key
<1>4. Shown(page') = Shown(page)
  BY <1>3 DEF Shown, Top
<1>5. PageFits(page', asked, undecided)
  BY <1>3, <1>4 DEF PageInv, PageFits
<1> QED  BY <1>1, <1>2, <1>3, <1>5, RequestIsAnswered

LEMMA payloadSteps ==
    ASSUME PageInv, NEW r \in inFlight, NEW ok \in BOOLEAN, payloadAnswered(r, ok)
    PROVE  PageInv'
<1> DEFINE revealed == IF ok /\ page.selected = r.for THEN r.for ELSE "none"
<1>1. /\ r.kind = "payload" /\ UNCHANGED <<asked, undecided>> /\ inFlight' = inFlight \ {r}
      /\ r.latest => page' = [page EXCEPT !.payload = revealed, !.payloadLoading = FALSE]
      /\ ~r.latest => page' = page
  BY DEF payloadAnswered, Answered
<1>2. ~Busy(r) /\ r.for \in LetterKeys
  BY <1>1 DEF PageInv, RequestFits, Busy
<1>3. revealed \in {page.selected, "none"} /\ revealed \in Key
  BY <1>2 DEF Key
<1>4. /\ page' \in PageState /\ page'.applied = page.applied /\ page'.cursorStack = page.cursorStack
      /\ page'.mutationLoading = page.mutationLoading /\ page'.pendingMutation = page.pendingMutation
      /\ page'.listed = page.listed /\ page'.items = page.items /\ page'.loading = page.loading
      /\ page'.selected = page.selected /\ page'.payload \in {page.payload, revealed}
  BY <1>1, <1>3, PageFacts DEF PageState
<1>5. Shown(page') = Shown(page)
  BY <1>4 DEF Shown, Top
<1>6. PageFits(page', asked, undecided)
  BY <1>3, <1>4, <1>5 DEF PageInv, PageFits
<1> QED  BY <1>1, <1>2, <1>4, <1>6, RequestIsAnswered

\* A list that ends an operation leaves nothing busy.
LEMMA listSteps ==
    ASSUME PageInv, NEW r \in inFlight, NEW ok \in BOOLEAN, NEW more \in BOOLEAN, NEW gone \in BOOLEAN,
           listAnswered(r, ok, more, gone)
    PROVE  PageInv'
<1> DEFINE before == [page EXCEPT !.mutationLoading = @ /\ ~r.ends]
           shown == [before EXCEPT !.items = r.for, !.nextCursor = IF more THEN r.for[2] + 1 ELSE 0, !.loading = FALSE]
           kinds == {"detail", "payload"}
<1>1. r.kind = "list" /\ (more => r.for[2] < MaxPages) /\ UNCHANGED <<asked, undecided>>
  BY DEF listAnswered
<1>2. r \in PageRequest /\ r.for \in Place /\ (r.latest => r.for = Shown(page)) /\ RequestFits(r, page, asked, undecided)
  BY <1>1 DEF PageInv, RequestFits
<1>3. /\ before \in PageState /\ before.applied = page.applied /\ before.cursorStack = page.cursorStack
      /\ before.mutationLoading <=> page.mutationLoading /\ ~r.ends
      /\ before.pendingMutation = page.pendingMutation
      /\ before.listed = page.listed /\ before.items = page.items /\ before.loading = page.loading
      /\ before.selected = page.selected /\ before.payload = page.payload
  BY <1>2, PageFacts DEF PageState, PageRequest
<1>4. /\ shown \in PageState /\ shown.applied = page.applied /\ shown.cursorStack = page.cursorStack
      /\ shown.mutationLoading <=> page.mutationLoading /\ ~r.ends
      /\ shown.pendingMutation = page.pendingMutation
      /\ shown.listed = page.listed /\ shown.items = r.for
      /\ shown.selected = page.selected /\ shown.payload = page.payload
  <2>1. (IF more THEN r.for[2] + 1 ELSE 0) \in 0..MaxPages
    BY <1>1, <1>2, PageAssumption DEF Place
  <2>2. PICK n \in 0..MaxPages : n = IF more THEN r.for[2] + 1 ELSE 0
    BY <2>1, Zenon
  <2>3. PICK p \in PageState : p = before
    BY <1>3, Zenon
  <2>4. shown = [p EXCEPT !.items = r.for, !.nextCursor = n, !.loading = FALSE]
    BY <2>2, <2>3, Zenon
  <2>5. /\ p.applied = page.applied /\ p.cursorStack = page.cursorStack
        /\ p.mutationLoading <=> page.mutationLoading /\ ~r.ends
        /\ p.pendingMutation = page.pendingMutation
        /\ p.listed = page.listed /\ p.selected = page.selected /\ p.payload = page.payload
    BY <1>3, <2>3
  <2> HIDE DEF shown
  <2> QED  BY <1>2, <2>4, <2>5 DEF PageState
<1>5. /\ clearSelection(shown) \in PageState /\ clearSelection(shown).applied = page.applied
      /\ clearSelection(shown).cursorStack = page.cursorStack
      /\ clearSelection(shown).mutationLoading <=> page.mutationLoading /\ ~r.ends
      /\ clearSelection(shown).pendingMutation = page.pendingMutation
      /\ clearSelection(shown).listed = page.listed /\ clearSelection(shown).items = r.for
      /\ clearSelection(shown).selected = "none" /\ clearSelection(shown).payload = "none"
  <2> HIDE DEF shown
  <2> QED  BY <1>4 DEF clearSelection, PageState, Key
<1>6. /\ page' \in PageState /\ page'.applied = page.applied /\ page'.cursorStack = page.cursorStack
      /\ page'.mutationLoading <=> page.mutationLoading /\ ~r.ends
      /\ page'.pendingMutation = page.pendingMutation /\ page'.listed = page.listed
      /\ \/ page'.items = page.items /\ page'.loading = page.loading
         \/ page'.items = <<>>
         \/ r.latest /\ page'.items = r.for
      /\ \/ page'.selected = page.selected /\ page'.payload = page.payload
         \/ page'.selected = "none" /\ page'.payload = "none"
      /\ inFlight' \in {inFlight \ {r}, Superseded(kinds) \ {r}}
  <2>1. CASE ~r.latest
    <3>1. page' = before /\ inFlight' = inFlight \ {r}
      BY <2>1 DEF listAnswered, Answered
    <3> QED  BY <1>3, <3>1
  <2>2. CASE r.latest /\ ~ok
    <3>1. page' = [before EXCEPT !.items = <<>>, !.loading = FALSE] /\ inFlight' = inFlight \ {r}
      BY <2>2 DEF listAnswered, Answered
    <3>2. PICK p \in PageState : p = before
      BY <1>3, Zenon
    <3>3. page' = [p EXCEPT !.items = <<>>, !.loading = FALSE]
      BY <3>1, <3>2, Zenon
    <3> HIDE DEF before, shown
    <3>4. /\ page' \in PageState /\ page'.applied = p.applied /\ page'.cursorStack = p.cursorStack
          /\ page'.mutationLoading <=> p.mutationLoading
          /\ page'.pendingMutation = p.pendingMutation /\ page'.listed = p.listed /\ page'.items = <<>>
      BY <3>3 DEF PageState
    <3>5. page'.selected = p.selected /\ page'.payload = p.payload
      BY <3>3 DEF PageState
    <3> QED  BY <1>3, <3>1, <3>2, <3>4, <3>5
  <2>3. CASE r.latest /\ ok /\ gone /\ page.selected # "none"
    <3>1. page' = clearSelection(shown) /\ inFlight' = Superseded(kinds) \ {r}
      BY <2>3 DEF listAnswered
    <3> QED  BY <1>5, <2>3, <3>1
  <2>4. CASE r.latest /\ ok /\ ~(gone /\ page.selected # "none")
    <3>1. page' = shown /\ inFlight' = inFlight \ {r}
      BY <2>4 DEF listAnswered, Answered
    <3> QED  BY <1>4, <2>4, <3>1
  <2> QED  BY <2>1, <2>2, <2>3, <2>4
<1>7. Shown(page') = Shown(page)
  BY <1>6 DEF Shown, Top
<1>8. page'.listed
  BY <1>1, <1>2, <1>6 DEF RequestFits
<1>9. PageFits(page', asked, undecided)
  BY <1>2, <1>6, <1>7, <1>8 DEF PageInv, PageFits
<1>10. PICK b \in {inFlight, Superseded(kinds)} : inFlight' = b \ {r}
  BY <1>6
<1>11. OneIsBusy(b, page, undecided) /\ \A s \in b : RequestFits(s, page, asked, undecided)
  BY SupersededAreBusy, SupersededAreFit DEF PageInv
<1>12. r \in b
  BY <1>1, <1>2, SupersededStay
<1>13. \A s \in inFlight' : RequestFits(s, page', asked, undecided)
  BY <1>6, <1>7, <1>10, <1>11 DEF RequestFits
<1>14. OneIsBusy(inFlight', page', undecided)
  <2>1. CASE ~r.ends
    <3>1. \A s : Busy(s) => (s \in inFlight' <=> s \in b)
      BY <1>1, <1>10, <2>1 DEF Busy
    <3>2. page'.mutationLoading = page.mutationLoading
      BY <1>6, <2>1, PageFacts DEF PageState
    <3> QED  BY <1>6, <1>11, <3>1, <3>2, BusyStay
  <2>2. CASE r.ends
    <3>1. \A s \in inFlight' : ~Busy(s)
      BY <1>10, <1>11, <1>12, <2>2 DEF OneIsBusy, Busy
    <3>2. undecided # "none" => page.pendingMutation = undecided
      BY <1>1, <1>11, <1>12, <2>2 DEF OneIsBusy, Busy
    <3> QED  BY <1>6, <2>2, <3>1, <3>2 DEF OneIsBusy
  <2> QED  BY <2>1, <2>2
<1> QED  BY <1>1, <1>9, <1>13, <1>14 DEF PageInv

LEMMA mutationSteps ==
    ASSUME PageInv, NEW r \in inFlight, NEW outcome \in {"committed", "refused", "unknown"}, mutationAnswered(r, outcome)
    PROVE  PageInv'
<1> DEFINE pending == IF outcome = "unknown" THEN r.for ELSE "none"
           settled == [page EXCEPT !.pendingMutation = pending]
<1>1. /\ r.kind = "mutation" /\ asked' = asked
      /\ undecided' = IF outcome = "unknown" THEN undecided ELSE "none"
  BY DEF mutationAnswered
<1>2. r \in PageRequest /\ r.for = undecided /\ undecided # "none" /\ Busy(r) /\ page.mutationLoading
  BY <1>1 DEF PageInv, RequestFits, OneIsBusy, Busy
<1>3. pending = undecided' /\ pending \in {undecided, "none"} /\ pending \in Key
  BY <1>1, <1>2, PageFacts DEF Key
<1>4. PICK p \in PageState : p = settled
  <2>1. [page EXCEPT !.pendingMutation = undecided'] \in PageState
    BY <1>3, PageFacts DEF PageState
  <2> QED  BY <1>3, <2>1, Zenon
<1>5. /\ p.applied = page.applied /\ p.cursorStack = page.cursorStack
      /\ p.mutationLoading /\ p.pendingMutation = undecided' /\ p.listed = page.listed
      /\ p.items = page.items /\ p.loading = page.loading
      /\ p.selected = page.selected /\ p.payload = page.payload
  <2>1. p = [page EXCEPT !.pendingMutation = undecided']
    BY <1>3, <1>4, Zenon
  <2> QED  BY <1>2, <2>1, PageFacts DEF PageState
<1>6. CASE outcome = "committed"
  <2> DEFINE kinds == {"list", "detail", "payload"}
             new == [kind |-> "list", for |-> <<page.applied, Top(page)>>, latest |-> TRUE, ends |-> TRUE]
             cleared == clearSelection(p)
  <2>1. page' = [cleared EXCEPT !.loading = TRUE, !.listed = TRUE] /\ inFlight' = (Superseded(kinds) \ {r}) \union {new}
    BY <1>1, <1>4, <1>6 DEF mutationAnswered
  <2>2. /\ cleared \in PageState /\ cleared.applied = page.applied /\ cleared.cursorStack = page.cursorStack
        /\ cleared.mutationLoading /\ cleared.pendingMutation = undecided'
        /\ cleared.selected = "none" /\ cleared.payload = "none"
    BY <1>5 DEF clearSelection, PageState, Key
  <2> HIDE DEF cleared
  <2>3. /\ page' \in PageState /\ page'.applied = page.applied /\ page'.cursorStack = page.cursorStack
        /\ page'.mutationLoading /\ page'.pendingMutation = undecided'
        /\ page'.selected = "none" /\ page'.payload = "none" /\ page'.loading /\ page'.listed
    BY <2>1, <2>2 DEF PageState
  <2>4. undecided' = "none"
    BY <1>1, <1>6
  <2>5. PageFits(page', asked, "none")
    BY <2>3, <2>4 DEF PageInv, PageFits, Key
  <2>6. Shown(page') = Shown(page) /\ Shown(page) \in Place /\ Shown(page) = <<page.applied, Top(page)>>
    BY <2>3, PageFacts DEF Shown, Top
  <2>7. RequestFits(new, page', asked, "none") /\ Busy(new)
    BY <2>3, <2>6 DEF RequestFits, PageRequest, Busy
  <2>8. r \in Superseded(kinds)
    BY <1>1, <1>2, SupersededStay
  <2>9. \A s \in Superseded(kinds) \ {r} : ~Busy(s)
    BY <1>2, <2>8, SupersededAreFit
  <2>10. ASSUME NEW s \in Superseded(kinds) \ {r} PROVE RequestFits(s, page', asked, "none")
    <3>1. RequestFits(s, page, asked, undecided) /\ (s.latest => s.kind \notin kinds) /\ ~Busy(s)
      BY <2>9, SupersededAreFit
    <3> QED  BY <2>3, <3>1 DEF RequestFits, Busy
  <2>11. OneIsBusy(inFlight', page', "none")
    <3>1. \A s \in inFlight' : Busy(s) => s = new
      BY <2>1, <2>9
    <3>2. new \in inFlight'
      BY <2>1
    <3> QED  BY <2>3, <2>7, <3>1, <3>2 DEF OneIsBusy
  <2> QED  BY <1>1, <2>1, <2>4, <2>5, <2>7, <2>10, <2>11 DEF PageInv
<1>7. CASE outcome # "committed"
  <2>1. page' = [p EXCEPT !.mutationLoading = FALSE] /\ inFlight' = inFlight \ {r}
    BY <1>4, <1>7 DEF mutationAnswered, Answered
  <2>2. /\ page' \in PageState /\ page'.applied = page.applied /\ page'.cursorStack = page.cursorStack
        /\ ~page'.mutationLoading /\ page'.pendingMutation = undecided' /\ page'.listed = page.listed
        /\ page'.items = page.items /\ page'.loading = page.loading
        /\ page'.selected = page.selected /\ page'.payload = page.payload
    BY <1>5, <2>1 DEF PageState
  <2>3. Shown(page') = Shown(page)
    BY <2>2 DEF Shown, Top
  <2>4. PageFits(page', asked, undecided')
    BY <1>3, <2>2, <2>3 DEF PageInv, PageFits
  <2>5. \A s \in inFlight' : ~Busy(s)
    BY <1>2, <2>1 DEF PageInv, OneIsBusy
  <2>6. \A s \in inFlight' : RequestFits(s, page', asked, undecided')
    BY <2>1, <2>2, <2>3, <2>5 DEF PageInv, RequestFits, Busy
  <2>7. OneIsBusy(inFlight', page', undecided')
    BY <2>2, <2>5 DEF OneIsBusy
  <2> QED  BY <1>1, <2>4, <2>6, <2>7 DEF PageInv
<1> QED  BY <1>6, <1>7

LEMMA PageSteps == PageInv /\ [PageNext]_pageVars => PageInv'
<1> SUFFICES ASSUME PageInv, [PageNext]_pageVars PROVE PageInv'
  OBVIOUS
<1>1. CASE UNCHANGED pageVars
  <2>1. page' = page /\ inFlight' = inFlight /\ asked' = asked /\ undecided' = undecided
    BY <1>1 DEF pageVars
  <2> QED  BY <2>1 DEF PageInv
<1>2. CASE PageNext
  BY <1>2, RequestSteps, ListSteps, SubmitSteps, OperatorSteps, bootstrapSteps, detailSteps, payloadSteps, listSteps,
     mutationSteps, Zenon DEF PageNext
<1> QED  BY <1>1, <1>2

\* Whatever order answers arrive in, fail or are overtaken: the page shows the key asked for last with
\* its own payload, the list its filters name, and keeps the operation it was not told the outcome of
\* (PageIsCurrent).
THEOREM PageIsAlwaysCurrent == PageSpec => [](PageTypeOK /\ PageIsCurrent)
<1>1. PageInv => PageTypeOK
  BY DEF PageInv, PageFits, PageState, Key, PageTypeOK
<1>2. PageInv => PageIsCurrent
  <2> SUFFICES ASSUME PageInv PROVE PageIsCurrent
    OBVIOUS
  <2> DEFINE running == {r \in inFlight : r.kind = "mutation"}
  <2>1. Cardinality(running) <= 1
    <3>1. CASE running = {}
      BY <3>1, FS_EmptySet
    <3>2. ASSUME NEW r \in running PROVE Cardinality(running) <= 1
      <4>1. running = {r}
        BY DEF PageInv, OneIsBusy, Busy
      <4>2. Cardinality({r}) = 1
        BY FS_Singleton
      <4> QED  BY <4>1, <4>2
    <3> QED  BY <3>1, <3>2
  <2>2. \A r \in running : r.for = undecided
    BY DEF PageInv, RequestFits
  <2>3. page.mutationLoading = (running # {} \/ \E r \in inFlight : r.ends)
    <3>1. (\E r \in inFlight : Busy(r)) <=> running # {} \/ \E r \in inFlight : r.ends
      BY DEF Busy
    <3>2. page.mutationLoading \in BOOLEAN
      BY DEF PageInv, PageFits, PageState
    <3> QED  BY <3>1, <3>2, Zenon DEF PageInv, OneIsBusy
  <2>4. undecided # "none" => page.pendingMutation = undecided \/ running # {}
    BY DEF PageInv, OneIsBusy
  <2>5. /\ page.selected \in {asked, "none"} /\ page.payload \in {page.selected, "none"}
        /\ ~page.loading => page.items \in {<<>>, <<page.applied, Top(page)>>}
        /\ page.pendingMutation \in {undecided, "none"}
    BY DEF PageInv, PageFits, Shown
  <2> QED  BY <2>1, <2>2, <2>3, <2>4, <2>5 DEF PageIsCurrent
<1> QED  BY <1>1, <1>2, PageStart, PageSteps, PTL DEF PageSpec

(***************************************************************************)
(* Webhooks.  A handler that runs without the lease of its claim is paid by *)
(* an expired lease.                                                        *)
(***************************************************************************)
HookResults == {"none", "ok", "retryable", "fatal"}
HookSending == [pc : {"idle", "preparing", "signing", "posting", "waiting", "settling"}, token : Nat \X Nat,
                stamp : Nat, key : Nat, result : HookResults]
HookPost == [by : HookSenders, token : Nat \X Nat, stamp : Nat, key : Nat, pc : {"sent", "handling", "answered"},
             claim : Nat \X Nat, status : {"none", "2xx", "3xx", "4xx", "408", "425", "429", "5xx"}]

HookTypes ==
    /\ hook \in Row /\ received \in Row /\ hookTick \in 0..LastHookTick
    /\ hookKeys.sender \in Nat /\ hookKeys \in [{"sender", "receiver"} -> Nat]
    /\ sending \in [HookSenders -> HookSending]
    /\ posts \subseteq HookPost /\ IsFiniteSet(posts)
    /\ hookEffects \in Nat /\ hookLapses \in Nat

\* What the sender has in hand, and its row, are founded on the receiver's row or on a refusal.
SenderIsFounded ==
    /\ \A s \in HookSenders : /\ sending[s].result = "ok" => Terminal(received)
                              /\ sending[s].result = "fatal" => refusals # {}
    /\ \A p \in posts : p.pc = "answered" /\ p.status = "2xx" => Terminal(received)
    /\ hook.state = "delivered" => Terminal(received)
    /\ hook.state = "dead" => hook.attempts >= HookAttempts \/ refusals # {}

\* The claims of the requests that are handled.
ClaimsAreApart(requests, row) ==
    /\ \A p \in requests : p.pc = "handling" => p.claim[2] <= row.attempts
    /\ \A p, q \in requests : p.pc = "handling" /\ q.pc = "handling" /\ p.claim = q.claim => p = q

\* Requests that are handled without their lease.
Stray(requests, row) == {p \in requests : p.pc = "handling" /\ ~Fenced(row, p.claim)}
EffectsArePaid ==
    hookEffects + Cardinality(Stray(posts, received)) <= hookLapses + (IF Terminal(received) THEN 1 ELSE 0)

HookInv == HookTypes /\ SenderIsFounded /\ ClaimsAreApart(posts, received) /\ EffectsArePaid

LEMMA HookStart == WebhooksInit => HookInv
<1> SUFFICES ASSUME WebhooksInit PROVE HookInv
  OBVIOUS
<1>1. AppendedRow(1) \in Row /\ AbsentRow \in Row /\ ~Terminal(AbsentRow)
  BY DEF AppendedRow, AbsentRow, Row, Terminal
<1>2. hook \in Row /\ hook.state = "pending"
  <2>1. hook = [AppendedRow(1) EXCEPT !.due = TRUE]
    BY DEF WebhooksInit
  <2> QED  BY <1>1, <2>1 DEF Row, AppendedRow
<1>3. NotSending \in HookSending /\ NotSending.result = "none"
  BY DEF NotSending, HookSending, HookResults
<1>4. posts = {} /\ IsFiniteSet(posts) /\ Stray(posts, received) = {} /\ Cardinality({}) = 0
  BY FS_EmptySet DEF WebhooksInit, Stray
<1>5. HookTypes
  BY <1>1, <1>2, <1>3, <1>4, WebhooksAssumption DEF WebhooksInit, HookTypes
<1>6. SenderIsFounded /\ ClaimsAreApart(posts, received)
  BY <1>2, <1>3, <1>4 DEF WebhooksInit, SenderIsFounded, ClaimsAreApart
<1>7. EffectsArePaid
  BY <1>4, <1>5 DEF WebhooksInit, EffectsArePaid
<1> QED  BY <1>5, <1>6, <1>7 DEF HookInv

\* Requests that are no longer handled cost nothing.
LEMMA FewerStray ==
    ASSUME NEW before, NEW after, IsFiniteSet(before), NEW row, NEW next0,
           Stray(after, next0) \subseteq Stray(before, row)
    PROVE  /\ Cardinality(Stray(after, next0)) \in Nat /\ Cardinality(Stray(before, row)) \in Nat
           /\ Cardinality(Stray(after, next0)) <= Cardinality(Stray(before, row))
<1>1. IsFiniteSet(Stray(before, row))
  BY FS_Subset DEF Stray
<1>2. IsFiniteSet(Stray(after, next0)) /\ Cardinality(Stray(after, next0)) <= Cardinality(Stray(before, row))
  BY <1>1, FS_Subset
<1> QED  BY <1>1, <1>2, FS_CardinalityType

\* The sender works on the delivery; the receiver and what it handles stay, or are lost.
LEMMA SenderMoves ==
    ASSUME HookInv, NEW s \in HookSenders, NEW h \in HookSending, sending' = [sending EXCEPT ![s] = h],
           UNCHANGED <<received, hookEffects, hookLapses, hookKeys, hookTick>>,
           hook' \in Row, refusals \subseteq refusals',
           posts' \subseteq HookPost, IsFiniteSet(posts'), \A p \in posts' : p \in posts \/ p.pc = "sent",
           h.result = "ok" => Terminal(received), h.result = "fatal" => refusals' # {},
           hook'.state = "delivered" => Terminal(received),
           hook'.state = "dead" => hook'.attempts >= HookAttempts \/ refusals' # {}
    PROVE  HookInv'
<1>1. HookTypes'
  BY DEF HookInv, HookTypes
<1>2. SenderIsFounded'
  <2>1. \A q \in HookSenders : sending'[q] = IF q = s THEN h ELSE sending[q]
    BY DEF HookInv, HookTypes
  <2> QED  BY <2>1 DEF HookInv, SenderIsFounded
<1>3. ClaimsAreApart(posts', received')
  BY DEF HookInv, ClaimsAreApart
<1>4. EffectsArePaid'
  <2>1. Stray(posts', received') \subseteq Stray(posts, received)
    BY DEF Stray
  <2>2. IsFiniteSet(posts)
    BY DEF HookInv, HookTypes
  <2>3. /\ Cardinality(Stray(posts', received')) \in Nat /\ Cardinality(Stray(posts, received)) \in Nat
        /\ Cardinality(Stray(posts', received')) <= Cardinality(Stray(posts, received))
    BY <2>1, <2>2, FewerStray
  <2> QED  BY <2>3 DEF HookInv, HookTypes, EffectsArePaid
<1> QED  BY <1>1, <1>2, <1>3, <1>4 DEF HookInv

LEMMA HookFacts ==
    HookInv => /\ hook \in Row /\ received \in Row /\ sending \in [HookSenders -> HookSending]
               /\ posts \subseteq HookPost /\ IsFiniteSet(posts)
               /\ hookEffects \in Nat /\ hookLapses \in Nat /\ hookTick \in Nat /\ hookKeys.sender \in Nat
  BY WebhooksAssumption DEF HookInv, HookTypes

LEMMA Classified ==
    ASSUME HookInv, NEW s \in HookSenders, NEW status, classify(s, status), status = "2xx" => Terminal(received),
           UNCHANGED <<hook, received, hookEffects, hookLapses, hookKeys, hookTick>>,
           posts' \subseteq posts
    PROVE  HookInv'
<1>1. PICK result \in {"ok", "retryable", "fatal"} :
         /\ SendingEnds(s, result) /\ refusals \subseteq refusals'
         /\ result = "ok" => status = "2xx"
         /\ result = "fatal" => refusals' # {}
  BY DEF classify, succeeds, Refusal
<1> DEFINE h == [sending[s] EXCEPT !.pc = "settling", !.result = result]
<1>2. h \in HookSending /\ h.result = result /\ sending' = [sending EXCEPT ![s] = h]
  BY <1>1, HookFacts DEF SendingEnds, HookSending, HookResults
<1>3. posts' \subseteq HookPost /\ IsFiniteSet(posts')
  BY HookFacts, FS_Subset
<1>4. /\ hook' \in Row /\ (hook'.state = "delivered" => Terminal(received))
      /\ hook'.state = "dead" => hook'.attempts >= HookAttempts \/ refusals' # {}
  BY <1>1 DEF HookInv, HookTypes, SenderIsFounded
<1>5. (h.result = "ok" => Terminal(received)) /\ (h.result = "fatal" => refusals' # {})
  BY <1>1, <1>2
<1>6. UNCHANGED <<received, hookEffects, hookLapses, hookKeys, hookTick>> /\ \A p \in posts' : p \in posts \/ p.pc = "sent"
  OBVIOUS
<1> HIDE DEF h
<1> QED  BY <1>1, <1>2, <1>3, <1>4, <1>5, <1>6, SenderMoves

\* What SenderMoves asks of a row and of requests that stay.
LEMMA SenderStays ==
    ASSUME HookInv, refusals \subseteq refusals', hook' = hook, posts' \subseteq posts
    PROVE  /\ hook' \in Row /\ (hook'.state = "delivered" => Terminal(received))
           /\ hook'.state = "dead" => hook'.attempts >= HookAttempts \/ refusals' # {}
           /\ posts' \subseteq HookPost /\ IsFiniteSet(posts') /\ \A p \in posts' : p \in posts \/ p.pc = "sent"
<1>1. posts' \subseteq HookPost /\ IsFiniteSet(posts')
  BY HookFacts, FS_Subset
<1>2. /\ hook' \in Row /\ (hook'.state = "delivered" => Terminal(received))
      /\ hook'.state = "dead" => hook'.attempts >= HookAttempts \/ refusals' # {}
  BY DEF HookInv, HookTypes, SenderIsFounded
<1> QED  BY <1>1, <1>2

LEMMA claimHookSteps ==
    ASSUME HookInv, NEW s \in HookSenders, claimHook(s)
    PROVE  HookInv'
<1>1. /\ hook' = Taken(hook) /\ UNCHANGED <<received, hookEffects, hookLapses, hookKeys, hookTick>>
      /\ posts' = posts /\ refusals' = refusals
      /\ sending' = [sending EXCEPT ![s] = [NotSending EXCEPT !.pc = "preparing", !.token = TokenOf(hook')]]
  BY DEF claimHook, receiverVars
<1>2. hook' \in Row /\ TokenOf(hook') \in Nat \X Nat /\ hook'.state = "processing"
  BY <1>1, HookFacts, TakenFits
<1> DEFINE h == [NotSending EXCEPT !.pc = "preparing", !.token = TokenOf(hook')]
<1>3. h \in HookSending /\ h.result = "none"
  BY <1>2 DEF NotSending, HookSending, HookResults
<1> HIDE DEF h
<1>4. posts' \subseteq HookPost /\ IsFiniteSet(posts') /\ \A p \in posts' : p \in posts \/ p.pc = "sent"
  BY <1>1, HookFacts
<1>5. sending' = [sending EXCEPT ![s] = h]
  BY <1>1 DEF h
<1> QED  BY <1>1, <1>2, <1>3, <1>4, <1>5, SenderMoves

Founded(h, why) == (h.result = "ok" => Terminal(received)) /\ (h.result = "fatal" => why # {})

LEMMA WorkingSteps ==
    ASSUME HookInv, NEW s \in HookSenders,
           \/ resolveSecret(s) \/ unanswered(s) \/ senderDies(s)
           \/ \E addresses \in SUBSET {"public", "private"} : prepareHook(s, addresses)
    PROVE  HookInv'
<1>1. ASSUME NEW result \in {"retryable", "fatal"}, SendingEnds(s, result), refusals \subseteq refusals',
             result = "fatal" => refusals' # {}
      PROVE  \E h \in HookSending : sending' = [sending EXCEPT ![s] = h] /\ Founded(h, refusals')
  <2> DEFINE h == [sending[s] EXCEPT !.pc = "settling", !.result = result]
  <2>1. h \in HookSending /\ h.result = result /\ sending' = [sending EXCEPT ![s] = h]
    BY <1>1, HookFacts DEF SendingEnds, HookSending, HookResults
  <2>2. Founded(h, refusals')
    BY <1>1, <2>1 DEF Founded
  <2> QED  BY <2>1, <2>2
<1>2. ASSUME NEW pc \in {"signing", "posting"}, NEW stamp \in Nat, NEW key \in Nat, refusals' = refusals,
             sending' = [sending EXCEPT ![s] = [sending[s] EXCEPT !.pc = pc, !.stamp = stamp, !.key = key]]
      PROVE  \E h \in HookSending : sending' = [sending EXCEPT ![s] = h] /\ Founded(h, refusals')
  <2> DEFINE h == [sending[s] EXCEPT !.pc = pc, !.stamp = stamp, !.key = key]
  <2>1. h \in HookSending /\ h.result = sending[s].result
    BY HookFacts DEF HookSending, HookResults
  <2>2. (sending[s].result = "ok" => Terminal(received)) /\ (sending[s].result = "fatal" => refusals # {})
    BY DEF HookInv, SenderIsFounded
  <2>3. Founded(h, refusals') /\ sending' = [sending EXCEPT ![s] = h]
    BY <1>2, <2>1, <2>2 DEF Founded
  <2> QED  BY <2>1, <2>3
<1>3. ASSUME senderDies(s)
      PROVE  \E h \in HookSending : sending' = [sending EXCEPT ![s] = h] /\ Founded(h, refusals')
  <2>1. NotSending \in HookSending /\ NotSending.result = "none"
    BY DEF NotSending, HookSending, HookResults
  <2>2. sending' = [sending EXCEPT ![s] = NotSending] /\ Founded(NotSending, refusals')
    BY <1>3, <2>1 DEF senderDies, Founded
  <2> QED  BY <2>1, <2>2
<1>4. ASSUME unanswered(s)
      PROVE  \E h \in HookSending : sending' = [sending EXCEPT ![s] = h] /\ Founded(h, refusals')
  <2>1. SendingEnds(s, "retryable") /\ refusals \subseteq refusals'
    BY <1>4 DEF unanswered
  <2> QED  BY <1>1, <2>1
<1>5. ASSUME resolveSecret(s)
      PROVE  \E h \in HookSending : sending' = [sending EXCEPT ![s] = h] /\ Founded(h, refusals')
  <2>1. CASE sending' = [sending EXCEPT ![s].pc = "posting", ![s].key = hookKeys.sender] /\ refusals' = refusals
    <3>1. PICK stamp \in Nat, key \in Nat : stamp = sending[s].stamp /\ key = hookKeys.sender
      BY HookFacts DEF HookSending
    <3>2. sending' = [sending EXCEPT ![s] = [sending[s] EXCEPT !.pc = "posting", !.stamp = stamp, !.key = key]]
      BY <2>1, <3>1, HookFacts DEF HookSending
    <3> QED  BY <1>2, <2>1, <3>2
  <2>2. CASE SendingEnds(s, "retryable") /\ refusals' = refusals
    BY <1>1, <2>2
  <2>3. CASE SendingEnds(s, "fatal") /\ Refusal("no key")
    <3>1. refusals \subseteq refusals' /\ refusals' # {}
      BY <2>3 DEF Refusal
    <3> QED  BY <1>1, <2>3, <3>1
  <2> QED  BY <1>5, <2>1, <2>2, <2>3 DEF resolveSecret
<1>6. ASSUME NEW addresses, prepareHook(s, addresses) PROVE \E h \in HookSending : sending' = [sending EXCEPT ![s] = h] /\ Founded(h, refusals')
  <2>1. CASE sending' = [sending EXCEPT ![s].pc = "signing", ![s].stamp = hookTick] /\ refusals' = refusals
    <3>1. PICK stamp \in Nat, key \in Nat : stamp = hookTick /\ key = sending[s].key
      BY HookFacts DEF HookSending
    <3>2. sending' = [sending EXCEPT ![s] = [sending[s] EXCEPT !.pc = "signing", !.stamp = stamp, !.key = key]]
      BY <2>1, <3>1, HookFacts DEF HookSending
    <3> QED  BY <1>2, <2>1, <3>2
  <2>2. CASE SendingEnds(s, "fatal") /\ Refusal("unsafe url")
    <3>1. refusals \subseteq refusals' /\ refusals' # {}
      BY <2>2 DEF Refusal
    <3> QED  BY <1>1, <2>2, <3>1
  <2> QED  BY <1>6, <2>1, <2>2 DEF prepareHook
<1>7. PICK h \in HookSending : sending' = [sending EXCEPT ![s] = h] /\ Founded(h, refusals')
  BY <1>3, <1>4, <1>5, <1>6
<1>8. UNCHANGED <<hook, received, hookEffects, hookLapses, hookKeys, hookTick>> /\ posts' = posts
  BY DEF resolveSecret, unanswered, senderDies, prepareHook, receiverVars
<1>9. refusals \subseteq refusals'
  BY DEF resolveSecret, unanswered, senderDies, prepareHook, Refusal
<1>10. /\ hook' \in Row /\ (hook'.state = "delivered" => Terminal(received))
       /\ hook'.state = "dead" => hook'.attempts >= HookAttempts \/ refusals' # {}
       /\ posts' \subseteq HookPost /\ IsFiniteSet(posts') /\ \A p \in posts' : p \in posts \/ p.pc = "sent"
  BY <1>8, <1>9, SenderStays
<1> QED  BY <1>7, <1>8, <1>9, <1>10, SenderMoves DEF Founded

LEMMA postHookSteps ==
    ASSUME HookInv, NEW s \in HookSenders, postHook(s)
    PROVE  HookInv'
<1> DEFINE new == [by |-> s, token |-> sending[s].token, stamp |-> sending[s].stamp, key |-> sending[s].key,
                   pc |-> "sent", claim |-> <<0, 0>>, status |-> "none"]
           h == [sending[s] EXCEPT !.pc = "waiting"]
<1>1. /\ posts' = posts \cup {new} /\ sending' = [sending EXCEPT ![s].pc = "waiting"]
      /\ UNCHANGED <<hook, received, hookEffects, hookLapses, hookKeys, hookTick>> /\ refusals' = refusals
  BY DEF postHook, receiverVars
<1>2. h \in HookSending /\ h.result = sending[s].result /\ sending' = [sending EXCEPT ![s] = h]
  BY <1>1, HookFacts DEF HookSending
<1>3. new \in HookPost /\ new.pc = "sent"
  BY HookFacts DEF HookSending, HookPost
<1> HIDE DEF new, h
<1>4. IsFiniteSet(posts')
  BY <1>1, HookFacts, FS_AddElement
<1>5. posts' \subseteq HookPost /\ \A p \in posts' : p \in posts \/ p.pc = "sent"
  BY <1>1, <1>3, HookFacts
<1>6. (h.result = "ok" => Terminal(received)) /\ (h.result = "fatal" => refusals' # {})
  BY <1>1, <1>2 DEF HookInv, SenderIsFounded
<1>7. /\ hook' \in Row /\ (hook'.state = "delivered" => Terminal(received))
      /\ hook'.state = "dead" => hook'.attempts >= HookAttempts \/ refusals' # {}
  BY <1>1 DEF HookInv, HookTypes, SenderIsFounded
<1> QED  BY <1>1, <1>2, <1>4, <1>5, <1>6, <1>7, SenderMoves

LEMMA AnsweringSteps ==
    ASSUME HookInv, NEW s \in HookSenders,
           \/ \E post \in posts : answered(s, post)
           \/ \E status \in {"3xx", "429", "5xx"} : intercepted(s, status)
    PROVE  HookInv'
<1>1. ASSUME NEW post \in posts, answered(s, post) PROVE HookInv'
  <2>1. /\ classify(s, post.status) /\ posts' = posts \ {post} /\ post.pc = "answered"
        /\ UNCHANGED <<hook, received, hookEffects, hookLapses, hookKeys, hookTick>>
    BY <1>1 DEF answered, receiverVars
  <2>2. post.status = "2xx" => Terminal(received)
    BY <2>1 DEF HookInv, SenderIsFounded
  <2>3. posts' \subseteq posts
    BY <2>1
  <2> QED  BY <2>1, <2>2, <2>3, Classified
<1>2. ASSUME NEW status \in {"3xx", "429", "5xx"}, intercepted(s, status) PROVE HookInv'
  <2>1. /\ classify(s, status) /\ posts' \subseteq posts
        /\ UNCHANGED <<hook, received, hookEffects, hookLapses, hookKeys, hookTick>>
    BY <1>2 DEF intercepted, receiverVars
  <2>2. status = "2xx" => Terminal(received)
    OBVIOUS
  <2> QED  BY <2>1, <2>2, Classified
<1> QED  BY <1>1, <1>2

LEMMA settleHookSteps ==
    ASSUME HookInv, NEW s \in HookSenders, settleHook(s)
    PROVE  HookInv'
<1>1. /\ sending' = [sending EXCEPT ![s] = NotSending] /\ refusals' = refusals /\ posts' = posts
      /\ UNCHANGED <<received, hookEffects, hookLapses, hookKeys, hookTick>>
  BY DEF settleHook, receiverVars
<1>2. NotSending \in HookSending /\ NotSending.result = "none"
  BY DEF NotSending, HookSending, HookResults
<1>3. PICK state \in {"pending", "delivered", "dead"} :
         /\ hook' = IF Fenced(hook, sending[s].token) THEN Settled(hook, state) ELSE hook
         /\ state = "delivered" => sending[s].result = "ok"
         /\ state = "dead" => sending[s].result = "fatal" \/ sending[s].token[2] >= HookAttempts
  BY Zenon DEF settleHook
<1>4. /\ hook' \in Row /\ (hook'.state = "delivered" => Terminal(received))
      /\ hook'.state = "dead" => hook'.attempts >= HookAttempts \/ refusals' # {}
  <2>1. (hook.state = "delivered" => Terminal(received)) /\ (hook.state = "dead" => hook.attempts >= HookAttempts \/ refusals # {})
    BY DEF HookInv, SenderIsFounded
  <2>2. CASE ~Fenced(hook, sending[s].token)
    BY <1>1, <1>3, <2>1, <2>2, HookFacts
  <2>3. CASE Fenced(hook, sending[s].token)
    <3>1. hook' = Settled(hook, state) /\ hook' \in Row /\ hook'.state = state
      BY <1>3, <2>3, HookFacts, SettledFits
    <3>2. hook'.attempts = hook.attempts /\ sending[s].token[2] = hook.attempts
      BY <2>3, <3>1, HookFacts DEF Settled, Row, Fenced, TokenOf
    <3>3. state = "delivered" => Terminal(received)
      BY <1>3 DEF HookInv, SenderIsFounded
    <3>4. state = "dead" => hook'.attempts >= HookAttempts \/ refusals' # {}
      BY <1>1, <1>3, <3>2 DEF HookInv, SenderIsFounded
    <3> QED  BY <3>1, <3>3, <3>4
  <2> QED  BY <2>2, <2>3
<1>5. posts' \subseteq HookPost /\ IsFiniteSet(posts') /\ \A p \in posts' : p \in posts \/ p.pc = "sent"
  BY <1>1, HookFacts
<1> QED  BY <1>1, <1>2, <1>4, <1>5, SenderMoves

\* The receiver moves on; what it has settled stays settled.
LEMMA ReceiverMoves ==
    ASSUME HookInv, UNCHANGED <<hook, sending, refusals, hookKeys, hookTick>>,
           received' \in Row, Terminal(received) => Terminal(received'),
           posts' \subseteq HookPost, IsFiniteSet(posts'),
           \A p \in posts' : p.pc = "answered" /\ p.status = "2xx" => p \in posts \/ Terminal(received'),
           ClaimsAreApart(posts', received'), hookEffects' \in Nat, hookLapses' \in Nat, EffectsArePaid'
    PROVE  HookInv'
<1>1. HookTypes'
  BY DEF HookInv, HookTypes
<1>2. SenderIsFounded'
  BY DEF HookInv, SenderIsFounded
<1> QED  BY <1>1, <1>2 DEF HookInv

\* The answer of a request.
LEMMA PostIsAnswered ==
    ASSUME HookInv, NEW post \in posts, NEW status \in {"2xx", "4xx", "5xx"}, AnswersPost(post, status)
    PROVE  /\ posts' \subseteq HookPost /\ IsFiniteSet(posts')
           /\ \A p \in posts' : (p \in posts /\ p # post) \/ (p.pc = "answered" /\ p.status = status)
<1> DEFINE answer == [post EXCEPT !.pc = "answered", !.status = status]
<1>1. answer \in HookPost /\ answer.pc = "answered" /\ answer.status = status
  BY HookFacts DEF HookPost
<1>2. posts' = (posts \ {post}) \cup {answer}
  BY DEF AnswersPost
<1> HIDE DEF answer
<1>3. IsFiniteSet(posts \ {post})
  BY HookFacts, FS_RemoveElement
<1>4. IsFiniteSet(posts')
  BY <1>2, <1>3, FS_AddElement
<1> QED  BY <1>1, <1>2, <1>4, HookFacts

LEMMA StrayFacts ==
    HookInv => /\ IsFiniteSet(Stray(posts, received)) /\ Cardinality(Stray(posts, received)) \in Nat
<1> SUFFICES ASSUME HookInv PROVE IsFiniteSet(Stray(posts, received)) /\ Cardinality(Stray(posts, received)) \in Nat
  OBVIOUS
<1>1. Stray(posts, received) \subseteq posts
  BY DEF Stray
<1> QED  BY <1>1, HookFacts, FS_Subset, FS_CardinalityType

LEMMA RefusingPosts ==
    ASSUME HookInv, NEW post \in posts, NEW status \in {"2xx", "4xx", "5xx"}, post.pc = "sent", AnswersPost(post, status),
           status = "2xx" => Terminal(received),
           UNCHANGED <<hook, sending, refusals, hookKeys, hookTick, received, hookEffects, hookLapses>>
    PROVE  HookInv'
<1>1. /\ posts' \subseteq HookPost /\ IsFiniteSet(posts')
      /\ \A p \in posts' : (p \in posts /\ p # post) \/ (p.pc = "answered" /\ p.status = status)
  BY PostIsAnswered
<1>2. ClaimsAreApart(posts', received')
  BY <1>1 DEF HookInv, ClaimsAreApart
<1>3. Stray(posts', received') \subseteq Stray(posts, received)
  BY <1>1 DEF Stray
<1>4. EffectsArePaid'
  BY <1>3, HookFacts, FewerStray DEF HookInv, EffectsArePaid
<1> QED  BY <1>1, <1>2, <1>4, HookFacts, ReceiverMoves

\* A new claim; the claims before it lost their lease.
LEMMA ClaimingPosts ==
    ASSUME HookInv, NEW post \in posts, received.state = "absent" \/ Claimable(received),
           received' = Taken(received),
           posts' = (posts \ {post}) \cup {[post EXCEPT !.pc = "handling", !.claim = TokenOf(received')]},
           UNCHANGED <<hook, sending, refusals, hookKeys, hookTick, hookEffects, hookLapses>>
    PROVE  HookInv'
<1> DEFINE handled == [post EXCEPT !.pc = "handling", !.claim = TokenOf(received')]
<1>1. /\ received' \in Row /\ TokenOf(received') \in Nat \X Nat /\ received'.state = "processing"
      /\ received'.attempts = received.attempts + 1 /\ received.attempts \in Nat
      /\ TokenOf(received')[2] = received.attempts + 1
  BY HookFacts, TakenFits DEF Taken, Row, TokenOf
<1>2. handled \in HookPost /\ handled.pc = "handling" /\ handled.claim = TokenOf(received')
  BY <1>1, HookFacts DEF HookPost
<1>3. posts' = (posts \ {post}) \cup {handled}
  OBVIOUS
<1> HIDE DEF handled
<1>4. posts' \subseteq HookPost /\ IsFiniteSet(posts')
  <2>1. IsFiniteSet(posts \ {post})
    BY HookFacts, FS_RemoveElement
  <2> QED  BY <1>2, <1>3, <2>1, HookFacts, FS_AddElement
<1>5. \A p \in posts : p.pc = "handling" => p.claim[2] <= received.attempts /\ p.claim[2] \in Nat
  BY HookFacts DEF HookInv, ClaimsAreApart, HookPost
<1>6. ClaimsAreApart(posts', received')
  <2>1. \A p \in posts' : p.pc = "handling" => p.claim[2] <= received'.attempts
    BY <1>1, <1>2, <1>3, <1>5
  <2>2. \A p, q \in posts' : p.pc = "handling" /\ q.pc = "handling" /\ p.claim = q.claim => p = q
    BY <1>1, <1>2, <1>3, <1>5 DEF HookInv, ClaimsAreApart
  <2> QED  BY <2>1, <2>2 DEF ClaimsAreApart
<1>7. Stray(posts', received') \subseteq Stray(posts, received)
  <2> SUFFICES ASSUME NEW p \in Stray(posts', received') PROVE p \in Stray(posts, received)
    OBVIOUS
  <2>1. p \in posts' /\ p.pc = "handling" /\ ~Fenced(received', p.claim)
    BY DEF Stray
  <2>2. p # handled
    BY <1>1, <1>2, <2>1, HookFacts, TakenFits DEF Fenced
  <2>3. ~Fenced(received, p.claim)
    BY DEF Fenced, Claimable
  <2> QED  BY <1>3, <2>1, <2>2, <2>3 DEF Stray
<1>8. EffectsArePaid'
  <2>1. ~Terminal(received) /\ ~Terminal(received')
    BY <1>1 DEF Claimable, Terminal
  <2> QED  BY <1>7, <2>1, HookFacts, FewerStray DEF HookInv, EffectsArePaid
<1>9. ~Terminal(received)
  BY DEF Claimable, Terminal
<1>10. \A p \in posts' : p.pc = "answered" /\ p.status = "2xx" => p \in posts \/ Terminal(received')
  BY <1>2, <1>3
<1> QED  BY <1>1, <1>4, <1>6, <1>8, <1>9, <1>10, HookFacts, ReceiverMoves

LEMMA receiveHookSteps ==
    ASSUME HookInv, NEW post \in posts, receiveHook(post)
    PROVE  HookInv'
<1>1. post.pc = "sent" /\ UNCHANGED <<hook, sending, refusals, hookKeys, hookTick, hookEffects, hookLapses>>
  BY DEF receiveHook, senderVars
<1>2. CASE AnswersPost(post, "4xx") /\ UNCHANGED received
  BY <1>1, <1>2, RefusingPosts
<1>3. CASE /\ received.state # "absent" /\ InboxRead(received) # "claimable"
           /\ AnswersPost(post, IF InboxRead(received) = "duplicate" THEN "2xx" ELSE "5xx") /\ UNCHANGED received
  <2>1. PICK status \in {"2xx", "5xx"} : /\ status = IF InboxRead(received) = "duplicate" THEN "2xx" ELSE "5xx"
                                         /\ AnswersPost(post, status)
    BY <1>3, Zenon
  <2>2. status = "2xx" => Terminal(received)
    BY <2>1 DEF InboxRead
  <2> QED  BY <1>1, <1>3, <2>1, <2>2, RefusingPosts
<1>4. CASE /\ received.state = "absent" \/ InboxRead(received) = "claimable"
           /\ received' = Taken(received)
           /\ posts' = (posts \ {post}) \cup {[post EXCEPT !.pc = "handling", !.claim = TokenOf(received')]}
  <2>1. received.state = "absent" \/ Claimable(received)
    BY <1>4, HookFacts DEF InboxRead, Claimable, Terminal, Row
  <2> QED  BY <1>1, <1>4, <2>1, ClaimingPosts
<1> QED  BY <1>2, <1>3, <1>4 DEF receiveHook

LEMMA consumeHookSteps ==
    ASSUME HookInv, NEW post \in posts, NEW result \in {"ok", "retryable", "fatal"}, consumeHook(post, result)
    PROVE  HookInv'
<1>1. /\ post.pc = "handling" /\ UNCHANGED <<hook, sending, refusals, hookKeys, hookTick, hookLapses>>
      /\ hookEffects' = IF result = "ok" THEN hookEffects + 1 ELSE hookEffects
  BY DEF consumeHook, senderVars
<1>2. PICK state \in {"pending", "delivered", "dead"}, status \in {"2xx", "4xx", "5xx"} :
         /\ received' = IF Fenced(received, post.claim) THEN Settled(received, state) ELSE received
         /\ AnswersPost(post, status)
         /\ result = "ok" => state = "delivered"
         /\ status = "2xx" => Fenced(received, post.claim) /\ state = "delivered"
  <2> DEFINE held == Fenced(received, post.claim)
             state == IF result = "ok" THEN "delivered"
                      ELSE IF result = "fatal" \/ post.claim[2] >= HookTries THEN "dead" ELSE "pending"
             status == IF ~held \/ state = "pending" THEN "5xx" ELSE IF state = "dead" THEN "4xx" ELSE "2xx"
  <2>1. /\ received' = IF held THEN Settled(received, state) ELSE received
        /\ AnswersPost(post, status)
    BY DEF consumeHook
  <2>2. state \in {"pending", "delivered", "dead"} /\ status \in {"2xx", "4xx", "5xx"}
    OBVIOUS
  <2>3. (result = "ok" => state = "delivered") /\ (status = "2xx" => held /\ state = "delivered")
    OBVIOUS
  <2> HIDE DEF state, status, held
  <2>4. \E a \in {"pending", "delivered", "dead"}, b \in {"2xx", "4xx", "5xx"} :
           /\ received' = IF held THEN Settled(received, a) ELSE received
           /\ AnswersPost(post, b)
           /\ result = "ok" => a = "delivered"
           /\ b = "2xx" => held /\ a = "delivered"
    BY <2>1, <2>2, <2>3, Zenon
  <2> QED  BY <2>4 DEF held
<1>3. /\ posts' \subseteq HookPost /\ IsFiniteSet(posts')
      /\ \A p \in posts' : (p \in posts /\ p # post) \/ (p.pc = "answered" /\ p.status = status)
  BY <1>2, PostIsAnswered
<1>4. hookEffects' \in Nat /\ hookLapses' \in Nat
  BY <1>1, HookFacts
<1>5. CASE Fenced(received, post.claim)
  <2>1. received' = Settled(received, state) /\ received' \in Row /\ received'.state = state /\ received'.attempts = received.attempts
    BY <1>2, <1>5, HookFacts, SettledFits DEF Settled, Row
  <2>2. ~Terminal(received) /\ (Terminal(received') <=> state # "pending")
    BY <1>5, <2>1 DEF Fenced, Terminal
  <2>3. ClaimsAreApart(posts', received')
    BY <1>3, <2>1 DEF HookInv, ClaimsAreApart
  <2>4. Stray(posts', received') \subseteq Stray(posts, received)
    <3>1. \A p \in posts : p.pc = "handling" /\ p # post => ~Fenced(received, p.claim)
      BY <1>1, <1>5 DEF HookInv, ClaimsAreApart, Fenced
    <3> QED  BY <1>3, <3>1 DEF Stray
  <2>5. /\ Cardinality(Stray(posts', received')) \in Nat /\ Cardinality(Stray(posts, received)) \in Nat
        /\ Cardinality(Stray(posts', received')) <= Cardinality(Stray(posts, received))
    BY <2>4, HookFacts, FewerStray
  <2>6. EffectsArePaid'
    BY <1>1, <1>2, <2>2, <2>5, HookFacts DEF HookInv, EffectsArePaid
  <2> QED  BY <1>1, <1>2, <1>3, <1>4, <2>1, <2>2, <2>3, <2>6, ReceiverMoves
<1>6. CASE ~Fenced(received, post.claim)
  <2>1. received' = received
    BY <1>2, <1>6
  <2>2. ClaimsAreApart(posts', received')
    BY <1>3, <2>1 DEF HookInv, ClaimsAreApart
  <2>3. post \in Stray(posts, received) /\ Stray(posts', received') \subseteq Stray(posts, received) \ {post}
    BY <1>1, <1>3, <1>6, <2>1 DEF Stray
  <2>4. /\ IsFiniteSet(Stray(posts, received) \ {post})
        /\ Cardinality(Stray(posts, received) \ {post}) = Cardinality(Stray(posts, received)) - 1
    BY <2>3, StrayFacts, FS_RemoveElement
  <2>5. /\ IsFiniteSet(Stray(posts', received'))
        /\ Cardinality(Stray(posts', received')) <= Cardinality(Stray(posts, received) \ {post})
    BY <2>3, <2>4, FS_Subset
  <2>6. Cardinality(Stray(posts', received')) \in Nat /\ Cardinality(Stray(posts, received)) \in Nat
    BY <2>5, StrayFacts, FS_CardinalityType
  <2>7. EffectsArePaid'
    BY <1>1, <2>1, <2>4, <2>5, <2>6, HookFacts DEF HookInv, EffectsArePaid
  <2>8. status # "2xx" /\ received' \in Row
    BY <1>2, <1>6, <2>1, HookFacts
  <2> QED  BY <1>1, <1>3, <1>4, <2>1, <2>2, <2>7, <2>8, ReceiverMoves
<1> QED  BY <1>5, <1>6

LEMMA receiverDiesSteps ==
    ASSUME HookInv, NEW post \in posts, receiverDies(post)
    PROVE  HookInv'
<1>1. posts' = posts \ {post} /\ UNCHANGED <<hook, sending, refusals, hookKeys, hookTick, received, hookEffects, hookLapses>>
  BY DEF receiverDies, senderVars, receiverVars
<1>2. posts' \subseteq HookPost /\ IsFiniteSet(posts')
  BY <1>1, HookFacts, FS_RemoveElement
<1>3. ClaimsAreApart(posts', received') /\ Stray(posts', received') \subseteq Stray(posts, received)
  BY <1>1 DEF HookInv, ClaimsAreApart, Stray
<1>4. EffectsArePaid'
  BY <1>1, <1>3, HookFacts, FewerStray DEF HookInv, EffectsArePaid
<1> QED  BY <1>1, <1>2, <1>3, <1>4, HookFacts, ReceiverMoves

\* The lease of one request at most expires, and its effect is paid for.
LEMMA inboxLeaseExpiresSteps ==
    ASSUME HookInv, inboxLeaseExpires
    PROVE  HookInv'
<1>1. /\ received.state = "processing" /\ received' = [received EXCEPT !.live = FALSE] /\ hookLapses' = hookLapses + 1
      /\ UNCHANGED <<hook, sending, refusals, hookKeys, hookTick, posts, hookEffects>>
  BY DEF inboxLeaseExpires, senderVars
<1>2. /\ received' \in Row /\ received'.attempts = received.attempts /\ received'.state = "processing" /\ received'.live = FALSE
  <2>1. received' \in Row
    BY <1>1, HookFacts, Zenon DEF Row
  <2> QED  BY <1>1, <2>1, HookFacts DEF Row
<1>3. ClaimsAreApart(posts', received')
  BY <1>1, <1>2 DEF HookInv, ClaimsAreApart
<1>4. PICK x : Stray(posts', received') \subseteq Stray(posts, received) \cup {x}
  <2>1. CASE \E x \in posts : x.pc = "handling" /\ Fenced(received, x.claim)
    <3>1. PICK x \in posts : x.pc = "handling" /\ Fenced(received, x.claim)
      BY <2>1
    <3>2. \A p \in posts : p.pc = "handling" /\ Fenced(received, p.claim) => p = x
      BY <3>1 DEF HookInv, ClaimsAreApart, Fenced
    <3> QED  BY <1>1, <3>2 DEF Stray
  <2>2. CASE ~\E x \in posts : x.pc = "handling" /\ Fenced(received, x.claim)
    BY <1>1, <2>2 DEF Stray
  <2> QED  BY <2>1, <2>2
<1>5. /\ IsFiniteSet(Stray(posts, received) \cup {x})
      /\ Cardinality(Stray(posts, received) \cup {x}) <= Cardinality(Stray(posts, received)) + 1
      /\ Cardinality(Stray(posts, received)) \in Nat
  BY StrayFacts, FS_AddElement
<1>6. /\ Cardinality(Stray(posts', received')) <= Cardinality(Stray(posts, received) \cup {x})
      /\ Cardinality(Stray(posts', received')) \in Nat /\ Cardinality(Stray(posts, received) \cup {x}) \in Nat
  BY <1>4, <1>5, FS_Subset, FS_CardinalityType
<1>7. ~Terminal(received) /\ ~Terminal(received')
  BY <1>1, <1>2 DEF Terminal
<1>8. EffectsArePaid'
  BY <1>1, <1>5, <1>6, <1>7, HookFacts DEF HookInv, EffectsArePaid
<1> QED  BY <1>1, <1>2, <1>3, <1>7, <1>8, HookFacts, ReceiverMoves

LEMMA HookTimeSteps ==
    HookInv /\ (hookLeaseExpires \/ hookRetryIsDue \/ hookTicks \/ \E side \in {"sender", "receiver"} : rotate(side)) => HookInv'
<1>1. ASSUME HookInv, NEW row \in Row, row.state = hook.state, row.attempts = hook.attempts, hook' = row,
             UNCHANGED <<sending, refusals, receiverVars, posts, hookKeys, hookTick>>
      PROVE  HookInv'
  <2>1. UNCHANGED <<sending, refusals, received, hookEffects, hookLapses, posts, hookKeys, hookTick>>
    BY <1>1 DEF receiverVars
  <2>2. HookTypes' /\ SenderIsFounded' /\ ClaimsAreApart(posts', received')
    BY <1>1, <2>1 DEF HookInv, HookTypes, SenderIsFounded, ClaimsAreApart
  <2>3. EffectsArePaid'
    BY <1>1, <2>1 DEF HookInv, EffectsArePaid
  <2> QED  BY <2>2, <2>3 DEF HookInv
<1>2. ASSUME HookInv, hookLeaseExpires PROVE HookInv'
  <2>1. [hook EXCEPT !.live = FALSE] \in Row
    BY <1>2, HookFacts, Zenon DEF Row
  <2>2. hook' = [hook EXCEPT !.live = FALSE] /\ UNCHANGED <<sending, refusals, receiverVars, posts, hookKeys, hookTick>>
    BY <1>2 DEF hookLeaseExpires
  <2>3. hook'.state = hook.state /\ hook'.attempts = hook.attempts
    BY <1>2, <2>2, HookFacts DEF Row
  <2> QED  BY <1>1, <1>2, <2>1, <2>2, <2>3
<1>3. ASSUME HookInv, hookRetryIsDue PROVE HookInv'
  <2>1. CASE hook' = [hook EXCEPT !.due = TRUE] /\ UNCHANGED received
    <3>1. [hook EXCEPT !.due = TRUE] \in Row
      BY <1>3, HookFacts, Zenon DEF Row
    <3>2. UNCHANGED <<sending, refusals, receiverVars, posts, hookKeys, hookTick>>
      BY <1>3, <2>1 DEF hookRetryIsDue, receiverVars
    <3>3. hook'.state = hook.state /\ hook'.attempts = hook.attempts
      BY <1>3, <2>1, HookFacts DEF Row
    <3> QED  BY <1>1, <1>3, <2>1, <3>1, <3>2, <3>3
  <2>2. CASE received.state = "pending" /\ received' = [received EXCEPT !.due = TRUE] /\ UNCHANGED hook
    <3>1. received' \in Row
      BY <1>3, <2>2, HookFacts, Zenon DEF Row
    <3>2. received'.state = "pending" /\ received'.attempts = received.attempts
      BY <1>3, <2>2, <3>1, HookFacts DEF Row
    <3>3. UNCHANGED <<hook, sending, refusals, posts, hookKeys, hookTick, hookEffects, hookLapses>>
      BY <1>3, <2>2 DEF hookRetryIsDue
    <3>4. ClaimsAreApart(posts', received') /\ Stray(posts', received') \subseteq Stray(posts, received)
      BY <1>3, <2>2, <3>2, <3>3 DEF HookInv, ClaimsAreApart, Stray, Fenced
    <3>5. ~Terminal(received) /\ ~Terminal(received')
      BY <2>2, <3>2 DEF Terminal
    <3>6. EffectsArePaid'
      BY <1>3, <3>3, <3>4, <3>5, HookFacts, FewerStray DEF HookInv, EffectsArePaid
    <3> QED  BY <1>3, <3>1, <3>3, <3>4, <3>5, <3>6, HookFacts, ReceiverMoves
  <2> QED  BY <1>3, <2>1, <2>2 DEF hookRetryIsDue
<1>4. ASSUME HookInv, UNCHANGED <<hook, sending, refusals, received, hookEffects, hookLapses, posts>>,
             hookTick' \in 0..LastHookTick, hookKeys'.sender \in Nat, hookKeys' \in [{"sender", "receiver"} -> Nat]
      PROVE  HookInv'
  <2>1. HookTypes' /\ SenderIsFounded' /\ ClaimsAreApart(posts', received') /\ EffectsArePaid'
    BY <1>4 DEF HookInv, HookTypes, SenderIsFounded, ClaimsAreApart, EffectsArePaid
  <2> QED  BY <2>1 DEF HookInv
<1>5. ASSUME HookInv, hookTicks PROVE HookInv'
  <2>1. hookTick' \in 0..LastHookTick /\ UNCHANGED <<hook, sending, refusals, received, hookEffects, hookLapses, posts, hookKeys>>
    BY <1>5, WebhooksAssumption DEF hookTicks, senderVars, receiverVars, HookInv, HookTypes
  <2> QED  BY <1>4, <1>5, <2>1 DEF HookInv, HookTypes
<1>6. ASSUME HookInv, NEW side \in {"sender", "receiver"}, rotate(side) PROVE HookInv'
  <2>1. hookKeys' = [hookKeys EXCEPT ![side] = @ + 1] /\ UNCHANGED <<hook, sending, refusals, received, hookEffects, hookLapses, posts, hookTick>>
    BY <1>6 DEF rotate, senderVars, receiverVars
  <2>2. hookKeys' \in [{"sender", "receiver"} -> Nat]
    BY <1>6, <2>1 DEF HookInv, HookTypes
  <2>3. hookKeys'.sender \in Nat
    BY <2>2
  <2>4. hookTick' \in 0..LastHookTick
    BY <1>6, <2>1 DEF HookInv, HookTypes
  <2> QED  BY <1>4, <1>6, <2>1, <2>2, <2>3, <2>4
<1> QED  BY <1>2, <1>3, <1>5, <1>6

LEMMA HookSteps == HookInv /\ [WebhooksNext]_webhookVars => HookInv'
<1> SUFFICES ASSUME HookInv, [WebhooksNext]_webhookVars PROVE HookInv'
  OBVIOUS
<1>1. CASE UNCHANGED webhookVars
  <2>1. UNCHANGED <<hook, sending, refusals, received, hookEffects, hookLapses, posts, hookKeys, hookTick>>
    BY <1>1 DEF webhookVars, senderVars, receiverVars
  <2>2. HookTypes' /\ SenderIsFounded' /\ ClaimsAreApart(posts', received') /\ EffectsArePaid'
    BY <2>1 DEF HookInv, HookTypes, SenderIsFounded, ClaimsAreApart, EffectsArePaid
  <2> QED  BY <2>2 DEF HookInv
<1>2. CASE WebhooksNext
  BY <1>2, HookTimeSteps, inboxLeaseExpiresSteps, claimHookSteps, WorkingSteps, postHookSteps, AnsweringSteps,
     settleHookSteps, receiveHookSteps, consumeHookSteps, receiverDiesSteps, Zenon DEF WebhooksNext
<1> QED  BY <1>1, <1>2

\* Whatever the network, the clocks, the keys and the processes of either side do: what the sender
\* books as delivered the receiver has settled, a delivery is given up on good grounds, and each
\* further success of the handler was paid by an expired lease (WebhooksAreAccountable).
THEOREM WebhooksAreAlwaysAccountable == WebhooksSpec => [](WebhooksTypeOK /\ WebhooksAreAccountable)
<1>1. HookInv => WebhooksTypeOK
  BY DEF HookInv, HookTypes, HookPost, WebhooksTypeOK
<1>2. HookInv => WebhooksAreAccountable
  BY StrayFacts, HookFacts DEF HookInv, SenderIsFounded, EffectsArePaid, WebhooksAreAccountable
<1> QED  BY <1>1, <1>2, HookStart, HookSteps, PTL DEF WebhooksSpec

(***************************************************************************)
(* Retries and discards of dead letters.  The server that inserted the      *)
(* receipt of an operation is the only one that may act for it.             *)
(***************************************************************************)
Drizzle == {"update", "marker", "row", "reconcile"}
Bull == {"load", "state", "fence", "reload", "restate", "retry"}
Working == {"update", "marker", "row", "fail", "fence", "reload", "restate", "retry"}
Held == Working \union {"finalize", "reconcile"}
ServerPcs == {"authorize", "body", "lookup", "insert", "raced", "finalize", "fail"} \union Drizzle \union Bull
ServerState == [pc : ServerPcs, request : LetterRequests, seen : Nat, failure : Failures \union {"none"}]
Receipt == [status : {"pending", "committed", "failed"}, request : LetterRequests, failure : Failures \union {"none"}]

Able(from, r) == from = "reliability" \/ r.action = "retry"
Works(v) == v.pc \in Working
\* The job was retried since the revision that the request names.
Passed(l, r) == l.revision > r.revision \/ (l.state = "alive" /\ l.revision >= r.revision)
\* A server that may still retry the job.
Danger(v) == v.pc = "retry" \/ (v.pc = "restate" /\ v.seen = v.request.revision)

LetterTypes ==
    /\ source \in {"reliability", "bullmq"}
    /\ letter \in [state : {"dead", "alive"}, disposition : {"active", "discarded"}, revision : Nat,
                   marker : Operations \union {"none"}, batchChild : BOOLEAN]
    /\ letter.revision <= MaxLetterRevision + 1 /\ letterFaults \in 0..MaxLetterFaults
    /\ IF source = "bullmq" THEN letter.revision <= MaxLetterRevision ELSE ~letter.batchChild
    /\ letter.state = "dead" /\ letter.disposition = "active" => letter.revision <= MaxLetterRevision
    /\ receipts \in [Operations -> {NoReceipt} \union Receipt]
    /\ serving \in [Servers -> {Idle} \union ServerState]
    /\ effects \in [LetterRequests -> Nat \X Nat]

\* A server, with the receipt of its operation and how often its request acted.
ServerFits(v, from, l, receipt, times) ==
    /\ v.request.revision <= l.revision
    /\ v.pc \notin {"authorize", "body"} => Able(from, v.request)
    /\ v.pc \in Bull => from = "bullmq"
    /\ v.pc \in Drizzle => from = "reliability"
    /\ v.pc = "insert" => ~l.batchChild
    /\ v.pc \in Held => receipt.status # "none" /\ receipt.request = v.request
    /\ Works(v) => times = 0 /\ receipt.status = "pending"
    /\ v.pc = "finalize" => times = 1
    /\ v.failure # "none" =>
          \/ v.pc = "fail"
          \/ v.pc = "raced" /\ from = "bullmq" /\ v.failure = "not_found" /\ Passed(l, v.request)

ServersFit ==
    /\ \A s \in Servers : serving[s] # Idle =>
          ServerFits(serving[s], source, letter, receipts[serving[s].request.op], effects[serving[s].request][1])
    /\ \A s, t \in Servers : /\ serving[s] # Idle /\ serving[t] # Idle /\ Works(serving[s]) /\ Works(serving[t])
                             /\ serving[s].request.op = serving[t].request.op
                             => s = t

ReceiptsFit ==
    /\ \A o \in Operations : receipts[o].status # "none" =>
          LET r == receipts[o].request IN
          /\ r.op = o /\ Able(source, r) /\ ~letter.batchChild
          /\ receipts[o].status = "committed" => effects[r][1] = 1
          /\ receipts[o].status = "failed" => effects[r][1] = 0
    /\ letter.marker # "none" =>
          receipts[letter.marker].status # "none" /\ effects[receipts[letter.marker].request][1] = 1

EffectsFit ==
    \A r \in LetterRequests :
        /\ effects[r][1] <= 1
        /\ effects[r][1] > 0 => receipts[r.op].status # "none" /\ receipts[r.op].request = r
        /\ source = "reliability" => effects[r][2] = 0

\* Requests that did not act and never will.
Refused(r) ==
    \/ receipts[r.op].status = "failed" /\ receipts[r.op].request = r
    \/ ~Able(source, r)
    \/ letter.batchChild
    \/ /\ source = "bullmq" /\ Passed(letter, r) /\ effects[r][1] = 0
       /\ \A s \in Servers : serving[s] # Idle /\ serving[s].request = r => ~Danger(serving[s])
AnswerFits(a) ==
    /\ a.request \in LetterRequests /\ a.early \in BOOLEAN
    /\ IF a.early
       THEN a.answer = "invalid_state" /\ source = "bullmq" /\ a.request.action = "retry" /\ a.request.later
       ELSE /\ a.answer = "committed" => effects[a.request][1] = 1
            /\ a.answer \in Failures => Refused(a.request)

LettersInv == LetterTypes /\ ServersFit /\ ReceiptsFit /\ EffectsFit /\ \A a \in answers : AnswerFits(a)

LEMMA LettersStart == DeadLettersInit => LettersInv
<1> SUFFICES ASSUME DeadLettersInit PROVE LettersInv
  OBVIOUS
<1>1. PICK batch \in BOOLEAN : (batch => source = "bullmq") /\
         letter = [state |-> "dead", disposition |-> "active", revision |-> 0, marker |-> "none", batchChild |-> batch]
  BY DEF DeadLettersInit
<1>2. /\ source \in {"reliability", "bullmq"} /\ answers = {} /\ letterFaults = 0
      /\ receipts = [o \in Operations |-> NoReceipt] /\ serving = [s \in Servers |-> Idle]
      /\ effects = [r \in LetterRequests |-> <<0, 0>>]
  BY DeadLettersAssumption DEF DeadLettersInit
<1>3. LetterTypes
  BY <1>1, <1>2, DeadLettersAssumption DEF LetterTypes
<1>4. \A r \in LetterRequests : effects[r][1] = 0 /\ effects[r][2] = 0
  BY <1>2
<1>5. \A o \in Operations : receipts[o].status = "none"
  BY <1>2 DEF NoReceipt
<1>6. \A s \in Servers : serving[s] = Idle
  BY <1>2
<1>7. letter.marker = "none"
  BY <1>1
<1> QED  BY <1>2, <1>3, <1>4, <1>5, <1>6, <1>7 DEF LettersInv, ServersFit, ReceiptsFit, EffectsFit

\* Facts of a server that is not idle.
LEMMA ServerFacts ==
    ASSUME LettersInv, NEW s \in Servers, serving[s] # Idle
    PROVE  /\ serving[s] \in ServerState /\ serving[s].request \in LetterRequests /\ serving[s].request.op \in Operations
           /\ serving[s].request.revision \in Nat
           /\ ServerFits(serving[s], source, letter, receipts[serving[s].request.op], effects[serving[s].request][1])
           /\ receipts[serving[s].request.op] \in {NoReceipt} \union Receipt
           /\ effects[serving[s].request] \in Nat \X Nat
<1>1. serving[s] \in ServerState
  BY DEF LettersInv, LetterTypes
<1>2. serving[s].request \in LetterRequests
  BY <1>1 DEF ServerState
<1>3. serving[s].request.op \in Operations /\ serving[s].request.revision \in Nat
  BY <1>2, DeadLettersAssumption DEF Operations
<1> QED  BY <1>1, <1>2, <1>3 DEF LettersInv, LetterTypes, ServersFit

LEMMA NotIdle ==
    ASSUME NEW v, NEW pc \in ServerPcs, v.pc = pc
    PROVE  v # Idle
  BY DEF Idle, ServerPcs, Drizzle, Bull

\* A server moves on or answers; the letter, the receipts and the effects stay.
LEMMA ServerMoves ==
    ASSUME LettersInv, NEW s \in Servers, NEW n \in {Idle} \union ServerState, serving' = [serving EXCEPT ![s] = n],
           UNCHANGED <<source, letter, receipts, effects>>, letterFaults' \in 0..MaxLetterFaults,
           n # Idle => ServerFits(n, source, letter, receipts[n.request.op], effects[n.request][1]),
           n # Idle /\ Works(n) => serving[s] # Idle /\ Works(serving[s]) /\ n.request = serving[s].request,
           n # Idle /\ Danger(n) => \/ serving[s] # Idle /\ Danger(serving[s]) /\ n.request = serving[s].request
                                    \/ ~Passed(letter, n.request),
           \A a \in answers' : a \in answers \/ AnswerFits(a)
    PROVE  LettersInv'
<1>1. serving' \in [Servers -> {Idle} \union ServerState] /\ \A t \in Servers : serving'[t] = IF t = s THEN n ELSE serving[t]
  BY DEF LettersInv, LetterTypes
<1>2. LetterTypes'
  BY <1>1 DEF LettersInv, LetterTypes
<1>3. ServersFit'
  <2>1. ASSUME NEW t \in Servers, serving'[t] # Idle
        PROVE  ServerFits(serving'[t], source, letter, receipts[serving'[t].request.op], effects[serving'[t].request][1])
    BY <1>1, <2>1 DEF LettersInv, ServersFit
  <2>2. ASSUME NEW t \in Servers, NEW u \in Servers, serving'[t] # Idle, serving'[u] # Idle, Works(serving'[t]), Works(serving'[u]),
               serving'[t].request.op = serving'[u].request.op
        PROVE  t = u
    BY <1>1, <2>2 DEF LettersInv, ServersFit
  <2> QED  BY <2>1, <2>2 DEF ServersFit
<1>4. ReceiptsFit' /\ EffectsFit'
  BY DEF LettersInv, ReceiptsFit, EffectsFit
<1>5. ASSUME NEW r, Refused(r) PROVE Refused(r)'
  <2>1. CASE /\ source = "bullmq" /\ Passed(letter, r) /\ effects[r][1] = 0
             /\ \A t \in Servers : serving[t] # Idle /\ serving[t].request = r => ~Danger(serving[t])
    <3>1. ASSUME NEW t \in Servers, serving'[t] # Idle, serving'[t].request = r PROVE ~Danger(serving'[t])
      BY <1>1, <2>1, <3>1
    <3> QED  BY <2>1, <3>1 DEF Refused
  <2>2. CASE (receipts[r.op].status = "failed" /\ receipts[r.op].request = r) \/ ~Able(source, r) \/ letter.batchChild
    BY <2>2 DEF Refused
  <2> QED  BY <1>5, <2>1, <2>2 DEF Refused
<1>6. ASSUME NEW a \in answers' PROVE AnswerFits(a)'
  <2>1. AnswerFits(a)
    BY <1>6 DEF LettersInv
  <2> QED  BY <1>5, <2>1 DEF AnswerFits
<1> QED  BY <1>2, <1>3, <1>4, <1>6 DEF LettersInv

\* The receipt of an operation is inserted: its server is the only one that works for it.
LEMMA ReceiptIsInserted ==
    ASSUME LettersInv, NEW s \in Servers, serving[s] # Idle, ~Reserved(s), receipts' = Reservation(s),
           NEW n \in {Idle} \union ServerState, serving' = [serving EXCEPT ![s] = n],
           Able(source, Request(s)), ~letter.batchChild,
           n # Idle => n.request = Request(s) /\ ~Danger(n)
                       /\ ServerFits(n, source, letter, [status |-> "pending", request |-> Request(s), failure |-> "none"], 0),
           UNCHANGED <<source, letter, effects, answers>>, letterFaults' \in 0..MaxLetterFaults
    PROVE  LettersInv'
<1> DEFINE o == Request(s).op
           receipt == [status |-> "pending", request |-> Request(s), failure |-> "none"]
<1>1. /\ Request(s) \in LetterRequests /\ o \in Operations /\ receipts[o].status = "none"
  BY ServerFacts DEF Request, Reserved
<1>2. receipt \in Receipt /\ receipt.status = "pending" /\ receipt.request = Request(s)
  BY <1>1 DEF Receipt
<1>3. receipts' = [receipts EXCEPT ![o] = receipt]
  BY DEF Reservation
<1> HIDE DEF receipt, o
<1>4. /\ receipts' \in [Operations -> {NoReceipt} \union Receipt] /\ receipts'[o] = receipt
      /\ \A q \in Operations : q # o => receipts'[q] = receipts[q]
  BY <1>1, <1>2, <1>3 DEF LettersInv, LetterTypes
<1>5. serving' \in [Servers -> {Idle} \union ServerState] /\ \A t \in Servers : serving'[t] = IF t = s THEN n ELSE serving[t]
  BY DEF LettersInv, LetterTypes
<1>6. LetterTypes'
  BY <1>4, <1>5 DEF LettersInv, LetterTypes
<1>7. \A r \in LetterRequests : r.op \in Operations /\ effects[r] \in Nat \X Nat /\ (r.op = o => effects[r][1] = 0)
  BY <1>1 DEF LettersInv, LetterTypes, EffectsFit, Operations
<1>8. \A t \in Servers : serving[t] # Idle /\ serving[t].request.op = o => serving[t].pc \notin Held
  <2> SUFFICES ASSUME NEW t \in Servers, serving[t] # Idle, serving[t].request.op = o PROVE serving[t].pc \notin Held
    OBVIOUS
  <2>1. ServerFits(serving[t], source, letter, receipts[o], effects[serving[t].request][1])
    BY ServerFacts
  <2> QED  BY <1>1, <2>1 DEF ServerFits
<1>9. ServersFit'
  <2>1. ASSUME NEW t \in Servers, serving'[t] # Idle
        PROVE  ServerFits(serving'[t], source, letter, receipts'[serving'[t].request.op], effects[serving'[t].request][1])
    <3>1. CASE t = s
      <4>1. serving'[t] = n /\ n.request = Request(s) /\ n.request.op = o /\ effects[n.request][1] = 0
        BY <1>1, <1>5, <1>7, <2>1, <3>1 DEF o
      <4>2. ServerFits(n, source, letter, receipt, 0)
        BY <1>5, <2>1, <3>1 DEF receipt
      <4> QED  BY <1>4, <4>1, <4>2
    <3>2. CASE t # s /\ serving[t].request.op # o
      BY <1>4, <1>5, <2>1, <3>2, ServerFacts
    <3>3. CASE t # s /\ serving[t].request.op = o
      <4>1. /\ serving'[t] = serving[t] /\ serving[t].pc \notin Held /\ ~Works(serving[t])
            /\ ServerFits(serving[t], source, letter, receipts[o], effects[serving[t].request][1])
        BY <1>5, <1>8, <2>1, <3>3, ServerFacts DEF Works, Held
      <4> QED  BY <3>3, <4>1 DEF ServerFits
    <3> QED  BY <3>1, <3>2, <3>3
  <2>2. ASSUME NEW t \in Servers, NEW u \in Servers, serving'[t] # Idle, serving'[u] # Idle, Works(serving'[t]), Works(serving'[u]),
               serving'[t].request.op = serving'[u].request.op
        PROVE  t = u
    <3>1. n # Idle => n.request.op = o
      BY DEF o
    <3>2. \A v \in Servers : v # s /\ serving'[v] # Idle /\ Works(serving'[v]) => serving[v].request.op # o
      BY <1>5, <1>8 DEF Works, Held
    <3> QED  BY <1>5, <2>2, <3>1, <3>2 DEF LettersInv, ServersFit
  <2> QED  BY <2>1, <2>2 DEF ServersFit
<1>10. ReceiptsFit'
  <2>1. ASSUME NEW q \in Operations, receipts'[q].status # "none"
        PROVE  LET r == receipts'[q].request IN
               /\ r.op = q /\ Able(source, r) /\ ~letter.batchChild
               /\ receipts'[q].status = "committed" => effects[r][1] = 1
               /\ receipts'[q].status = "failed" => effects[r][1] = 0
    BY <1>2, <1>4, <2>1 DEF LettersInv, ReceiptsFit, o
  <2>2. letter.marker # "none" => letter.marker # o /\ letter.marker \in Operations
    BY <1>1 DEF LettersInv, ReceiptsFit, LetterTypes
  <2> QED  BY <1>4, <2>1, <2>2 DEF LettersInv, ReceiptsFit
<1>11. EffectsFit'
  BY <1>4, <1>7 DEF LettersInv, EffectsFit
<1>12. ASSUME NEW r \in LetterRequests, Refused(r) PROVE Refused(r)'
  <2>1. CASE /\ source = "bullmq" /\ Passed(letter, r) /\ effects[r][1] = 0
             /\ \A t \in Servers : serving[t] # Idle /\ serving[t].request = r => ~Danger(serving[t])
    <3>1. ASSUME NEW t \in Servers, serving'[t] # Idle, serving'[t].request = r PROVE ~Danger(serving'[t])
      BY <1>5, <2>1, <3>1
    <3> QED  BY <2>1, <3>1 DEF Refused
  <2>2. CASE receipts[r.op].status = "failed" /\ receipts[r.op].request = r
    BY <1>1, <1>4, <1>7, <2>2 DEF Refused
  <2>3. CASE ~Able(source, r) \/ letter.batchChild
    BY <2>3 DEF Refused
  <2> QED  BY <1>12, <2>1, <2>2, <2>3 DEF Refused
<1>13. \A a \in answers' : AnswerFits(a)'
  BY <1>12 DEF LettersInv, AnswerFits
<1> QED  BY <1>6, <1>9, <1>10, <1>11, <1>13 DEF LettersInv

\* A receipt is final: of a request that acted, or of one whose only server gives up.
LEMMA ReceiptIsFinal ==
    ASSUME LettersInv, NEW s \in Servers, NEW status,
           \/ serving[s].pc = "finalize" /\ status = "committed"
           \/ serving[s].pc = "fail" /\ status = "failed",
           receipts' = Finalized(s, status), serving' = [serving EXCEPT ![s] = Idle],
           UNCHANGED <<source, letter, effects>>, letterFaults' \in 0..MaxLetterFaults,
           \A a \in answers' : \/ a \in answers
                               \/ /\ a.early = FALSE
                                  /\ \/ a.answer \notin Failures \union {"committed"} /\ a.request \in LetterRequests
                                     \/ a.request = Request(s) /\ a.answer = "committed" /\ status = "committed"
                                     \/ a.request = Request(s) /\ a.answer \in Failures /\ status = "failed"
    PROVE  LettersInv'
<1> DEFINE o == Request(s).op
<1>1. serving[s] # Idle
  BY DEF Idle
<1>2. /\ serving[s] \in ServerState /\ Request(s) \in LetterRequests /\ o \in Operations
      /\ ServerFits(serving[s], source, letter, receipts[o], effects[Request(s)][1])
      /\ receipts[o] \in {NoReceipt} \union Receipt
  BY <1>1, ServerFacts DEF Request
<1>3. /\ receipts[o].status # "none" /\ receipts[o].request = Request(s)
      /\ status = "committed" => effects[Request(s)][1] = 1
      /\ status = "failed" => effects[Request(s)][1] = 0 /\ receipts[o].status = "pending" /\ Works(serving[s])
  BY <1>2 DEF ServerFits, Held, Working, Works, Request
<1>4. receipts[o] \in Receipt /\ status \in {"committed", "failed"} /\ serving[s].failure \in Failures \union {"none"}
  BY <1>2, <1>3 DEF NoReceipt, ServerState
<1>5. PICK receipt \in Receipt :
         /\ receipts' = [receipts EXCEPT ![o] = receipt]
         /\ receipt.request = Request(s)
         /\ receipt = receipts[o] \/ receipt.status = status
         /\ receipts[o].status = "pending" => receipt.status = status
  <2>1. CASE receipts[o].status = "pending"
    <3> DEFINE receipt == [receipts[o] EXCEPT !.status = status, !.failure = serving[s].failure]
    <3>1. receipt \in Receipt /\ receipt.request = Request(s) /\ receipt.status = status
      BY <1>3, <1>4 DEF Receipt
    <3>2. receipts' = [receipts EXCEPT ![o].status = status, ![o].failure = serving[s].failure]
      BY <1>3, <2>1 DEF Finalized
    <3>3. receipts' = [receipts EXCEPT ![o] = receipt]
      BY <1>2, <3>2 DEF LettersInv, LetterTypes
    <3> QED  BY <3>1, <3>3
  <2>2. CASE receipts[o].status # "pending"
    <3>1. receipts' = receipts
      BY <2>2 DEF Finalized
    <3>2. receipts' = [receipts EXCEPT ![o] = receipts[o]]
      BY <1>2, <3>1 DEF LettersInv, LetterTypes
    <3> QED  BY <1>3, <1>4, <2>2, <3>2
  <2> QED  BY <2>1, <2>2
<1>6. /\ receipts' \in [Operations -> {NoReceipt} \union Receipt] /\ receipts'[o] = receipt
      /\ \A q \in Operations : q # o => receipts'[q] = receipts[q]
  BY <1>2, <1>5 DEF LettersInv, LetterTypes
<1>7. serving' \in [Servers -> {Idle} \union ServerState] /\ \A t \in Servers : serving'[t] = IF t = s THEN Idle ELSE serving[t]
  BY DEF LettersInv, LetterTypes
<1>8. LetterTypes'
  BY <1>6, <1>7 DEF LettersInv, LetterTypes
<1>9. receipt.status # "none"
  BY DEF Receipt
<1> HIDE DEF o
<1>10. ServersFit'
  <2>1. ASSUME NEW t \in Servers, serving'[t] # Idle
        PROVE  ServerFits(serving'[t], source, letter, receipts'[serving'[t].request.op], effects[serving'[t].request][1])
    <3>1. t # s /\ serving'[t] = serving[t] /\ serving[t] # Idle
      BY <1>7, <2>1
    <3>2. ServerFits(serving[t], source, letter, receipts[serving[t].request.op], effects[serving[t].request][1]) /\ serving[t].request.op \in Operations
      BY <3>1, ServerFacts
    <3>3. CASE serving[t].request.op # o
      BY <1>6, <3>1, <3>2, <3>3
    <3>4. CASE serving[t].request.op = o
      <4>1. ~Works(serving[t])
        <5> SUFFICES ASSUME Works(serving[t]) PROVE FALSE
          OBVIOUS
        <5>1. receipts[o].request = serving[t].request /\ effects[serving[t].request][1] = 0
          BY <3>2, <3>4 DEF ServerFits, Held, Works
        <5>2. status = "failed" /\ Works(serving[s]) /\ serving[s].request.op = o
          BY <1>3, <1>4, <5>1 DEF o, Request
        <5> QED  BY <1>1, <3>1, <3>4, <5>2 DEF LettersInv, ServersFit
      <4>2. receipts'[o] = receipt /\ receipt.status # "none" /\ receipt.request = receipts[o].request
        BY <1>3, <1>5, <1>6, <1>9
      <4> QED  BY <3>1, <3>2, <3>4, <4>1, <4>2 DEF ServerFits
    <3> QED  BY <3>3, <3>4
  <2>2. ASSUME NEW t \in Servers, NEW u \in Servers, serving'[t] # Idle, serving'[u] # Idle, Works(serving'[t]), Works(serving'[u]),
               serving'[t].request.op = serving'[u].request.op
        PROVE  t = u
    BY <1>7, <2>2 DEF LettersInv, ServersFit
  <2> QED  BY <2>1, <2>2 DEF ServersFit
<1>11. ReceiptsFit'
  <2>1. ASSUME NEW q \in Operations, receipts'[q].status # "none"
        PROVE  LET r == receipts'[q].request IN
               /\ r.op = q /\ Able(source, r) /\ ~letter.batchChild
               /\ receipts'[q].status = "committed" => effects[r][1] = 1
               /\ receipts'[q].status = "failed" => effects[r][1] = 0
    <3>1. CASE q # o
      BY <1>6, <2>1, <3>1 DEF LettersInv, ReceiptsFit
    <3>2. CASE q = o
      BY <1>2, <1>3, <1>5, <1>6, <3>2 DEF LettersInv, ReceiptsFit
    <3> QED  BY <3>1, <3>2
  <2>2. letter.marker # "none" =>
          receipts'[letter.marker].status # "none" /\ effects[receipts'[letter.marker].request][1] = 1
    BY <1>3, <1>5, <1>6, <1>9 DEF LettersInv, ReceiptsFit, LetterTypes
  <2> QED  BY <2>1, <2>2 DEF ReceiptsFit
<1>12. EffectsFit'
  <2>1. \A r \in LetterRequests : r.op \in Operations
    BY DEF Operations
  <2> QED  BY <1>3, <1>5, <1>6, <1>9, <2>1 DEF LettersInv, EffectsFit
<1>13. ASSUME NEW r \in LetterRequests, Refused(r) PROVE Refused(r)'
  <2>1. CASE /\ source = "bullmq" /\ Passed(letter, r) /\ effects[r][1] = 0
             /\ \A t \in Servers : serving[t] # Idle /\ serving[t].request = r => ~Danger(serving[t])
    <3>1. ASSUME NEW t \in Servers, serving'[t] # Idle, serving'[t].request = r PROVE ~Danger(serving'[t])
      BY <1>7, <2>1, <3>1
    <3> QED  BY <2>1, <3>1 DEF Refused
  <2>2. CASE receipts[r.op].status = "failed" /\ receipts[r.op].request = r
    <3>1. r.op \in Operations
      BY DEF Operations
    <3>2. r.op = o => receipt.status = "failed"
      <4> SUFFICES ASSUME r.op = o PROVE receipt.status = "failed"
        OBVIOUS
      <4>1. effects[Request(s)][1] = 0
        BY <1>2, <1>3, <2>2 DEF LettersInv, ReceiptsFit
      <4> QED  BY <1>3, <1>4, <1>5, <2>2, <4>1
    <3> QED  BY <1>3, <1>5, <1>6, <2>2, <3>1, <3>2 DEF Refused
  <2>3. CASE ~Able(source, r) \/ letter.batchChild
    BY <2>3 DEF Refused
  <2> QED  BY <1>13, <2>1, <2>2, <2>3 DEF Refused
<1>14. ASSUME NEW r, r = Request(s), status = "failed" PROVE Refused(r)'
  <2>1. receipt.status = "failed" /\ receipt.request = r
    BY <1>3, <1>5, <1>14
  <2>2. receipts'[r.op].status = "failed" /\ receipts'[r.op].request = r
    BY <1>6, <1>14, <2>1 DEF o
  <2> QED  BY <2>2 DEF Refused
<1>15. ASSUME NEW a \in answers' PROVE AnswerFits(a)'
  <2>1. "committed" \notin Failures
    BY DEF Failures
  <2>2. CASE a \in answers
    BY <1>13, <2>2 DEF LettersInv, AnswerFits
  <2>3. CASE a.early = FALSE /\ a.answer \notin Failures \union {"committed"} /\ a.request \in LetterRequests
    BY <2>3 DEF AnswerFits
  <2>4. CASE a.early = FALSE /\ a.request = Request(s) /\ a.answer = "committed" /\ status = "committed"
    BY <1>2, <1>3, <2>1, <2>4 DEF AnswerFits
  <2>5. CASE a.early = FALSE /\ a.request = Request(s) /\ a.answer \in Failures /\ status = "failed"
    BY <1>2, <1>14, <2>1, <2>5 DEF AnswerFits
  <2> QED  BY <1>15, <2>2, <2>3, <2>4, <2>5
<1> QED  BY <1>8, <1>10, <1>11, <1>12, <1>15 DEF LettersInv

\* The letter moves on: what has passed stays passed.
LEMMA LetterFailsAgain == LettersInv /\ failsAgain => LettersInv'
<1> SUFFICES ASSUME LettersInv, failsAgain PROVE LettersInv'
  OBVIOUS
<1>1. PICK revision \in {letter.revision, letter.revision + 1} :
         /\ letter' = [letter EXCEPT !.state = "dead", !.revision = revision]
         /\ source = "bullmq" => revision = letter.revision + 1
  <2>1. CASE source = "bullmq"
    BY <2>1 DEF failsAgain
  <2>2. CASE source # "bullmq"
    BY <2>2 DEF failsAgain
  <2> QED  BY <2>1, <2>2
<1>2. letter.state = "alive" /\ letter.revision < MaxLetterRevision /\ UNCHANGED <<source, receipts, serving, answers, effects, letterFaults>>
  BY DEF failsAgain
<1>3. /\ letter.revision \in Nat /\ letter'.revision = revision /\ letter'.state = "dead"
      /\ letter'.marker = letter.marker /\ letter'.batchChild = letter.batchChild /\ letter.revision <= letter'.revision
  BY <1>1 DEF LettersInv, LetterTypes
<1>4. LetterTypes'
  <2>1. letter' \in [state : {"dead", "alive"}, disposition : {"active", "discarded"}, revision : Nat,
                     marker : Operations \union {"none"}, batchChild : BOOLEAN]
    <3>1. revision \in Nat
      BY <1>3
    <3> QED  BY <1>1, <3>1 DEF LettersInv, LetterTypes
  <2>2. letter'.revision <= MaxLetterRevision
    BY <1>2, <1>3, DeadLettersAssumption
  <2> QED  BY <1>2, <1>3, <2>1, <2>2, DeadLettersAssumption DEF LettersInv, LetterTypes
<1>5. \A r \in LetterRequests : r.revision \in Nat
  BY DeadLettersAssumption
<1>6. \A r \in LetterRequests : source = "bullmq" /\ Passed(letter, r) => Passed(letter', r)
  BY <1>1, <1>2, <1>3, <1>5 DEF Passed
<1>7. ServersFit'
  <2>1. ASSUME NEW t \in Servers, serving[t] # Idle
        PROVE  ServerFits(serving[t], source, letter', receipts[serving[t].request.op], effects[serving[t].request][1])
    <3>1. /\ ServerFits(serving[t], source, letter, receipts[serving[t].request.op], effects[serving[t].request][1])
          /\ serving[t].request \in LetterRequests /\ serving[t].request.revision \in Nat
      BY <2>1, ServerFacts
    <3> QED  BY <1>3, <1>6, <3>1 DEF ServerFits
  <2> QED  BY <1>2, <2>1 DEF LettersInv, ServersFit
<1>8. ReceiptsFit' /\ EffectsFit'
  BY <1>2, <1>3 DEF LettersInv, ReceiptsFit, EffectsFit
<1>9. ASSUME NEW r \in LetterRequests, Refused(r) PROVE Refused(r)'
  BY <1>2, <1>3, <1>6, <1>9 DEF Refused
<1>10. \A a \in answers' : AnswerFits(a)'
  BY <1>2, <1>9 DEF LettersInv, AnswerFits
<1> QED  BY <1>4, <1>7, <1>8, <1>10 DEF LettersInv

\* The one server that works for an operation acts on the letter.
LEMMA LetterIsActedOn ==
    ASSUME LettersInv, NEW s \in Servers, effects' = Effect(s), letter.state = "dead",
           \/ serving[s].pc = "update" /\ matches(s) /\ letter' = Managed(s)
           \/ serving[s].pc = "retry" /\ letter' = [letter EXCEPT !.state = "alive"],
           NEW n \in {Idle} \union ServerState, serving' = [serving EXCEPT ![s] = n],
           n # Idle => n.pc = "finalize" /\ n.request = Request(s) /\ n.failure = serving[s].failure,
           UNCHANGED <<source, receipts, answers>>, letterFaults' \in 0..MaxLetterFaults
    PROVE  LettersInv'
<1> DEFINE mine == Request(s)
<1>1. serving[s] # Idle
  BY DEF Idle
<1>2. /\ serving[s] \in ServerState /\ mine \in LetterRequests /\ mine.op \in Operations /\ mine.revision \in Nat
      /\ ServerFits(serving[s], source, letter, receipts[mine.op], effects[mine][1])
      /\ effects[mine] \in Nat \X Nat
  BY <1>1, ServerFacts DEF Request
<1>3. /\ effects[mine][1] = 0 /\ receipts[mine.op].status = "pending" /\ receipts[mine.op].request = mine
      /\ serving[s].failure = "none" /\ Works(serving[s]) /\ Able(source, mine)
      /\ source = (IF serving[s].pc = "update" THEN "reliability" ELSE "bullmq")
  BY <1>2 DEF ServerFits, Works, Working, Held, Drizzle, Bull, Request
<1>4. ~letter.batchChild /\ mine.op # "none"
  BY <1>2, <1>3, DeadLettersAssumption DEF LettersInv, ReceiptsFit
<1>5. PICK late \in Nat : effects' = [effects EXCEPT ![mine] = <<1, late>>] /\ (source = "reliability" => late = 0)
  <2> DEFINE late == IF letter.revision = mine.revision THEN effects[mine][2] ELSE effects[mine][2] + 1
  <2>1. late \in Nat
    BY <1>2
  <2>2. effects' = [effects EXCEPT ![mine] = <<1, late>>]
    BY <1>2, <1>3 DEF LettersInv, LetterTypes, Effect
  <2>3. source = "reliability" => late = 0
    BY <1>2, <1>3 DEF LettersInv, EffectsFit, matches
  <2> QED  BY <2>1, <2>2, <2>3
<1>6. /\ effects' \in [LetterRequests -> Nat \X Nat] /\ effects'[mine] = <<1, late>>
      /\ \A r \in LetterRequests : r # mine => effects'[r] = effects[r]
  BY <1>2, <1>5 DEF LettersInv, LetterTypes
<1>7. serving' \in [Servers -> {Idle} \union ServerState] /\ \A t \in Servers : serving'[t] = IF t = s THEN n ELSE serving[t]
  BY DEF LettersInv, LetterTypes
<1>8. /\ letter' \in [state : {"dead", "alive"}, disposition : {"active", "discarded"}, revision : Nat,
                      marker : Operations \union {"none"}, batchChild : BOOLEAN]
      /\ letter'.batchChild = letter.batchChild /\ letter.revision \in Nat
      /\ letter'.marker \in {letter.marker, mine.op}
      /\ \/ letter'.revision = letter.revision /\ letter'.state = "alive" /\ source = "bullmq"
         \/ letter'.revision = letter.revision + 1 /\ letter.disposition = "active" /\ source = "reliability"
            /\ (letter'.state = "alive" \/ letter'.disposition = "discarded")
  <2>1. CASE serving[s].pc = "update"
    <3>1. letter' = Managed(s) /\ letter.disposition = "active" /\ source = "reliability" /\ mine.action \in {"retry", "discard"}
      BY <1>2, <1>3, <2>1, DeadLettersAssumption DEF matches
    <3>0. PICK revised \in Nat : revised = letter.revision + 1 /\ letter.revision \in Nat
      BY DEF LettersInv, LetterTypes
    <3>2. CASE mine.action = "retry"
      <4>1. letter' = [letter EXCEPT !.state = "alive", !.revision = revised, !.marker = mine.op]
        BY <3>0, <3>1, <3>2 DEF Managed, LettersInv, LetterTypes
      <4> QED  BY <1>2, <3>0, <3>1, <4>1 DEF LettersInv, LetterTypes
    <3>3. CASE mine.action = "discard"
      <4>1. letter' = [letter EXCEPT !.disposition = "discarded", !.revision = revised, !.marker = mine.op]
        BY <3>0, <3>1, <3>3 DEF Managed, LettersInv, LetterTypes
      <4> QED  BY <1>2, <3>0, <3>1, <4>1 DEF LettersInv, LetterTypes
    <3> QED  BY <3>1, <3>2, <3>3
  <2>2. CASE serving[s].pc # "update"
    BY <1>3, <2>2 DEF LettersInv, LetterTypes
  <2> QED  BY <2>1, <2>2
<1> HIDE DEF mine
<1>9. LetterTypes'
  <2>1. letter'.revision <= MaxLetterRevision + 1 /\ (source = "bullmq" => letter'.revision <= MaxLetterRevision)
    BY <1>8, DeadLettersAssumption DEF LettersInv, LetterTypes
  <2>2. letter'.state = "dead" /\ letter'.disposition = "active" => letter'.revision <= MaxLetterRevision
    BY <1>8
  <2> QED  BY <1>6, <1>7, <1>8, <2>1, <2>2 DEF LettersInv, LetterTypes
<1>10. \A r \in LetterRequests : r.revision \in Nat /\ (Passed(letter, r) => Passed(letter', r))
  BY <1>8, DeadLettersAssumption DEF Passed
<1>11. ServersFit'
  <2>1. ASSUME NEW t \in Servers, serving'[t] # Idle
        PROVE  ServerFits(serving'[t], source, letter', receipts[serving'[t].request.op], effects'[serving'[t].request][1])
    <3>1. CASE t = s
      <4>1. serving'[t] = n /\ n.pc = "finalize" /\ n.request = mine /\ n.failure = "none"
        BY <1>3, <1>7, <2>1, <3>1 DEF mine
      <4>2. mine.revision <= letter'.revision
        BY <1>2, <1>8 DEF ServerFits, mine, Request
      <4> QED  BY <1>3, <1>6, <4>1, <4>2 DEF ServerFits, Works, Working, Bull, Drizzle
    <3>2. CASE t # s
      <4>1. serving'[t] = serving[t] /\ serving[t] # Idle
        BY <1>7, <2>1, <3>2
      <4>2. /\ ServerFits(serving[t], source, letter, receipts[serving[t].request.op], effects[serving[t].request][1])
            /\ serving[t].request \in LetterRequests /\ serving[t].request.revision \in Nat
        BY <4>1, ServerFacts
      <4>3. serving[t].request.revision <= letter'.revision
        BY <1>8, <4>2 DEF ServerFits
      <4>4. serving[t].request = mine => ~Works(serving[t]) /\ serving[t].pc # "finalize"
        <5>1. serving[t].request = mine /\ Works(serving[t]) => FALSE
          BY <1>1, <1>3, <3>2, <4>1 DEF LettersInv, ServersFit, mine, Request
        <5> QED  BY <1>3, <4>2, <5>1 DEF ServerFits
      <4>5. CASE serving[t].request = mine
        BY <1>8, <1>10, <4>1, <4>2, <4>3, <4>4, <4>5 DEF ServerFits
      <4>6. CASE serving[t].request # mine
        BY <1>6, <1>8, <1>10, <4>1, <4>2, <4>3, <4>6 DEF ServerFits
      <4> QED  BY <4>5, <4>6
    <3> QED  BY <3>1, <3>2
  <2>2. ASSUME NEW t \in Servers, NEW u \in Servers, serving'[t] # Idle, serving'[u] # Idle, Works(serving'[t]), Works(serving'[u]),
               serving'[t].request.op = serving'[u].request.op
        PROVE  t = u
    <3>1. n # Idle => ~Works(n)
      BY DEF Works, Working
    <3> QED  BY <1>7, <2>2, <3>1 DEF LettersInv, ServersFit
  <2> QED  BY <2>1, <2>2 DEF ServersFit
<1>12. ReceiptsFit'
  <2>1. ASSUME NEW q \in Operations, receipts[q].status # "none"
        PROVE  LET r == receipts[q].request IN
               /\ r.op = q /\ Able(source, r) /\ ~letter'.batchChild
               /\ receipts[q].status = "committed" => effects'[r][1] = 1
               /\ receipts[q].status = "failed" => effects'[r][1] = 0
    <3>1. receipts[q].request \in LetterRequests
      BY <2>1 DEF LettersInv, LetterTypes, Receipt, NoReceipt
    <3>2. receipts[q].request = mine => receipts[q].status = "pending"
      BY <1>3, <2>1 DEF LettersInv, ReceiptsFit
    <3> QED  BY <1>3, <1>6, <1>8, <2>1, <3>1, <3>2 DEF LettersInv, ReceiptsFit
  <2>2. letter'.marker # "none" =>
          receipts[letter'.marker].status # "none" /\ effects'[receipts[letter'.marker].request][1] = 1
    <3>1. CASE letter'.marker = mine.op
      BY <1>3, <1>6, <3>1
    <3>2. CASE letter'.marker = letter.marker /\ letter.marker # "none"
      <4>1. letter.marker \in Operations /\ receipts[letter.marker].status # "none" /\ effects[receipts[letter.marker].request][1] = 1
        BY <3>2 DEF LettersInv, LetterTypes, ReceiptsFit
      <4>2. receipts[letter.marker].request \in LetterRequests
        BY <4>1 DEF LettersInv, LetterTypes, Receipt, NoReceipt
      <4> QED  BY <1>3, <1>6, <3>2, <4>1, <4>2
    <3> QED  BY <1>8, <3>1, <3>2
  <2> QED  BY <2>1, <2>2 DEF ReceiptsFit
<1>13. EffectsFit'
  <2>1. \A r \in LetterRequests : effects'[r][1] = (IF r = mine THEN 1 ELSE effects[r][1]) /\ (r = mine => effects'[r][2] = late)
    BY <1>6
  <2>2. \A r \in LetterRequests : r # mine => effects'[r][2] = effects[r][2]
    BY <1>6
  <2> QED  BY <1>3, <1>5, <2>1, <2>2 DEF LettersInv, EffectsFit
<1>14. ASSUME NEW r \in LetterRequests, Refused(r) PROVE Refused(r)' /\ r # mine
  <2>1. r # mine
    <3>1. ~(source = "bullmq" /\ \A t \in Servers : serving[t] # Idle /\ serving[t].request = mine => ~Danger(serving[t]))
      BY <1>1, <1>3 DEF Danger, mine, Request
    <3> QED  BY <1>3, <1>4, <1>14, <3>1 DEF Refused
  <2>2. CASE /\ source = "bullmq" /\ Passed(letter, r) /\ effects[r][1] = 0
             /\ \A t \in Servers : serving[t] # Idle /\ serving[t].request = r => ~Danger(serving[t])
    <3>1. ASSUME NEW t \in Servers, serving'[t] # Idle, serving'[t].request = r PROVE ~Danger(serving'[t])
      <4>1. n # Idle => ~Danger(n)
        BY DEF Danger
      <4> QED  BY <1>7, <2>2, <3>1, <4>1
    <3> QED  BY <1>6, <1>10, <2>1, <2>2, <3>1 DEF Refused
  <2>0. source' = source /\ receipts' = receipts
    OBVIOUS
  <2>3. CASE receipts[r.op].status = "failed" /\ receipts[r.op].request = r
    BY <2>0, <2>1, <2>3 DEF Refused
  <2>4. CASE ~Able(source, r)
    BY <2>0, <2>1, <2>4 DEF Refused
  <2>5. CASE letter.batchChild
    BY <1>4, <2>5
  <2> QED  BY <1>14, <2>1, <2>2, <2>3, <2>4, <2>5 DEF Refused
<1>15. ASSUME NEW a \in answers' PROVE AnswerFits(a)'
  BY <1>3, <1>6, <1>14, <1>15 DEF LettersInv, AnswerFits
<1> QED  BY <1>9, <1>11, <1>12, <1>13, <1>15 DEF LettersInv

\* A server goes on with its request.
LEMMA ServerGoes ==
    ASSUME LettersInv, NEW s \in Servers, serving[s] # Idle, NEW pc \in ServerPcs, Goto(s, pc)
    PROVE  \E n \in ServerState :
              /\ serving' = [serving EXCEPT ![s] = n] /\ answers' = answers
              /\ n.pc = pc /\ n.request = serving[s].request /\ n.seen = serving[s].seen /\ n.failure = serving[s].failure
<1> DEFINE n == [serving[s] EXCEPT !.pc = pc]
<1>1. serving[s] \in ServerState
  BY ServerFacts
<1>2. n \in ServerState /\ n.pc = pc /\ n.request = serving[s].request /\ n.seen = serving[s].seen /\ n.failure = serving[s].failure
  BY <1>1 DEF ServerState
<1>3. serving' = [serving EXCEPT ![s] = n] /\ answers' = answers
  BY DEF LettersInv, LetterTypes, Goto
<1> QED  BY <1>2, <1>3

\* It gives up with a failure.
LEMMA ServerFails ==
    ASSUME LettersInv, NEW s \in Servers, Works(serving[s]), serving[s] # Idle, NEW code \in Failures, Fails(s, code), Untouched
    PROVE  LettersInv'
<1> DEFINE n == [serving[s] EXCEPT !.pc = "fail", !.failure = code]
<1>1. serving[s] \in ServerState
      /\ ServerFits(serving[s], source, letter, receipts[serving[s].request.op], effects[serving[s].request][1])
  BY ServerFacts
<1>2. n \in ServerState /\ n.pc = "fail" /\ n.request = serving[s].request
  BY <1>1 DEF ServerState, ServerPcs
<1>3. serving' = [serving EXCEPT ![s] = n] /\ answers' = answers
  BY DEF LettersInv, LetterTypes, Fails
<1> HIDE DEF n
<1>4. ServerFits(n, source, letter, receipts[n.request.op], effects[n.request][1]) /\ ~Danger(n)
  BY <1>1, <1>2 DEF ServerFits, Works, Working, Held, Bull, Drizzle, Danger
<1>5. UNCHANGED <<source, letter, receipts, effects>> /\ letterFaults' \in 0..MaxLetterFaults
  BY DEF Untouched, LettersInv, LetterTypes
<1> QED  BY <1>2, <1>3, <1>4, <1>5, ServerMoves

\* It answers; whatever it says of its request is so.
LEMMA ServerReplies ==
    ASSUME LettersInv, NEW s \in Servers, serving[s] # Idle, NEW answer, Reply(s, answer),
           UNCHANGED <<source, letter, receipts, effects>>, letterFaults' \in 0..MaxLetterFaults,
           answer = "committed" => effects[Request(s)][1] = 1,
           answer \in Failures => Refused(Request(s))
    PROVE  LettersInv'
<1>1. Request(s) \in LetterRequests
  BY ServerFacts DEF Request
<1>2. ASSUME NEW a \in answers' PROVE a \in answers \/ AnswerFits(a)
  <2>1. a \in answers \/ (a.request = Request(s) /\ a.answer = answer /\ a.early = FALSE)
    BY <1>2 DEF Reply
  <2> QED  BY <1>1, <2>1 DEF AnswerFits
<1>3. serving' = [serving EXCEPT ![s] = Idle]
  BY DEF Reply
<1> QED  BY <1>2, <1>3, ServerMoves

\* A server goes on where it fits.
LEMMA ServerGoesOn ==
    ASSUME LettersInv, NEW s \in Servers, serving[s] # Idle, NEW pc \in ServerPcs, Goto(s, pc),
           UNCHANGED <<source, letter, receipts, effects>>, letterFaults' \in 0..MaxLetterFaults,
           \A n \in ServerState : n.pc = pc /\ n.request = serving[s].request /\ n.seen = serving[s].seen /\ n.failure = serving[s].failure =>
               /\ ServerFits(n, source, letter, receipts[n.request.op], effects[n.request][1])
               /\ Works(n) => Works(serving[s])
               /\ Danger(n) => Danger(serving[s])
    PROVE  LettersInv'
<1>1. PICK n \in ServerState :
         /\ serving' = [serving EXCEPT ![s] = n] /\ answers' = answers
         /\ n.pc = pc /\ n.request = serving[s].request /\ n.seen = serving[s].seen /\ n.failure = serving[s].failure
  BY ServerGoes
<1> QED  BY <1>1, ServerMoves

LEMMA ReceiveIsSafe ==
    ASSUME LettersInv, NEW s \in Servers, NEW request \in LetterRequests, receive(s, request)
    PROVE  LettersInv'
<1> DEFINE n == [pc |-> "authorize", request |-> request, seen |-> 0, failure |-> "none"]
<1>1. n \in ServerState /\ n.pc = "authorize" /\ n.request = request /\ n.failure = "none"
  BY DEF ServerState, ServerPcs
<1>2. /\ serving' = [serving EXCEPT ![s] = n] /\ answers' = answers /\ request.revision <= letter.revision
      /\ UNCHANGED <<source, letter, receipts, effects, letterFaults>>
  BY DEF receive, Untouched
<1> HIDE DEF n
<1>3. ServerFits(n, source, letter, receipts[n.request.op], effects[n.request][1]) /\ ~Works(n) /\ ~Danger(n)
  BY <1>1, <1>2 DEF ServerFits, Works, Working, Held, Bull, Drizzle, Danger
<1>4. letterFaults' \in 0..MaxLetterFaults
  BY <1>2 DEF LettersInv, LetterTypes
<1> QED  BY <1>1, <1>2, <1>3, <1>4, ServerMoves

LEMMA AuthorizesIsSafe ==
    ASSUME LettersInv, NEW s \in Servers, authorizes(s)
    PROVE  LettersInv'
<1>1. /\ serving[s].pc = "authorize" /\ serving[s] # Idle /\ UNCHANGED <<source, letter, receipts, effects>>
      /\ letterFaults' \in 0..MaxLetterFaults
  BY DEF authorizes, At, Untouched, Idle, LettersInv, LetterTypes
<1>2. ServerFits(serving[s], source, letter, receipts[serving[s].request.op], effects[serving[s].request][1])
  BY <1>1, ServerFacts
<1>3. CASE Goto(s, "body")
  <2>1. ASSUME NEW n \in ServerState, n.pc = "body" /\ n.request = serving[s].request /\ n.failure = serving[s].failure
        PROVE  ServerFits(n, source, letter, receipts[n.request.op], effects[n.request][1]) /\ ~Works(n) /\ ~Danger(n)
    BY <1>1, <1>2, <2>1 DEF ServerFits, Works, Working, Held, Bull, Drizzle, Danger
  <2>2. "body" \in ServerPcs
    BY DEF ServerPcs
  <2> QED  BY <1>1, <1>3, <2>1, <2>2, ServerGoesOn
<1>4. CASE Reply(s, "forbidden")
  BY <1>1, <1>4, ServerReplies DEF Failures
<1> QED  BY <1>3, <1>4 DEF authorizes

LEMMA ReadGuardedJsonIsSafe ==
    ASSUME LettersInv, NEW s \in Servers, readGuardedJson(s)
    PROVE  LettersInv'
<1>1. /\ serving[s].pc = "body" /\ serving[s] # Idle /\ UNCHANGED <<source, letter, receipts, effects>>
      /\ letterFaults' \in 0..MaxLetterFaults
  BY DEF readGuardedJson, At, Untouched, Idle, LettersInv, LetterTypes
<1>2. ServerFits(serving[s], source, letter, receipts[serving[s].request.op], effects[serving[s].request][1])
  BY <1>1, ServerFacts
<1>3. CASE Capable(s) /\ Goto(s, "lookup")
  <2>1. ASSUME NEW n \in ServerState, n.pc = "lookup" /\ n.request = serving[s].request /\ n.failure = serving[s].failure
        PROVE  ServerFits(n, source, letter, receipts[n.request.op], effects[n.request][1]) /\ ~Works(n) /\ ~Danger(n)
    BY <1>1, <1>2, <1>3, <2>1 DEF ServerFits, Works, Working, Held, Bull, Drizzle, Danger, Capable, Able, Request
  <2>2. "lookup" \in ServerPcs
    BY DEF ServerPcs
  <2> QED  BY <1>1, <1>3, <2>1, <2>2, ServerGoesOn
<1>4. CASE Reply(s, "invalid_request")
  BY <1>1, <1>4, ServerReplies DEF Failures
<1>5. CASE ~Capable(s) /\ Reply(s, "invalid_state")
  <2>1. Refused(Request(s))
    BY <1>5 DEF Refused, Capable, Able
  <2> QED  BY <1>1, <1>5, <2>1, ServerReplies
<1>6. CASE Capable(s) /\ aheadOfTime(s)
  <2>1. Request(s) \in LetterRequests
    BY <1>1, ServerFacts DEF Request
  <2>2. source = "bullmq" /\ Request(s).later /\ Request(s).action = "retry" /\ serving' = [serving EXCEPT ![s] = Idle]
    BY <1>6 DEF aheadOfTime, Capable
  <2>3. ASSUME NEW a \in answers' PROVE a \in answers \/ AnswerFits(a)
    <3>1. a \in answers \/ (a.request = Request(s) /\ a.answer = "invalid_state" /\ a.early = TRUE)
      BY <1>6, <2>3 DEF aheadOfTime
    <3> QED  BY <2>1, <2>2, <3>1 DEF AnswerFits
  <2> QED  BY <1>1, <2>2, <2>3, ServerMoves
<1> QED  BY <1>3, <1>4, <1>5, <1>6 DEF readGuardedJson

\* The receipt of an operation, or of another request with its id, is replayed.
LEMMA ReplayIsSafe ==
    ASSUME LettersInv, NEW s \in Servers, serving[s].pc \in {"lookup", "raced"}, Reserved(s), replay(s), Untouched
    PROVE  LettersInv'
<1> DEFINE receipt == receipts[Request(s).op]
<1>1. /\ serving[s] # Idle /\ UNCHANGED <<source, letter, receipts, effects>> /\ letterFaults' \in 0..MaxLetterFaults
  BY DEF Untouched, Idle, LettersInv, LetterTypes
<1>2. /\ ServerFits(serving[s], source, letter, receipt, effects[Request(s)][1])
      /\ Request(s) \in LetterRequests /\ Request(s).op \in Operations
      /\ receipt \in {NoReceipt} \union Receipt
  BY <1>1, ServerFacts DEF Request
<1>3. receipt \in Receipt
  BY <1>2 DEF Reserved, NoReceipt
<1>4. receipt.status \in {"pending", "committed", "failed"} /\ receipt.failure \in Failures \union {"none"} /\ receipt.status # "none"
  BY <1>3 DEF Receipt
<1>5. CASE receipt.request # Request(s)
  <2>1. Reply(s, "operation_conflict")
    BY <1>5 DEF replay
  <2> QED  BY <1>1, <2>1, ServerReplies DEF Failures
<1>6. CASE receipt.request = Request(s) /\ receipt.status = "failed"
  <2>1. Reply(s, receipt.failure)
    BY <1>6 DEF replay
  <2>2. Refused(Request(s))
    BY <1>6 DEF Refused
  <2>3. receipt.failure # "committed"
    BY <1>4 DEF Failures
  <2> QED  BY <1>1, <2>1, <2>2, <2>3, ServerReplies
<1>7. CASE receipt.request = Request(s) /\ receipt.status = "committed"
  <2>1. Reply(s, "committed")
    BY <1>7 DEF replay
  <2>2. effects[Request(s)][1] = 1
    BY <1>2, <1>4, <1>7 DEF LettersInv, ReceiptsFit
  <2> QED  BY <1>1, <2>1, <2>2, ServerReplies DEF Failures
<1>8. CASE receipt.request = Request(s) /\ receipt.status = "pending" /\ source = "reliability"
  <2>1. Goto(s, "reconcile") /\ "reconcile" \in ServerPcs
    BY <1>8 DEF replay, ServerPcs, Drizzle
  <2>2. ASSUME NEW n \in ServerState, n.pc = "reconcile" /\ n.request = serving[s].request /\ n.failure = serving[s].failure
        PROVE  ServerFits(n, source, letter, receipts[n.request.op], effects[n.request][1]) /\ ~Works(n) /\ ~Danger(n)
    BY <1>2, <1>8, <2>2 DEF ServerFits, Works, Working, Held, Bull, Drizzle, Danger, Request, Able
  <2> QED  BY <1>1, <2>1, <2>2, ServerGoesOn
<1>9. CASE receipt.request = Request(s) /\ receipt.status = "pending" /\ source # "reliability"
  <2>1. Reply(s, "ambiguous_outcome")
    BY <1>9 DEF replay
  <2> QED  BY <1>1, <2>1, ServerReplies DEF Failures
<1> QED  BY <1>4, <1>5, <1>6, <1>7, <1>8, <1>9

LEMMA LookupIsSafe ==
    ASSUME LettersInv, NEW s \in Servers, lookup(s)
    PROVE  LettersInv'
<1>1. /\ serving[s].pc = "lookup" /\ serving[s] # Idle /\ UNCHANGED <<source, letter, receipts, effects>> /\ Untouched
      /\ letterFaults' \in 0..MaxLetterFaults
  BY DEF lookup, At, Untouched, Idle, LettersInv, LetterTypes
<1>2. ServerFits(serving[s], source, letter, receipts[serving[s].request.op], effects[serving[s].request][1])
  BY <1>1, ServerFacts
<1>3. CASE Reserved(s)
  BY <1>1, <1>3, ReplayIsSafe DEF lookup
<1>4. CASE ~Reserved(s)
  <2>1. PICK pc \in ServerPcs : Goto(s, pc) /\ pc = (IF source = "reliability" THEN "insert" ELSE "load")
    BY <1>4 DEF lookup, ServerPcs, Bull
  <2>2. ASSUME NEW n \in ServerState, n.pc = pc /\ n.request = serving[s].request /\ n.failure = serving[s].failure
        PROVE  ServerFits(n, source, letter, receipts[n.request.op], effects[n.request][1]) /\ ~Works(n) /\ ~Danger(n)
    <3>1. IF source = "bullmq" THEN pc = "load" ELSE pc = "insert" /\ ~letter.batchChild
      BY <2>1 DEF LettersInv, LetterTypes
    <3> QED  BY <1>1, <1>2, <2>2, <3>1 DEF ServerFits, Works, Working, Held, Bull, Drizzle, Danger
  <2> QED  BY <1>1, <2>1, <2>2, ServerGoesOn
<1> QED  BY <1>3, <1>4

\* The receipt that an insert adds: the server that inserted it works on, or never again.
LEMMA InsertIsSafe ==
    ASSUME LettersInv, NEW s \in Servers, serving[s].pc = "insert", ~Reserved(s), receipts' = Reservation(s),
           UNCHANGED <<source, letter, effects, answers>>, letterFaults' \in 0..MaxLetterFaults,
           NEW n \in {Idle} \union ServerState, serving' = [serving EXCEPT ![s] = n],
           n # Idle => /\ n.request = Request(s) /\ n.failure = serving[s].failure
                       /\ \/ n.pc = "raced" \/ (n.pc = "update" /\ source = "reliability") \/ (n.pc = "fence" /\ source = "bullmq")
    PROVE  LettersInv'
<1>1. serving[s] # Idle
  BY DEF Idle
<1>2. ServerFits(serving[s], source, letter, receipts[Request(s).op], effects[Request(s)][1])
  BY <1>1, ServerFacts DEF Request
<1>3. Able(source, Request(s)) /\ ~letter.batchChild /\ serving[s].failure = "none"
  BY <1>2 DEF ServerFits, Request
<1>4. n # Idle => ServerFits(n, source, letter, [status |-> "pending", request |-> Request(s), failure |-> "none"], 0)
  BY <1>2, <1>3 DEF ServerFits, Works, Working, Held, Bull, Drizzle, Request
<1>5. n # Idle => ~Danger(n)
  BY DEF Danger
<1> QED  BY <1>1, <1>3, <1>4, <1>5, ReceiptIsInserted

LEMMA ReserveOperationIsSafe ==
    ASSUME LettersInv, NEW s \in Servers, reserveOperation(s)
    PROVE  LettersInv'
<1>1. /\ serving[s].pc = "insert" /\ serving[s] # Idle /\ UNCHANGED <<source, letter, effects, letterFaults>>
      /\ letterFaults' \in 0..MaxLetterFaults
  BY DEF reserveOperation, At, Idle, LettersInv, LetterTypes
<1>2. ServerFits(serving[s], source, letter, receipts[serving[s].request.op], effects[serving[s].request][1])
  BY <1>1, ServerFacts
<1>3. CASE Reserved(s)
  <2>1. Goto(s, "raced") /\ UNCHANGED receipts /\ "raced" \in ServerPcs
    BY <1>3 DEF reserveOperation, ServerPcs
  <2>2. ASSUME NEW n \in ServerState, n.pc = "raced" /\ n.request = serving[s].request /\ n.failure = serving[s].failure
        PROVE  ServerFits(n, source, letter, receipts[n.request.op], effects[n.request][1]) /\ ~Works(n) /\ ~Danger(n)
    BY <1>1, <1>2, <2>2 DEF ServerFits, Works, Working, Held, Bull, Drizzle, Danger
  <2> QED  BY <1>1, <2>1, <2>2, ServerGoesOn
<1>4. CASE ~Reserved(s)
  <2>1. PICK pc \in ServerPcs : Goto(s, pc) /\ pc = (IF source = "reliability" THEN "update" ELSE "fence")
    BY <1>4 DEF reserveOperation, ServerPcs, Bull, Drizzle
  <2>2. PICK n \in ServerState :
           /\ serving' = [serving EXCEPT ![s] = n] /\ answers' = answers
           /\ n.pc = pc /\ n.request = serving[s].request /\ n.failure = serving[s].failure
    BY <1>1, <2>1, ServerGoes
  <2>3. receipts' = Reservation(s) /\ source \in {"reliability", "bullmq"}
    BY <1>4 DEF reserveOperation, LettersInv, LetterTypes
  <2> QED  BY <1>1, <1>4, <2>1, <2>2, <2>3, InsertIsSafe DEF Request
<1> QED  BY <1>3, <1>4

LEMMA RacedIsSafe ==
    ASSUME LettersInv, NEW s \in Servers, raced(s)
    PROVE  LettersInv'
<1>1. /\ serving[s].pc = "raced" /\ serving[s] # Idle /\ UNCHANGED <<source, letter, receipts, effects>> /\ Untouched
      /\ letterFaults' \in 0..MaxLetterFaults
  BY DEF raced, At, Untouched, Idle, LettersInv, LetterTypes
<1>2. /\ serving[s] \in ServerState /\ Request(s) \in LetterRequests
      /\ ServerFits(serving[s], source, letter, receipts[Request(s).op], effects[Request(s)][1])
      /\ effects[Request(s)] \in Nat \X Nat
  BY <1>1, ServerFacts DEF Request
<1>3. CASE Reserved(s)
  BY <1>1, <1>3, ReplayIsSafe DEF raced
<1>4. CASE ~Reserved(s) /\ serving[s].failure = "none"
  <2>1. Reply(s, "ambiguous_outcome")
    BY <1>4 DEF raced
  <2> QED  BY <1>1, <2>1, ServerReplies DEF Failures
<1>5. CASE ~Reserved(s) /\ serving[s].failure # "none"
  <2>1. Reply(s, "not_found")
    BY <1>1, <1>2, <1>5 DEF raced, ServerFits
  <2>2. source = "bullmq" /\ Passed(letter, Request(s))
    BY <1>1, <1>2, <1>5 DEF ServerFits, Request
  <2>3. effects[Request(s)][1] = 0
    BY <1>2, <1>5 DEF LettersInv, EffectsFit, Reserved
  <2>4. ASSUME NEW t \in Servers, serving[t] # Idle, serving[t].request = Request(s) PROVE ~Danger(serving[t])
    <3>1. ServerFits(serving[t], source, letter, receipts[Request(s).op], effects[Request(s)][1])
      BY <2>4, ServerFacts
    <3> QED  BY <1>5, <3>1 DEF Reserved, Danger, ServerFits, Held, Working
  <2>5. Refused(Request(s))
    BY <2>2, <2>3, <2>4 DEF Refused
  <2> QED  BY <1>1, <2>1, <2>5, ServerReplies DEF Failures
<1> QED  BY <1>3, <1>4, <1>5

LEMMA FinalizeCommittedIsSafe ==
    ASSUME LettersInv, NEW s \in Servers, finalizeCommitted(s)
    PROVE  LettersInv'
<1>1. /\ serving[s].pc = "finalize" /\ serving[s] # Idle /\ UNCHANGED <<source, letter, effects>>
      /\ letterFaults' \in 0..MaxLetterFaults /\ receipts' = Finalized(s, "committed")
  BY DEF finalizeCommitted, At, Idle, LettersInv, LetterTypes
<1>2. PICK answer \in {"committed", "ambiguous_outcome"} : Reply(s, answer)
  BY DEF finalizeCommitted
<1>3. serving' = [serving EXCEPT ![s] = Idle]
  BY <1>2 DEF Reply
<1>4. \A a \in answers' : \/ a \in answers
                          \/ a.early = FALSE /\ a.request = Request(s) /\ a.answer = "committed"
  BY <1>2 DEF Reply, Failures
<1> QED  BY <1>1, <1>3, <1>4, ReceiptIsFinal

LEMMA FinalizeFailedIsSafe ==
    ASSUME LettersInv, NEW s \in Servers, finalizeFailed(s)
    PROVE  LettersInv'
<1>1. /\ serving[s].pc = "fail" /\ serving[s] # Idle /\ UNCHANGED <<source, letter, effects>>
      /\ letterFaults' \in 0..MaxLetterFaults /\ receipts' = Finalized(s, "failed")
      /\ Reply(s, serving[s].failure)
  BY DEF finalizeFailed, At, Idle, LettersInv, LetterTypes
<1>2. serving[s].failure \in Failures \union {"none"}
  BY <1>1, ServerFacts DEF ServerState
<1>3. serving' = [serving EXCEPT ![s] = Idle]
  BY <1>1 DEF Reply
<1>4. serving[s].failure # "committed"
  BY <1>2 DEF Failures
<1>5. \A a \in answers' : \/ a \in answers
                          \/ a.early = FALSE /\ a.request = Request(s) /\ a.answer \in Failures
  BY <1>1, <1>4 DEF Reply
<1> QED  BY <1>1, <1>3, <1>5, ReceiptIsFinal

LEMMA UpdateMessageIsSafe ==
    ASSUME LettersInv, NEW s \in Servers, updateMessage(s)
    PROVE  LettersInv'
<1>1. /\ serving[s].pc = "update" /\ serving[s] # Idle /\ UNCHANGED <<source, receipts, letterFaults>>
      /\ letterFaults' \in 0..MaxLetterFaults
  BY DEF updateMessage, At, Idle, LettersInv, LetterTypes
<1>2. ServerFits(serving[s], source, letter, receipts[serving[s].request.op], effects[serving[s].request][1])
  BY <1>1, ServerFacts
<1>3. CASE matches(s)
  <2>1. /\ letter' = Managed(s) /\ effects' = Effect(s) /\ Goto(s, "finalize") /\ letter.state = "dead" /\ "finalize" \in ServerPcs
    BY <1>3 DEF updateMessage, matches, ServerPcs
  <2>2. PICK n \in ServerState :
           /\ serving' = [serving EXCEPT ![s] = n] /\ answers' = answers
           /\ n.pc = "finalize" /\ n.request = serving[s].request /\ n.failure = serving[s].failure
    BY <1>1, <2>1, ServerGoes
  <2> QED  BY <1>1, <1>3, <2>1, <2>2, LetterIsActedOn DEF Request
<1>4. CASE ~matches(s)
  <2>1. Goto(s, "marker") /\ UNCHANGED <<letter, effects>> /\ "marker" \in ServerPcs
    BY <1>4 DEF updateMessage, ServerPcs, Drizzle
  <2>2. ASSUME NEW n \in ServerState, n.pc = "marker" /\ n.request = serving[s].request /\ n.failure = serving[s].failure
        PROVE  ServerFits(n, source, letter, receipts[n.request.op], effects[n.request][1]) /\ Works(serving[s]) /\ ~Danger(n)
    BY <1>1, <1>2, <2>2 DEF ServerFits, Works, Working, Held, Bull, Drizzle, Danger
  <2> QED  BY <1>1, <2>1, <2>2, ServerGoesOn
<1> QED  BY <1>3, <1>4

LEMMA ReadMarkerIsSafe ==
    ASSUME LettersInv, NEW s \in Servers, readMarker(s)
    PROVE  LettersInv'
<1>1. /\ serving[s].pc \in {"marker", "reconcile"} /\ serving[s] # Idle /\ UNCHANGED <<source, letter, receipts, effects>>
      /\ letterFaults' \in 0..MaxLetterFaults
  BY DEF readMarker, At, Untouched, Idle, LettersInv, LetterTypes
<1>2. /\ ServerFits(serving[s], source, letter, receipts[serving[s].request.op], effects[serving[s].request][1])
      /\ serving[s].request \in LetterRequests
  BY <1>1, ServerFacts
<1>3. CASE letter.marker = Request(s).op
  <2>1. Goto(s, "finalize") /\ "finalize" \in ServerPcs
    BY <1>3 DEF readMarker, ServerPcs
  <2>2. letter.marker # "none" /\ receipts[serving[s].request.op].request = serving[s].request
    BY <1>1, <1>2, <1>3, DeadLettersAssumption DEF ServerFits, Request, Held, Working
  <2>3. effects[serving[s].request][1] = 1
    BY <1>3, <2>2 DEF LettersInv, ReceiptsFit, Request
  <2>4. ASSUME NEW n \in ServerState, n.pc = "finalize" /\ n.request = serving[s].request /\ n.failure = serving[s].failure
        PROVE  ServerFits(n, source, letter, receipts[n.request.op], effects[n.request][1]) /\ ~Works(n) /\ ~Danger(n)
    BY <1>1, <1>2, <2>3, <2>4 DEF ServerFits, Works, Working, Held, Bull, Drizzle, Danger
  <2> QED  BY <1>1, <2>1, <2>4, ServerGoesOn
<1>4. CASE letter.marker # Request(s).op /\ serving[s].pc = "marker"
  <2>1. Goto(s, "row") /\ "row" \in ServerPcs
    BY <1>4 DEF readMarker, At, ServerPcs, Drizzle
  <2>2. ASSUME NEW n \in ServerState, n.pc = "row" /\ n.request = serving[s].request /\ n.failure = serving[s].failure
        PROVE  ServerFits(n, source, letter, receipts[n.request.op], effects[n.request][1]) /\ Works(serving[s]) /\ ~Danger(n)
    BY <1>2, <1>4, <2>2 DEF ServerFits, Works, Working, Held, Bull, Drizzle, Danger
  <2> QED  BY <1>1, <2>1, <2>2, ServerGoesOn
<1>5. CASE letter.marker # Request(s).op /\ serving[s].pc # "marker"
  <2>1. Reply(s, "ambiguous_outcome")
    BY <1>5 DEF readMarker, At
  <2> QED  BY <1>1, <2>1, ServerReplies DEF Failures
<1> QED  BY <1>3, <1>4, <1>5

LEMMA ReadRowIsSafe ==
    ASSUME LettersInv, NEW s \in Servers, readRow(s)
    PROVE  LettersInv'
<1>1. serving[s].pc = "row" /\ serving[s] # Idle /\ Untouched /\ Works(serving[s])
  BY DEF readRow, At, Idle, Works, Working
<1>2. PICK code \in Failures : Fails(s, code)
  BY DEF readRow, Failures
<1> QED  BY <1>1, <1>2, ServerFails

\* The fence that a server reads is that of its request only before the job is retried.
LEMMA GetJobIsSafe ==
    ASSUME LettersInv, NEW s \in Servers, getJob(s)
    PROVE  LettersInv'
<1>1. /\ serving[s].pc \in {"load", "reload"} /\ serving[s] # Idle /\ UNCHANGED <<source, letter, receipts, effects, answers>>
      /\ letterFaults' \in 0..MaxLetterFaults
  BY DEF getJob, Untouched, Idle, LettersInv, LetterTypes
<1>2. /\ ServerFits(serving[s], source, letter, receipts[serving[s].request.op], effects[serving[s].request][1])
      /\ serving[s] \in ServerState /\ serving[s].request.revision \in Nat
  BY <1>1, ServerFacts
<1>3. PICK seen \in Nat : seen = fence /\ letter.revision \in Nat /\ MaxLetterRevision \in Nat
  BY DeadLettersAssumption DEF fence, LettersInv, LetterTypes
<1>4. PICK pc \in {"state", "restate"} : pc = (IF serving[s].pc = "load" THEN "state" ELSE "restate")
  OBVIOUS
<1> DEFINE n == [serving[s] EXCEPT !.seen = seen, !.pc = pc]
<1>5. serving' = [serving EXCEPT ![s] = n]
  BY <1>2, <1>3, <1>4 DEF getJob, LettersInv, LetterTypes, ServerState
<1>6. n \in ServerState /\ n.pc = pc /\ n.request = serving[s].request /\ n.seen = seen /\ n.failure = serving[s].failure
  BY <1>2, <1>4 DEF ServerState, ServerPcs, Bull
<1> HIDE DEF n
<1>7. ServerFits(n, source, letter, receipts[n.request.op], effects[n.request][1])
  BY <1>1, <1>2, <1>4, <1>6 DEF ServerFits, Works, Working, Held, Bull, Drizzle
<1>8. Works(n) => Works(serving[s])
  BY <1>1, <1>4, <1>6 DEF Works, Working
<1>9. Danger(n) => ~Passed(letter, n.request)
  <2> SUFFICES ASSUME Danger(n) PROVE ~Passed(letter, n.request)
    OBVIOUS
  <2>1. seen = serving[s].request.revision
    BY <1>4, <1>6 DEF Danger
  <2>2. source = "bullmq" /\ letter.revision <= MaxLetterRevision /\ serving[s].request.revision <= letter.revision
    BY <1>1, <1>2 DEF ServerFits, Bull, LettersInv, LetterTypes
  <2>3. letter.state = "dead" /\ seen = letter.revision
    BY <1>2, <1>3, <2>1, <2>2 DEF fence
  <2> QED  BY <1>2, <1>3, <1>6, <2>1, <2>3 DEF Passed
<1> QED  BY <1>1, <1>5, <1>6, <1>7, <1>8, <1>9, ServerMoves

LEMMA GetStateIsSafe ==
    ASSUME LettersInv, NEW s \in Servers, getState(s)
    PROVE  LettersInv'
<1>1. /\ serving[s].pc = "state" /\ serving[s] # Idle /\ UNCHANGED <<source, letter, receipts, effects>>
      /\ letterFaults' \in 0..MaxLetterFaults
  BY DEF getState, At, Untouched, Idle, LettersInv, LetterTypes
<1>2. /\ ServerFits(serving[s], source, letter, receipts[serving[s].request.op], effects[serving[s].request][1])
      /\ serving[s] \in ServerState /\ serving[s].request.revision \in Nat
  BY <1>1, ServerFacts
<1>3. CASE letter.state # "dead"
  <2> DEFINE n == [serving[s] EXCEPT !.pc = "raced", !.failure = "not_found"]
  <2>1. serving' = [serving EXCEPT ![s] = n] /\ answers' = answers
    BY <1>3 DEF getState, LettersInv, LetterTypes
  <2>2. n \in ServerState /\ n.pc = "raced" /\ n.request = serving[s].request /\ n.failure = "not_found"
    BY <1>2 DEF ServerState, ServerPcs, Failures
  <2> HIDE DEF n
  <2>3. source = "bullmq" /\ Passed(letter, serving[s].request)
    BY <1>1, <1>2, <1>3 DEF ServerFits, Bull, Passed, LettersInv, LetterTypes
  <2>4. ServerFits(n, source, letter, receipts[n.request.op], effects[n.request][1]) /\ ~Works(n) /\ ~Danger(n)
    BY <1>1, <1>2, <2>2, <2>3 DEF ServerFits, Works, Working, Held, Bull, Drizzle, Danger
  <2> QED  BY <1>1, <2>1, <2>2, <2>4, ServerMoves
<1>4. CASE letter.state = "dead" /\ letter.batchChild
  <2>1. Reply(s, "invalid_state")
    BY <1>4 DEF getState
  <2>2. Refused(Request(s))
    BY <1>4 DEF Refused
  <2> QED  BY <1>1, <2>1, <2>2, ServerReplies
<1>5. CASE letter.state = "dead" /\ ~letter.batchChild
  <2>1. Goto(s, "insert") /\ "insert" \in ServerPcs
    BY <1>5 DEF getState, ServerPcs
  <2>2. ASSUME NEW n \in ServerState, n.pc = "insert" /\ n.request = serving[s].request /\ n.failure = serving[s].failure
        PROVE  ServerFits(n, source, letter, receipts[n.request.op], effects[n.request][1]) /\ ~Works(n) /\ ~Danger(n)
    BY <1>1, <1>2, <1>5, <2>2 DEF ServerFits, Works, Working, Held, Bull, Drizzle, Danger
  <2> QED  BY <1>1, <2>1, <2>2, ServerGoesOn
<1> QED  BY <1>3, <1>4, <1>5

LEMMA CheckFenceIsSafe ==
    ASSUME LettersInv, NEW s \in Servers, checkFence(s)
    PROVE  LettersInv'
<1>1. /\ serving[s].pc = "fence" /\ serving[s] # Idle /\ UNCHANGED <<source, letter, receipts, effects>>
      /\ letterFaults' \in 0..MaxLetterFaults /\ Untouched /\ Works(serving[s])
  BY DEF checkFence, At, Untouched, Idle, LettersInv, LetterTypes, Works, Working
<1>2. ServerFits(serving[s], source, letter, receipts[serving[s].request.op], effects[serving[s].request][1])
  BY <1>1, ServerFacts
<1>3. CASE Fails(s, "stale_revision")
  BY <1>1, <1>3, ServerFails DEF Failures
<1>4. CASE Goto(s, "reload")
  <2>1. "reload" \in ServerPcs
    BY DEF ServerPcs, Bull
  <2>2. ASSUME NEW n \in ServerState, n.pc = "reload" /\ n.request = serving[s].request /\ n.failure = serving[s].failure
        PROVE  ServerFits(n, source, letter, receipts[n.request.op], effects[n.request][1]) /\ ~Danger(n)
    BY <1>1, <1>2, <2>2 DEF ServerFits, Works, Working, Held, Bull, Drizzle, Danger
  <2> QED  BY <1>1, <1>4, <2>1, <2>2, ServerGoesOn
<1> QED  BY <1>3, <1>4 DEF checkFence

LEMMA GetStateAgainIsSafe ==
    ASSUME LettersInv, NEW s \in Servers, getStateAgain(s)
    PROVE  LettersInv'
<1>1. /\ serving[s].pc = "restate" /\ serving[s] # Idle /\ UNCHANGED <<source, letter, receipts, effects>>
      /\ letterFaults' \in 0..MaxLetterFaults /\ Untouched /\ Works(serving[s])
  BY DEF getStateAgain, At, Untouched, Idle, LettersInv, LetterTypes, Works, Working
<1>2. ServerFits(serving[s], source, letter, receipts[serving[s].request.op], effects[serving[s].request][1])
  BY <1>1, ServerFacts
<1>3. CASE Reply(s, "ambiguous_outcome")
  BY <1>1, <1>3, ServerReplies DEF Failures
<1>4. CASE Fails(s, "invalid_state")
  BY <1>1, <1>4, ServerFails DEF Failures
<1>5. CASE serving[s].seen = Request(s).revision /\ Goto(s, "retry")
  <2>1. "retry" \in ServerPcs /\ Danger(serving[s])
    BY <1>1, <1>5 DEF ServerPcs, Bull, Danger, Request
  <2>2. ASSUME NEW n \in ServerState, n.pc = "retry" /\ n.request = serving[s].request /\ n.failure = serving[s].failure
        PROVE  ServerFits(n, source, letter, receipts[n.request.op], effects[n.request][1])
    BY <1>1, <1>2, <2>2 DEF ServerFits, Works, Working, Held, Bull, Drizzle
  <2> QED  BY <1>1, <1>5, <2>1, <2>2, ServerGoesOn
<1> QED  BY <1>3, <1>4, <1>5 DEF getStateAgain

LEMMA RetryJobIsSafe ==
    ASSUME LettersInv, NEW s \in Servers, retryJob(s)
    PROVE  LettersInv'
<1>1. /\ serving[s].pc = "retry" /\ serving[s] # Idle /\ UNCHANGED <<source, receipts, letterFaults>>
      /\ letterFaults' \in 0..MaxLetterFaults
  BY DEF retryJob, At, Idle, LettersInv, LetterTypes
<1>2. CASE letter.state = "dead"
  <2>1. /\ letter' = [letter EXCEPT !.state = "alive"] /\ effects' = Effect(s) /\ Goto(s, "finalize") /\ "finalize" \in ServerPcs
    BY <1>2 DEF retryJob, ServerPcs
  <2>2. PICK n \in ServerState :
           /\ serving' = [serving EXCEPT ![s] = n] /\ answers' = answers
           /\ n.pc = "finalize" /\ n.request = serving[s].request /\ n.failure = serving[s].failure
    BY <1>1, <2>1, ServerGoes
  <2> QED  BY <1>1, <1>2, <2>1, <2>2, LetterIsActedOn DEF Request
<1>3. CASE letter.state # "dead"
  <2>1. Reply(s, "ambiguous_outcome") /\ UNCHANGED <<letter, effects>>
    BY <1>3 DEF retryJob
  <2> QED  BY <1>1, <2>1, ServerReplies DEF Failures
<1> QED  BY <1>2, <1>3

LEMMA DiesIsSafe ==
    ASSUME LettersInv, NEW s \in Servers, dies(s)
    PROVE  LettersInv'
<1>1. /\ UNCHANGED <<source, letter, receipts, effects, answers>> /\ serving' = [serving EXCEPT ![s] = Idle]
      /\ letterFaults' \in 0..MaxLetterFaults
  BY DeadLettersAssumption DEF dies, LettersInv, LetterTypes
<1> QED  BY <1>1, ServerMoves

\* A call rejects; its effect may be there, its server answers or, without the receipt, looks again.
LEMMA RejectsIsSafe ==
    ASSUME LettersInv, NEW s \in Servers, rejects(s)
    PROVE  LettersInv'
<1>1. /\ serving[s] # Idle /\ source' = source /\ letterFaults' \in 0..MaxLetterFaults
  BY DeadLettersAssumption DEF rejects, LettersInv, LetterTypes
<1>2. PICK answer \in {"ambiguous_outcome", "unavailable"} :
         \/ serving[s].pc = "insert" /\ source = "reliability" /\ Goto(s, "raced")
         \/ ~(serving[s].pc = "insert" /\ source = "reliability") /\ Reply(s, answer)
  <2>1. Rejection(s) \in {"ambiguous_outcome", "unavailable"}
    BY DEF Rejection
  <2> QED  BY <2>1 DEF rejects, At
<1>3. answer \notin Failures /\ answer # "committed"
  BY DEF Failures
<1>4. PICK n \in {Idle} \union ServerState :
         /\ serving' = [serving EXCEPT ![s] = n] /\ answers' = answers
         /\ n # Idle => /\ serving[s].pc = "insert" /\ source = "reliability"
                        /\ n.pc = "raced" /\ n.request = Request(s) /\ n.failure = serving[s].failure
  <2>1. CASE serving[s].pc = "insert" /\ source = "reliability" /\ Goto(s, "raced")
    <3>1. "raced" \in ServerPcs
      BY DEF ServerPcs
    <3> QED  BY <1>1, <2>1, <3>1, ServerGoes DEF Request
  <2>2. CASE Reply(s, answer)
    BY <1>3, <2>2 DEF Reply
  <2> QED  BY <1>2, <2>1, <2>2
<1>5. /\ ServerFits(serving[s], source, letter, receipts[serving[s].request.op], effects[serving[s].request][1])
  BY <1>1, ServerFacts
<1>6. CASE UNCHANGED <<letter, receipts, effects>>
  <2>1. n # Idle => ServerFits(n, source, letter, receipts[n.request.op], effects[n.request][1]) /\ ~Works(n) /\ ~Danger(n)
    BY <1>4, <1>5 DEF ServerFits, Works, Working, Held, Bull, Drizzle, Danger, Request
  <2> QED  BY <1>1, <1>4, <1>6, <2>1, ServerMoves
<1>7. CASE At(s, "insert") /\ ~Reserved(s) /\ receipts' = Reservation(s) /\ UNCHANGED <<letter, effects>>
  BY <1>1, <1>4, <1>7, InsertIsSafe DEF At
<1>8. CASE At(s, "finalize") /\ receipts' = Finalized(s, "committed") /\ UNCHANGED <<letter, effects>>
  <2>1. serving[s].pc = "finalize" /\ n = Idle
    BY <1>4, <1>8 DEF At
  <2> QED  BY <1>1, <1>4, <1>8, <2>1, ReceiptIsFinal
<1>9. CASE At(s, "fail") /\ receipts' = Finalized(s, "failed") /\ UNCHANGED <<letter, effects>>
  <2>1. serving[s].pc = "fail" /\ n = Idle
    BY <1>4, <1>9 DEF At
  <2> QED  BY <1>1, <1>4, <1>9, <2>1, ReceiptIsFinal
<1>10. CASE At(s, "update") /\ matches(s) /\ letter' = Managed(s) /\ effects' = Effect(s) /\ UNCHANGED receipts
  <2>1. serving[s].pc = "update" /\ n = Idle /\ letter.state = "dead"
    BY <1>4, <1>10 DEF At, matches
  <2> QED  BY <1>1, <1>4, <1>10, <2>1, LetterIsActedOn
<1>11. CASE /\ At(s, "retry") /\ letter.state = "dead" /\ letter' = [letter EXCEPT !.state = "alive"]
            /\ effects' = Effect(s) /\ UNCHANGED receipts
  <2>1. serving[s].pc = "retry" /\ n = Idle
    BY <1>4, <1>11 DEF At
  <2> QED  BY <1>1, <1>4, <1>11, <2>1, LetterIsActedOn
<1> QED  BY <1>6, <1>7, <1>8, <1>9, <1>10, <1>11 DEF rejects

LEMMA LettersSteps == LettersInv /\ [DeadLettersNext]_letterVars => LettersInv'
<1> SUFFICES ASSUME LettersInv, [DeadLettersNext]_letterVars PROVE LettersInv'
  OBVIOUS
<1>1. CASE UNCHANGED letterVars
  BY <1>1 DEF letterVars, LettersInv, LetterTypes, ServersFit, ReceiptsFit, EffectsFit, AnswerFits, Refused
<1>2. CASE failsAgain
  BY <1>2, LetterFailsAgain
<1>3. ASSUME NEW s \in Servers, \E request \in LetterRequests : receive(s, request) PROVE LettersInv'
  BY <1>3, ReceiveIsSafe
<1>4. ASSUME NEW s \in Servers, authorizes(s) \/ readGuardedJson(s) \/ lookup(s) \/ reserveOperation(s) \/ raced(s) PROVE LettersInv'
  BY <1>4, AuthorizesIsSafe, ReadGuardedJsonIsSafe, LookupIsSafe, ReserveOperationIsSafe, RacedIsSafe
<1>5. ASSUME NEW s \in Servers, finalizeCommitted(s) \/ finalizeFailed(s) \/ updateMessage(s) \/ readMarker(s) \/ readRow(s) PROVE LettersInv'
  BY <1>5, FinalizeCommittedIsSafe, FinalizeFailedIsSafe, UpdateMessageIsSafe, ReadMarkerIsSafe, ReadRowIsSafe
<1>6. ASSUME NEW s \in Servers, getJob(s) \/ getState(s) \/ checkFence(s) \/ getStateAgain(s) \/ retryJob(s) PROVE LettersInv'
  BY <1>6, GetJobIsSafe, GetStateIsSafe, CheckFenceIsSafe, GetStateAgainIsSafe, RetryJobIsSafe
<1>7. ASSUME NEW s \in Servers, rejects(s) \/ dies(s) PROVE LettersInv'
  BY <1>7, RejectsIsSafe, DiesIsSafe
<1> QED  BY <1>1, <1>2, <1>3, <1>4, <1>5, <1>6, <1>7 DEF DeadLettersNext

LEMMA LettersInvIsExact == LettersInv => DeadLettersTypeOK /\ OperationsAreExact
<1> SUFFICES ASSUME LettersInv PROVE DeadLettersTypeOK /\ OperationsAreExact
  OBVIOUS
<1>1. DeadLettersTypeOK
  <2>1. \A o \in Operations : receipts[o].status \in {"none", "pending", "committed", "failed"}
    BY DEF LettersInv, LetterTypes, NoReceipt, Receipt
  <2> QED  BY <2>1, DeadLettersAssumption DEF LettersInv, LetterTypes, DeadLettersTypeOK
<1>2. ASSUME NEW r \in LetterRequests
      PROVE  LET told == {a.answer : a \in {x \in answers : x.request = r /\ ~x.early}}
                 early == {a.answer : a \in {x \in answers : x.request = r /\ x.early}} IN
             /\ effects[r][1] <= 1
             /\ "committed" \in told => effects[r][1] = 1
             /\ told \intersect Failures # {} => effects[r][1] = 0
             /\ early # {} => early = {"invalid_state"} /\ source = "bullmq" /\ r.action = "retry" /\ r.later
             /\ \A q \in LetterRequests : q.op = r.op /\ q # r => effects[q][1] = 0 \/ effects[r][1] = 0
             /\ source = "reliability" => effects[r][2] = 0
  <2> DEFINE told == {a.answer : a \in {x \in answers : x.request = r /\ ~x.early}}
             early == {a.answer : a \in {x \in answers : x.request = r /\ x.early}}
  <2>1. \A q \in LetterRequests : effects[q] \in Nat \X Nat /\ q.op \in Operations
    BY DEF LettersInv, LetterTypes, Operations
  <2>2. "committed" \in told => effects[r][1] = 1
    BY DEF LettersInv, AnswerFits
  <2>3. told \intersect Failures # {} => Refused(r)
    BY DEF LettersInv, AnswerFits
  <2>4. Refused(r) => effects[r][1] = 0
    <3>1. receipts[r.op].status = "failed" /\ receipts[r.op].request = r => effects[r][1] = 0
      BY <2>1 DEF LettersInv, ReceiptsFit
    <3>2. effects[r][1] > 0 => receipts[r.op].status # "none" /\ receipts[r.op].request = r
      BY DEF LettersInv, EffectsFit
    <3>3. effects[r][1] > 0 => Able(source, r) /\ ~letter.batchChild
      BY <2>1, <3>2 DEF LettersInv, ReceiptsFit
    <3> QED  BY <2>1, <3>1, <3>3 DEF Refused
  <2>5. ASSUME NEW q \in LetterRequests, q.op = r.op, q # r PROVE effects[q][1] = 0 \/ effects[r][1] = 0
    BY <2>1, <2>5 DEF LettersInv, EffectsFit
  <2>6. effects[r][1] <= 1 /\ (source = "reliability" => effects[r][2] = 0)
    BY DEF LettersInv, EffectsFit
  <2>7. early # {} => early = {"invalid_state"} /\ source = "bullmq" /\ r.action = "retry" /\ r.later
    BY DEF LettersInv, AnswerFits
  <2> QED  BY <2>2, <2>3, <2>4, <2>5, <2>6, <2>7
<1> QED  BY <1>1, <1>2 DEF OperationsAreExact

\* However many requests are served at once, whatever revisions they name, and whatever
\* rejects or dies: an operation acts at most once and its answers are true.
THEOREM OperationsAreAlwaysExact == DeadLettersSpec => [](DeadLettersTypeOK /\ OperationsAreExact)
<1>1. LettersInv /\ [DeadLettersNext]_letterVars => LettersInv'
  BY LettersSteps
<1> QED  BY <1>1, LettersStart, LettersInvIsExact, PTL DEF DeadLettersSpec

(***************************************************************************)
(* Disks.  The calls an operation has left are a suffix of its calls, so    *)
(* that their number tells where it is.                                     *)
(***************************************************************************)
Contents == NewContents \union {Absent, Old, Torn}
OperationNames == {"read", "exists", "list", "write", "copy", "delete", "move", "release", "none"}
CallNames == {"look", "tombstone", "fallback", "peek", "snapshot", "answer", "read", "head", "truncate", "write",
              "copyFile", "remove", "record", "verify", "open", "publish"}
UserState ==
    [calls : Seq(CallNames), op : OperationNames, path : Paths \union {"none"}, to : Paths \union {"none"}, got : Contents,
     answer : Contents \union {"none", "refused"}, seen : SUBSET Contents, deleted : BOOLEAN]
ReadingCalls(op) == IF op = "read" THEN fallbackOnMissing ELSE IF op = "exists" THEN existsCalls ELSE listCalls
Suffix(c, full) == Len(c) <= Len(full) /\ \A i \in 1..Len(c) : c[i] = full[Len(full) - Len(c) + i]

\* What a reader has seen, by its operation and the calls it has left.
ReadFits(me, recorded) ==
    LET place == <<me.op, Len(me.calls)>> IN
    /\ place \in {<<"read", 6>>, <<"exists", 5>>, <<"list", 3>>, <<"list", 2>>} =>
          IF me.path \in recorded THEN Absent \in me.seen \/ me.deleted ELSE Old \in me.seen
    /\ place \in {<<"read", 5>>, <<"read", 4>>, <<"read", 3>>, <<"read", 2>>, <<"exists", 4>>, <<"exists", 3>>, <<"exists", 2>>} =>
          (me.path \in recorded => me.deleted)
    /\ place \in {<<"read", 2>>, <<"exists", 2>>} => me.path \in recorded \/ Old \in me.seen
    /\ place \in {<<"read", 4>>, <<"read", 3>>, <<"read", 2>>, <<"exists", 3>>, <<"exists", 2>>, <<"list", 2>>} => me.got = Old
    /\ Len(me.calls) = 1 => me.got = Old /\ Old \in me.seen
\* A file is removed under its tombstone.
RemovesFit(c, gone) ==
    /\ \A i \in 1..Len(c) : c[i] = "remove" => gone \/ \E j \in 1..(i - 1) : c[j] = "record"
    /\ \A i \in 1..(Len(c) - 1) : c[i] = "head" => c[i + 1] # "record"
Releases == {<<"read", "verify", "publish">>, <<"read", "verify", "open", "publish">>}
Changing == {"read", "head", "truncate", "write", "copyFile", "remove", "record"}

RunningFits(me, files, recorded) ==
    /\ me.path \in Paths /\ me.to \in Paths /\ me.answer = "none"
    /\ me.op \in Reading => Visible(files, recorded, me.path) \in me.seen
    /\ me.op \in Reading => Suffix(me.calls, ReadingCalls(me.op)) /\ ReadFits(me, recorded)
    /\ me.op = "release" => (\E full \in Releases : Suffix(me.calls, full)) /\ (Head(me.calls) \in {"open", "publish"} => me.got \in Accepted)
    /\ me.op \notin Reading \union {"release"} =>
          /\ me.got \in NewContents \union {Torn} /\ RemovesFit(me.calls, me.path \in recorded)
          /\ \A i \in 1..Len(me.calls) : me.calls[i] \in Changing
Honest(me) ==
    me.op \in Reading /\ me.answer # "none" =>
        IF me.answer = Absent THEN Absent \in me.seen \/ me.deleted
        ELSE IF me.op = "read" THEN me.answer \in me.seen ELSE me.seen # {Absent}
UserFits(me, files, recorded) == IF me.calls = <<>> THEN Honest(me) ELSE RunningFits(me, files, recorded)

FilesInv ==
    /\ primary \in [Paths -> NewContents \union {Absent, Torn}] /\ tombstones \subseteq Paths /\ operations \in 0..MaxOperations
    /\ user \in [Users -> UserState]
    /\ \A u \in Users : UserFits(user[u], primary, tombstones)
    /\ \A path \in superseded : path \in Paths /\ (primary[path] # Absent \/ path \in tombstones)
    /\ destination \in [Paths -> Accepted \union {Absent, Torn}] /\ interrupted \subseteq Paths

LEMMA ContentsDiffer == Absent \notin NewContents /\ Old \notin NewContents /\ Torn \notin NewContents /\ Absent # Old /\ Absent # Torn /\ Old # Torn
  BY FilesystemAssumption DEF Absent, Old, Torn

LEMMA AtRestFits == AtRest \in UserState /\ AtRest.calls = <<>> /\ AtRest.op = "none" /\ AtRest.answer = "none" /\ Honest(AtRest)
<1>1. AtRest.calls = <<>> /\ AtRest.op = "none" /\ AtRest.answer = "none"
  BY DEF AtRest
<1>2. <<>> \in Seq(CallNames)
  OBVIOUS
<1>3. AtRest \in UserState
  <2>1. Absent \in Contents /\ {} \in SUBSET Contents /\ "none" \in Contents \union {"none", "refused"} /\ "none" \in Paths \union {"none"}
    BY DEF Contents
  <2>2. "none" \in OperationNames /\ FALSE \in BOOLEAN
    BY DEF OperationNames
  <2> QED  BY <1>2, <2>1, <2>2, SMT DEF AtRest, UserState
<1> QED  BY <1>1, <1>3 DEF Honest

LEMMA FilesStart == FilesystemInit => FilesInv
<1> SUFFICES ASSUME FilesystemInit PROVE FilesInv
  OBVIOUS
<1>1. /\ primary = [p \in Paths |-> Absent] /\ tombstones = {} /\ user = [u \in Users |-> AtRest] /\ superseded = {}
      /\ destination = [p \in Paths |-> Absent] /\ interrupted = {} /\ operations = 0
  BY DEF FilesystemInit
<1>2. \A u \in Users : user[u] = AtRest
  BY <1>1
<1>3. user \in [Users -> UserState]
  BY <1>1, AtRestFits
<1> QED  BY <1>1, <1>2, <1>3, AtRestFits, FilesystemAssumption DEF FilesInv, UserFits

\* A user that has seen more, when files changed and tombstones were recorded.
Later(v, w, files, before, recorded) ==
    /\ v.calls = <<>> => w = v
    /\ w.calls = v.calls /\ w.op = v.op /\ w.path = v.path /\ w.to = v.to /\ w.got = v.got /\ w.answer = v.answer
    /\ v.seen \subseteq w.seen /\ (v.deleted => w.deleted)
    /\ v.calls # <<>> /\ v.op \in Reading =>
          /\ Visible(files, recorded, v.path) \in w.seen
          /\ v.path \in recorded /\ v.path \notin before => w.deleted

LEMMA OthersFit ==
    ASSUME NEW v, NEW w, NEW files, NEW files2, NEW before, NEW recorded, before \subseteq recorded,
           UserFits(v, files, before), Later(v, w, files2, before, recorded)
    PROVE  UserFits(w, files2, recorded)
<1>1. CASE v.calls = <<>>
  BY <1>1 DEF UserFits, Later
<1>2. CASE v.calls # <<>>
  <2>1. RunningFits(v, files, before) /\ w.calls # <<>>
    BY <1>2 DEF UserFits, Later
  <2>2. v.op \in Reading => ReadFits(w, recorded)
    BY <1>2, <2>1 DEF RunningFits, ReadFits, Later
  <2>3. RemovesFit(v.calls, v.path \in before) => RemovesFit(v.calls, v.path \in recorded)
    BY DEF RemovesFit
  <2>4. RunningFits(w, files2, recorded)
    BY <1>2, <2>1, <2>2, <2>3 DEF RunningFits, Later
  <2> QED  BY <2>1, <2>4 DEF UserFits
<1> QED  BY <1>1, <1>2

\* The step of one user, with what everyone observes of it.
LEMMA FilesStep ==
    ASSUME FilesInv, NEW u \in Users, NEW v \in UserState, Observed([user EXCEPT ![u] = v]),
           primary' \in [Paths -> NewContents \union {Absent, Torn}], tombstones' \subseteq Paths, operations' \in 0..MaxOperations,
           tombstones \subseteq tombstones', v.calls # <<>> => v.path \in Paths,
           destination' \in [Paths -> Accepted \union {Absent, Torn}], interrupted' \subseteq Paths,
           \A p \in Paths : primary[p] # Absent \/ p \in tombstones => primary'[p] # Absent \/ p \in tombstones',
           \A w \in UserState : Later(v, w, primary', tombstones, tombstones') => UserFits(w, primary', tombstones')
    PROVE  FilesInv'
<1> DEFINE now == [user EXCEPT ![u] = v]
           Glimpse(x) == Visible(primary', tombstones', x.path)
           Seen(x) == [x EXCEPT !.seen = @ \union {Glimpse(x)},
                                !.deleted = @ \/ (x.path \in tombstones') # (x.path \in tombstones)]
<1>1. now \in [Users -> UserState] /\ \A t \in Users : now[t] = IF t = u THEN v ELSE user[t]
  BY DEF FilesInv
<1>2. user' = [t \in Users |-> IF now[t].calls = <<>> \/ now[t].op \notin Reading THEN now[t] ELSE Seen(now[t])]
  BY DEF Observed
<1>3. ASSUME NEW x \in UserState, x.calls # <<>>, x.path \in Paths
      PROVE  Seen(x) \in UserState /\ Later(x, Seen(x), primary', tombstones, tombstones')
  <2>1. Glimpse(x) \in Contents
    BY <1>3 DEF Visible, Contents
  <2>2. PICK more \in SUBSET Contents : more = x.seen \union {Glimpse(x)}
    BY <1>3, <2>1 DEF UserState
  <2>3. PICK gone \in BOOLEAN : gone = (x.deleted \/ (x.path \in tombstones') # (x.path \in tombstones))
    BY Zenon
  <2>4. Seen(x) = [x EXCEPT !.seen = more, !.deleted = gone]
    BY <2>2, <2>3, Zenon
  <2> DEFINE w == [x EXCEPT !.seen = more, !.deleted = gone]
  <2>5. w \in UserState /\ w.seen = more /\ w.deleted = gone /\ w.calls = x.calls /\ w.op = x.op /\ w.path = x.path
        /\ w.to = x.to /\ w.got = x.got /\ w.answer = x.answer
    BY <1>3 DEF UserState
  <2>6. (x.deleted => gone) /\ (x.path \in tombstones' /\ x.path \notin tombstones => gone)
    BY <2>3
  <2> HIDE DEF w
  <2>7. Later(x, w, primary', tombstones, tombstones')
    BY <1>3, <2>2, <2>5, <2>6 DEF Later
  <2>8. Seen(x) = w
    BY <2>4 DEF w
  <2> HIDE DEF Seen
  <2> QED  BY <2>5, <2>7, <2>8
<1>4. ASSUME NEW x \in UserState, x.calls = <<>> \/ x.op \notin Reading
      PROVE  Later(x, x, primary', tombstones, tombstones')
  BY <1>4 DEF Later
<1>5. \A t \in Users : user[t].calls # <<>> => user[t].path \in Paths
  BY DEF FilesInv, UserFits, RunningFits
<1>6. ASSUME NEW t \in Users PROVE user'[t] \in UserState /\ Later(now[t], user'[t], primary', tombstones, tombstones')
  <2>1. now[t] \in UserState /\ (now[t].calls # <<>> => now[t].path \in Paths)
    BY <1>1, <1>5
  <2>2. user'[t] = IF now[t].calls = <<>> \/ now[t].op \notin Reading THEN now[t] ELSE Seen(now[t])
    BY <1>2
  <2> HIDE DEF now, Seen, Glimpse
  <2> QED  BY <1>3, <1>4, <2>1, <2>2
<1>7. user' \in [Users -> UserState]
  <2> HIDE DEF now, Seen
  <2> QED  BY <1>2, <1>6
<1> HIDE DEF Seen, Glimpse
<1>8. ASSUME NEW t \in Users PROVE UserFits(user'[t], primary', tombstones')
  <2>1. CASE t = u
    <3>1. Later(v, user'[t], primary', tombstones, tombstones') /\ user'[t] \in UserState
      BY <1>1, <1>6, <2>1
    <3> QED  BY <3>1
  <2>2. CASE t # u
    <3>1. Later(user[t], user'[t], primary', tombstones, tombstones') /\ UserFits(user[t], primary, tombstones)
      BY <1>1, <1>6, <2>2 DEF FilesInv
    <3> QED  BY <3>1, OthersFit
  <2> QED  BY <2>1, <2>2
<1>9. ASSUME NEW p \in superseded' PROVE p \in Paths /\ (primary'[p] # Absent \/ p \in tombstones')
  <2>1. p \in superseded \/ (p \in Paths /\ Visible(primary', tombstones', p) # Old)
    BY <1>9 DEF Observed
  <2> QED  BY <2>1 DEF Visible, FilesInv
<1> QED  BY <1>7, <1>8, <1>9 DEF FilesInv

\* What is left after a call, or after the next one too.
LEMMA CallsLeft ==
    ASSUME NEW c \in Seq(CallNames), c # <<>>, NEW m \in {2, 3}
    PROVE  LET r == SubSeq(c, m, Len(c)) IN
           /\ r \in Seq(CallNames) /\ Len(c) \in Nat \ {0} /\ Head(c) = c[1]
           /\ Len(r) = (IF m <= Len(c) THEN Len(c) - m + 1 ELSE 0)
           /\ \A i \in 1..Len(r) : r[i] = c[i + m - 1]
<1>1. Len(c) \in Nat \ {0} /\ Head(c) = c[1] /\ \A i \in 1..Len(c) : c[i] \in CallNames
  OBVIOUS
<1>2. m \in Int /\ Len(c) \in Int /\ \A i \in m..Len(c) : c[i] \in CallNames
  BY <1>1
<1> DEFINE r == SubSeq(c, m, Len(c))
<1>3. /\ r \in Seq(CallNames) /\ Len(r) = (IF m <= Len(c) THEN Len(c) - m + 1 ELSE 0)
      /\ \A i \in 1..(Len(c) - m + 1) : r[i] = c[m + i - 1]
  BY <1>2, SubSeqProperties
<1>4. \A i \in 1..Len(r) : r[i] = c[i + m - 1]
  <2> HIDE DEF r
  <2> QED  BY <1>1, <1>3
<1> QED  BY <1>1, <1>3, <1>4

LEMMA SuffixGoesOn ==
    ASSUME NEW c \in Seq(CallNames), c # <<>>, NEW full \in Seq(CallNames), Suffix(c, full)
    PROVE  /\ Suffix(SubSeq(c, 2, Len(c)), full) /\ Len(SubSeq(c, 2, Len(c))) = Len(c) - 1 /\ SubSeq(c, 2, Len(c)) \in Seq(CallNames)
           /\ Len(c) \in 1..Len(full) /\ Head(c) = full[Len(full) - Len(c) + 1]
<1> DEFINE r == SubSeq(c, 2, Len(c))
<1>1. /\ r \in Seq(CallNames) /\ Len(c) \in Nat \ {0} /\ Head(c) = c[1] /\ Len(r) = (IF 2 <= Len(c) THEN Len(c) - 2 + 1 ELSE 0)
      /\ \A i \in 1..Len(r) : r[i] = c[i + 2 - 1]
  BY CallsLeft
<1>2. Len(full) \in Nat /\ Len(c) <= Len(full) /\ \A i \in 1..Len(c) : c[i] = full[Len(full) - Len(c) + i]
  BY DEF Suffix
<1> HIDE DEF r
<1>3. PICK n \in Nat \ {0} : n = Len(c)
  BY <1>1
<1>4. PICK m \in Nat : m = Len(full)
  BY <1>2
<1>5. PICK k : k = Len(r)
  OBVIOUS
<1>6. k = (IF 2 <= n THEN n - 2 + 1 ELSE 0)
  <2>1. Len(r) = (IF 2 <= Len(c) THEN Len(c) - 2 + 1 ELSE 0)
    BY <1>1
  <2> QED  BY <2>1, <1>3, <1>5, Zenon
<1>7. k = n - 1
  BY <1>6
<1>8. /\ \A i \in 1..k : r[i] = c[i + 2 - 1]
      /\ \A i \in 1..n : c[i] = full[m - n + i]
  BY <1>1, <1>2, <1>3, <1>4, <1>5, Zenon
<1>9. n <= m
  BY <1>2, <1>3, <1>4, Zenon
<1>10. \A i \in 1..k : r[i] = full[m - k + i]
  <2> TAKE i \in 1..k
  <2>1. i + 2 - 1 = i + 1 /\ i + 1 \in 1..n /\ m - n + (i + 1) = m - k + i
    BY <1>7, <1>9
  <2>2. r[i] = c[i + 1] /\ c[i + 1] = full[m - n + (i + 1)]
    BY <1>8, <2>1, Zenon
  <2> QED  BY <2>1, <2>2, Zenon
<1>11. c[1] = full[m - n + 1]
  BY <1>8, <1>9
<1>12. k <= m /\ n \in 1..m
  BY <1>7, <1>9
<1>13. Suffix(r, full)
  BY <1>4, <1>5, <1>10, <1>12, Zenon DEF Suffix
<1>14. Len(r) = Len(c) - 1
  BY <1>3, <1>5, <1>7, Zenon
<1>15. Len(c) \in 1..Len(full) /\ Head(c) = full[Len(full) - Len(c) + 1]
  BY <1>1, <1>3, <1>4, <1>11, <1>12, Zenon
<1> QED  BY <1>1, <1>13, <1>14, <1>15, Zenon DEF r

\* Where a reader is, by the next of its calls.
Places(op, n, h) ==
    \/ h = "look" /\ <<op, n>> \in {<<"read", 7>>, <<"read", 3>>, <<"exists", 6>>, <<"exists", 3>>, <<"list", 4>>}
    \/ h = "tombstone" /\ <<op, n>> \in {<<"read", 6>>, <<"read", 4>>, <<"read", 2>>, <<"exists", 5>>, <<"exists", 2>>, <<"list", 2>>}
    \/ h = "fallback" /\ <<op, n>> = <<"read", 5>>
    \/ h = "peek" /\ <<op, n>> = <<"exists", 4>>
    \/ h = "snapshot" /\ <<op, n>> = <<"list", 3>>
    \/ h = "answer" /\ n = 1

LEMMA ReaderPlaces ==
    ASSUME NEW op \in Reading, NEW c \in Seq(CallNames), c # <<>>, Suffix(c, ReadingCalls(op))
    PROVE  Places(op, Len(c), Head(c))
<1> DEFINE n == Len(c)
           h == Head(c)
<1>1. ReadingCalls(op) \in Seq(CallNames)
  <2>1. fallbackOnMissing \in Seq(CallNames) /\ existsCalls \in Seq(CallNames) /\ listCalls \in Seq(CallNames)
    BY DEF fallbackOnMissing, existsCalls, listCalls, CallNames
  <2> QED  BY <2>1 DEF ReadingCalls
<1>2. Len(c) \in 1..Len(ReadingCalls(op)) /\ Head(c) = ReadingCalls(op)[Len(ReadingCalls(op)) - Len(c) + 1]
  BY <1>1, SuffixGoesOn
<1> HIDE DEF n, h
<1>3. CASE op = "read"
  <2>1. ReadingCalls(op) = fallbackOnMissing /\ Len(fallbackOnMissing) = 7
    BY <1>3 DEF ReadingCalls, fallbackOnMissing
  <2>2. n \in 1..7 /\ h = fallbackOnMissing[7 - n + 1]
    BY <1>2, <2>1, Zenon DEF n, h
  <2>3. /\ fallbackOnMissing[1] = "look" /\ fallbackOnMissing[2] = "tombstone" /\ fallbackOnMissing[3] = "fallback"
        /\ fallbackOnMissing[4] = "tombstone" /\ fallbackOnMissing[5] = "look" /\ fallbackOnMissing[6] = "tombstone" /\ fallbackOnMissing[7] = "answer"
    BY DEF fallbackOnMissing
  <2>4. (n = 7 /\ h = "look") \/ (n = 6 /\ h = "tombstone") \/ (n = 5 /\ h = "fallback") \/ (n = 4 /\ h = "tombstone")
        \/ (n = 3 /\ h = "look") \/ (n = 2 /\ h = "tombstone") \/ (n = 1 /\ h = "answer")
    BY <2>2, <2>3
  <2>5. Places(op, n, h)
    BY <1>3, <2>4 DEF Places
  <2> QED  BY <2>5 DEF n, h
<1>4. CASE op = "exists"
  <2>1. ReadingCalls(op) = existsCalls /\ Len(existsCalls) = 6
    BY <1>4 DEF ReadingCalls, existsCalls
  <2>2. n \in 1..6 /\ h = existsCalls[6 - n + 1]
    BY <1>2, <2>1, Zenon DEF n, h
  <2>3. /\ existsCalls[1] = "look" /\ existsCalls[2] = "tombstone" /\ existsCalls[3] = "peek"
        /\ existsCalls[4] = "look" /\ existsCalls[5] = "tombstone" /\ existsCalls[6] = "answer"
    BY DEF existsCalls
  <2>4. (n = 6 /\ h = "look") \/ (n = 5 /\ h = "tombstone") \/ (n = 4 /\ h = "peek") \/ (n = 3 /\ h = "look")
        \/ (n = 2 /\ h = "tombstone") \/ (n = 1 /\ h = "answer")
    BY <2>2, <2>3
  <2>5. Places(op, n, h)
    BY <1>4, <2>4 DEF Places
  <2> QED  BY <2>5 DEF n, h
<1>5. CASE op = "list"
  <2>1. ReadingCalls(op) = listCalls /\ Len(listCalls) = 4
    BY <1>5 DEF ReadingCalls, listCalls
  <2>2. n \in 1..4 /\ h = listCalls[4 - n + 1]
    BY <1>2, <2>1, Zenon DEF n, h
  <2>3. listCalls[1] = "look" /\ listCalls[2] = "snapshot" /\ listCalls[3] = "tombstone" /\ listCalls[4] = "answer"
    BY DEF listCalls
  <2>4. (n = 4 /\ h = "look") \/ (n = 3 /\ h = "snapshot") \/ (n = 2 /\ h = "tombstone") \/ (n = 1 /\ h = "answer")
    BY <2>2, <2>3
  <2>5. Places(op, n, h)
    BY <1>5, <2>4 DEF Places
  <2> QED  BY <2>5 DEF n, h
<1> QED  BY <1>3, <1>4, <1>5 DEF Reading

\* The user after a call, before it observes what is there.
Went(v, me, c, got, seen) ==
    v.calls = c /\ v.got = got /\ v.seen = seen /\ v.op = me.op /\ v.path = me.path /\ v.to = me.to /\ v.answer = me.answer /\ v.deleted = me.deleted

LEMMA UserGoesOn ==
    ASSUME FilesInv, NEW u \in Users, NEW c \in Seq(CallNames), NEW got \in Contents, NEW now,
           now = [user EXCEPT ![u].calls = c, ![u].got = got]
    PROVE  \E v \in UserState : now = [user EXCEPT ![u] = v] /\ Went(v, user[u], c, got, user[u].seen)
<1>1. PICK me \in UserState : me = user[u]
  BY DEF FilesInv
<1> DEFINE v == [me EXCEPT !.calls = c, !.got = got]
<1>2. v \in UserState /\ Went(v, me, c, got, me.seen)
  BY <1>1 DEF UserState, Went
<1>3. now = [user EXCEPT ![u] = v]
  BY <1>1 DEF FilesInv
<1> HIDE DEF v
<1> QED  BY <1>1, <1>2, <1>3

LEMMA UserLooksAgain ==
    ASSUME FilesInv, NEW u \in Users, NEW c \in Seq(CallNames), NEW got \in Contents, NEW now,
           now = [user EXCEPT ![u].calls = c, ![u].got = got, ![u].seen = {}]
    PROVE  \E v \in UserState : now = [user EXCEPT ![u] = v] /\ Went(v, user[u], c, got, {})
<1>1. PICK me \in UserState : me = user[u]
  BY DEF FilesInv
<1> DEFINE v == [me EXCEPT !.calls = c, !.got = got, !.seen = {}]
<1>2. v \in UserState /\ Went(v, me, c, got, {})
  BY <1>1 DEF UserState, Went
<1>3. now = [user EXCEPT ![u] = v]
  BY <1>1 DEF FilesInv
<1> HIDE DEF v
<1> QED  BY <1>1, <1>2, <1>3

\* A call that decides the answer; its user holds nothing any more.
LEMMA UserAnswers ==
    ASSUME FilesInv, NEW u \in Users, NEW answer \in Contents \union {"refused"}, Replies(u, answer),
           UNCHANGED <<primary, tombstones, destination, interrupted, operations>>,
           user[u].op \in Reading =>
               IF answer = Absent THEN Absent \in user[u].seen \/ user[u].deleted
               ELSE IF user[u].op = "read" THEN answer \in user[u].seen ELSE user[u].seen # {Absent}
    PROVE  FilesInv'
<1>1. PICK me \in UserState : me = user[u]
  BY DEF FilesInv
<1> DEFINE v == [me EXCEPT !.calls = <<>>, !.answer = answer, !.got = Absent]
<1>2. v \in UserState /\ v.calls = <<>> /\ v.answer = answer /\ v.op = me.op /\ v.seen = me.seen /\ v.deleted = me.deleted
  <2>1. <<>> \in Seq(CallNames) /\ Absent \in Contents
    BY DEF Contents
  <2> QED  BY <1>1, <2>1 DEF UserState
<1>3. [user EXCEPT ![u].calls = <<>>, ![u].answer = answer, ![u].got = Absent] = [user EXCEPT ![u] = v]
  BY <1>1 DEF FilesInv
<1> HIDE DEF v
<1>4. Observed([user EXCEPT ![u] = v])
  BY <1>3 DEF Replies
<1>5. ASSUME NEW w \in UserState, Later(v, w, primary', tombstones, tombstones')
      PROVE  UserFits(w, primary', tombstones')
  <2>1. w = v
    BY <1>2, <1>5 DEF Later
  <2>2. Honest(v)
    BY <1>1, <1>2 DEF Honest
  <2> QED  BY <1>2, <2>1, <2>2 DEF UserFits
<1>6. /\ primary' \in [Paths -> NewContents \union {Absent, Torn}] /\ tombstones' \subseteq Paths /\ operations' \in 0..MaxOperations
      /\ tombstones \subseteq tombstones' /\ destination' \in [Paths -> Accepted \union {Absent, Torn}] /\ interrupted' \subseteq Paths
      /\ \A p \in Paths : primary[p] # Absent \/ p \in tombstones => primary'[p] # Absent \/ p \in tombstones'
  BY DEF FilesInv
<1> QED  BY <1>2, <1>4, <1>5, <1>6, FilesStep

\* A call of a user that leaves files and tombstones alone.
LEMMA UserReads ==
    ASSUME FilesInv, NEW u \in Users, NEW v \in UserState, Observed([user EXCEPT ![u] = v]),
           UNCHANGED <<primary, tombstones, destination, interrupted, operations>>, v.calls # <<>> => v.path \in Paths,
           \A w \in UserState : Later(v, w, primary, tombstones, tombstones) => UserFits(w, primary, tombstones)
    PROVE  FilesInv'
<1>1. /\ primary' \in [Paths -> NewContents \union {Absent, Torn}] /\ tombstones' \subseteq Paths /\ operations' \in 0..MaxOperations
      /\ tombstones \subseteq tombstones' /\ destination' \in [Paths -> Accepted \union {Absent, Torn}] /\ interrupted' \subseteq Paths
      /\ \A p \in Paths : primary[p] # Absent \/ p \in tombstones => primary'[p] # Absent \/ p \in tombstones'
  BY DEF FilesInv
<1>2. \A w \in UserState : Later(v, w, primary', tombstones, tombstones') => UserFits(w, primary', tombstones')
  OBVIOUS
<1> QED  BY <1>1, <1>2, FilesStep

LEMMA AReaderGoesOn ==
    ASSUME NEW me \in UserState, me.calls # <<>>, me.op \in Reading, NEW files, NEW recorded, RunningFits(me, files, recorded),
           NEW w, w.calls = SubSeq(me.calls, 2, Len(me.calls)), w.op = me.op, w.path = me.path, w.to = me.to, w.answer = me.answer,
           w.calls # <<>> => Visible(files, recorded, w.path) \in w.seen, Len(w.calls) = Len(me.calls) - 1 => ReadFits(w, recorded)
    PROVE  UserFits(w, files, recorded)
<1>1. me.calls \in Seq(CallNames) /\ ReadingCalls(me.op) \in Seq(CallNames) /\ Suffix(me.calls, ReadingCalls(me.op))
  <2>1. fallbackOnMissing \in Seq(CallNames) /\ existsCalls \in Seq(CallNames) /\ listCalls \in Seq(CallNames)
    BY DEF fallbackOnMissing, existsCalls, listCalls, CallNames
  <2>2. me.calls \in Seq(CallNames) /\ Suffix(me.calls, ReadingCalls(me.op))
    BY DEF UserState, RunningFits
  <2> QED  BY <2>1, <2>2 DEF ReadingCalls
<1>2. Suffix(w.calls, ReadingCalls(w.op)) /\ Len(w.calls) = Len(me.calls) - 1
  BY <1>1, SuffixGoesOn
<1>3. w.op \notin {"release"} /\ w.op \in Reading
  BY DEF Reading
<1>4. me.answer = "none" /\ me.path \in Paths /\ me.to \in Paths
  BY DEF RunningFits
<1>5. CASE w.calls = <<>>
  BY <1>4, <1>5 DEF UserFits, Honest
<1>6. CASE w.calls # <<>>
  <2>1. RunningFits(w, files, recorded)
    BY <1>2, <1>3, <1>4, <1>6 DEF RunningFits
  <2> QED  BY <1>6, <2>1 DEF UserFits
<1> QED  BY <1>5, <1>6

\* What a reader that has made its next call knows.
Knows(w, me, got, seen) ==
    /\ w.op = me.op /\ w.path = me.path /\ w.got = got /\ seen \subseteq w.seen /\ (me.deleted => w.deleted)
    /\ Len(w.calls) = Len(me.calls) - 1
    /\ Len(w.calls) # 0 => Visible(primary, tombstones, me.path) \in w.seen

LEMMA ReaderMoves ==
    ASSUME FilesInv, NEW u \in Users, user[u].calls # <<>>, user[u].op \in Reading, NEW got \in Contents, NEW seen,
           NEW v \in UserState, Went(v, user[u], SubSeq(user[u].calls, 2, Len(user[u].calls)), got, seen),
           Observed([user EXCEPT ![u] = v]), UNCHANGED <<primary, tombstones, destination, interrupted, operations>>,
           \A w \in UserState : Knows(w, user[u], got, seen) => ReadFits(w, tombstones)
    PROVE  FilesInv'
<1>1. PICK me \in UserState : me = user[u]
  BY DEF FilesInv
<1>2. RunningFits(me, primary, tombstones)
  BY <1>1 DEF FilesInv, UserFits
<1>3. ASSUME NEW w \in UserState, Later(v, w, primary, tombstones, tombstones)
      PROVE  UserFits(w, primary, tombstones)
  <2>1. /\ w.calls = SubSeq(me.calls, 2, Len(me.calls)) /\ w.op = me.op /\ w.path = me.path /\ w.to = me.to /\ w.answer = me.answer
        /\ w.got = got /\ (w.calls # <<>> => Visible(primary, tombstones, w.path) \in w.seen) /\ seen \subseteq w.seen
        /\ (me.deleted => w.deleted)
    BY <1>1, <1>3 DEF Later, Went
  <2>2. w.calls \in Seq(CallNames) /\ (Len(w.calls) # 0 => w.calls # <<>>)
    BY DEF UserState
  <2>3. Len(w.calls) = Len(me.calls) - 1 => Knows(w, me, got, seen)
    BY <2>1, <2>2 DEF Knows
  <2>4. Len(w.calls) = Len(me.calls) - 1 => ReadFits(w, tombstones)
    BY <1>1, <2>3
  <2> QED  BY <1>1, <1>2, <2>1, <2>4, AReaderGoesOn
<1>4. v.path \in Paths
  BY <1>1, <1>2 DEF Went, RunningFits
<1> QED  BY <1>3, <1>4, UserReads

LEMMA ReaderProceeds ==
    ASSUME FilesInv, NEW u \in Users, user[u].calls # <<>>, user[u].op \in Reading, NEW got \in Contents,
           Proceeds(u, got, 0), UNCHANGED <<primary, tombstones, destination, interrupted, operations>>,
           \A w \in UserState : Knows(w, user[u], got, user[u].seen) => ReadFits(w, tombstones)
    PROVE  FilesInv'
<1>1. PICK me \in UserState : me = user[u]
  BY DEF FilesInv
<1>2. me.calls \in Seq(CallNames)
  BY DEF UserState
<1>3. SubSeq(me.calls, 2, Len(me.calls)) \in Seq(CallNames)
  BY <1>1, <1>2, CallsLeft
<1>4. PICK c \in Seq(CallNames) : c = SubSeq(me.calls, 2, Len(me.calls))
  BY <1>3
<1>5. Observed([user EXCEPT ![u].calls = c, ![u].got = got])
  <2>1. Observed([user EXCEPT ![u].calls = SubSeq(@, 2 + 0, Len(@)), ![u].got = got])
    BY DEF Proceeds
  <2>2. [user EXCEPT ![u].calls = SubSeq(@, 2 + 0, Len(@)), ![u].got = got] = [user EXCEPT ![u].calls = c, ![u].got = got]
    BY <1>1, <1>4
  <2> QED  BY <2>1, <2>2
<1>6. PICK v \in UserState : [user EXCEPT ![u].calls = c, ![u].got = got] = [user EXCEPT ![u] = v] /\ Went(v, user[u], c, got, user[u].seen)
  BY UserGoesOn
<1> QED  BY <1>1, <1>4, <1>5, <1>6, ReaderMoves

\* The next call of read, exists or list.
LEMMA ReadersRead ==
    ASSUME FilesInv, NEW u \in Users, user[u].op \in Reading, reads(u)
    PROVE  FilesInv'
<1>1. PICK me \in UserState : me = user[u]
  BY DEF FilesInv
<1>2. PICK n : n = Len(me.calls)
  OBVIOUS
<1>3. PICK h : h = Head(me.calls)
  OBVIOUS
<1>4. me.calls # <<>> /\ UNCHANGED <<primary, tombstones, destination, interrupted, operations>> /\ me.op \in Reading
  BY <1>1 DEF reads
<1>5. RunningFits(me, primary, tombstones) /\ ReadFits(me, tombstones) /\ Visible(primary, tombstones, me.path) \in me.seen /\ me.path \in Paths
  BY <1>1, <1>4 DEF FilesInv, UserFits, RunningFits
<1>6. Places(me.op, n, h)
  <2>1. me.calls \in Seq(CallNames) /\ Suffix(me.calls, ReadingCalls(me.op))
    BY <1>4, <1>5 DEF UserState, RunningFits
  <2> QED  BY <1>2, <1>3, <1>4, <2>1, ReaderPlaces
<1>7. PICK here \in NewContents \union {Absent, Torn} : here = primary[me.path]
  BY <1>5 DEF FilesInv
<1>8. here \in Contents /\ here # Old /\ Old \in Contents /\ me.got \in Contents /\ Absent \in Contents /\ Old # Absent
  BY ContentsDiffer DEF Contents, UserState
<1>9. CASE h = "look"
  <2>1. IF here = Absent THEN Proceeds(u, me.got, 0) ELSE Replies(u, here)
    BY <1>1, <1>3, <1>7, <1>9 DEF reads
  <2>2. CASE here = Absent
    <3>1. \A w \in UserState : Knows(w, me, me.got, me.seen) => ReadFits(w, tombstones)
      <4> TAKE w \in UserState
      <4> HAVE Knows(w, me, me.got, me.seen)
      <4>1. Len(w.calls) = n - 1 /\ w.op = me.op /\ w.path = me.path /\ w.got = me.got
            /\ (Len(w.calls) # 0 => Visible(primary, tombstones, me.path) \in w.seen)
            /\ (me.deleted => w.deleted)
        BY <1>2 DEF Knows
      <4>2. Visible(primary, tombstones, me.path) = IF me.path \in tombstones THEN Absent ELSE Old
        BY <1>7, <2>2 DEF Visible
      <4>3. /\ <<me.op, n>> = <<"read", 3>> \/ <<me.op, n>> = <<"exists", 3>> => me.got = Old /\ (me.path \in tombstones => me.deleted)
            /\ <<me.op, n>> \in {<<"read", 7>>, <<"read", 3>>, <<"exists", 6>>, <<"exists", 3>>, <<"list", 4>>}
        BY <1>2, <1>5, <1>6, <1>9 DEF ReadFits, Places
      <4> QED  BY <4>1, <4>2, <4>3 DEF ReadFits
    <3> QED  BY <1>1, <1>4, <1>8, <2>1, <2>2, <3>1, ReaderProceeds
  <2>3. CASE here # Absent
    <3>1. here \in me.seen
      BY <1>5, <1>7, <2>3 DEF Visible
    <3> QED  BY <1>1, <1>4, <1>8, <2>1, <2>3, <3>1, UserAnswers
  <2> QED  BY <2>2, <2>3
<1>10. CASE h = "tombstone"
  <2>1. IF me.path \in tombstones THEN Replies(u, Absent) ELSE Proceeds(u, me.got, 0)
    BY <1>1, <1>3, <1>10 DEF reads
  <2>0. <<me.op, n>> \in {<<"read", 6>>, <<"read", 4>>, <<"read", 2>>, <<"exists", 5>>, <<"exists", 2>>, <<"list", 2>>}
    BY <1>6, <1>10 DEF Places
  <2>2. CASE me.path \in tombstones
    <3>1. Absent \in me.seen \/ me.deleted
      BY <1>2, <1>5, <2>0, <2>2 DEF ReadFits
    <3> QED  BY <1>1, <1>4, <1>8, <2>1, <2>2, <3>1, UserAnswers
  <2>3. CASE me.path \notin tombstones
    <3>1. \A w \in UserState : Knows(w, me, me.got, me.seen) => ReadFits(w, tombstones)
      <4> TAKE w \in UserState
      <4> HAVE Knows(w, me, me.got, me.seen)
      <4>1. Len(w.calls) = n - 1 /\ w.op = me.op /\ w.path = me.path /\ w.got = me.got /\ me.seen \subseteq w.seen
        BY <1>2 DEF Knows
      <4>2. /\ <<me.op, n>> \in {<<"read", 4>>, <<"read", 2>>, <<"exists", 2>>, <<"list", 2>>} => me.got = Old
            /\ <<me.op, n>> \in {<<"read", 2>>, <<"exists", 2>>, <<"list", 2>>} => Old \in me.seen
        BY <1>2, <1>5, <2>3 DEF ReadFits
      <4> QED  BY <2>0, <2>3, <4>1, <4>2 DEF ReadFits
    <3> QED  BY <1>1, <1>4, <1>8, <2>1, <2>3, <3>1, ReaderProceeds
  <2> QED  BY <2>2, <2>3
<1>11. CASE h \in {"fallback", "peek"}
  <2>1. Observed([user EXCEPT ![u].calls = Tail(@), ![u].got = Old, ![u].seen = {}])
    BY <1>1, <1>3, <1>11 DEF reads
  <2>2. me.calls \in Seq(CallNames) /\ Tail(me.calls) = SubSeq(me.calls, 2, Len(me.calls)) /\ Tail(me.calls) \in Seq(CallNames)
    <3>1. me.calls \in Seq(CallNames)
      BY DEF UserState
    <3> QED  BY <1>4, <3>1, TailIsSubSeq, HeadTailProperties
  <2>3. PICK c \in Seq(CallNames) : c = Tail(me.calls)
    BY <2>2
  <2>4. Observed([user EXCEPT ![u].calls = c, ![u].got = Old, ![u].seen = {}])
    <3>1. [user EXCEPT ![u].calls = Tail(@), ![u].got = Old, ![u].seen = {}] = [user EXCEPT ![u].calls = c, ![u].got = Old, ![u].seen = {}]
      BY <1>1, <2>3
    <3> QED  BY <2>1, <3>1
  <2>5. PICK v \in UserState : [user EXCEPT ![u].calls = c, ![u].got = Old, ![u].seen = {}] = [user EXCEPT ![u] = v] /\ Went(v, user[u], c, Old, {})
    BY <1>8, UserLooksAgain
  <2>6. \A w \in UserState : Knows(w, me, Old, {}) => ReadFits(w, tombstones)
    <3> TAKE w \in UserState
    <3> HAVE Knows(w, me, Old, {})
    <3>1. Len(w.calls) = n - 1 /\ w.op = me.op /\ w.path = me.path /\ w.got = Old /\ (me.deleted => w.deleted)
      BY <1>2 DEF Knows
    <3>2. <<me.op, n>> \in {<<"read", 5>>, <<"exists", 4>>} /\ (me.path \in tombstones => me.deleted)
      BY <1>2, <1>5, <1>6, <1>11 DEF ReadFits, Places
    <3> QED  BY <3>1, <3>2 DEF ReadFits
  <2> QED  BY <1>1, <1>4, <1>8, <2>2, <2>3, <2>4, <2>5, <2>6, ReaderMoves
<1>12. CASE h = "snapshot"
  <2>1. Proceeds(u, Old, 0)
    BY <1>1, <1>3, <1>12 DEF reads
  <2>2. \A w \in UserState : Knows(w, me, Old, me.seen) => ReadFits(w, tombstones)
    <3> TAKE w \in UserState
    <3> HAVE Knows(w, me, Old, me.seen)
    <3>1. Len(w.calls) = n - 1 /\ w.op = me.op /\ w.path = me.path /\ w.got = Old /\ (me.deleted => w.deleted) /\ me.seen \subseteq w.seen
      BY <1>2 DEF Knows
    <3>2. <<me.op, n>> = <<"list", 3>> /\ IF me.path \in tombstones THEN Absent \in me.seen \/ me.deleted ELSE Old \in me.seen
      BY <1>2, <1>5, <1>6, <1>12 DEF ReadFits, Places
    <3> QED  BY <3>1, <3>2 DEF ReadFits
  <2> QED  BY <1>1, <1>4, <1>8, <2>1, <2>2, ReaderProceeds
<1>13. CASE h = "answer"
  <2>1. Replies(u, me.got)
    BY <1>1, <1>3, <1>13 DEF reads
  <2>2. me.got = Old /\ Old \in me.seen
    BY <1>2, <1>5, <1>6, <1>13 DEF ReadFits, Places
  <2> QED  BY <1>1, <1>4, <1>8, <2>1, <2>2, UserAnswers
<1> QED  BY <1>6, <1>9, <1>10, <1>11, <1>12, <1>13 DEF Places

\* The calls of a driver.
Plain == {"read", "truncate", "write", "copyFile"}
LEMMA DriverCalls ==
    /\ FilesystemDriver.write \in Seq(Plain) \ {<<>>} /\ FilesystemDriver.copy \in Seq(Plain) \ {<<>>}
    /\ FilesystemDriver.same \in {<<"read">>, <<"head">>} /\ FilesystemDriver.delete \in {<<"remove">>, <<"head", "remove">>}
<1>1. FilesystemDriver \in {InMemoryFilesystem, LocalFilesystem, AwsS3Filesystem, CloudflareR2Filesystem}
  BY DEF FilesystemDriver
<1>2. \A d \in {InMemoryFilesystem, LocalFilesystem, AwsS3Filesystem, CloudflareR2Filesystem} :
         /\ d.write \in {<<"write">>, <<"truncate", "write">>} /\ d.copy \in {<<"read", "write">>, <<"read", "truncate", "write">>, <<"copyFile">>}
         /\ d.same \in {<<"read">>, <<"head">>} /\ d.delete \in {<<"remove">>, <<"head", "remove">>}
  BY DEF InMemoryFilesystem, LocalFilesystem, AwsS3Filesystem, CloudflareR2Filesystem
<1>3. \A c \in {<<"write">>, <<"truncate", "write">>, <<"read", "write">>, <<"read", "truncate", "write">>, <<"copyFile">>} :
         c \in Seq(Plain) \ {<<>>}
  <2>1. "write" \in Plain /\ "read" \in Plain /\ "truncate" \in Plain /\ "copyFile" \in Plain
    BY DEF Plain
  <2> HIDE DEF Plain
  <2>2. <<"write">> \in Seq(Plain) /\ <<"copyFile">> \in Seq(Plain) /\ <<"truncate", "write">> \in Seq(Plain)
    BY <2>1
  <2>3. <<"read", "write">> \in Seq(Plain) /\ <<"read", "truncate", "write">> \in Seq(Plain)
    BY <2>1
  <2>4. <<"write">> # <<>> /\ <<"copyFile">> # <<>> /\ <<"truncate", "write">> # <<>> /\ <<"read", "write">> # <<>> /\ <<"read", "truncate", "write">> # <<>>
    OBVIOUS
  <2> QED  BY <2>2, <2>3, <2>4, Zenon
<1> QED  BY <1>1, <1>2, <1>3

\* Calls of an operation that changes files.
ChangingSound(c) == c \in Seq(CallNames) /\ c # <<>> /\ RemovesFit(c, FALSE) /\ \A i \in 1..Len(c) : c[i] \in Changing
LEMMA PlainCalls ==
    ASSUME NEW c \in Seq(Plain) \ {<<>>}
    PROVE  ChangingSound(c)
<1>1. Len(c) \in Nat /\ \A i \in 1..Len(c) : c[i] \in Plain
  OBVIOUS
<1>2. Plain \subseteq CallNames /\ Plain \subseteq Changing /\ "remove" \notin Plain /\ "head" \notin Plain
  BY DEF Plain, CallNames, Changing
<1>3. c \in Seq(CallNames)
  BY <1>1, <1>2
<1>4. \A i \in 1..(Len(c) - 1) : i \in 1..Len(c)
  BY <1>1
<1>5. RemovesFit(c, FALSE)
  BY <1>1, <1>2, <1>4 DEF RemovesFit
<1> QED  BY <1>1, <1>2, <1>3, <1>5 DEF ChangingSound

LEMMA DeleteCalls ==
    ASSUME NEW a \in Seq(Plain), NEW b \in Seq({"head", "remove"})
    PROVE  ChangingSound(a \o <<"record">> \o b) /\ ChangingSound(<<"record">> \o b)
<1>1. ASSUME NEW a1 \in Seq(Plain) PROVE ChangingSound(a1 \o <<"record">> \o b)
  <2>1. Plain \subseteq CallNames /\ Plain \subseteq Changing /\ "remove" \notin Plain /\ "head" \notin Plain /\ "record" \in CallNames
        /\ "record" \in Changing /\ {"head", "remove"} \subseteq CallNames /\ {"head", "remove"} \subseteq Changing /\ "record" \notin {"head", "remove"}
    BY DEF Plain, CallNames, Changing
  <2>2. a1 \in Seq(CallNames) /\ b \in Seq(CallNames) /\ <<"record">> \in Seq(CallNames) /\ Len(<<"record">>) = 1 /\ <<"record">>[1] = "record"
    <3> HIDE DEF Plain, CallNames
    <3> QED  BY <2>1
  <2>3. PICK n \in Nat : n = Len(a1) /\ \A i \in 1..n : a1[i] \in Plain
    OBVIOUS
  <2>4. PICK m \in Nat : m = Len(b) /\ \A i \in 1..m : b[i] \in {"head", "remove"}
    OBVIOUS
  <2>5. PICK s \in Seq(CallNames) : s = a1 \o <<"record">>
    BY <2>2, ConcatProperties
  <2>6. Len(s) = n + 1 /\ \A i \in 1..(n + 1) : s[i] = IF i <= n THEN a1[i] ELSE "record"
    <3>1. Len(s) = n + 1 /\ \A i \in 1..(n + 1) : s[i] = IF i <= n THEN a1[i] ELSE <<"record">>[i - n]
      BY <2>2, <2>3, <2>5, ConcatProperties
    <3>2. \A i \in 1..(n + 1) : i <= n \/ i - n = 1
      OBVIOUS
    <3> QED  BY <2>2, <3>1, <3>2
  <2>7. PICK c \in Seq(CallNames) : c = s \o b
    BY <2>2, ConcatProperties
  <2>8. Len(c) = n + 1 + m /\ \A i \in 1..(n + 1 + m) : c[i] = IF i <= n + 1 THEN s[i] ELSE b[i - (n + 1)]
    <3>1. Len(c) = Len(s) + Len(b) /\ \A i \in 1..(Len(s) + Len(b)) : c[i] = IF i <= Len(s) THEN s[i] ELSE b[i - Len(s)]
      BY <2>2, <2>7, ConcatProperties
    <3> QED  BY <2>4, <2>6, <3>1, Zenon
  <2>9. /\ \A i \in 1..n : c[i] \in Plain
        /\ c[n + 1] = "record"
        /\ \A i \in (n + 2)..(n + 1 + m) : c[i] \in {"head", "remove"}
    <3>1. \A i \in 1..n : i \in 1..(n + 1 + m) /\ i <= n + 1 /\ i \in 1..(n + 1)
      OBVIOUS
    <3>2. n + 1 \in 1..(n + 1 + m) /\ n + 1 \in 1..(n + 1) /\ ~(n + 1 <= n)
      OBVIOUS
    <3>3. \A i \in (n + 2)..(n + 1 + m) : i \in 1..(n + 1 + m) /\ ~(i <= n + 1) /\ i - (n + 1) \in 1..m
      OBVIOUS
    <3>4. \A i \in 1..n : c[i] \in Plain
      BY <2>3, <2>6, <2>8, <3>1
    <3>5. c[n + 1] = "record"
      BY <2>6, <2>8, <3>2
    <3>6. \A i \in (n + 2)..(n + 1 + m) : c[i] = b[i - (n + 1)]
      BY <2>8, <3>3
    <3>7. \A i \in (n + 2)..(n + 1 + m) : c[i] \in {"head", "remove"}
      BY <2>4, <3>3, <3>6
    <3> QED  BY <3>4, <3>5, <3>7
  <2>10. \A i \in 1..Len(c) : i \in 1..n \/ i = n + 1 \/ i \in (n + 2)..(n + 1 + m)
    BY <2>8
  <2>11. \A i \in 1..Len(c) : c[i] \in Changing
    BY <2>1, <2>9, <2>10
  <2>12. \A i \in 1..Len(c) : c[i] = "remove" => \E j \in 1..(i - 1) : c[j] = "record"
    <3> SUFFICES ASSUME NEW i \in 1..Len(c), c[i] = "remove" PROVE \E j \in 1..(i - 1) : c[j] = "record"
      OBVIOUS
    <3>1. i \in (n + 2)..(n + 1 + m)
      BY <2>1, <2>9, <2>10
    <3>2. n + 1 \in 1..(i - 1)
      BY <3>1
    <3> QED  BY <2>9, <3>2
  <2>13. \A i \in 1..(Len(c) - 1) : c[i] = "head" => c[i + 1] # "record"
    <3> SUFFICES ASSUME NEW i \in 1..(Len(c) - 1), c[i] = "head" PROVE c[i + 1] # "record"
      OBVIOUS
    <3>1. i \in 1..Len(c) /\ i + 1 <= n + 1 + m
      BY <2>8
    <3>2. i \in (n + 2)..(n + 1 + m)
      BY <2>1, <2>9, <2>10, <3>1
    <3>3. i + 1 \in (n + 2)..(n + 1 + m)
      BY <3>1, <3>2
    <3> QED  BY <2>1, <2>9, <3>3
  <2>14. c # <<>>
    BY <2>8
  <2> QED  BY <2>5, <2>7, <2>11, <2>12, <2>13, <2>14 DEF ChangingSound, RemovesFit
<1>2. <<>> \in Seq(Plain) /\ <<>> \o <<"record">> = <<"record">>
  OBVIOUS
<1>3. ChangingSound(<<>> \o <<"record">> \o b)
  BY <1>1, <1>2
<1> QED  BY <1>1, <1>2, <1>3

LEMMA OperationCalls ==
    ASSUME NEW op \in {"write", "copy", "delete", "move"}, NEW same \in BOOLEAN
    PROVE  ChangingSound(Calls(op, same))
<1>1. <<"read">> \in Seq(Plain) \ {<<>>} /\ ChangingSound(<<"head">>)
  <2>1. "read" \in Plain /\ "head" \in CallNames /\ "head" \in Changing
    BY DEF Plain, CallNames, Changing
  <2>2. <<"read">> \in Seq(Plain) /\ <<"read">> # <<>>
    BY <2>1
  <2>3. <<"head">> \in Seq(CallNames) /\ <<"head">> # <<>> /\ Len(<<"head">>) = 1 /\ <<"head">>[1] = "head"
    BY <2>1
  <2>4. \A i \in 1..1 : i = 1
    OBVIOUS
  <2>5. (1..(1 - 1)) = {} /\ "head" # "remove"
    OBVIOUS
  <2>6. RemovesFit(<<"head">>, FALSE)
    BY <2>3, <2>4, <2>5 DEF RemovesFit
  <2>7. \A i \in 1..Len(<<"head">>) : <<"head">>[i] \in Changing
    BY <2>1, <2>3, <2>4
  <2> QED  BY <2>2, <2>3, <2>6, <2>7 DEF ChangingSound
<1>2. <<"remove">> \in Seq({"head", "remove"}) /\ <<"head", "remove">> \in Seq({"head", "remove"})
  <2> DEFINE S == {"head", "remove"}
  <2>1. "head" \in S /\ "remove" \in S
    OBVIOUS
  <2> HIDE DEF S
  <2>2. <<"remove">> \in Seq(S) /\ <<"head", "remove">> \in Seq(S)
    BY <2>1
  <2> QED  BY <2>2 DEF S
<1>3. FilesystemDriver.delete \in Seq({"head", "remove"}) /\ FilesystemDriver.copy \in Seq(Plain)
  BY <1>2, DriverCalls
<1>4. CASE op = "write"
  BY <1>4, DriverCalls, PlainCalls DEF Calls
<1>5. CASE op = "copy"
  BY <1>5, DriverCalls, PlainCalls DEF Calls
<1>6. CASE op = "delete"
  <2>1. ChangingSound(<<"record">> \o FilesystemDriver.delete)
    BY <1>3, DeleteCalls
  <2> QED  BY <1>6, <2>1 DEF Calls, deleteCalls
<1>7. CASE op = "move"
  <2>1. ChangingSound(FilesystemDriver.same)
    BY <1>1, DriverCalls, PlainCalls
  <2>2. ChangingSound(FilesystemDriver.copy \o <<"record">> \o FilesystemDriver.delete)
    BY <1>3, DeleteCalls
  <2> QED  BY <1>7, <2>1, <2>2 DEF Calls, moveCalls
<1> QED  BY <1>4, <1>5, <1>6, <1>7

\* What is left of the calls of an operation that changes files.
LEMMA ChangesGoOn ==
    ASSUME NEW c \in Seq(CallNames), c # <<>>, NEW gone \in BOOLEAN, RemovesFit(c, gone), \A i \in 1..Len(c) : c[i] \in Changing,
           NEW m \in {2, 3}, m = 3 => Head(c) = "head"
    PROVE  LET r == SubSeq(c, m, Len(c)) IN
           r \in Seq(CallNames) /\ RemovesFit(r, gone \/ Head(c) = "record") /\ \A i \in 1..Len(r) : r[i] \in Changing
<1> DEFINE r0 == SubSeq(c, m, Len(c))
<1>1. /\ r0 \in Seq(CallNames) /\ Len(c) \in Nat \ {0} /\ Head(c) = c[1]
      /\ Len(r0) = (IF m <= Len(c) THEN Len(c) - m + 1 ELSE 0)
      /\ \A i \in 1..Len(r0) : r0[i] = c[i + m - 1]
  BY CallsLeft
<1> HIDE DEF r0
<1>2. PICK r \in Seq(CallNames) : r = r0
  BY <1>1
<1>3. PICK n \in Nat \ {0} : n = Len(c)
  BY <1>1
<1>4. PICK k : k = Len(r)
  OBVIOUS
<1>5. k = (IF m <= n THEN n - m + 1 ELSE 0) /\ \A i \in 1..k : r[i] = c[i + m - 1]
  BY <1>1, <1>2, <1>3, <1>4, Zenon
<1>6. /\ \A i \in 1..n : c[i] = "remove" => gone \/ \E j \in 1..(i - 1) : c[j] = "record"
      /\ \A i \in 1..(n - 1) : c[i] = "head" => c[i + 1] # "record"
      /\ \A i \in 1..n : c[i] \in Changing
  BY <1>3, Zenon DEF RemovesFit
<1>7. k \in Nat /\ \A i \in 1..k : i + m - 1 \in 1..n
  BY <1>5
<1>8. \A i \in 1..k : r[i] \in Changing
  BY <1>5, <1>6, <1>7
<1>9. ASSUME NEW i \in 1..k, r[i] = "remove", ~gone, c[1] # "record"
      PROVE  \E j \in 1..(i - 1) : r[j] = "record"
  <2>1. c[i + m - 1] = "remove" /\ i + m - 1 \in 1..n
    BY <1>5, <1>7, <1>9
  <2>2. PICK j \in 1..(i + m - 1 - 1) : c[j] = "record"
    BY <1>6, <1>9, <2>1
  <2>3. j # 1
    BY <1>9, <2>2
  <2>4. m = 3 => j # 2
    <3> SUFFICES ASSUME m = 3, j = 2 PROVE FALSE
      OBVIOUS
    <3>1. 1 \in 1..(n - 1) /\ 1 + 1 = 2
      BY <2>1, <1>9
    <3>2. c[1] = "head"
      BY <1>1
    <3> QED  BY <1>6, <2>2, <3>1, <3>2
  <2>5. j - m + 1 \in 1..(i - 1) /\ j - m + 1 \in 1..k /\ (j - m + 1) + m - 1 = j
    BY <1>7, <1>9, <2>2, <2>3, <2>4
  <2>6. r[j - m + 1] = c[(j - m + 1) + m - 1]
    BY <1>5, <2>5, Zenon
  <2> QED  BY <2>2, <2>5, <2>6
<1>10. ASSUME NEW i \in 1..(k - 1), r[i] = "head"
       PROVE  r[i + 1] # "record"
  <2>1. i \in 1..k /\ i + 1 \in 1..k /\ (i + 1) + m - 1 = (i + m - 1) + 1
    BY <1>7
  <2>2. i + m - 1 \in 1..(n - 1)
    BY <1>7, <2>1
  <2>3. c[i + m - 1] = "head" /\ r[i + 1] = c[(i + m - 1) + 1]
    BY <1>5, <1>10, <2>1
  <2> QED  BY <1>6, <2>2, <2>3
<1>11. RemovesFit(r, gone \/ Head(c) = "record")
  <2>1. \A i \in 1..k : r[i] = "remove" => (gone \/ Head(c) = "record") \/ \E j \in 1..(i - 1) : r[j] = "record"
    BY <1>1, <1>9
  <2>2. \A i \in 1..(k - 1) : r[i] = "head" => r[i + 1] # "record"
    BY <1>10
  <2> QED  BY <1>4, <2>1, <2>2, Zenon DEF RemovesFit
<1>12. \A i \in 1..Len(r) : r[i] \in Changing
  BY <1>4, <1>8
<1> QED  BY <1>2, <1>11, <1>12 DEF r0

LEMMA AChangerGoesOn ==
    ASSUME NEW me \in UserState, me.calls # <<>>, me.op \notin Reading \union {"release"}, NEW files, NEW recorded, NEW files2, NEW recorded2,
           RunningFits(me, files, recorded), recorded \subseteq recorded2, Head(me.calls) = "record" => me.path \in recorded2,
           NEW m \in {2, 3}, m = 3 => Head(me.calls) = "head",
           NEW w, w.calls = SubSeq(me.calls, m, Len(me.calls)), w.op = me.op, w.path = me.path, w.to = me.to, w.answer = me.answer,
           w.got \in NewContents \union {Torn}
    PROVE  UserFits(w, files2, recorded2)
<1>1. me.calls \in Seq(CallNames) /\ RemovesFit(me.calls, me.path \in recorded) /\ (\A i \in 1..Len(me.calls) : me.calls[i] \in Changing)
      /\ me.path \in Paths /\ me.to \in Paths /\ me.answer = "none"
  BY DEF UserState, RunningFits
<1>2. PICK gone \in BOOLEAN : gone <=> (me.path \in recorded)
  <2>1. CASE me.path \in recorded
    BY <2>1
  <2>2. CASE me.path \notin recorded
    BY <2>2
  <2> QED  BY <2>1, <2>2
<1>3. PICK c \in Seq(CallNames) : c = me.calls
  BY <1>1
<1>4. PICK r : r = SubSeq(c, m, Len(c))
  OBVIOUS
<1>5. RemovesFit(r, gone \/ Head(c) = "record") /\ \A i \in 1..Len(r) : r[i] \in Changing
  <2>1. RemovesFit(c, gone) /\ c # <<>> /\ (m = 3 => Head(c) = "head") /\ \A i \in 1..Len(c) : c[i] \in Changing
    BY <1>1, <1>2, <1>3 DEF RemovesFit
  <2> QED  BY <1>4, <2>1, ChangesGoOn
<1>6. gone \/ Head(c) = "record" => me.path \in recorded2
  BY <1>2, <1>3
<1>7. RemovesFit(r, w.path \in recorded2)
  BY <1>5, <1>6 DEF RemovesFit
<1>8. w.calls = r
  BY <1>3, <1>4
<1>9. CASE w.calls = <<>>
  BY <1>1, <1>9 DEF UserFits, Honest
<1>10. CASE w.calls # <<>>
  <2>1. RunningFits(w, files2, recorded2)
    BY <1>1, <1>5, <1>7, <1>8, <1>10 DEF RunningFits, Reading
  <2> QED  BY <1>10, <2>1 DEF UserFits
<1> QED  BY <1>9, <1>10

LEMMA UserProceeds ==
    ASSUME FilesInv, NEW u \in Users, user[u].calls # <<>>, NEW got \in Contents, NEW skipped \in {0, 1}, Proceeds(u, got, skipped)
    PROVE  \E v \in UserState :
               /\ Observed([user EXCEPT ![u] = v])
               /\ Went(v, user[u], SubSeq(user[u].calls, 2 + skipped, Len(user[u].calls)), got, user[u].seen)
<1>1. PICK me \in UserState : me = user[u]
  BY DEF FilesInv
<1>2. me.calls \in Seq(CallNames) /\ 2 + skipped \in {2, 3}
  BY DEF UserState
<1>3. SubSeq(me.calls, 2 + skipped, Len(me.calls)) \in Seq(CallNames)
  BY <1>1, <1>2, CallsLeft
<1>4. PICK c \in Seq(CallNames) : c = SubSeq(me.calls, 2 + skipped, Len(me.calls))
  BY <1>3
<1>5. Observed([user EXCEPT ![u].calls = c, ![u].got = got])
  <2>1. Observed([user EXCEPT ![u].calls = SubSeq(@, 2 + skipped, Len(@)), ![u].got = got])
    BY DEF Proceeds
  <2>2. [user EXCEPT ![u].calls = SubSeq(@, 2 + skipped, Len(@)), ![u].got = got] = [user EXCEPT ![u].calls = c, ![u].got = got]
    BY <1>1, <1>4
  <2> QED  BY <2>1, <2>2
<1>6. PICK v \in UserState : [user EXCEPT ![u].calls = c, ![u].got = got] = [user EXCEPT ![u] = v] /\ Went(v, user[u], c, got, user[u].seen)
  BY UserGoesOn
<1> QED  BY <1>1, <1>4, <1>5, <1>6

LEMMA ChangerMoves ==
    ASSUME FilesInv, NEW u \in Users, user[u].calls # <<>>, user[u].op \notin Reading \union {"release"},
           NEW got \in NewContents \union {Torn}, NEW skipped \in {0, 1}, skipped = 1 => Head(user[u].calls) = "head",
           Proceeds(u, got, skipped), UNCHANGED <<destination, interrupted, operations>>,
           primary' \in [Paths -> NewContents \union {Absent, Torn}], tombstones' \subseteq Paths, tombstones \subseteq tombstones',
           \A p \in Paths : primary[p] # Absent \/ p \in tombstones => primary'[p] # Absent \/ p \in tombstones',
           Head(user[u].calls) = "record" => user[u].path \in tombstones'
    PROVE  FilesInv'
<1>1. PICK me \in UserState : me = user[u]
  BY DEF FilesInv
<1>2. RunningFits(me, primary, tombstones) /\ got \in Contents
  BY <1>1 DEF FilesInv, UserFits, Contents
<1>3. PICK v \in UserState :
               /\ Observed([user EXCEPT ![u] = v])
               /\ Went(v, user[u], SubSeq(user[u].calls, 2 + skipped, Len(user[u].calls)), got, user[u].seen)
  BY <1>2, UserProceeds
<1>4. PICK m \in {2, 3} : m = 2 + skipped
  OBVIOUS
<1>5. ASSUME NEW w \in UserState, Later(v, w, primary', tombstones, tombstones')
      PROVE  UserFits(w, primary', tombstones')
  <2>1. /\ w.calls = SubSeq(me.calls, m, Len(me.calls)) /\ w.op = me.op /\ w.path = me.path /\ w.to = me.to /\ w.answer = me.answer
        /\ w.got = got
    BY <1>1, <1>3, <1>4, <1>5 DEF Later, Went
  <2>2. m = 3 => Head(me.calls) = "head"
    BY <1>1, <1>4
  <2> QED  BY <1>1, <1>2, <2>1, <2>2, AChangerGoesOn
<1>6. v.path \in Paths /\ operations' \in 0..MaxOperations /\ destination' \in [Paths -> Accepted \union {Absent, Torn}] /\ interrupted' \subseteq Paths
  BY <1>1, <1>2, <1>3 DEF Went, RunningFits, FilesInv
<1> QED  BY <1>3, <1>5, <1>6, FilesStep

\* A path that a user which changes files is about to remove has its tombstone.
LEMMA NextOfChanger ==
    ASSUME FilesInv, NEW u \in Users, user[u].calls # <<>>, user[u].op \notin Reading \union {"release"}
    PROVE  /\ Head(user[u].calls) \in Changing /\ user[u].got \in NewContents \union {Torn}
           /\ user[u].path \in Paths /\ user[u].to \in Paths
           /\ Head(user[u].calls) = "remove" => user[u].path \in tombstones
<1>1. PICK me \in UserState : me = user[u]
  BY DEF FilesInv
<1>2. RunningFits(me, primary, tombstones)
  BY <1>1 DEF FilesInv, UserFits
<1>3. me.calls \in Seq(CallNames)
  BY DEF UserState
<1>4. Head(me.calls) = me.calls[1] /\ Len(me.calls) \in Nat \ {0}
  BY <1>1, <1>3
<1>5. 1 \in 1..Len(me.calls) /\ 1..(1 - 1) = {}
  BY <1>4
<1>6. me.calls[1] \in Changing /\ (me.calls[1] = "remove" => me.path \in tombstones)
  BY <1>1, <1>2, <1>5 DEF RunningFits, RemovesFit
<1> QED  BY <1>1, <1>2, <1>4, <1>6 DEF RunningFits

LEMMA ChangersRead ==
    ASSUME FilesInv, NEW u \in Users, user[u].op \notin Reading \union {"release"}, reads(u)
    PROVE  FilesInv'
<1>1. user[u].calls # <<>> /\ UNCHANGED <<primary, tombstones, destination, interrupted, operations>>
  BY DEF reads
<1>2. PICK h \in Changing : h = Head(user[u].calls)
  BY <1>1, NextOfChanger
<1>3. user[u].got \in NewContents \union {Torn} /\ user[u].path \in Paths
  BY <1>1, NextOfChanger
<1>4. /\ primary' \in [Paths -> NewContents \union {Absent, Torn}] /\ tombstones' \subseteq Paths /\ tombstones \subseteq tombstones'
      /\ \A p \in Paths : primary[p] # Absent \/ p \in tombstones => primary'[p] # Absent \/ p \in tombstones'
  BY <1>1 DEF FilesInv
<1>5. PICK here \in NewContents \union {Absent, Torn} : here = primary[user[u].path]
  BY <1>3 DEF FilesInv
<1>6. h \in {"read", "head"}
  BY <1>2 DEF reads, Changing
<1>7. CASE h = "read"
  <2>1. IF here = Absent THEN Replies(u, Absent) ELSE Proceeds(u, here, 0)
    BY <1>2, <1>5, <1>7 DEF reads
  <2>2. CASE here = Absent
    <3>1. Absent \in Contents \union {"refused"}
      BY DEF Contents
    <3> QED  BY <1>1, <2>1, <2>2, <3>1, UserAnswers
  <2>3. CASE here # Absent
    BY <1>1, <1>2, <1>4, <1>7, <2>1, <2>3, ChangerMoves
  <2> QED  BY <2>2, <2>3
<1>8. CASE h = "head"
  <2>1. Proceeds(u, user[u].got, IF here = Absent THEN 1 ELSE 0)
    BY <1>2, <1>5, <1>8 DEF reads
  <2>2. PICK skipped \in {0, 1} : skipped = IF here = Absent THEN 1 ELSE 0
    OBVIOUS
  <2>3. Proceeds(u, user[u].got, skipped)
    BY <2>1, <2>2
  <2> QED  BY <1>1, <1>2, <1>3, <1>4, <1>8, <2>3, ChangerMoves
<1> QED  BY <1>6, <1>7, <1>8

LEMMA ReleaseShapes ==
    \A full \in Releases : full \in Seq(CallNames) /\ full # <<>> /\ Head(full) = "read"
<1>1. "read" \in CallNames /\ "verify" \in CallNames /\ "open" \in CallNames /\ "publish" \in CallNames
  BY DEF CallNames
<1> DEFINE three == <<"read", "verify", "publish">>
           four == <<"read", "verify", "open", "publish">>
<1>2. three \in Seq(CallNames)
  <2> HIDE DEF CallNames
  <2> QED  BY <1>1
<1>3. four \in Seq(CallNames)
  <2> HIDE DEF CallNames
  <2> QED  BY <1>1
<1>4. three # <<>> /\ Head(three) = "read" /\ four # <<>> /\ Head(four) = "read"
  OBVIOUS
<1>5. Releases = {three, four}
  BY DEF Releases
<1> HIDE DEF three, four
<1> QED  BY <1>2, <1>3, <1>4, <1>5

\* Where a release is, by the next of its calls.
LEMMA ReleasePlaces ==
    ASSUME NEW c \in Seq(CallNames), c # <<>>, NEW full \in Releases, Suffix(c, full)
    PROVE  /\ \/ Head(c) = "read" /\ Len(c) = Len(full)
              \/ Head(c) = "verify" /\ Len(c) = Len(full) - 1
              \/ Head(c) = "open" /\ Len(c) = 2 /\ Len(full) = 4
              \/ Head(c) = "publish" /\ Len(c) = 1
           /\ Suffix(SubSeq(c, 2, Len(c)), full) /\ Len(SubSeq(c, 2, Len(c))) = Len(c) - 1
           /\ Len(full) \in {3, 4} /\ Len(c) \in Nat /\ SubSeq(c, 2, Len(c)) \in Seq(CallNames)
<1>1. full \in Seq(CallNames)
  BY ReleaseShapes
<1>2. Len(c) \in 1..Len(full) /\ Head(c) = full[Len(full) - Len(c) + 1]
      /\ Suffix(SubSeq(c, 2, Len(c)), full) /\ Len(SubSeq(c, 2, Len(c))) = Len(c) - 1 /\ SubSeq(c, 2, Len(c)) \in Seq(CallNames)
  BY <1>1, SuffixGoesOn
<1> DEFINE n == Len(c)
           h == Head(c)
<1>3. CASE full = <<"read", "verify", "publish">>
  <2>1. Len(full) = 3 /\ full[1] = "read" /\ full[2] = "verify" /\ full[3] = "publish"
    BY <1>3
  <2>2. n \in 1..3 /\ h = full[3 - n + 1]
    BY <1>2, <2>1, Zenon DEF n, h
  <2> HIDE DEF n, h
  <2>3. (h = "read" /\ n = 3) \/ (h = "verify" /\ n = 3 - 1) \/ (h = "publish" /\ n = 1)
    BY <2>1, <2>2
  <2> QED  BY <1>2, <2>1, <2>3 DEF n, h
<1>4. CASE full = <<"read", "verify", "open", "publish">>
  <2>1. Len(full) = 4 /\ full[1] = "read" /\ full[2] = "verify" /\ full[3] = "open" /\ full[4] = "publish"
    BY <1>4
  <2>2. n \in 1..4 /\ h = full[4 - n + 1]
    BY <1>2, <2>1, Zenon DEF n, h
  <2> HIDE DEF n, h
  <2>3. (h = "read" /\ n = 4) \/ (h = "verify" /\ n = 4 - 1) \/ (h = "open" /\ n = 2) \/ (h = "publish" /\ n = 1)
    BY <2>1, <2>2
  <2> QED  BY <1>2, <2>1, <2>3 DEF n, h
<1> QED  BY <1>3, <1>4 DEF Releases

LEMMA ReleaseMoves ==
    ASSUME FilesInv, NEW u \in Users, user[u].calls # <<>>, user[u].op = "release",
           NEW got \in Contents, Proceeds(u, got, 0), UNCHANGED <<primary, tombstones, operations>>,
           destination' \in [Paths -> Accepted \union {Absent, Torn}], interrupted' \subseteq Paths,
           Head(user[u].calls) # "read" => got \in Accepted
    PROVE  FilesInv'
<1>1. PICK me \in UserState : me = user[u]
  BY DEF FilesInv
<1>2. RunningFits(me, primary, tombstones)
  BY <1>1 DEF FilesInv, UserFits
<1>3. PICK v \in UserState :
               /\ Observed([user EXCEPT ![u] = v])
               /\ Went(v, user[u], SubSeq(user[u].calls, 2, Len(user[u].calls)), got, user[u].seen)
  <2>1. 2 + 0 = 2
    OBVIOUS
  <2> QED  BY <2>1, UserProceeds
<1> DEFINE rest == SubSeq(me.calls, 2, Len(me.calls))
<1>4. (\E full \in Releases : Suffix(rest, full)) /\ (rest # <<>> /\ Head(rest) \in {"open", "publish"} => Head(me.calls) # "read")
  <2>1. PICK full \in Releases : me.calls \in Seq(CallNames) /\ Suffix(me.calls, full)
    BY <1>1, <1>2 DEF UserState, RunningFits
  <2>2. /\ \/ Head(me.calls) = "read" /\ Len(me.calls) = Len(full)
           \/ Head(me.calls) # "read"
        /\ Suffix(rest, full) /\ Len(rest) = Len(me.calls) - 1 /\ Len(full) \in {3, 4} /\ rest \in Seq(CallNames)
    BY <1>1, <2>1, ReleasePlaces
  <2>3. rest # <<>> => \/ Head(rest) = "open" /\ Len(rest) = 2 /\ Len(full) = 4
                       \/ Head(rest) = "publish" /\ Len(rest) = 1
                       \/ Head(rest) \notin {"open", "publish"}
    <3> HIDE DEF rest
    <3> QED  BY <2>2, ReleasePlaces
  <2>4. PICK n : n = Len(rest)
    OBVIOUS
  <2>5. PICK l : l = Len(me.calls)
    OBVIOUS
  <2>6. PICK f \in {3, 4} : f = Len(full)
    BY <2>2
  <2>7. rest # <<>> => (Head(rest) = "open" /\ n = 2 /\ f = 4) \/ (Head(rest) = "publish" /\ n = 1) \/ Head(rest) \notin {"open", "publish"}
    BY <2>3, <2>4, <2>6, Zenon
  <2>8. n = l - 1 /\ (Head(me.calls) = "read" => l = f)
    BY <2>2, <2>4, <2>5, <2>6, Zenon
  <2>9. Suffix(rest, full)
    BY <2>2
  <2> HIDE DEF rest
  <2>10. rest # <<>> /\ Head(rest) \in {"open", "publish"} => Head(me.calls) # "read"
    BY <2>7, <2>8
  <2> QED  BY <2>9, <2>10
<1> HIDE DEF rest
<1>5. ASSUME NEW w \in UserState, Later(v, w, primary', tombstones, tombstones')
      PROVE  UserFits(w, primary', tombstones')
  <2>1. /\ w.calls = SubSeq(me.calls, 2, Len(me.calls)) /\ w.op = "release" /\ w.path = me.path /\ w.to = me.to /\ w.answer = "none"
        /\ w.got = got
    BY <1>1, <1>2, <1>3, <1>5 DEF Later, Went, RunningFits
  <2>2. w.calls # <<>> => (\E full \in Releases : Suffix(w.calls, full)) /\ (Head(w.calls) \in {"open", "publish"} => w.got \in Accepted)
    BY <1>1, <1>4, <2>1 DEF rest
  <2>3. w.calls # <<>> => RunningFits(w, primary', tombstones')
    BY <1>2, <2>1, <2>2 DEF RunningFits, Reading
  <2> QED  BY <2>1, <2>3 DEF UserFits, Honest
<1>6. v.path \in Paths /\ operations' \in 0..MaxOperations
  BY <1>1, <1>2, <1>3 DEF Went, RunningFits, FilesInv
<1>7. /\ primary' \in [Paths -> NewContents \union {Absent, Torn}] /\ tombstones' \subseteq Paths /\ tombstones \subseteq tombstones'
      /\ \A p \in Paths : primary[p] # Absent \/ p \in tombstones => primary'[p] # Absent \/ p \in tombstones'
  BY DEF FilesInv
<1> QED  BY <1>3, <1>5, <1>6, <1>7, FilesStep

LEMMA NextOfRelease ==
    ASSUME FilesInv, NEW u \in Users, user[u].calls # <<>>, user[u].op = "release"
    PROVE  /\ user[u].path \in Paths /\ user[u].to \in Paths /\ user[u].got \in Contents
           /\ Head(user[u].calls) \in {"read", "verify"} \/ (Head(user[u].calls) \in {"open", "publish"} /\ user[u].got \in Accepted)
<1>1. PICK me \in UserState : me = user[u]
  BY DEF FilesInv
<1>2. RunningFits(me, primary, tombstones) /\ me.calls \in Seq(CallNames)
  BY <1>1 DEF FilesInv, UserFits, UserState
<1>3. PICK full \in Releases : Suffix(me.calls, full)
  BY <1>1, <1>2 DEF RunningFits
<1>4. (Head(me.calls) \in {"open", "publish"} => me.got \in Accepted) /\ me.path \in Paths /\ me.to \in Paths /\ me.got \in Contents
  BY <1>1, <1>2 DEF RunningFits, UserState
<1>5. Head(me.calls) \in {"read", "verify", "open", "publish"}
  BY <1>1, <1>2, <1>3, ReleasePlaces
<1> QED  BY <1>1, <1>4, <1>5

LEMMA ReleasesRead ==
    ASSUME FilesInv, NEW u \in Users, user[u].op = "release", reads(u)
    PROVE  FilesInv'
<1>1. user[u].calls # <<>> /\ UNCHANGED <<primary, tombstones, destination, interrupted, operations>> /\ destination' \in [Paths -> Accepted \union {Absent, Torn}] /\ interrupted' \subseteq Paths
  BY DEF reads, FilesInv
<1>2. PICK h : h = Head(user[u].calls)
  OBVIOUS
<1>3. user[u].path \in Paths /\ user[u].got \in Contents /\ h \in {"read", "verify", "open", "publish"}
  BY <1>1, <1>2, NextOfRelease
<1>4. PICK here \in NewContents \union {Absent, Torn} : here = primary[user[u].path]
  BY <1>3 DEF FilesInv
<1>5. here \in Contents /\ Absent \in Contents \union {"refused"} /\ "refused" \in Contents \union {"refused"} /\ user[u].op \notin Reading
  BY DEF Contents, Reading
<1>6. h \in {"read", "verify"}
  BY <1>2, <1>3 DEF reads
<1>7. CASE h = "read"
  <2>1. IF here = Absent THEN Replies(u, Absent) ELSE Proceeds(u, here, 0)
    BY <1>2, <1>4, <1>7 DEF reads
  <2>3. CASE here = Absent
    BY <1>1, <1>5, <2>1, <2>3, UserAnswers
  <2>4. CASE here # Absent
    <3>1. Proceeds(u, here, 0) /\ Head(user[u].calls) = "read"
      BY <1>2, <1>7, <2>1, <2>4
    <3> QED  BY <1>1, <1>5, <3>1, ReleaseMoves
  <2> QED  BY <2>3, <2>4
<1>8. CASE h = "verify"
  <2>1. IF user[u].got \in Accepted THEN Proceeds(u, user[u].got, 0) ELSE Replies(u, "refused")
    BY <1>2, <1>8 DEF reads
  <2> QED  BY <1>1, <1>3, <1>5, <1>8, <2>1, UserAnswers, ReleaseMoves
<1> QED  BY <1>6, <1>7, <1>8

\* A call that changes files, tombstones or what was released.
LEMMA ReadersChangeNothing ==
    ASSUME FilesInv, NEW u \in Users, user[u].calls # <<>>, user[u].op \in Reading
    PROVE  Head(user[u].calls) \notin {"truncate", "write", "copyFile", "remove", "record", "open", "publish"}
<1>1. PICK me \in UserState : me = user[u]
  BY DEF FilesInv
<1>2. RunningFits(me, primary, tombstones) /\ me.calls \in Seq(CallNames)
  BY <1>1 DEF FilesInv, UserFits, UserState
<1>3. Suffix(me.calls, ReadingCalls(me.op)) /\ me.op \in Reading
  BY <1>1, <1>2 DEF RunningFits
<1>4. Places(me.op, Len(me.calls), Head(me.calls))
  BY <1>1, <1>2, <1>3, ReaderPlaces
<1> QED  BY <1>1, <1>4 DEF Places

LEMMA UsersChange ==
    ASSUME FilesInv, NEW u \in Users, changes(u)
    PROVE  FilesInv'
<1>1. user[u].calls # <<>> /\ operations' = operations
  BY DEF changes
<1>2. PICK h : h = Head(user[u].calls)
  OBVIOUS
<1>3. h \in {"truncate", "write", "copyFile", "remove", "record", "open", "publish"}
  BY <1>2 DEF changes
<1>4. user[u].op \notin Reading
  BY <1>1, <1>2, <1>3, ReadersChangeNothing
<1>5. CASE h \in {"open", "publish"}
  <2>1. user[u].op = "release"
    BY <1>1, <1>2, <1>4, <1>5, NextOfChanger DEF Changing
  <2>2. user[u].got \in Accepted /\ user[u].got \in Contents /\ user[u].to \in Paths
    BY <1>1, <1>2, <1>5, <2>1, NextOfRelease
  <2>3. UNCHANGED <<primary, tombstones>> /\ Proceeds(u, user[u].got, 0) /\ interrupted' \subseteq interrupted
        /\ (destination' = [destination EXCEPT ![user[u].to] = Torn] \/ destination' = [destination EXCEPT ![user[u].to] = user[u].got])
    BY <1>2, <1>5 DEF changes
  <2>4. destination' \in [Paths -> Accepted \union {Absent, Torn}] /\ interrupted' \subseteq Paths
    BY <2>2, <2>3 DEF FilesInv
  <2> QED  BY <1>1, <2>1, <2>2, <2>3, <2>4, ReleaseMoves
<1>6. CASE h \notin {"open", "publish"}
  <2>1. user[u].op \notin Reading \union {"release"}
    BY <1>1, <1>2, <1>3, <1>4, <1>6, NextOfRelease
  <2>2. user[u].got \in NewContents \union {Torn} /\ user[u].path \in Paths /\ user[u].to \in Paths /\ (h = "remove" => user[u].path \in tombstones)
    BY <1>1, <1>2, <2>1, NextOfChanger
  <2>3. user[u].got # Absent /\ Torn # Absent
    BY <2>2, ContentsDiffer
  <2>4. primary \in [Paths -> NewContents \union {Absent, Torn}] /\ tombstones \subseteq Paths
    BY DEF FilesInv
  <2>5. \A p \in Paths : primary[p] # Absent \/ p \in tombstones => primary[p] # Absent \/ p \in tombstones
    OBVIOUS
  <2>6. CASE h = "truncate" \/ h = "write"
    <3>1. PICK c \in NewContents \union {Torn} : primary' = [primary EXCEPT ![user[u].to] = c]
      BY <1>2, <2>2, <2>6 DEF changes
    <3>2. UNCHANGED <<tombstones, destination, interrupted>> /\ Proceeds(u, user[u].got, 0)
      BY <1>2, <2>6 DEF changes
    <3>3. primary' \in [Paths -> NewContents \union {Absent, Torn}]
      BY <2>4, <3>1
    <3>4. \A p \in Paths : primary[p] # Absent => primary'[p] # Absent
      BY <2>4, <3>1, ContentsDiffer
    <3> QED  BY <1>1, <1>2, <2>1, <2>2, <2>4, <2>6, <3>2, <3>3, <3>4, ChangerMoves
  <2>7. CASE h = "copyFile"
    <3>1. UNCHANGED <<tombstones, destination, interrupted>>
          /\ IF primary[user[u].path] = Absent THEN UNCHANGED primary /\ Replies(u, Absent)
             ELSE primary' = [primary EXCEPT ![user[u].to] = primary[user[u].path]] /\ Proceeds(u, user[u].got, 0)
      BY <1>2, <2>7 DEF changes
    <3>2. CASE primary[user[u].path] = Absent
      <4>1. Absent \in Contents \union {"refused"}
        BY DEF Contents
      <4> QED  BY <1>1, <1>4, <3>1, <3>2, <4>1, UserAnswers
    <3>3. CASE primary[user[u].path] # Absent
      <4>1. PICK c \in NewContents \union {Torn} : primary' = [primary EXCEPT ![user[u].to] = c]
        BY <2>2, <2>4, <3>1, <3>3
      <4>2. primary' \in [Paths -> NewContents \union {Absent, Torn}]
        BY <2>4, <4>1
      <4>3. \A p \in Paths : primary[p] # Absent => primary'[p] # Absent
        BY <2>4, <4>1, ContentsDiffer
      <4> QED  BY <1>1, <1>2, <2>1, <2>2, <2>4, <2>7, <3>1, <3>3, <4>2, <4>3, ChangerMoves
    <3> QED  BY <3>2, <3>3
  <2>8. CASE h = "remove"
    <3>1. primary' = [primary EXCEPT ![user[u].path] = Absent] /\ UNCHANGED <<tombstones, destination, interrupted>> /\ Proceeds(u, user[u].got, 0)
      BY <1>2, <2>8 DEF changes
    <3>2. primary' \in [Paths -> NewContents \union {Absent, Torn}]
      BY <2>4, <3>1
    <3>3. \A p \in Paths : primary[p] # Absent \/ p \in tombstones => primary'[p] # Absent \/ p \in tombstones'
      BY <2>2, <2>4, <2>8, <3>1
    <3> QED  BY <1>1, <1>2, <2>1, <2>2, <2>4, <2>8, <3>1, <3>2, <3>3, ChangerMoves
  <2>9. CASE h = "record"
    <3>1. tombstones' = tombstones \union {user[u].path} /\ UNCHANGED <<primary, destination, interrupted>> /\ Proceeds(u, user[u].got, 0)
      BY <1>2, <2>9 DEF changes
    <3>2. tombstones' \subseteq Paths /\ tombstones \subseteq tombstones' /\ user[u].path \in tombstones'
      BY <2>2, <2>4, <3>1
    <3>3. primary' \in [Paths -> NewContents \union {Absent, Torn}]
      BY <2>4, <3>1
    <3>4. \A p \in Paths : primary[p] # Absent \/ p \in tombstones => primary'[p] # Absent \/ p \in tombstones'
      BY <3>1
    <3> QED  BY <1>1, <1>2, <2>1, <2>2, <2>9, <3>1, <3>2, <3>3, <3>4, ChangerMoves
  <2> QED  BY <1>3, <1>6, <2>6, <2>7, <2>8, <2>9
<1> QED  BY <1>5, <1>6

LEMMA UserStops ==
    ASSUME FilesInv, NEW u \in Users, stops(u)
    PROVE  FilesInv'
<1>1. UNCHANGED <<primary, tombstones, destination, operations>> /\ Observed([user EXCEPT ![u] = AtRest])
  BY DEF stops
<1>2. ASSUME NEW w \in UserState, Later(AtRest, w, primary', tombstones, tombstones')
      PROVE  UserFits(w, primary', tombstones')
  BY <1>2, AtRestFits DEF Later, UserFits
<1>3. interrupted' \subseteq Paths
  <2>1. user[u].calls = <<"publish">> => user[u].to \in Paths
    BY DEF FilesInv, UserFits, RunningFits
  <2> QED  BY <2>1 DEF stops, FilesInv
<1>4. /\ primary' \in [Paths -> NewContents \union {Absent, Torn}] /\ tombstones' \subseteq Paths /\ operations' \in 0..MaxOperations
      /\ tombstones \subseteq tombstones' /\ destination' \in [Paths -> Accepted \union {Absent, Torn}] /\ (AtRest.calls # <<>> => AtRest.path \in Paths)
      /\ \A p \in Paths : primary[p] # Absent \/ p \in tombstones => primary'[p] # Absent \/ p \in tombstones'
  BY <1>1, AtRestFits DEF FilesInv
<1> QED  BY <1>1, <1>2, <1>3, <1>4, AtRestFits, FilesStep

LEMMA ReleaseCalls == release \in Releases /\ (disk # "local" => release = <<"read", "verify", "publish">>)
<1>0. "read" \in CallNames /\ "verify" \in CallNames /\ "open" \in CallNames /\ "publish" \in CallNames
  BY DEF CallNames
<1>1. destinationWrite = <<"publish">> \/ (destinationWrite = <<"open", "publish">> /\ Len(FilesystemDriver.write) # 1)
  BY DEF destinationWrite
<1>2. disk # "local" => FilesystemDriver.write = <<"write">>
  BY DEF FilesystemDriver, InMemoryFilesystem, AwsS3Filesystem, CloudflareR2Filesystem
<1>3. Len(<<"write">>) = 1
  OBVIOUS
<1>4. <<"read", "verify">> \o <<"publish">> = <<"read", "verify", "publish">>
  <2> DEFINE first == <<"read", "verify">>
             last == <<"publish">>
  <2>0. first \in Seq(CallNames) /\ last \in Seq(CallNames)
    BY <1>0
  <2>1. first \in Seq(CallNames) /\ last \in Seq(CallNames) /\ Len(first) = 2 /\ Len(last) = 1
        /\ first[1] = "read" /\ first[2] = "verify" /\ last[1] = "publish"
    BY <2>0
  <2> HIDE DEF first, last
  <2>2. PICK c \in Seq(CallNames) : c = first \o last
    BY <2>1, ConcatProperties
  <2>3. Len(c) = 2 + 1 /\ \A i \in 1..(2 + 1) : c[i] = IF i <= 2 THEN first[i] ELSE last[i - 2]
    <3>1. Len(c) = Len(first) + Len(last) /\ \A i \in 1..(Len(first) + Len(last)) : c[i] = IF i <= Len(first) THEN first[i] ELSE last[i - Len(first)]
      BY <2>1, <2>2, ConcatProperties
    <3> QED  BY <2>1, <3>1, Zenon
  <2>4. Len(c) = 3 /\ c[1] = "read" /\ c[2] = "verify" /\ c[3] = "publish"
    BY <2>1, <2>3
  <2>5. c = <<"read", "verify", "publish">>
    BY <2>4
  <2> QED  BY <2>2, <2>5 DEF first, last
<1>5. <<"read", "verify">> \o <<"open", "publish">> = <<"read", "verify", "open", "publish">>
  <2> DEFINE first == <<"read", "verify">>
             last == <<"open", "publish">>
  <2>0. first \in Seq(CallNames) /\ last \in Seq(CallNames)
    BY <1>0
  <2>1. first \in Seq(CallNames) /\ last \in Seq(CallNames) /\ Len(first) = 2 /\ Len(last) = 2
        /\ first[1] = "read" /\ first[2] = "verify" /\ last[1] = "open" /\ last[2] = "publish"
    BY <2>0
  <2> HIDE DEF first, last
  <2>2. PICK c \in Seq(CallNames) : c = first \o last
    BY <2>1, ConcatProperties
  <2>3. Len(c) = 2 + 2 /\ \A i \in 1..(2 + 2) : c[i] = IF i <= 2 THEN first[i] ELSE last[i - 2]
    <3>1. Len(c) = Len(first) + Len(last) /\ \A i \in 1..(Len(first) + Len(last)) : c[i] = IF i <= Len(first) THEN first[i] ELSE last[i - Len(first)]
      BY <2>1, <2>2, ConcatProperties
    <3> QED  BY <2>1, <3>1, Zenon
  <2>4. Len(c) = 4 /\ c[1] = "read" /\ c[2] = "verify" /\ c[3] = "open" /\ c[4] = "publish"
    BY <2>1, <2>3
  <2>5. c = <<"read", "verify", "open", "publish">>
    BY <2>4
  <2> QED  BY <2>2, <2>5 DEF first, last
<1> QED  BY <1>1, <1>2, <1>3, <1>4, <1>5 DEF release, Releases

LEMMA StartedCalls ==
    ASSUME NEW op \in OperationNames \ {"none"}, NEW same \in BOOLEAN
    PROVE  /\ Calls(op, same) \in Seq(CallNames) /\ Calls(op, same) # <<>>
           /\ op \in Reading => Calls(op, same) = ReadingCalls(op)
                                /\ <<op, Len(Calls(op, same))>> \in {<<"read", 7>>, <<"exists", 6>>, <<"list", 4>>}
           /\ op = "release" => Calls(op, same) \in Releases /\ Head(Calls(op, same)) = "read"
           /\ op \notin Reading \union {"release"} => ChangingSound(Calls(op, same))
<1>1. fallbackOnMissing \in Seq(CallNames) /\ existsCalls \in Seq(CallNames) /\ listCalls \in Seq(CallNames) /\ fallbackOnMissing # <<>> /\ existsCalls # <<>> /\ listCalls # <<>>
      /\ Len(fallbackOnMissing) = 7 /\ Len(existsCalls) = 6 /\ Len(listCalls) = 4
  BY DEF fallbackOnMissing, existsCalls, listCalls, CallNames
<1>2. CASE op \in Reading
  BY <1>1, <1>2 DEF Reading, Calls, ReadingCalls
<1>3. CASE op = "release"
  <2>1. Calls(op, same) = release
    BY <1>3 DEF Calls
  <2> QED  BY <1>3, <2>1, ReleaseCalls, ReleaseShapes DEF Reading
<1>4. CASE op \notin Reading \union {"release"}
  <2>1. op \in {"write", "copy", "delete", "move"}
    BY <1>4 DEF Reading, OperationNames
  <2> QED  BY <1>4, <2>1, OperationCalls DEF ChangingSound
<1> QED  BY <1>2, <1>3, <1>4

LEMMA UserBegins ==
    ASSUME FilesInv, NEW u \in Users, NEW op \in OperationNames \ {"none"}, NEW path \in Paths, NEW to \in Paths,
           NEW contents \in NewContents, begins(u, op, path, to, contents)
    PROVE  FilesInv'
<1>1. UNCHANGED <<primary, tombstones, destination, interrupted>> /\ operations' = operations + 1 /\ operations < MaxOperations
  BY DEF begins
<1>2. PICK same \in BOOLEAN : same <=> (path = to)
  <2>1. CASE path = to
    BY <2>1
  <2>2. CASE path # to
    BY <2>2
  <2> QED  BY <2>1, <2>2
<1>3. PICK c \in Seq(CallNames) \ {<<>>} : c = Calls(op, path = to)
  <2>1. (path = to) = same
    BY <1>2
  <2>2. Calls(op, same) \in Seq(CallNames) \ {<<>>}
    BY StartedCalls
  <2> QED  BY <2>1, <2>2
<1>4. /\ op \in Reading => c = ReadingCalls(op) /\ <<op, Len(c)>> \in {<<"read", 7>>, <<"exists", 6>>, <<"list", 4>>}
      /\ op = "release" => c \in Releases /\ Head(c) = "read"
      /\ op \notin Reading \union {"release"} => ChangingSound(c)
  <2>1. (path = to) = same
    BY <1>2
  <2>2. c = Calls(op, same)
    BY <1>3, <2>1
  <2> QED  BY <2>2, StartedCalls
<1>5. PICK seen \in SUBSET Contents : seen = IF op \in Reading THEN {Visible(primary, tombstones, path)} ELSE {}
  BY DEF FilesInv, Visible, Contents
<1> DEFINE v == [AtRest EXCEPT !.calls = c, !.op = op, !.path = path, !.to = to, !.got = contents, !.seen = seen]
<1>6. v \in UserState /\ v.calls = c /\ v.op = op /\ v.path = path /\ v.to = to /\ v.got = contents /\ v.answer = "none"
  <2>1. contents \in Contents /\ path \in Paths \union {"none"} /\ to \in Paths \union {"none"} /\ op \in OperationNames
    BY DEF Contents
  <2> QED  BY <2>1, AtRestFits DEF UserState
<1>7. Observed([user EXCEPT ![u] = v])
  BY <1>3, <1>5 DEF begins
<1> HIDE DEF v
<1>8. ASSUME NEW w \in UserState, Later(v, w, primary', tombstones, tombstones')
      PROVE  UserFits(w, primary', tombstones')
  <2>1. /\ w.calls = c /\ w.op = op /\ w.path = path /\ w.to = to /\ w.got = contents /\ w.answer = "none"
        /\ (op \in Reading => Visible(primary', tombstones', path) \in w.seen) /\ c # <<>>
    BY <1>6, <1>8 DEF Later
  <2>2. \A d \in Seq(CallNames) : Suffix(d, d)
    <3> TAKE d \in Seq(CallNames)
    <3>1. Len(d) \in Nat
      OBVIOUS
    <3>2. \A i \in 1..Len(d) : Len(d) - Len(d) + i = i
      BY <3>1
    <3> QED  BY <3>1, <3>2 DEF Suffix
  <2>3. CASE op \in Reading
    <3>1. Suffix(w.calls, ReadingCalls(w.op)) /\ w.op # "release"
      BY <1>4, <2>1, <2>2, <2>3 DEF Reading
    <3>2. ReadFits(w, tombstones')
      <4>1. PICK n : n = Len(w.calls)
        OBVIOUS
      <4>2. <<op, n>> \in {<<"read", 7>>, <<"exists", 6>>, <<"list", 4>>}
        BY <1>4, <2>1, <2>3, <4>1
      <4>3. n # 1
        BY <4>2
      <4>4. <<op, n>> \notin {<<"read", 6>>, <<"exists", 5>>, <<"list", 3>>, <<"list", 2>>, <<"read", 5>>, <<"read", 4>>, <<"read", 3>>, <<"read", 2>>,
                              <<"exists", 4>>, <<"exists", 3>>, <<"exists", 2>>}
        BY <4>2
      <4>5. w.op = op
        BY <2>1
      <4> QED  BY <4>1, <4>3, <4>4, <4>5 DEF ReadFits
    <3> QED  BY <2>1, <2>3, <3>1, <3>2 DEF UserFits, RunningFits
  <2>4. CASE op = "release"
    <3>1. (\E full \in Releases : Suffix(w.calls, full)) /\ Head(w.calls) = "read"
      BY <1>4, <2>1, <2>2, <2>4
    <3> QED  BY <2>1, <2>4, <3>1 DEF UserFits, RunningFits, Reading
  <2>5. CASE op \notin Reading \union {"release"}
    <3>1. RemovesFit(c, path \in tombstones') /\ \A i \in 1..Len(c) : c[i] \in Changing
      BY <1>4, <2>5 DEF ChangingSound, RemovesFit
    <3> QED  BY <2>1, <2>5, <3>1 DEF UserFits, RunningFits
  <2> QED  BY <2>3, <2>4, <2>5
<1>9. /\ primary' \in [Paths -> NewContents \union {Absent, Torn}] /\ tombstones' \subseteq Paths /\ operations' \in 0..MaxOperations
      /\ tombstones \subseteq tombstones' /\ destination' \in [Paths -> Accepted \union {Absent, Torn}] /\ interrupted' \subseteq Paths /\ v.path \in Paths
      /\ \A p \in Paths : primary[p] # Absent \/ p \in tombstones => primary'[p] # Absent \/ p \in tombstones'
  BY <1>1, <1>6, FilesystemAssumption DEF FilesInv
<1> QED  BY <1>6, <1>7, <1>8, <1>9, FilesStep

LEMMA FilesSteps == FilesInv /\ [FilesystemNext]_filesystemVars => FilesInv'
<1> SUFFICES ASSUME FilesInv, [FilesystemNext]_filesystemVars PROVE FilesInv'
  OBVIOUS
<1>1. CASE UNCHANGED filesystemVars
  BY <1>1 DEF FilesInv, filesystemVars
<1>2. ASSUME NEW u \in Users, reads(u) PROVE FilesInv'
  BY <1>2, ReadersRead, ChangersRead, ReleasesRead
<1>3. ASSUME NEW u \in Users, NEW path \in Paths, NEW to \in Paths, NEW contents \in NewContents,
             NEW op \in {"read", "exists", "list", "write", "copy", "delete", "move", "release"}, begins(u, op, path, to, contents)
      PROVE  FilesInv'
  <2>1. op \in OperationNames \ {"none"}
    BY DEF OperationNames
  <2> QED  BY <1>3, <2>1, UserBegins
<1> QED  BY <1>1, <1>2, <1>3, UsersChange, UserStops DEF FilesystemNext

(***************************************************************************)
(* The destination of releases: a torn file is being written or was given   *)
(* up, and only the local disk has one.                                     *)
(***************************************************************************)
OneCall == <<"read", "verify", "publish">>
WritesFit ==
    /\ \A u \in Users : user[u].op = "release" /\ disk # "local" => Suffix(user[u].calls, OneCall)
    /\ \A path \in Paths :
          destination[path] = Torn => disk = "local" /\ (path \in interrupted \/ \E u \in Users : IsWriting(user[u], path))

LEMMA WritesStart == FilesystemInit => WritesFit
<1> SUFFICES ASSUME FilesystemInit PROVE WritesFit
  OBVIOUS
<1>1. \A u \in Users : user[u] = AtRest
  BY DEF FilesystemInit
<1>2. \A path \in Paths : destination[path] # Torn
  BY ContentsDiffer DEF FilesystemInit
<1> QED  BY <1>1, <1>2, AtRestFits DEF WritesFit

\* What a user is doing, after its step and after the step of another.
LEMMA OthersKeep ==
    ASSUME FilesInv, NEW u \in Users, NEW v \in UserState, Observed([user EXCEPT ![u] = v]), NEW t \in Users
    PROVE  LET before == IF t = u THEN v ELSE user[t] IN
           user'[t].calls = before.calls /\ user'[t].op = before.op /\ user'[t].to = before.to
<1> DEFINE now == [user EXCEPT ![u] = v]
<1>1. PICK before \in UserState : before = (IF t = u THEN v ELSE user[t]) /\ now[t] = before
  BY DEF FilesInv
<1> DEFINE Seen(x) == [x EXCEPT !.seen = @ \union {Visible(primary', tombstones', x.path)},
                                !.deleted = @ \/ (x.path \in tombstones') # (x.path \in tombstones)]
<1>2. user' = [o \in Users |-> IF now[o].calls = <<>> \/ now[o].op \notin Reading THEN now[o] ELSE Seen(now[o])]
  BY DEF Observed
<1>3. ASSUME NEW x \in UserState PROVE Seen(x).calls = x.calls /\ Seen(x).op = x.op /\ Seen(x).to = x.to
  BY DEF UserState
<1> HIDE DEF now, Seen
<1>4. user'[t].calls = before.calls /\ user'[t].op = before.op /\ user'[t].to = before.to
  BY <1>1, <1>2, <1>3
<1> QED  BY <1>1, <1>4

\* The step of one user; a torn file is either its doing or was one before, and then
\* somebody else is writing it or it was given up.
LEMMA WritesStep ==
    ASSUME FilesInv, WritesFit, NEW u \in Users, NEW v \in UserState, Observed([user EXCEPT ![u] = v]), disk' = disk,
           v.op = "release" /\ disk # "local" => Suffix(v.calls, OneCall),
           \A p \in Paths : destination'[p] = Torn =>
               \/ disk = "local" /\ (p \in interrupted' \/ IsWriting(v, p))
               \/ destination[p] = Torn /\ (p \in interrupted => p \in interrupted') /\ ~IsWriting(user[u], p)
    PROVE  WritesFit'
<1>1. ASSUME NEW t \in Users, user'[t].op = "release", disk # "local" PROVE Suffix(user'[t].calls, OneCall)
  BY <1>1, OthersKeep DEF WritesFit
<1>2. ASSUME NEW p \in Paths, destination'[p] = Torn
      PROVE  disk = "local" /\ (p \in interrupted' \/ \E t \in Users : IsWriting(user'[t], p))
  <2>1. CASE disk = "local" /\ (p \in interrupted' \/ IsWriting(v, p))
    <3>1. user'[u].calls = v.calls /\ user'[u].op = v.op /\ user'[u].to = v.to
      BY OthersKeep
    <3> QED  BY <2>1, <3>1 DEF IsWriting
  <2>2. CASE destination[p] = Torn /\ (p \in interrupted => p \in interrupted') /\ ~IsWriting(user[u], p)
    <3>1. disk = "local" /\ (p \in interrupted \/ \E t \in Users : IsWriting(user[t], p))
      BY <2>2 DEF WritesFit
    <3>2. ASSUME NEW t \in Users, IsWriting(user[t], p) PROVE IsWriting(user'[t], p)
      <4>1. t # u
        BY <2>2, <3>2
      <4>2. user'[t].calls = user[t].calls /\ user'[t].op = user[t].op /\ user'[t].to = user[t].to
        BY <4>1, OthersKeep
      <4> QED  BY <3>2, <4>2 DEF IsWriting
    <3> QED  BY <2>2, <3>1, <3>2
  <2> QED  BY <1>2, <2>1, <2>2
<1> QED  BY <1>1, <1>2 DEF WritesFit, IsWriting

\* A user has made its next call, or has its answer.
MovedOn(u, v) ==
    /\ Observed([user EXCEPT ![u] = v]) /\ v.op = user[u].op /\ v.to = user[u].to
    /\ v.op = "release" => v.calls = <<>> \/ v.calls = SubSeq(user[u].calls, 2, Len(user[u].calls))

LEMMA Replied ==
    ASSUME FilesInv, NEW u \in Users, NEW answer \in Contents \union {"refused"}, Replies(u, answer)
    PROVE  \E v \in UserState : MovedOn(u, v)
<1>1. PICK me \in UserState : me = user[u]
  BY DEF FilesInv
<1> DEFINE v == [me EXCEPT !.calls = <<>>, !.answer = answer, !.got = Absent]
<1>2. v \in UserState /\ v.calls = <<>> /\ v.op = me.op /\ v.to = me.to
  <2>1. <<>> \in Seq(CallNames) /\ Absent \in Contents
    BY DEF Contents
  <2> QED  BY <1>1, <2>1 DEF UserState
<1>3. [user EXCEPT ![u].calls = <<>>, ![u].answer = answer, ![u].got = Absent] = [user EXCEPT ![u] = v]
  BY <1>1 DEF FilesInv
<1> HIDE DEF v
<1> QED  BY <1>1, <1>2, <1>3 DEF Replies, MovedOn

LEMMA Proceeded ==
    ASSUME FilesInv, NEW u \in Users, user[u].calls # <<>>, NEW got \in Contents, NEW skipped \in {0, 1}, Proceeds(u, got, skipped),
           skipped = 1 => user[u].op # "release"
    PROVE  \E v \in UserState : MovedOn(u, v) /\ (user[u].op = "release" => v.calls = SubSeq(user[u].calls, 2, Len(user[u].calls)))
<1>1. PICK v \in UserState :
               /\ Observed([user EXCEPT ![u] = v])
               /\ Went(v, user[u], SubSeq(user[u].calls, 2 + skipped, Len(user[u].calls)), got, user[u].seen)
  BY UserProceeds
<1>2. v.op = user[u].op /\ v.to = user[u].to /\ v.calls = SubSeq(user[u].calls, 2 + skipped, Len(user[u].calls))
  BY <1>1 DEF Went
<1>3. skipped = 0 => 2 + skipped = 2
  OBVIOUS
<1> QED  BY <1>1, <1>2, <1>3 DEF MovedOn

\* The calls that a release has left, and where they lead.
LEMMA ReleaseGoesOn ==
    ASSUME FilesInv, NEW u \in Users, user[u].calls # <<>>, user[u].op = "release"
    PROVE  LET c == user[u].calls
               rest == SubSeq(c, 2, Len(c)) IN
           /\ Suffix(c, OneCall) => Suffix(rest, OneCall) /\ Head(c) # "open"
           /\ Head(c) = "open" => rest = <<"publish">>
           /\ Head(c) \in {"read", "verify", "open", "publish"}
<1>1. PICK c \in Seq(CallNames) : c = user[u].calls
  BY DEF FilesInv, UserState
<1>2. PICK full \in Releases : Suffix(c, full)
  BY <1>1 DEF FilesInv, UserFits, RunningFits
<1>3. PICK rest : rest = SubSeq(c, 2, Len(c))
  OBVIOUS
<1>4. /\ \/ Head(c) = "read" /\ Len(c) = Len(full)
         \/ Head(c) = "verify" /\ Len(c) = Len(full) - 1
         \/ Head(c) = "open" /\ Len(c) = 2 /\ Len(full) = 4
         \/ Head(c) = "publish" /\ Len(c) = 1
      /\ Suffix(rest, full) /\ Len(rest) = Len(c) - 1 /\ rest \in Seq(CallNames)
  BY <1>1, <1>2, <1>3, ReleasePlaces
<1>5. ASSUME Head(c) = "open" PROVE rest = <<"publish">>
  <2>0. Len(c) = 2 /\ Len(full) = 4 /\ Len(rest) = Len(c) - 1
    BY <1>4, <1>5, Zenon
  <2>1. Len(rest) = 1 /\ rest # <<>> /\ Len(full) = 4
    BY <2>0
  <2>2. \/ Head(rest) = "read" /\ Len(rest) = Len(full)
        \/ Head(rest) = "verify" /\ Len(rest) = Len(full) - 1
        \/ Head(rest) = "open" /\ Len(rest) = 2 /\ Len(full) = 4
        \/ Head(rest) = "publish" /\ Len(rest) = 1
    BY <1>4, <2>1, ReleasePlaces
  <2>3. Head(rest) = "publish"
    BY <2>1, <2>2
  <2> QED  BY <1>4, <2>1, <2>3
<1>6. ASSUME Suffix(c, OneCall) PROVE Suffix(rest, OneCall) /\ Head(c) # "open"
  <2>1. OneCall \in Releases /\ Len(OneCall) # 4
    BY DEF OneCall, Releases
  <2>2. (Head(c) # "open" \/ Len(OneCall) = 4) /\ Suffix(SubSeq(c, 2, Len(c)), OneCall)
    <3>1. \/ Head(c) = "read" \/ Head(c) = "verify" \/ Head(c) = "publish" \/ Len(OneCall) = 4
      BY <1>1, <1>6, <2>1, ReleasePlaces
    <3>2. Suffix(SubSeq(c, 2, Len(c)), OneCall)
      BY <1>1, <1>6, <2>1, ReleasePlaces
    <3> QED  BY <3>1, <3>2
  <2> QED  BY <1>3, <2>1, <2>2
<1> QED  BY <1>1, <1>3, <1>4, <1>5, <1>6

LEMMA MovedFits ==
    ASSUME FilesInv, WritesFit, NEW u \in Users, user[u].calls # <<>>, NEW v \in UserState, MovedOn(u, v)
    PROVE  v.op = "release" /\ disk # "local" => Suffix(v.calls, OneCall)
<1> SUFFICES ASSUME v.op = "release", disk # "local" PROVE Suffix(v.calls, OneCall)
  OBVIOUS
<1>1. user[u].op = "release" /\ Suffix(user[u].calls, OneCall)
  BY DEF MovedOn, WritesFit
<1>2. Suffix(<<>>, OneCall)
  BY DEF Suffix, OneCall
<1> QED  BY <1>1, <1>2, ReleaseGoesOn DEF MovedOn

LEMMA ReadMovesOn ==
    ASSUME FilesInv, NEW u \in Users, reads(u)
    PROVE  \E v \in UserState : MovedOn(u, v)
<1>1. PICK h : h = Head(user[u].calls)
  OBVIOUS
<1>2. user[u].calls # <<>>
  BY DEF reads
<1>3. PICK me \in UserState : me = user[u]
  BY DEF FilesInv
<1>4. me.path \in Paths /\ me.got \in Contents /\ me.calls \in Seq(CallNames)
  BY <1>2, <1>3 DEF FilesInv, UserFits, RunningFits, UserState
<1>5. PICK here \in NewContents \union {Absent, Torn} : here = primary[me.path]
  BY <1>4 DEF FilesInv
<1>6. here \in Contents /\ Old \in Contents /\ Absent \in Contents
  BY DEF Contents
<1>7. CASE h \in {"fallback", "peek"}
  <2>1. Observed([user EXCEPT ![u].calls = Tail(@), ![u].got = Old, ![u].seen = {}])
    BY <1>1, <1>7 DEF reads
  <2>2. Tail(me.calls) = SubSeq(me.calls, 2, Len(me.calls)) /\ Tail(me.calls) \in Seq(CallNames)
    BY <1>2, <1>3, <1>4, TailIsSubSeq, HeadTailProperties
  <2>3. PICK c \in Seq(CallNames) : c = Tail(me.calls)
    BY <2>2
  <2>4. Observed([user EXCEPT ![u].calls = c, ![u].got = Old, ![u].seen = {}])
    <3>1. [user EXCEPT ![u].calls = Tail(@), ![u].got = Old, ![u].seen = {}] = [user EXCEPT ![u].calls = c, ![u].got = Old, ![u].seen = {}]
      BY <1>3, <2>3
    <3> QED  BY <2>1, <3>1
  <2>5. PICK v \in UserState : [user EXCEPT ![u].calls = c, ![u].got = Old, ![u].seen = {}] = [user EXCEPT ![u] = v] /\ Went(v, user[u], c, Old, {})
    BY <1>6, UserLooksAgain
  <2> QED  BY <1>3, <2>2, <2>3, <2>4, <2>5 DEF MovedOn, Went
<1>8. CASE h = "head"
  <2>1. user[u].op # "release"
    BY <1>1, <1>2, <1>8, ReleaseGoesOn
  <2>2. PICK skipped \in {0, 1} : Proceeds(u, me.got, skipped)
    <3>1. Proceeds(u, me.got, IF here = Absent THEN 1 ELSE 0)
      BY <1>1, <1>3, <1>5, <1>8 DEF reads
    <3> QED  BY <3>1
  <2> QED  BY <1>2, <1>4, <2>1, <2>2, Proceeded
<1>9. CASE h \notin {"fallback", "peek", "head"}
  <2>1. (\E got \in Contents : Proceeds(u, got, 0)) \/ (\E answer \in Contents \union {"refused"} : Replies(u, answer))
    BY <1>1, <1>3, <1>4, <1>5, <1>6, <1>9 DEF reads
  <2> QED  BY <1>2, <2>1, Proceeded, Replied
<1> QED  BY <1>7, <1>8, <1>9

LEMMA WritesAfterRead ==
    ASSUME FilesInv, WritesFit, NEW u \in Users, reads(u)
    PROVE  WritesFit'
<1>1. UNCHANGED <<disk, destination, interrupted>> /\ user[u].calls # <<>> /\ Head(user[u].calls) # "publish"
  BY DEF reads
<1>2. PICK v \in UserState : MovedOn(u, v)
  BY ReadMovesOn
<1>3. v.op = "release" /\ disk # "local" => Suffix(v.calls, OneCall)
  BY <1>1, <1>2, MovedFits
<1>4. Head(<<"publish">>) = "publish"
  OBVIOUS
<1>5. \A p \in Paths : ~IsWriting(user[u], p)
  BY <1>1, <1>4 DEF IsWriting
<1> QED  BY <1>1, <1>2, <1>3, <1>5, WritesStep DEF MovedOn

LEMMA WritesAfterChange ==
    ASSUME FilesInv, WritesFit, NEW u \in Users, changes(u)
    PROVE  WritesFit'
<1>1. disk' = disk /\ user[u].calls # <<>>
  BY DEF changes
<1>2. PICK h : h = Head(user[u].calls)
  OBVIOUS
<1>3. user[u].got \in Contents /\ Absent \in Contents \union {"refused"}
  BY DEF FilesInv, UserState, Contents
<1>4. Head(<<"publish">>) = "publish"
  OBVIOUS
<1>5. CASE h \notin {"open", "publish"}
  <2>1. UNCHANGED <<destination, interrupted>> /\ (Proceeds(u, user[u].got, 0) \/ Replies(u, Absent))
    BY <1>2, <1>5 DEF changes
  <2>2. PICK v \in UserState : MovedOn(u, v)
    BY <1>1, <1>3, <2>1, Proceeded, Replied
  <2>3. v.op = "release" /\ disk # "local" => Suffix(v.calls, OneCall)
    BY <1>1, <2>2, MovedFits
  <2>4. \A p \in Paths : ~IsWriting(user[u], p)
    BY <1>2, <1>4, <1>5 DEF IsWriting
  <2> QED  BY <1>1, <2>1, <2>2, <2>3, <2>4, WritesStep DEF MovedOn
<1>6. CASE h \in {"open", "publish"}
  <2>1. user[u].op = "release"
    BY <1>1, <1>2, <1>6, ReadersChangeNothing, NextOfChanger DEF Changing
  <2>2. user[u].got \in Accepted /\ user[u].to \in Paths /\ destination \in [Paths -> Accepted \union {Absent, Torn}]
    BY <1>1, <1>2, <1>6, <2>1, NextOfRelease DEF FilesInv
  <2>3. user[u].got # Torn
    BY <2>2, ContentsDiffer, FilesystemAssumption
  <2>4. Proceeds(u, user[u].got, 0)
    BY <1>2, <1>6 DEF changes
  <2>5. PICK v \in UserState : MovedOn(u, v) /\ v.calls = SubSeq(user[u].calls, 2, Len(user[u].calls))
    BY <1>1, <1>3, <2>1, <2>4, Proceeded
  <2>6. v.op = "release" /\ disk # "local" => Suffix(v.calls, OneCall)
    BY <1>1, <2>5, MovedFits
  <2>7. CASE h = "open"
    <3>1. destination' = [destination EXCEPT ![user[u].to] = Torn] /\ interrupted' = interrupted
      BY <1>2, <2>7 DEF changes
    <3>2. disk = "local" /\ v.calls = <<"publish">>
      BY <1>1, <1>2, <2>1, <2>5, <2>7, ReleaseGoesOn DEF WritesFit
    <3>3. IsWriting(v, user[u].to) /\ \A p \in Paths : ~IsWriting(user[u], p)
      BY <1>2, <1>4, <2>1, <2>5, <2>7, <3>2 DEF IsWriting, MovedOn
    <3>4. \A p \in Paths : p = user[u].to \/ destination'[p] = destination[p]
      BY <2>2, <3>1
    <3> QED  BY <1>1, <2>5, <2>6, <3>1, <3>2, <3>3, <3>4, WritesStep DEF MovedOn
  <2>8. CASE h = "publish"
    <3>1. destination' = [destination EXCEPT ![user[u].to] = user[u].got] /\ interrupted' = interrupted \ {user[u].to}
      BY <1>2, <2>8 DEF changes
    <3>2. \A p \in Paths : IF p = user[u].to THEN destination'[p] = user[u].got ELSE destination'[p] = destination[p]
      BY <2>2, <3>1
    <3>3. \A p \in Paths : IsWriting(user[u], p) => p = user[u].to
      BY DEF IsWriting
    <3>4. ASSUME NEW p \in Paths, destination'[p] = Torn
          PROVE  destination[p] = Torn /\ (p \in interrupted => p \in interrupted') /\ ~IsWriting(user[u], p)
      <4>1. p # user[u].to
        BY <2>3, <3>2, <3>4
      <4> QED  BY <3>1, <3>2, <3>3, <3>4, <4>1
    <3> QED  BY <1>1, <2>5, <2>6, <3>4, WritesStep DEF MovedOn
  <2> QED  BY <1>6, <2>7, <2>8
<1> QED  BY <1>5, <1>6

LEMMA WritesAfterStop ==
    ASSUME FilesInv, WritesFit, NEW u \in Users, stops(u)
    PROVE  WritesFit'
<1>1. /\ UNCHANGED <<disk, destination>> /\ Observed([user EXCEPT ![u] = AtRest])
      /\ interrupted' = IF user[u].calls = <<"publish">> /\ destination[user[u].to] = Torn THEN interrupted \union {user[u].to} ELSE interrupted
  BY DEF stops
<1>2. \A p \in Paths : destination[p] = Torn /\ IsWriting(user[u], p) => p \in interrupted' /\ disk = "local"
  BY <1>1 DEF IsWriting, WritesFit
<1>3. \A p \in Paths : p \in interrupted => p \in interrupted'
  BY <1>1
<1> QED  BY <1>1, <1>2, <1>3, AtRestFits, WritesStep

LEMMA WritesAfterBegin ==
    ASSUME FilesInv, WritesFit, NEW u \in Users, NEW op \in OperationNames \ {"none"}, NEW path \in Paths, NEW to \in Paths,
           NEW contents \in NewContents, begins(u, op, path, to, contents)
    PROVE  WritesFit'
<1>1. UNCHANGED <<disk, destination, interrupted>> /\ user[u].calls = <<>>
  BY DEF begins
<1>2. PICK same \in BOOLEAN : (path = to) = same
  <2>1. CASE path = to
    BY <2>1
  <2>2. CASE path # to
    BY <2>2
  <2> QED  BY <2>1, <2>2
<1>3. PICK c \in Seq(CallNames) : c = Calls(op, path = to)
  <2>1. Calls(op, same) \in Seq(CallNames)
    BY StartedCalls
  <2> QED  BY <1>2, <2>1
<1>4. PICK seen \in SUBSET Contents : seen = IF op \in Reading THEN {Visible(primary, tombstones, path)} ELSE {}
  BY DEF FilesInv, Visible, Contents
<1> DEFINE v == [AtRest EXCEPT !.calls = c, !.op = op, !.path = path, !.to = to, !.got = contents, !.seen = seen]
<1>5. v \in UserState /\ v.calls = c /\ v.op = op
  <2>1. contents \in Contents /\ path \in Paths \union {"none"} /\ to \in Paths \union {"none"} /\ op \in OperationNames
    BY DEF Contents
  <2> QED  BY <2>1, AtRestFits DEF UserState
<1>6. Observed([user EXCEPT ![u] = v])
  BY <1>3, <1>4 DEF begins
<1> HIDE DEF v
<1>7. op = "release" /\ disk # "local" => Suffix(c, OneCall)
  <2>1. op = "release" => c = release
    BY <1>3 DEF Calls
  <2>2. Suffix(OneCall, OneCall)
    BY DEF Suffix, OneCall
  <2> QED  BY <2>1, <2>2, ReleaseCalls DEF OneCall
<1>8. <<>> # <<"publish">>
  OBVIOUS
<1>9. \A p \in Paths : ~IsWriting(user[u], p)
  BY <1>1, <1>8 DEF IsWriting
<1> QED  BY <1>1, <1>5, <1>6, <1>7, <1>9, WritesStep

LEMMA WritesSteps == FilesInv /\ WritesFit /\ [FilesystemNext]_filesystemVars => WritesFit'
<1> SUFFICES ASSUME FilesInv, WritesFit, [FilesystemNext]_filesystemVars PROVE WritesFit'
  OBVIOUS
<1>1. CASE UNCHANGED filesystemVars
  BY <1>1 DEF WritesFit, filesystemVars
<1>2. ASSUME NEW u \in Users, NEW path \in Paths, NEW to \in Paths, NEW contents \in NewContents,
             NEW op \in {"read", "exists", "list", "write", "copy", "delete", "move", "release"}, begins(u, op, path, to, contents)
      PROVE  WritesFit'
  <2>1. op \in OperationNames \ {"none"}
    BY DEF OperationNames
  <2> QED  BY <1>2, <2>1, WritesAfterBegin
<1> QED  BY <1>1, <1>2, WritesAfterRead, WritesAfterChange, WritesAfterStop DEF FilesystemNext

\* For any drivers, paths, contents, callers and operations in flight: what a reader
\* answers was there, what was written or deleted never shows the fallback again, and a
\* release shows accepted contents or, on a local disk, the file that it is writing or
\* that one left torn.
THEOREM FilesAreAlwaysHonest == FilesystemSpec => [](FilesystemTypeOK /\ FilesAreHonest)
<1>1. FilesInv /\ WritesFit => FilesystemTypeOK /\ FilesAreHonest
  <2> SUFFICES ASSUME FilesInv, WritesFit PROVE FilesystemTypeOK /\ FilesAreHonest
    OBVIOUS
  <2>1. FilesystemTypeOK
    BY FilesystemAssumption DEF FilesInv, FilesystemTypeOK
  <2>2. \A u \in Users : Honest(user[u])
    <3> SUFFICES ASSUME NEW u \in Users PROVE Honest(user[u])
      OBVIOUS
    <3>1. user[u].calls # <<>> => user[u].answer = "none"
      BY DEF FilesInv, UserFits, RunningFits
    <3>2. user[u].calls = <<>> => Honest(user[u])
      BY DEF FilesInv, UserFits
    <3> QED  BY <3>1, <3>2 DEF Honest
  <2>3. \A path \in superseded : Visible(primary, tombstones, path) # Old
    BY ContentsDiffer DEF FilesInv, Visible
  <2>4. \A path \in Paths :
           /\ destination[path] \in Accepted \union {Absent, Torn}
           /\ destination[path] = Torn => disk = "local" /\ (path \in interrupted \/ \E u \in Users : IsWriting(user[u], path))
    BY DEF FilesInv, WritesFit
  <2> QED  BY <2>1, <2>2, <2>3, <2>4 DEF FilesAreHonest, Honest, Reading
<1> QED  BY <1>1, FilesStart, FilesSteps, WritesStart, WritesSteps, PTL DEF FilesystemSpec
=============================================================================
