----------------------------- MODULE MCPlatform -----------------------------
(***************************************************************************)
(* The services around the queue, model-checked as one specification: a     *)
(* behaviour is a behaviour of one of the components, chosen at the start.   *)
(* The pure algorithms are compared with their references over bounded       *)
(* inputs by assumptions.                                                    *)
(***************************************************************************)
EXTENDS Idempotency, Migrations, DeadLetters, DeadLetterPage, Filesystem, DirectUpload, Notifications, Pages, Transactions, DelegatedJobs, Webhooks, Schedule, JsonGuards

(***************************************************************************)
(* Constants.                                                              *)
(***************************************************************************)
CONSTANTS r1, r2, r3

MCCalls == {r1, r2, r3}
MCFingerprintOf == [r \in MCCalls |-> IF r = r3 THEN "other" ELSE "body"]
MCDeps == <<{2}, {}, {1}>>
MCReleases == {<<1, 1, 0>>, <<1, 1, 1>>, <<2, 1, 1>>}
MCLetterRequests == {[op |-> "o1", action |-> "retry", revision |-> 0, later |-> TRUE],
                     [op |-> "o1", action |-> "discard", revision |-> 0, later |-> FALSE],
                     [op |-> "o2", action |-> "retry", revision |-> 0, later |-> FALSE]}
MCLocaleRank == <<2, 3, 1>>
MCCanonicalOf == [n1 |-> "n1", old |-> "n1", n2 |-> "n2", gone |-> "none"]
MCOffsets == [z1 |-> 2]
\* The application's own task runs under one expression, or under two.
MCOwnCrons == {{{0}}, {{1, 2}, DayMinutes}}

(***************************************************************************)
(* The pure algorithms.                                                    *)
(***************************************************************************)
\* Heaps of three nodes: leaves, shared nodes, cycles, foreign and reserved objects.
Kids == UNION {[1..k -> 1..3] : k \in 0..2}
Node(kind, kids) == [kind |-> kind, kids |-> kids]
Leaves == {Node("string", <<>>), Node("number", <<>>)}
Plain == {Node("plain", k) : k \in Kids}
Narrow == {n \in Plain : Len(n.kids) < 2}
MCHeaps == {<<a, b, c>> : a \in Plain \cup Leaves,
                          b \in Narrow \cup Leaves \cup {Node("reserved", <<>>), Node("foreign", <<3>>)},
                          c \in Leaves \cup {Node("plain", <<>>), Node("plain", <<1>>), Node("plain", <<2, 2>>)}}
MCLimits == {[nodes |-> n[1], depth |-> n[2], bytes |-> n[3], keys |-> n[4], number |-> 0, reserved |-> TRUE] :
                n \in {<<7, 3, 9, 2>>, <<4, 3, 9, 2>>, <<7, 1, 3, 2>>, <<7, 3, 3, 1>>, <<7, 3, 16, 2>>}}
ASSUME GuardsDecideJson == GuardsAreExact(MCHeaps, MCLimits)

ASSUME PagesAreSound == PaginationIsSound(0..5, {0, 1, 2, 4}, -1..4)

ASSUME PathsStayInside ==
    PathsAreContained(UNION {[1..n -> {"", ".", "..", "a", "b"}] : n \in 0..3}, {<<"a">>, <<"b">>})

ASSUME ScriptsAreSplit ==
    LET Body(inner) == <<"CREATE", "TRIGGER", "ON", "BEGIN">> \o inner \o <<"END">>
    IN SplitsAreExact({<<"SELECT">>, <<"SELECT", "CASE", "(..)", "END">>, <<"CREATE", "TABLE", "(..)">>, <<"BEGIN">>, <<"END">>},
                      {Body(<<"UPDATE", ";">>), Body(<<"SELECT", "CASE", "END", ";", "UPDATE", ";">>),
                       Body(<<"SELECT", "CASE", "CASE", "END", "END", ";">>)})

(***************************************************************************)
(* The specification.                                                      *)
(***************************************************************************)
VARIABLE component

serverVars == <<idempotencyVars, migrationVars, letterVars, pageVars>>
storageVars == <<filesystemVars, uploadVars, notificationVars, keysetVars>>
jobVars == <<transactionVars, delegationVars, webhookVars, scheduleVars>>

\* The components that are not explored start in one state.
Init ==
    /\ component \in {"idempotency", "migrations", "letters", "page", "files", "uploads",
                      "notifications", "lists", "transactions", "delegation", "webhooks", "schedule"}
    /\ IdempotencyInit
    /\ MigrationsInit
    /\ DeadLettersInit /\ (component # "letters" => source = "reliability")
    /\ PageInit
    /\ FilesystemInit /\ (component # "files" => disk = "memory")
    /\ UploadInit /\ (component # "uploads" => issuanceStore = "memory")
    /\ NotificationsInit /\ (component # "notifications" => ~setting.named /\ setting.tenant = "none" /\ setting.inbox = "none" /\ profile.channels = {"mail"})
    /\ KeysetInit /\ (component # "lists" => list = "letters" /\ listed = [i \in RowIds |-> 0])
    /\ TransactionsInit /\ (component # "transactions" => transaction.kind = "async")
    /\ DelegationInit /\ (component # "delegation" => selected = {"n1"})
    /\ WebhooksInit /\ (component # "webhooks" => hookBody = "envelope")
    /\ ScheduleInit /\ {c \in DOMAIN configured : configured[c] # {}} \in (IF component = "schedule" THEN MCOwnCrons ELSE {{}})

Next ==
    \/ /\ component = "idempotency" /\ IdempotencyNext
       /\ UNCHANGED <<component, migrationVars, letterVars, pageVars, storageVars, jobVars>>
    \/ /\ component = "migrations" /\ MigrationsNext
       /\ UNCHANGED <<component, idempotencyVars, letterVars, pageVars, storageVars, jobVars>>
    \/ /\ component = "letters" /\ DeadLettersNext
       /\ UNCHANGED <<component, idempotencyVars, migrationVars, pageVars, storageVars, jobVars>>
    \/ /\ component = "page" /\ PageNext
       /\ UNCHANGED <<component, idempotencyVars, migrationVars, letterVars, storageVars, jobVars>>
    \/ /\ component = "files" /\ FilesystemNext
       /\ UNCHANGED <<component, uploadVars, notificationVars, keysetVars, serverVars, jobVars>>
    \/ /\ component = "uploads" /\ UploadNext
       /\ UNCHANGED <<component, filesystemVars, notificationVars, keysetVars, serverVars, jobVars>>
    \/ /\ component = "notifications" /\ NotificationsNext
       /\ UNCHANGED <<component, filesystemVars, uploadVars, keysetVars, serverVars, jobVars>>
    \/ /\ component = "lists" /\ KeysetNext
       /\ UNCHANGED <<component, filesystemVars, uploadVars, notificationVars, serverVars, jobVars>>
    \/ /\ component = "transactions" /\ TransactionsNext
       /\ UNCHANGED <<component, delegationVars, webhookVars, scheduleVars, serverVars, storageVars>>
    \/ /\ component = "delegation" /\ DelegationNext
       /\ UNCHANGED <<component, transactionVars, webhookVars, scheduleVars, serverVars, storageVars>>
    \/ /\ component = "webhooks" /\ WebhooksNext
       /\ UNCHANGED <<component, transactionVars, delegationVars, scheduleVars, serverVars, storageVars>>
    \/ /\ component = "schedule" /\ ScheduleNext
       /\ UNCHANGED <<component, transactionVars, delegationVars, webhookVars, serverVars, storageVars>>

vars == <<component, serverVars, storageVars, jobVars>>
Spec == Init /\ [][Next]_vars
=============================================================================
