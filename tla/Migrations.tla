----------------------------- MODULE Migrations -----------------------------
(***************************************************************************)
(* MigrationRunner over the PostgreSQL and SQLite backends: processes of    *)
(* two releases that run up, rollback, reset and fresh at the same time on  *)
(* one database.  The up of a migration creates its table and needs those   *)
(* of its dependencies; its down drops it.  A release is the checksum it    *)
(* has for every migration, 0 for one it does not have.                     *)
(***************************************************************************)
EXTENDS Naturals, Sequences, FiniteSets

CONSTANTS
    Migrations,     \* migration ids, numbers in the order of localeCompare
    Deps,           \* dependsOn of every migration
    Irreversible,   \* migrations without down
    Owned,          \* tables of the ownership manifest
    Releases,       \* the releases that are deployed at once
    Deployers,      \* processes that run migrations
    MaxRuns         \* bound: commands started
ASSUME MigrationsAssumption ==
    /\ Migrations \subseteq Nat /\ IsFiniteSet(Migrations)
    /\ Irreversible \union Owned \subseteq Migrations
    /\ Deps \in [Migrations -> SUBSET Migrations]
    /\ Releases \subseteq [Migrations -> Nat] /\ MaxRuns \in Nat
    /\ IsFiniteSet(Deployers) /\ "none" \notin Deployers

VARIABLES
    history,   \* the records: batch (0 for none) and checksum of every migration
    tables,    \* the tables that exist
    migrationLock, \* the deployer that holds the lock and the transaction, or "none"
    deploy,    \* what every deployer does
    starts
migrationVars == <<history, tables, migrationLock, deploy, starts>>

Unapplied == [batch |-> 0, checksum |-> 0]
Applied(h) == {m \in Migrations : h[m].batch > 0}
Batches(h) == {h[m].batch : m \in Applied(h)}
Least(S) == CHOOSE x \in S : \A y \in S : x <= y
Largest(S) == IF S = {} THEN 0 ELSE CHOOSE x \in S : \A y \in S : y <= x
Reversed(s) == [i \in DOMAIN s |-> s[Len(s) + 1 - i]]
Items(s) == {s[i] : i \in DOMAIN s}

\* The members of a list that are in a set, in the order of the list.
Kept(s, S) ==
    LET kept[n \in 0..Len(s)] ==
            IF n = 0 THEN <<>> ELSE IF s[n] \in S THEN Append(kept[n - 1], s[n]) ELSE kept[n - 1]
    IN kept[Len(s)]

\* topologicalSort: of the migrations whose dependencies are out, the least id first.
Ready(items, out) == {m \in items \ Items(out) : Deps[m] \subseteq Items(out)}
Extended(items, out) ==
    IF Ready(items, out) = {} THEN out ELSE Append(out, Least(Ready(items, out)))
Sorted(items) ==
    LET out[n \in 0..Cardinality(items)] == IF n = 0 THEN <<>> ELSE Extended(items, out[n - 1])
    IN out[Cardinality(items)]
ReleaseSources(release) == {m \in Migrations : release[m] > 0}
Loadable(release) ==
    /\ \A m \in ReleaseSources(release) : Deps[m] \subseteq ReleaseSources(release)
    /\ Len(Sorted(ReleaseSources(release))) = Cardinality(ReleaseSources(release))
load(release) == Sorted(ReleaseSources(release))

\* checkedRecords: every record is known to this release with this checksum, and its
\* dependencies are recorded in no later batch.
checkedRecords(release, h) ==
    \A m \in Applied(h) :
        /\ release[m] = h[m].checksum
        /\ \A d \in Deps[m] : h[d].batch \in 1..h[m].batch

\* The last count batches, in reverse order of application.
LastBatches(h, count) == {b \in Batches(h) : Cardinality({c \in Batches(h) : c > b}) < count}
InBatches(h, batches) == {m \in Migrations : h[m].batch \in batches}
\* mutant: rolled back in the order of application
rollbackForward(release, h, count) == Kept(load(release), InBatches(h, LastBatches(h, count)))
rollback(release, h, count) == Reversed(Kept(load(release), InBatches(h, LastBatches(h, count))))
reset(release, h) == Reversed(Kept(load(release), Applied(h)))
up(release, h, limit) ==
    LET pending == Kept(load(release), Migrations \ Applied(h))
    IN SubSeq(pending, 1, IF limit < Len(pending) THEN limit ELSE Len(pending))

\* Commands with their limit or their number of batches.
MigrateCommands == [name : {"up", "rollback"}, count : 1..2] \union [name : {"reset", "fresh"}, count : {1}]

Resting == [pc |-> "idle", todo |-> <<>>, batch |-> 0, savedHistory |-> [m \in {} |-> 0], savedTables |-> {},
            command |-> [name |-> "up", count |-> 1], wrong |-> FALSE]

MigrationsInit ==
    /\ history = [m \in Migrations |-> Unapplied] /\ tables = {} /\ migrationLock = "none" /\ starts = 0
    /\ deploy = [p \in Deployers |-> [release |-> [m \in Migrations |-> 0], run |-> Resting]]

MigrationsTypeOK ==
    /\ tables \subseteq Migrations /\ migrationLock \in Deployers \union {"none"}
    /\ \A p \in Deployers : deploy[p].run.pc \in {"idle", "loaded", "running"}
    /\ \A m \in Migrations : history[m].batch \in 0..MaxRuns

Become(p, run) == deploy' = [deploy EXCEPT ![p].run = run]

\* The sources are loaded and sorted before the lock is taken.
loads(p, release, command) ==
    /\ deploy[p].run.pc = "idle" /\ starts < MaxRuns /\ starts' = starts + 1
    /\ Loadable(release)
    /\ deploy' = [deploy EXCEPT ![p] = [release |-> release, run |-> [Resting EXCEPT !.pc = "loaded", !.command = command]]]
    /\ UNCHANGED <<history, tables, migrationLock>>

Plan(p) ==
    LET c == deploy[p].run.command
        release == deploy[p].release
    IN CASE c.name = "up" -> up(release, history, c.count)
         [] c.name = "rollback" -> rollback(release, history, c.count)
         [] c.name = "reset" -> reset(release, history)
         [] OTHER -> load(release)
Undoes(c) == c.name \in {"rollback", "reset"}
assertReversible(items) == items \intersect Irreversible = {}
\* The manifest names tables of the application, never the history itself.
dropOwned(existing) == existing \ Owned

\* withLockedTransaction: the lock, BEGIN, then the records are read and checked.
locks(p) ==
    /\ deploy[p].run.pc = "loaded" /\ migrationLock = "none"
    /\ LET c == deploy[p].run.command
           refused == \/ ~checkedRecords(deploy[p].release, history)
                      \/ Undoes(c) /\ ~assertReversible(Items(Plan(p)))
       IN IF refused THEN Become(p, Resting) /\ UNCHANGED <<history, tables, migrationLock>>
          ELSE /\ migrationLock' = p
               /\ Become(p, [deploy[p].run EXCEPT !.pc = "running", !.todo = Plan(p),
                     !.batch = IF c.name = "fresh" THEN 1 ELSE Largest(Batches(history)) + 1,
                     !.savedHistory = history, !.savedTables = tables])
               /\ history' = IF c.name = "fresh" THEN [m \in Migrations |-> Unapplied] ELSE history
               /\ tables' = IF c.name = "fresh" THEN dropOwned(tables) ELSE tables
    /\ UNCHANGED starts

\* execute: the handler of the next migration, then its record.  A statement that the
\* database refuses fails the transaction.
Possible(c, m) ==
    IF Undoes(c) THEN m \in tables /\ \A n \in tables : m \notin Deps[n]
    ELSE m \notin tables /\ Deps[m] \subseteq tables
\* record on the way up, remove on the way down
recorded(p, m) ==
    [history EXCEPT ![m] = IF Undoes(deploy[p].run.command) THEN Unapplied
                           ELSE [batch |-> deploy[p].run.batch, checksum |-> deploy[p].release[m]]]
executes(p) ==
    /\ deploy[p].run.pc = "running" /\ deploy[p].run.todo # <<>>
    /\ LET c == deploy[p].run.command
           m == Head(deploy[p].run.todo)
       IN IF Possible(c, m)
          THEN /\ tables' = IF Undoes(c) THEN tables \ {m} ELSE tables \union {m}
               /\ history' = recorded(p, m)
               /\ Become(p, [deploy[p].run EXCEPT !.todo = Tail(@)])
               /\ UNCHANGED migrationLock
          ELSE /\ history' = deploy[p].run.savedHistory /\ tables' = deploy[p].run.savedTables
               /\ migrationLock' = "none"
               /\ Become(p, [Resting EXCEPT !.command = c, !.wrong = TRUE])
    /\ UNCHANGED starts

\* COMMIT and unlock; or a handler, COMMIT or the connection fails: ROLLBACK and
\* unlock, which the server does itself when the session is gone.
commits(p) ==
    /\ deploy[p].run.pc = "running" /\ deploy[p].run.todo = <<>>
    /\ migrationLock' = "none" /\ Become(p, Resting) /\ UNCHANGED <<history, tables, starts>>
migrationFails(p) ==
    /\ deploy[p].run.pc = "running"
    /\ history' = deploy[p].run.savedHistory /\ tables' = deploy[p].run.savedTables
    /\ migrationLock' = "none" /\ Become(p, Resting) /\ UNCHANGED starts

MigrationsNext ==
    \E p \in Deployers :
        \/ \E release \in Releases, command \in MigrateCommands : loads(p, release, command)
        \/ locks(p) \/ executes(p) \/ commits(p) \/ migrationFails(p)
MigrationsSpec == MigrationsInit /\ [][MigrationsNext]_migrationVars

\* Whatever releases and commands interleave, the committed records are exactly the
\* tables that exist, dependencies are recorded no later than what needs them, and the
\* database never refuses a migration for its order: only a fresh whose manifest
\* leaves a table behind can meet one.
MigrationsAreSound ==
    /\ migrationLock = "none" =>
          /\ Applied(history) = tables
          /\ \A m \in Applied(history) : \A d \in Deps[m] : history[d].batch \in 1..history[m].batch
    /\ \A p \in Deployers : deploy[p].run.wrong =>
          deploy[p].run.command.name = "fresh" /\ Owned # Migrations

(***************************************************************************)
(* splitSqlStatements over the tokens of a script without its comments:     *)
(* words, ";" and "(..)" for a quoted string or any other character.        *)
(***************************************************************************)
NewStatement == [words |-> <<>>, trigger |-> FALSE, begun |-> FALSE, done |-> FALSE, depth |-> 0, code |-> FALSE]
word(s, w) ==
    LET words == IF Len(s.words) < 3 THEN Append(s.words, w) ELSE s.words
        trigger == s.trigger \/ (Len(words) > 1 /\ words[1] = "CREATE" /\
                       \/ words[2] = "TRIGGER"
                       \/ Len(words) > 2 /\ words[2] \in {"TEMP", "TEMPORARY"} /\ words[3] = "TRIGGER")
        inBody == trigger /\ s.begun
    IN [s EXCEPT !.words = words, !.trigger = trigger, !.code = TRUE,
                 !.begun = @ \/ (trigger /\ w = "BEGIN"),
                 !.depth = IF ~inBody THEN @ ELSE IF w = "CASE" THEN @ + 1
                           ELSE IF w = "END" /\ @ > 0 THEN @ - 1 ELSE @,
                 !.done = @ \/ (inBody /\ w = "END" /\ s.depth = 0)]
\* The state of the statement and the number of statements after every prefix; -1 when
\* the script is refused.
splitSqlStatements(script) ==
    LET at[i \in 0..Len(script)] ==
            IF i = 0 THEN [s |-> NewStatement, count |-> 0, refused |-> FALSE]
            ELSE LET before == at[i - 1]
                     s == before.s
                     t == script[i]
                 IN IF t # ";" THEN [before EXCEPT !.s = IF t = "(..)" THEN [@ EXCEPT !.code = TRUE] ELSE word(@, t)]
                    ELSE IF s.trigger /\ ~s.begun THEN [before EXCEPT !.refused = TRUE]
                    ELSE IF s.trigger /\ ~s.done THEN before
                    ELSE [before EXCEPT !.s = NewStatement, !.count = IF s.code THEN @ + 1 ELSE @]
        end == at[Len(script)]
    IN IF end.refused \/ end.s.trigger THEN [refused |-> TRUE, count |-> 0]
       ELSE [refused |-> FALSE, count |-> IF end.s.code THEN end.count + 1 ELSE end.count]

\* A script of complete statements is split into exactly these, whatever the semicolons
\* inside the bodies of its triggers; the last terminator may be missing unless a trigger
\* ends there.  A trigger that is cut off inside its body is refused, never run in parts.
SplitsAreExact(Plain, Triggers) ==
    \A a, b, c \in Plain \cup Triggers :
        LET script == a \o <<";">> \o b \o <<";">> \o c
        IN /\ splitSqlStatements(script \o <<";">>) = [refused |-> FALSE, count |-> 3]
           /\ splitSqlStatements(script) = [refused |-> c \in Triggers, count |-> IF c \in Triggers THEN 0 ELSE 3]
           /\ c \in Triggers => \A n \in 2..(Len(c) - 1) :
                 splitSqlStatements(SubSeq(script, 1, Len(script) - Len(c) + n) \o <<";">>).refused
=============================================================================
