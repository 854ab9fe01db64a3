------------------------------- MODULE Schedule -------------------------------
(***************************************************************************)
(* Declaring a schedule (packages/scheduler/src/Schedule.ts) and compiling *)
(* it for Nitro (packages/scheduler-nuxt/src/compiler.ts).                 *)
(*                                                                         *)
(* A definition makes pending schedules and calls their methods in any     *)
(* order, also alternately; every method that follows the one which gives  *)
(* the cron expression stores the task anew.  The compiled configuration   *)
(* has the provider fire a task that names a time zone every minute, and   *)
(* ScheduledMinuteGuard.check lets through the minutes that are due in     *)
(* that zone; any other task fires in the zone of the provider.            *)
(*                                                                         *)
(* A cron expression is the set of minutes of the local day it matches     *)
(* (external: croner), a zone is its distance from UTC.                    *)
(***************************************************************************)
EXTENDS Integers, Sequences

CONSTANTS
    Builders,        \* the pending schedules a definition makes
    TaskNames,       \* the names they may have
    Handled,         \* the names that have a Nitro handler
    DayLength,       \* minutes of a day
    Crons,           \* the expressions that are used: sets of minutes
    Offsets,         \* Offsets[z]: minutes zone z is ahead of UTC
    ProviderOffset,  \* the same for the host of the provider
    MaxCalls         \* bound: calls of methods

DayMinutes == 0..(DayLength - 1)

\* An expression matches some minute; {} stands for one that is not given yet, "none" for
\* nothing, and "own" for a task of the application.
ASSUME ScheduleAssumption ==
    /\ DayLength \in Nat \ {0} /\ Crons \subseteq (SUBSET DayMinutes) \ {{}}
    /\ "none" \notin Builders \union TaskNames \union DOMAIN Offsets /\ "own" \notin TaskNames
    /\ ProviderOffset \in DayMinutes /\ \A z \in DOMAIN Offsets : Offsets[z] \in DayMinutes
    /\ MaxCalls \in Nat

Zones == DOMAIN Offsets
EveryMinute == DayMinutes

VARIABLES
    pendingTask,  \* pendingTask[b]: the PendingSchedule
    tasks,        \* Schedule.#tasks
    owners,       \* Schedule.#owners
    phase,        \* of the build: defining, compiled, or ended by an error
    configured,   \* the application's own scheduledTasks: the names under each expression
    scheduledTasks, \* of the Nitro configuration, which the compiler merges into
    calls         \* how much of the bound is used up

scheduleVars == <<pendingTask, tasks, owners, phase, configured, scheduledTasks, calls>>

NoMetadata == [timezone |-> "none", description |-> "none", overlap |-> 0, oneServer |-> FALSE,
               maintenance |-> "skip", success |-> "none", failure |-> "none"]
NotMade == [name |-> "none", descriptor |-> "none", expression |-> {}, metadata |-> NoMetadata]

\* The configuration of the application may schedule a task of its own, under one
\* expression or several.
ScheduleInit ==
    /\ pendingTask = [b \in Builders |-> NotMade]
    /\ tasks = <<>>
    /\ owners = [n \in TaskNames |-> "none"]
    /\ phase = "defining" /\ calls = 0
    /\ configured \in [Crons \cup {EveryMinute} -> SUBSET {"own"}]
    /\ scheduledTasks = configured

(***************************************************************************)
(* Schedule and PendingSchedule                                            *)
(***************************************************************************)
Called == phase = "defining" /\ calls < MaxCalls /\ calls' = calls + 1

\* operation, task, dispatch
make(b, name, descriptor) ==
    /\ Called /\ pendingTask[b] = NotMade
    /\ pendingTask' = [pendingTask EXCEPT ![b].name = name, ![b].descriptor = descriptor]
    /\ UNCHANGED <<tasks, owners, phase, configured, scheduledTasks>>

TaskOf(p) == [name |-> p.name, cron |-> p.expression, descriptor |-> p.descriptor, metadata |-> p.metadata]

\* #store: the first to commit owns the name, and its later commits replace the task.
store(b, task) ==
    IF owners[task.name] \notin {"none", b}
    THEN phase' = "duplicate" /\ UNCHANGED <<tasks, owners>>
    ELSE /\ owners' = [owners EXCEPT ![task.name] = b]
         /\ tasks' = IF \E i \in DOMAIN tasks : tasks[i].name = task.name
                     THEN [i \in DOMAIN tasks |-> IF tasks[i].name = task.name THEN task ELSE tasks[i]]
                     ELSE Append(tasks, task)
         /\ UNCHANGED phase

\* cron, everyMinute ... monthlyOn
cron(b, expression) ==
    /\ Called /\ pendingTask[b] # NotMade
    /\ pendingTask' = [pendingTask EXCEPT ![b].expression = expression]
    /\ store(b, TaskOf(pendingTask'[b]))
    /\ UNCHANGED <<configured, scheduledTasks>>

\* mutant: what is declared after the expression is not stored.
commitNever(b) == UNCHANGED <<tasks, owners, phase>>

\* #commitIfScheduled
commitIfScheduled(b) ==
    IF pendingTask'[b].expression = {} THEN UNCHANGED <<tasks, owners, phase>>
    ELSE store(b, TaskOf(pendingTask'[b]))

declare(b, metadata) ==
    /\ Called /\ pendingTask[b] # NotMade
    /\ pendingTask' = [pendingTask EXCEPT ![b].metadata = metadata]
    /\ commitIfScheduled(b)
    /\ UNCHANGED <<configured, scheduledTasks>>

timezone(b, zone) == declare(b, [pendingTask[b].metadata EXCEPT !.timezone = zone])
description(b) == declare(b, [pendingTask[b].metadata EXCEPT !.description = "text"])
onOneServer(b) == declare(b, [pendingTask[b].metadata EXCEPT !.oneServer = TRUE])
evenInMaintenanceMode(b) == declare(b, [pendingTask[b].metadata EXCEPT !.maintenance = "run"])
skipDuringMaintenance(b) == declare(b, [pendingTask[b].metadata EXCEPT !.maintenance = "skip"])
onSuccess(b) == declare(b, [pendingTask[b].metadata EXCEPT !.success = "hook"])
onFailure(b) == declare(b, [pendingTask[b].metadata EXCEPT !.failure = "hook"])

\* The method accepts any positive number of minutes, normalizeOverlap only seconds that
\* a timer can count: 1 is an expiry both accept, 2 one that is too long.
withoutOverlapping(b, expiry) == declare(b, [pendingTask[b].metadata EXCEPT !.overlap = expiry])
OverlapIsValid(task) == task.metadata.overlap < 2

(***************************************************************************)
(* The compiler, at the end of the definition                              *)
(***************************************************************************)
providerCronExpression(task) == IF task.metadata.timezone = "none" THEN task.cron ELSE EveryMinute

\* normalizeScheduledTask of every task, compileNuxtSchedule and mergeNitro2SchedulerConfig.
compile ==
    /\ phase = "defining"
    /\ IF \A i \in DOMAIN tasks : OverlapIsValid(tasks[i]) /\ tasks[i].name \in Handled
       THEN /\ phase' = "compiled"
            /\ scheduledTasks' = [c \in DOMAIN scheduledTasks |->
                  scheduledTasks[c] \cup {tasks[i].name : i \in {i \in DOMAIN tasks : providerCronExpression(tasks[i]) = c}}]
       ELSE phase' = "invalid" /\ UNCHANGED scheduledTasks
    /\ UNCHANGED <<pendingTask, tasks, owners, configured, calls>>

(***************************************************************************)
(* The compiled schedule                                                   *)
(***************************************************************************)
Local(minute, offset) == (minute + offset) % DayLength

\* The provider fires the names under the expressions that match in its own zone.
FiresIn(schedule, name, minute) ==
    \E c \in DOMAIN schedule : name \in schedule[c] /\ Local(minute, ProviderOffset) \in c
Fires(name, minute) == FiresIn(scheduledTasks, name, minute)

isScheduledTaskDue(task, minute) ==
    Local(minute, IF task.metadata.timezone = "none" THEN 0 ELSE Offsets[task.metadata.timezone]) \in task.cron

\* ScheduledMinuteGuard.check on its first call for the minute.
Starts(task, minute) ==
    Fires(task.name, minute) /\ (task.metadata.timezone # "none" => isScheduledTaskDue(task, minute))

ScheduleNext ==
    \/ compile
    \/ \E b \in Builders :
          \/ \E name \in TaskNames, descriptor \in {"operation", "queue"} : make(b, name, descriptor)
          \/ \E expression \in Crons : cron(b, expression)
          \/ \E zone \in Zones : timezone(b, zone)
          \/ \E expiry \in {1, 2} : withoutOverlapping(b, expiry)
          \/ description(b) \/ onOneServer(b) \/ evenInMaintenanceMode(b) \/ skipDuringMaintenance(b)
          \/ onSuccess(b) \/ onFailure(b)

ScheduleSpec == ScheduleInit /\ [][ScheduleNext]_scheduleVars

\* Types.
ScheduleTypeOK ==
    /\ phase \in {"defining", "compiled", "duplicate", "invalid"} /\ calls \in 0..MaxCalls
    /\ \A i \in DOMAIN tasks : tasks[i].cron \in Crons /\ tasks[i].name \in TaskNames

\* What was declared is what runs (Schedule, PendingSchedule, compileNuxtSchedule),
\* whatever the order of the calls: until an error ends the build every pending schedule
\* that has an expression has its one task, with all it declared so far; and once compiled
\* a task starts in exactly the minutes its expression matches in its zone, or without
\* one in the zone of the provider. The merge adds nothing else and takes nothing away
\* (mergeNitro2SchedulerConfig): under every expression are the names the application had
\* there and the tasks compiled to it, so its own tasks fire in the minutes they did.
ScheduleIsAsDeclared ==
    /\ phase \in {"defining", "compiled"} =>
          /\ \A b \in Builders : pendingTask[b].expression # {} =>
                {i \in DOMAIN tasks : tasks[i].name = pendingTask[b].name} # {}
          /\ \A i \in DOMAIN tasks :
                /\ tasks[i] = TaskOf(pendingTask[owners[tasks[i].name]])
                /\ \A j \in DOMAIN tasks : tasks[i].name = tasks[j].name => i = j
    /\ phase = "compiled" =>
          \A b \in Builders, minute \in DayMinutes :
             LET p == pendingTask[b] IN
             p.expression # {} =>
                Starts(TaskOf(p), minute) <=>
                   IF p.metadata.timezone = "none" THEN Local(minute, ProviderOffset) \in p.expression
                   ELSE Local(minute, Offsets[p.metadata.timezone]) \in p.expression
    /\ \A c \in DOMAIN configured : scheduledTasks[c] \ TaskNames = configured[c]
    /\ \A minute \in DayMinutes : Fires("own", minute) <=> FiresIn(configured, "own", minute)
=============================================================================
