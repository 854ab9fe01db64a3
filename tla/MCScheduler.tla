---------------------------- MODULE MCScheduler ----------------------------
\* Two runs on one server and one on another; every policy that needs a lock.
EXTENDS Scheduler

MCRuns == {"r1", "r2", "r3"}
MCServers == {"s1", "s2"}
MCServerOf == [r \in MCRuns |-> IF r = "r2" THEN "s2" ELSE "s1"]
MCMinutesOf == [r \in MCRuns |-> IF r = "r3" THEN {1, 2} ELSE {1}]
MCPolicies == {{"overlap"}, {"oneServer"}, {"overlap", "oneServer"}}
=============================================================================
