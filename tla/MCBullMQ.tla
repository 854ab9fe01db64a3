------------------------------ MODULE MCBullMQ ------------------------------
\* A chain of two steps or a batch of two children.
EXTENDS BullMQQueue

MCJobs == {"first", "second", "child1", "child2"}
MCNextOf == [j \in MCJobs |-> IF j = "first" THEN "second" ELSE None]
MCTriesOf == [j \in MCJobs |-> IF j = "first" THEN 2 ELSE 1]
MCAdmissions == {{"first"}, {"child1", "child2"}}
=============================================================================
