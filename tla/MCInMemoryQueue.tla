-------------------------- MODULE MCInMemoryQueue --------------------------
(* An instance of InMemoryQueue for TLC: pushes with one deduplication id, *)
(* one of them with a ttl; a chain of two steps on two queues; a batch of  *)
(* two children.  A behaviour mixes two of these.                      *)
EXTENDS InMemoryQueue

MCJobs == {"plain", "again", "ttl", "step1", "step2", "child1", "child2"}
MCWorkloads == {{"plain", "again", "ttl"}, {"plain", "ttl", "step1", "step2"},
                {"plain", "again", "child1", "child2"}, {"step1", "step2", "child1", "child2"}}
MCQueueOf == [j \in MCJobs |-> IF j = "step2" THEN "other" ELSE "default"]
MCPriorityOf == [j \in MCJobs |-> IF j = "child1" THEN 0 ELSE 1]
MCTriesOf == [j \in MCJobs |-> IF j \in {"child1", "step1"} THEN 2 ELSE 1]
MCReleasesOf == [j \in MCJobs |-> IF j \in {"plain", "child2"} THEN 1 ELSE 0]
MCKeyOf == [j \in MCJobs |-> IF j \in {"plain", "again", "ttl"} THEN "id" ELSE "none"]
MCNextOf == [j \in MCJobs |-> IF j = "step1" THEN "step2" ELSE "none"]
=============================================================================
