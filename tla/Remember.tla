------------------------------ MODULE Remember ------------------------------
(***************************************************************************)
(* cache.remember of one key by callers in one server, while the server     *)
(* changes the source of truth and then puts or forgets the key.  The       *)
(* commands of RedisCache reach Redis in the order they were sent (one      *)
(* connection); those of InMemoryCache take effect at once.  Other servers  *)
(* that share a Redis may write any version at any time (foreign), and the  *)
(* key may expire.  Values are versions of the truth.                       *)
(***************************************************************************)
EXTENDS Naturals, Sequences

CONSTANTS
    Drivers,       \* "memory" and "redis", the adapters explored
    Callers,
    MaxVersion,    \* bound on changes of the truth
    MaxWire        \* bound on the commands a server has in flight
ASSUME RememberAssumption ==
    /\ Drivers \subseteq {"memory", "redis"} /\ MaxVersion \in Nat \ {0} /\ MaxWire \in Nat
    /\ "none" \notin Callers

VARIABLES
    driver, truth,
    stored,        \* the version under the key, and whether this server set it
    pending,       \* the caller whose factory is awaited, or "none"
    wire,          \* commands sent and not yet executed
    caller,        \* [pc, on, version] of each caller
    invalidated    \* the truth that the last executed put or forget knew
rememberVars == <<driver, truth, stored, pending, wire, caller, invalidated>>

Nothing == [version |-> 0, own |-> FALSE]
Pcs == {"idle", "get", "factory", "loaded", "shared", "returned", "rejected"}
Commands == [op : {"get"}, for : Callers] \union [op : {"SET", "SETNX"}, version : 1..MaxVersion]
            \union [op : {"DEL", "SCAN"}, version : 1..MaxVersion]

RememberTypeOK ==
    /\ driver \in Drivers /\ truth \in 1..MaxVersion
    /\ stored \in [version : 0..MaxVersion, own : BOOLEAN]
    /\ pending \in Callers \union {"none"}
    /\ \A i \in DOMAIN wire : wire[i] \in Commands
    /\ caller \in [Callers -> [pc : Pcs, on : Callers \union {"none"}, version : 0..MaxVersion]]
    /\ invalidated \in 0..MaxVersion

RememberInit ==
    /\ driver \in Drivers /\ truth = 1 /\ stored = Nothing
    /\ pending = "none" /\ wire = <<>> /\ invalidated = 0
    /\ caller = [c \in Callers |-> [pc |-> "idle", on |-> "none", version |-> 0]]

\* What a command does to the key.
Effect(cmd) ==
    CASE cmd.op = "SET" -> [version |-> cmd.version, own |-> TRUE]
      [] cmd.op = "SETNX" -> IF stored = Nothing THEN [version |-> cmd.version, own |-> TRUE] ELSE stored
      [] cmd.op = "DEL" -> Nothing
      [] OTHER -> stored

\* InMemoryCache executes at once, RedisCache sends.
Send(cmd) ==
    IF driver = "memory"
    THEN stored' = Effect(cmd) /\ UNCHANGED wire
    ELSE wire' = Append(wire, cmd) /\ UNCHANGED stored

\* Callers that share the promise of c settle with it.
Settled(c, pc, v) ==
    [d \in Callers |-> IF d = c \/ (caller[d].pc = "shared" /\ caller[d].on = c)
                       THEN [pc |-> pc, on |-> "none", version |-> v] ELSE caller[d]]

\* Share the pending factory of the server, or start one.
ShareOrStart(c) ==
    IF pending # "none"
    THEN /\ caller' = [caller EXCEPT ![c] = [@ EXCEPT !.pc = "shared", !.on = pending]]
         /\ UNCHANGED pending
    ELSE /\ caller' = [caller EXCEPT ![c].pc = "factory"]
         /\ pending' = c

\* #remember: InMemoryCache looks for the entry, then for a pending factory;
\* RedisCache looks for a pending factory first and then awaits its get.
remember(c) ==
    /\ caller[c].pc = "idle"
    /\ \/ /\ driver = "memory" /\ stored # Nothing
          /\ caller' = [caller EXCEPT ![c] = [@ EXCEPT !.pc = "returned", !.version = stored.version]]
          /\ UNCHANGED <<pending, wire>>
       \/ driver = "memory" /\ stored = Nothing /\ ShareOrStart(c) /\ UNCHANGED wire
       \/ /\ driver = "redis" /\ pending # "none"
          /\ ShareOrStart(c) /\ UNCHANGED wire
       \/ /\ driver = "redis" /\ pending = "none"
          /\ caller' = [caller EXCEPT ![c].pc = "get"]
          /\ wire' = Append(wire, [op |-> "get", for |-> c])
          /\ UNCHANGED pending
    /\ UNCHANGED <<driver, truth, stored, invalidated>>

\* The answer of get: found, or the second look at the pending map.
getAnswered ==
    /\ wire # <<>> /\ Head(wire).op = "get"
    /\ LET c == Head(wire).for IN
       \/ /\ stored # Nothing
          /\ caller' = [caller EXCEPT ![c] = [@ EXCEPT !.pc = "returned", !.version = stored.version]]
          /\ UNCHANGED pending
       \/ stored = Nothing /\ ShareOrStart(c)
    /\ wire' = Tail(wire)
    /\ UNCHANGED <<driver, truth, stored, invalidated>>

\* The factory reads the truth and resolves later.
factoryReads(c) ==
    /\ caller[c].pc = "factory"
    /\ caller' = [caller EXCEPT ![c] = [@ EXCEPT !.pc = "loaded", !.version = truth]]
    /\ UNCHANGED <<driver, truth, stored, pending, wire, invalidated>>

\* The finally block forgets the factory if the map still holds it.
Unpend(c) ==
    pending' = IF pending = c THEN "none" ELSE pending

\* The factory, or the validation of its value, throws: so does every sharer.
factoryFails(c) ==
    /\ caller[c].pc \in {"factory", "loaded"}
    /\ caller' = Settled(c, "rejected", 0) /\ Unpend(c)
    /\ UNCHANGED <<driver, truth, stored, wire, invalidated>>

\* mutant: the value is written whether or not the map still holds the factory
settleAlways(c) ==
    /\ caller[c].pc = "loaded"
    /\ Send([op |-> IF driver = "memory" THEN "SET" ELSE "SETNX",
                                version |-> caller[c].version])
    /\ caller' = Settled(c, "returned", caller[c].version) /\ Unpend(c)
    /\ UNCHANGED <<driver, truth, invalidated>>

\* The value is written only while the map still holds this factory: InMemoryCache
\* puts it, RedisCache adds it.
settle(c) ==
    /\ caller[c].pc = "loaded"
    /\ IF pending = c
       THEN Send([op |-> IF driver = "memory" THEN "SET" ELSE "SETNX", version |-> caller[c].version])
       ELSE UNCHANGED <<stored, wire>>
    /\ caller' = Settled(c, "returned", caller[c].version) /\ Unpend(c)
    /\ UNCHANGED <<driver, truth, invalidated>>

\* Every call that changes the key first drops the pending factory (#touch).
touch == pending' = "none"

\* The application changes the truth.
change ==
    /\ truth < MaxVersion /\ truth' = truth + 1
    /\ UNCHANGED <<driver, stored, pending, wire, caller, invalidated>>

\* It then puts the new value (put, increment), removes the old one (forget, pull,
\* forgetIf of a match), or flushes, which in Redis scans before it deletes.
invalidate(op) ==
    /\ touch /\ Send([op |-> op, version |-> truth])
    /\ invalidated' = IF driver = "memory" THEN truth ELSE invalidated
    /\ UNCHANGED <<driver, truth, caller>>
mutate ==
    /\ Len(wire) < MaxWire
    /\ invalidate("SET") \/ invalidate("DEL")
flush ==
    /\ driver = "redis" /\ Len(wire) < MaxWire
    /\ invalidate("SCAN")

\* Redis executes the next command.  A scan that finds the key is
\* followed by the command that unlinks it.
execute ==
    /\ wire # <<>> /\ Head(wire).op # "get"
    /\ LET cmd == Head(wire) IN
       /\ stored' = Effect(cmd)
       /\ wire' = IF cmd.op = "SCAN" /\ stored # Nothing
                   THEN Append(Tail(wire), [op |-> "DEL", version |-> cmd.version])
                   ELSE Tail(wire)
       /\ invalidated' = IF cmd.op \in {"SET", "DEL"} /\ cmd.version > invalidated
                         THEN cmd.version ELSE invalidated
    /\ UNCHANGED <<driver, truth, pending, caller>>

\* Another server writes or removes the key.
foreign ==
    /\ driver = "redis"
    /\ \E v \in 0..truth : stored' = [version |-> v, own |-> FALSE]
    /\ UNCHANGED <<driver, truth, pending, wire, caller, invalidated>>

Expire ==
    /\ stored # Nothing /\ stored' = Nothing
    /\ UNCHANGED <<driver, truth, pending, wire, caller, invalidated>>

\* A caller that got its answer may call again.
again(c) ==
    /\ caller[c].pc \in {"returned", "rejected"}
    /\ caller' = [caller EXCEPT ![c] = [pc |-> "idle", on |-> "none", version |-> 0]]
    /\ UNCHANGED <<driver, truth, stored, pending, wire, invalidated>>

RememberNext ==
    \/ \E c \in Callers : remember(c) \/ factoryReads(c) \/ factoryFails(c) \/ settle(c) \/ again(c)
    \/ getAnswered \/ mutate \/ flush \/ execute \/ foreign \/ change \/ Expire

RememberSpec == RememberInit /\ [][RememberNext]_rememberVars

\* Once a put, forget or flush of a server took effect, no factory that the same
\* server started before it can bring an older value back (docs/modules.md: "Mutations
\* invalidate an in-flight remember() write so stale loaders cannot overwrite newer
\* values").  Another server's factory can, until the key expires.
FillsAreFresh == stored.own => stored.version >= invalidated
=============================================================================
