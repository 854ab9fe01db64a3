------------------------------ MODULE Features ------------------------------
(***************************************************************************)
(* Feature flags: FeatureManager, ScopedFeatures and InMemoryFeatureStore  *)
(* (packages/pennant).  A value is looked up in the cache of the manager,  *)
(* then in the store, and else resolved by its definition and stored.      *)
(* Several managers, one in every process, may share a store.              *)
(*                                                                         *)
(* A call to the store takes effect at one moment and is answered at a     *)
(* later one; calls of other callers come in between.  The name of a       *)
(* feature and the identity of a scope make the key of an entry.           *)
(***************************************************************************)
EXTENDS Integers, FiniteSets

CONSTANTS
    Managers,       \* feature managers
    FlagCallers,    \* callers
    FeatureNames,   \* features
    FlagScopes,     \* scopes: records of a kind and an identity
    Explicit,       \* the values callers set
    MaxFlagCalls,   \* bound: calls
    MaxFlagFaults   \* bound: rejected calls of the store

VARIABLES
    featureStore,   \* featureStore[k]: the stored value
    flagCaches,     \* flagCaches[m][k]: the value m remembers
    resolvers,      \* resolvers[m][f]: what the definition of f resolves to
    flagCalls,      \* flagCalls[c]: the call c is making
    everStored,     \* history: the values the store has held for k
    unsure,         \* history: the keys of m which a change met with another call or cache
    flagsUsed       \* how much of MaxFlagCalls and MaxFlagFaults is used up

featureVars == <<featureStore, flagCaches, resolvers, flagCalls, everStored, unsure, flagsUsed>>

\* identifyScope: primitives, null, and objects that name themselves; 1 and "1" differ.
identifyScope(scope) == <<scope.kind, scope.text>>
Identifiable(scope) == scope.kind \in {"null", "string", "number", "boolean", "bigint", "identified object"}

Flags == FeatureNames \X {identifyScope(s) : s \in {t \in FlagScopes : Identifiable(t)}}
Unset == "unset"
Undefined == "undefined"
FlagValues == Explicit \cup {"default"}
Resting == [pc |-> "idle", op |-> "none", manager |-> "none", keys |-> {}, value |-> Unset]

FeaturesInit ==
    /\ featureStore = [k \in Flags |-> Unset]
    /\ flagCaches = [m \in Managers |-> [k \in Flags |-> Unset]]
    /\ resolvers = [m \in Managers |-> [f \in FeatureNames |-> Unset]]
    /\ flagCalls = [c \in FlagCallers |-> Resting]
    /\ everStored = [k \in Flags |-> {}]
    /\ unsure = [m \in Managers |-> {}]
    /\ flagsUsed = [calls |-> 0, faults |-> 0]

Busy(c) == flagCalls[c].pc # "idle"
Rest(c) == flagCalls' = [flagCalls EXCEPT ![c] = Resting]
Remember(m, keys, value) == flagCaches' = [flagCaches EXCEPT ![m] = [k \in Flags |-> IF k \in keys THEN value ELSE @[k]]]

(***************************************************************************)
(* The calls                                                               *)
(***************************************************************************)

Begin(c, m, op, keys, value) ==
    /\ ~Busy(c) /\ flagsUsed.calls < MaxFlagCalls
    /\ flagsUsed' = [flagsUsed EXCEPT !.calls = @ + 1]
    /\ flagCalls' = [flagCalls EXCEPT ![c] = [pc |-> op, op |-> op, manager |-> m, keys |-> keys, value |-> value]]
    /\ UNCHANGED <<featureStore, resolvers, everStored, unsure>>

\* define is synchronous: at any time, also once more.
define(m, f) ==
    /\ flagsUsed.calls < MaxFlagCalls
    /\ flagsUsed' = [flagsUsed EXCEPT !.calls = @ + 1]
    /\ \E value \in {"default", Undefined} : resolvers' = [resolvers EXCEPT ![m][f] = value]
    /\ UNCHANGED <<featureStore, flagCaches, flagCalls, everStored, unsure>>

\* valueFor, activeFor, and each name of valuesFor: a remembered value is the answer.
valueFor(c, m, k) == /\ flagCaches[m][k] = Unset
                     /\ Begin(c, m, "get", {k}, Unset) /\ UNCHANGED flagCaches

\* mutant: the cache is written before the store has the value.
setForEarly(c, m, k) == \E value \in Explicit : Begin(c, m, "set", {k}, value) /\ Remember(m, {k}, value)

\* setFor, activate, deactivate
setFor(c, m, k) == \E value \in Explicit : Begin(c, m, "set", {k}, value) /\ UNCHANGED flagCaches

forgetFor(c, m, k) == Begin(c, m, "delete", {k}, Unset) /\ UNCHANGED flagCaches

\* purge, of some features or of all.
purge(c, m) ==
    \E names \in SUBSET FeatureNames :
       Begin(c, m, "purge", {k \in Flags : k[1] \in names}, Unset) /\ UNCHANGED flagCaches

\* flushCache is synchronous.  The doubts about what m remembers end when no call is under way.
flushCache(m) ==
    /\ Remember(m, Flags, Unset)
    /\ unsure' = [unsure EXCEPT ![m] = IF \E c \in FlagCallers : Busy(c) /\ flagCalls[c].manager = m THEN @ ELSE {}]
    /\ UNCHANGED <<featureStore, resolvers, flagCalls, everStored, flagsUsed>>

(***************************************************************************)
(* The store, and what follows                                             *)
(***************************************************************************)

getStored(c) ==
    /\ flagCalls[c].pc = "get"
    /\ \E k \in flagCalls[c].keys :
          flagCalls' = [flagCalls EXCEPT ![c].pc = "got", ![c].value = featureStore[k]]
    /\ UNCHANGED <<featureStore, flagCaches, resolvers, everStored, unsure, flagsUsed>>

\* A value that was found is remembered.
found(c) ==
    LET call == flagCalls[c]
    IN /\ call.pc = "got" /\ call.value # Unset
       /\ Remember(call.manager, call.keys, call.value) /\ Rest(c)
       /\ UNCHANGED <<featureStore, resolvers, everStored, unsure, flagsUsed>>

\* The definition is looked up only now, and is asynchronous itself; without one, or when it
\* resolves to undefined, the call rejects.
resolves(c) ==
    LET call == flagCalls[c]
    IN /\ call.pc = "got" /\ call.value = Unset
       /\ \E k \in call.keys :
             LET value == resolvers[call.manager][k[1]]
             IN IF value \in {Unset, Undefined} THEN Rest(c)
                ELSE flagCalls' = [flagCalls EXCEPT ![c].pc = "set", ![c].value = value]
       /\ UNCHANGED <<featureStore, flagCaches, resolvers, everStored, unsure, flagsUsed>>

\* A definition that throws.
resolverFails(c) ==
    /\ flagCalls[c].pc = "got" /\ flagCalls[c].value = Unset
    /\ flagsUsed.faults < MaxFlagFaults
    /\ flagsUsed' = [flagsUsed EXCEPT !.faults = @ + 1]
    /\ Rest(c)
    /\ UNCHANGED <<featureStore, flagCaches, resolvers, everStored, unsure>>

Touches(c, m, k) == Busy(c) /\ flagCalls[c].manager = m /\ k \in flagCalls[c].keys

\* The managers and keys a change of the store is unseen by: another call of the key is under
\* way, or another manager remembers a value.
Unseen(c, m) ==
    {k \in flagCalls[c].keys :
        \/ \E d \in FlagCallers \ {c} : Touches(d, m, k)
        \/ m # flagCalls[c].manager /\ flagCaches[m][k] # Unset}

\* set, delete and purge of the store.
changeStore(c) ==
    LET call == flagCalls[c]
    IN /\ featureStore' = [k \in Flags |-> IF k \in call.keys THEN call.value ELSE featureStore[k]]
       /\ everStored' = [k \in Flags |-> IF k \in call.keys THEN everStored[k] \cup ({call.value} \ {Unset}) ELSE everStored[k]]
       /\ unsure' = [m \in Managers |-> unsure[m] \cup Unseen(c, m)]

applies(c) ==
    /\ flagCalls[c].pc \in {"set", "delete", "purge"}
    /\ changeStore(c)
    /\ flagCalls' = [flagCalls EXCEPT ![c].pc = "applied"]
    /\ UNCHANGED <<flagCaches, resolvers, flagsUsed>>

\* The answer of the store: the manager remembers the value, forgets it, or forgets everything.
returns(c) ==
    LET call == flagCalls[c]
    IN /\ call.pc = "applied"
       /\ Remember(call.manager, IF call.op = "purge" THEN Flags ELSE call.keys, call.value)
       /\ Rest(c)
       /\ UNCHANGED <<featureStore, resolvers, everStored, unsure, flagsUsed>>

\* The store rejects, before or after it has done what was asked: the cache stays as it is.
rejects(c) ==
    LET call == flagCalls[c]
    IN /\ call.pc \in {"get", "set", "delete", "purge", "applied"}
       /\ flagsUsed.faults < MaxFlagFaults
       /\ flagsUsed' = [flagsUsed EXCEPT !.faults = @ + 1]
       /\ unsure' = [unsure EXCEPT ![call.manager] = IF call.pc = "applied" THEN @ \cup call.keys ELSE @]
       /\ Rest(c)
       /\ UNCHANGED <<featureStore, flagCaches, resolvers, everStored>>

FeaturesNext ==
    \/ \E m \in Managers : flushCache(m) \/ \E f \in FeatureNames : define(m, f)
    \/ \E c \in FlagCallers, m \in Managers :
          purge(c, m) \/ \E k \in Flags : valueFor(c, m, k) \/ setFor(c, m, k) \/ forgetFor(c, m, k)
    \/ \E c \in FlagCallers : getStored(c) \/ found(c) \/ resolves(c) \/ resolverFails(c) \/ applies(c) \/ returns(c) \/ rejects(c)

FeaturesSpec == FeaturesInit /\ [][FeaturesNext]_featureVars

(***************************************************************************)
(* Properties                                                              *)
(***************************************************************************)

\* The types of the variables.
FeaturesTypeOK ==
    /\ featureStore \in [Flags -> FlagValues \cup {Unset}]
    /\ flagCaches \in [Managers -> [Flags -> FlagValues \cup {Unset}]]
    /\ resolvers \in [Managers -> [FeatureNames -> {"default", Undefined, Unset}]]
    /\ unsure \in [Managers -> SUBSET Flags]

\* What a manager remembers, and so answers, has been stored for that feature and scope; and it
\* is what the store holds, unless a change met another call of the key, another manager's
\* memory or a lost answer.  Such a doubt ends with flushCache() at rest.
FeaturesAreKept ==
    \A m \in Managers, k \in Flags :
       /\ flagCaches[m][k] # Unset => flagCaches[m][k] \in everStored[k]
       /\ (k \notin unsure[m] /\ ~\E c \in FlagCallers : Touches(c, m, k)) =>
             flagCaches[m][k] \in {Unset, featureStore[k]}
=============================================================================
