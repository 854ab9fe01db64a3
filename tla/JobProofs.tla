------------------------------ MODULE JobProofs ------------------------------
(***************************************************************************)
(* Proofs about the jobs side of the queue, for every value of the           *)
(* constants of its components.                                              *)
(***************************************************************************)
EXTENDS Features, WorkflowStart, WorkflowWake, WorkflowCoordinator, TLAPS

(***************************************************************************)
(* Features.  Between the moment a call of the store takes effect and the    *)
(* moment its manager hears of it, the call itself carries the value: so a   *)
(* key without doubts holds the stored value in the cache, or will when its  *)
(* applied call returns.                                                     *)
(***************************************************************************)
FlagCall == [pc : {"idle", "get", "got", "set", "delete", "purge", "applied"},
             op : {"none", "get", "set", "delete", "purge"}, manager : Managers \cup {"none"},
             keys : SUBSET Flags, value : FlagValues \cup {Unset}]

\* A call under way is a manager's; one that looks a value up is about one key; one that sets
\* has a value.
CallsAreFormed ==
    /\ flagCalls \in [FlagCallers -> FlagCall]
    /\ \A c \in FlagCallers :
          /\ Busy(c) => flagCalls[c].manager \in Managers
          /\ flagCalls[c].pc \in {"get", "got"} =>
                \A j, k \in flagCalls[c].keys : j = k
          /\ flagCalls[c].op = "purge" => flagCalls[c].value = Unset /\ flagCalls[c].pc \notin {"get", "got", "set"}

\* Whatever is stored, looked up, applied or remembered has been stored.
ValuesWereStored ==
    /\ everStored \in [Flags -> SUBSET FlagValues]
    /\ \A k \in Flags :
          /\ featureStore[k] # Unset => featureStore[k] \in everStored[k]
          /\ \A m \in Managers : flagCaches[m][k] # Unset => flagCaches[m][k] \in everStored[k]
          /\ \A c \in FlagCallers :
                flagCalls[c].pc \in {"got", "applied"} /\ k \in flagCalls[c].keys /\ flagCalls[c].value # Unset =>
                    flagCalls[c].value \in everStored[k]

\* A call that has read or changed the store carries the stored value, and the cache has it
\* before that, as long as there is no doubt about the key.
DoubtlessValuesAreCurrent ==
    \A m \in Managers, k \in Flags : k \notin unsure[m] =>
        /\ \A c \in FlagCallers :
              /\ flagCalls[c].pc \in {"got", "applied"} /\ flagCalls[c].manager = m /\ k \in flagCalls[c].keys
              => flagCalls[c].value = featureStore[k]
        /\ \/ \E c \in FlagCallers : flagCalls[c].pc = "applied" /\ Touches(c, m, k)
           \/ flagCaches[m][k] \in {Unset, featureStore[k]}

FeaturesInv ==
    /\ FeaturesTypeOK
    /\ CallsAreFormed
    /\ ValuesWereStored
    /\ DoubtlessValuesAreCurrent

\* A new call knows nothing of the store yet.
LEMMA BeginSteps ==
    ASSUME FeaturesInv, NEW c \in FlagCallers, NEW m \in Managers, NEW keys \in SUBSET Flags,
           NEW op \in {"get", "set", "delete", "purge"}, NEW value \in FlagValues \cup {Unset},
           op = "get" => \A j, k \in keys : j = k,
           op = "purge" => value = Unset,
           Begin(c, m, op, keys, value), UNCHANGED flagCaches
    PROVE  FeaturesInv'
<1> DEFINE call == [pc |-> op, op |-> op, manager |-> m, keys |-> keys, value |-> value]
<1>1. /\ flagCalls' = [flagCalls EXCEPT ![c] = call] /\ flagCalls[c].pc = "idle"
      /\ UNCHANGED <<featureStore, flagCaches, resolvers, everStored, unsure>>
  BY DEF Begin, Busy
<1>2. call \in FlagCall
  BY DEF FlagCall
<1>3. \A d \in FlagCallers : flagCalls'[d] = IF d = c THEN call ELSE flagCalls[d]
  BY <1>1 DEF FeaturesInv, CallsAreFormed
<1>4. FeaturesTypeOK'
  BY <1>1 DEF FeaturesInv, FeaturesTypeOK
<1>5. CallsAreFormed'
  BY <1>1, <1>2, <1>3 DEF FeaturesInv, CallsAreFormed, Busy
<1>6. ValuesWereStored'
  BY <1>1, <1>3 DEF FeaturesInv, ValuesWereStored
<1>7. DoubtlessValuesAreCurrent'
  BY <1>1, <1>3 DEF FeaturesInv, DoubtlessValuesAreCurrent, Touches, Busy
<1> QED  BY <1>4, <1>5, <1>6, <1>7 DEF FeaturesInv

\* A call that ends without an answer leaves what is remembered; if the store may have done
\* what was asked, its keys are in doubt.
LEMMA UnansweredSteps ==
    ASSUME FeaturesInv, NEW c \in FlagCallers, Busy(c), Rest(c),
           unsure' = [unsure EXCEPT ![flagCalls[c].manager] =
                         IF flagCalls[c].pc = "applied" THEN @ \cup flagCalls[c].keys ELSE @],
           UNCHANGED <<featureStore, flagCaches, resolvers, everStored>>
    PROVE  FeaturesInv'
<1> DEFINE m == flagCalls[c].manager
<1>1. /\ flagCalls \in [FlagCallers -> FlagCall] /\ flagCalls[c] \in FlagCall /\ m \in Managers
      /\ unsure \in [Managers -> SUBSET Flags]
  BY DEF FeaturesInv, FeaturesTypeOK, CallsAreFormed
<1>2. Resting \in FlagCall /\ Resting.pc = "idle" /\ Resting.op = "none"
  BY DEF Resting, FlagCall
<1>3. \A d \in FlagCallers : flagCalls'[d] = IF d = c THEN Resting ELSE flagCalls[d]
  BY <1>1 DEF Rest
<1>4. /\ unsure' \in [Managers -> SUBSET Flags]
      /\ \A n \in Managers : unsure[n] \subseteq unsure'[n]
      /\ flagCalls[c].pc = "applied" => flagCalls[c].keys \subseteq unsure'[m]
  BY <1>1 DEF FlagCall
<1>5. FeaturesTypeOK'
  BY <1>4 DEF FeaturesInv, FeaturesTypeOK
<1>6. CallsAreFormed'
  BY <1>1, <1>2, <1>3 DEF FeaturesInv, CallsAreFormed, Busy, Rest
<1>7. ValuesWereStored'
  BY <1>2, <1>3 DEF FeaturesInv, ValuesWereStored
<1>8. DoubtlessValuesAreCurrent'
  BY <1>2, <1>3, <1>4 DEF FeaturesInv, DoubtlessValuesAreCurrent, Touches, Busy
<1> QED  BY <1>5, <1>6, <1>7, <1>8 DEF FeaturesInv

\* The manager of an answered call remembers for its keys what the store holds, or nothing.
LEMMA AnsweredSteps ==
    ASSUME FeaturesInv, NEW c \in FlagCallers, flagCalls[c].pc \in {"got", "applied"}, Rest(c),
           NEW keys \in SUBSET Flags, flagCalls[c].keys \subseteq keys,
           keys # flagCalls[c].keys => flagCalls[c].value = Unset,
           Remember(flagCalls[c].manager, keys, flagCalls[c].value),
           UNCHANGED <<featureStore, resolvers, everStored, unsure>>
    PROVE  FeaturesInv'
<1> DEFINE m == flagCalls[c].manager
           value == flagCalls[c].value
<1>1. /\ flagCalls \in [FlagCallers -> FlagCall] /\ flagCalls[c] \in FlagCall /\ m \in Managers
      /\ value \in FlagValues \cup {Unset} /\ flagCalls[c].keys \in SUBSET Flags
  BY DEF FeaturesInv, CallsAreFormed, FlagCall, Busy
<1>2. Resting \in FlagCall /\ Resting.pc = "idle" /\ Resting.op = "none"
  BY DEF Resting, FlagCall
<1>3. \A d \in FlagCallers : flagCalls'[d] = IF d = c THEN Resting ELSE flagCalls[d]
  BY <1>1 DEF Rest
<1>4. flagCaches \in [Managers -> [Flags -> FlagValues \cup {Unset}]]
  BY DEF FeaturesInv, FeaturesTypeOK
<1>5. /\ flagCaches' \in [Managers -> [Flags -> FlagValues \cup {Unset}]]
      /\ \A n \in Managers, k \in Flags :
            flagCaches'[n][k] = IF n = m /\ k \in keys THEN value ELSE flagCaches[n][k]
  BY <1>1, <1>4 DEF Remember
<1> HIDE DEF m, value
<1>6. FeaturesTypeOK'
  BY <1>5 DEF FeaturesInv, FeaturesTypeOK
<1>7. CallsAreFormed'
  BY <1>1, <1>2, <1>3 DEF FeaturesInv, CallsAreFormed, Busy, Rest
<1>8. \A k \in keys : value # Unset => value \in everStored[k]
  BY <1>1 DEF FeaturesInv, ValuesWereStored, value
<1>9. ValuesWereStored'
  BY <1>2, <1>3, <1>5, <1>8 DEF FeaturesInv, ValuesWereStored
<1>10. \A k \in keys : k \notin unsure[m] => value \in {Unset, featureStore[k]}
  BY <1>1 DEF FeaturesInv, DoubtlessValuesAreCurrent, value, m
<1>11. DoubtlessValuesAreCurrent'
  <2> SUFFICES ASSUME NEW n \in Managers, NEW k \in Flags, k \notin unsure[n]
               PROVE  /\ \A d \in FlagCallers :
                            flagCalls'[d].pc \in {"got", "applied"} /\ flagCalls'[d].manager = n /\ k \in flagCalls'[d].keys
                            => flagCalls'[d].value = featureStore[k]
                      /\ \/ \E d \in FlagCallers : flagCalls'[d].pc = "applied" /\ Touches(d, n, k)'
                         \/ flagCaches'[n][k] \in {Unset, featureStore[k]}
    BY DEF DoubtlessValuesAreCurrent
  <2>1. \A d \in FlagCallers :
            flagCalls'[d].pc \in {"got", "applied"} /\ flagCalls'[d].manager = n /\ k \in flagCalls'[d].keys
            => flagCalls'[d].value = featureStore[k]
    BY <1>2, <1>3 DEF FeaturesInv, DoubtlessValuesAreCurrent
  <2>2. CASE n = m /\ k \in keys
    BY <1>5, <1>10, <2>1, <2>2
  <2>3. CASE ~(n = m /\ k \in keys)
    <3>1. ~(Touches(c, n, k))
      BY <2>3 DEF Touches, m
    <3>2. \A d \in FlagCallers : d # c => (Touches(d, n, k)' <=> Touches(d, n, k))
      BY <1>3 DEF Touches, Busy
    <3>3. \/ \E d \in FlagCallers : flagCalls[d].pc = "applied" /\ Touches(d, n, k)
          \/ flagCaches[n][k] \in {Unset, featureStore[k]}
      BY DEF FeaturesInv, DoubtlessValuesAreCurrent
    <3> QED  BY <1>3, <1>5, <2>1, <2>3, <3>1, <3>2, <3>3
  <2> QED  BY <2>2, <2>3
<1> QED  BY <1>6, <1>7, <1>9, <1>11 DEF FeaturesInv

\* A call that goes on without touching the store: it has read it, or has a value to set.
LEMMA ProgressSteps ==
    ASSUME FeaturesInv, NEW c \in FlagCallers, NEW pc, NEW value \in FlagValues \cup {Unset},
           \/ flagCalls[c].pc = "get" /\ pc = "got" /\ \A k \in flagCalls[c].keys : value = featureStore[k]
           \/ flagCalls[c].pc = "got" /\ pc = "set",
           flagCalls' = [flagCalls EXCEPT ![c].pc = pc, ![c].value = value],
           UNCHANGED <<featureStore, flagCaches, resolvers, everStored, unsure>>
    PROVE  FeaturesInv'
<1>1. flagCalls \in [FlagCallers -> FlagCall] /\ flagCalls[c] \in FlagCall
  BY DEF FeaturesInv, CallsAreFormed
<1> DEFINE call == [flagCalls[c] EXCEPT !.pc = pc, !.value = value]
<1>2. /\ call \in FlagCall /\ call.pc = pc /\ call.value = value
      /\ call.keys = flagCalls[c].keys /\ call.manager = flagCalls[c].manager /\ call.op = flagCalls[c].op
  BY <1>1 DEF FlagCall
<1>3. \A d \in FlagCallers : flagCalls'[d] = IF d = c THEN call ELSE flagCalls[d]
  BY <1>1
<1>4. flagCalls' \in [FlagCallers -> FlagCall]
  BY <1>1, <1>2
<1> HIDE DEF call
<1>5. FeaturesTypeOK'
  BY DEF FeaturesInv, FeaturesTypeOK
<1>6. CallsAreFormed'
  BY <1>2, <1>3, <1>4 DEF FeaturesInv, CallsAreFormed, Busy
<1>7. ValuesWereStored'
  BY <1>2, <1>3 DEF FeaturesInv, ValuesWereStored
<1>8. DoubtlessValuesAreCurrent'
  <2> SUFFICES ASSUME NEW m \in Managers, NEW k \in Flags, k \notin unsure[m]
               PROVE  /\ \A d \in FlagCallers :
                            flagCalls'[d].pc \in {"got", "applied"} /\ flagCalls'[d].manager = m /\ k \in flagCalls'[d].keys
                            => flagCalls'[d].value = featureStore'[k]
                      /\ \/ \E d \in FlagCallers : flagCalls'[d].pc = "applied" /\ Touches(d, m, k)'
                         \/ flagCaches'[m][k] \in {Unset, featureStore'[k]}
    BY DEF DoubtlessValuesAreCurrent
  <2>1. \A d \in FlagCallers : flagCalls[d].pc = "applied" => d # c /\ flagCalls'[d] = flagCalls[d]
    BY <1>3
  <2>2. \A d \in FlagCallers : flagCalls[d].pc = "applied" /\ Touches(d, m, k) => Touches(d, m, k)'
    BY <2>1 DEF Touches, Busy
  <2>3. call.pc = "got" => \A j \in call.keys : call.value = featureStore[j]
    BY <1>2
  <2>4. call.pc # "applied"
    BY <1>2
  <2>5. \A d \in FlagCallers :
            flagCalls'[d].pc \in {"got", "applied"} /\ flagCalls'[d].manager = m /\ k \in flagCalls'[d].keys
            => flagCalls'[d].value = featureStore[k]
    <3> SUFFICES ASSUME NEW d \in FlagCallers, flagCalls'[d].pc \in {"got", "applied"},
                        flagCalls'[d].manager = m, k \in flagCalls'[d].keys
                 PROVE  flagCalls'[d].value = featureStore[k]
      OBVIOUS
    <3>1. CASE d = c
      BY <1>3, <2>3, <2>4, <3>1
    <3>2. CASE d # c
      <4>1. flagCalls'[d] = flagCalls[d]
        BY <1>3, <3>2
      <4>2. flagCalls[d].pc \in {"got", "applied"} /\ flagCalls[d].manager = m /\ k \in flagCalls[d].keys
        BY <4>1
      <4>3. flagCalls[d].value = featureStore[k]
        BY <4>2 DEF FeaturesInv, DoubtlessValuesAreCurrent
      <4> QED  BY <4>1, <4>3
    <3> QED  BY <3>1, <3>2
  <2> QED  BY <2>1, <2>2, <2>5 DEF FeaturesInv, DoubtlessValuesAreCurrent
<1> QED  BY <1>5, <1>6, <1>7, <1>8 DEF FeaturesInv

\* A change of the store puts into doubt every key that somebody else reads, changes or remembers.
LEMMA ChangeSteps ==
    ASSUME FeaturesInv, NEW c \in FlagCallers, applies(c)
    PROVE  FeaturesInv'
<1> DEFINE call == flagCalls[c]
<1>1. flagCalls \in [FlagCallers -> FlagCall] /\ call \in FlagCall /\ Busy(c) /\ call.manager \in Managers
  BY DEF FeaturesInv, CallsAreFormed, applies, Busy
<1>2. call.value \in FlagValues \cup {Unset} /\ call.keys \subseteq Flags
  BY <1>1 DEF FlagCall
<1>3. \A d \in FlagCallers :
         /\ flagCalls'[d].keys = flagCalls[d].keys /\ flagCalls'[d].value = flagCalls[d].value
         /\ flagCalls'[d].manager = flagCalls[d].manager /\ flagCalls'[d].op = flagCalls[d].op
         /\ flagCalls'[d].pc = IF d = c THEN "applied" ELSE flagCalls[d].pc
  BY <1>1 DEF applies, FlagCall
<1>4. /\ \A k \in Flags : featureStore'[k] = IF k \in call.keys THEN call.value ELSE featureStore[k]
      /\ \A k \in Flags : everStored'[k] = IF k \in call.keys THEN everStored[k] \cup ({call.value} \ {Unset}) ELSE everStored[k]
      /\ \A m \in Managers : unsure'[m] = unsure[m] \cup Unseen(c, m)
      /\ flagCaches' = flagCaches /\ resolvers' = resolvers
  BY DEF applies, changeStore
<1>5. featureStore' \in [Flags -> FlagValues \cup {Unset}] /\ everStored' \in [Flags -> SUBSET FlagValues]
  BY <1>2 DEF FeaturesInv, FeaturesTypeOK, ValuesWereStored, applies, changeStore
<1>6. unsure' \in [Managers -> SUBSET Flags]
  BY <1>2 DEF FeaturesInv, FeaturesTypeOK, applies, changeStore, Unseen
<1>7. FeaturesTypeOK'
  BY <1>4, <1>5, <1>6 DEF FeaturesInv, FeaturesTypeOK
<1>8. CallsAreFormed'
  <2>1. flagCalls' \in [FlagCallers -> FlagCall]
    BY <1>1 DEF applies, FlagCall
  <2> QED  BY <1>1, <1>3, <2>1 DEF FeaturesInv, CallsAreFormed, Busy
<1>9. ValuesWereStored'
  BY <1>3, <1>4, <1>5 DEF FeaturesInv, ValuesWereStored
<1>10. DoubtlessValuesAreCurrent'
  <2> SUFFICES ASSUME NEW m \in Managers, NEW k \in Flags, k \notin unsure'[m]
               PROVE  /\ \A d \in FlagCallers :
                            flagCalls'[d].pc \in {"got", "applied"} /\ flagCalls'[d].manager = m /\ k \in flagCalls'[d].keys
                            => flagCalls'[d].value = featureStore'[k]
                      /\ \/ \E d \in FlagCallers : flagCalls'[d].pc = "applied" /\ Touches(d, m, k)'
                         \/ flagCaches'[m][k] \in {Unset, featureStore'[k]}
    BY DEF DoubtlessValuesAreCurrent
  <2>1. k \notin unsure[m] /\ k \notin Unseen(c, m)
    BY <1>4
  <2>2. CASE k \notin call.keys
    <3>1. \A d \in FlagCallers : Touches(d, m, k)' <=> Touches(d, m, k)
      BY <1>1, <1>3 DEF Touches, Busy
    <3>2. \A d \in FlagCallers : k \in flagCalls[d].keys => d # c
      BY <2>2
    <3> QED  BY <1>3, <1>4, <2>1, <2>2, <3>1, <3>2 DEF FeaturesInv, DoubtlessValuesAreCurrent
  <2>3. CASE k \in call.keys
    <3>1. \A d \in FlagCallers \ {c} : ~Touches(d, m, k)
      BY <2>1, <2>3 DEF Unseen
    <3>2. m = call.manager \/ flagCaches[m][k] = Unset
      BY <2>1, <2>3 DEF Unseen
    <3>3. \A d \in FlagCallers :
             flagCalls'[d].pc \in {"got", "applied"} /\ flagCalls'[d].manager = m /\ k \in flagCalls'[d].keys => d = c
      BY <1>3, <3>1 DEF Touches, Busy
    <3>4. m = call.manager => flagCalls'[c].pc = "applied" /\ Touches(c, m, k)'
      BY <1>3, <2>3 DEF Touches, Busy
    <3> QED  BY <1>3, <1>4, <2>3, <3>2, <3>3, <3>4
  <2> QED  BY <2>2, <2>3
<1> QED  BY <1>7, <1>8, <1>9, <1>10 DEF FeaturesInv

\* Every call of the managers and of the store keeps the invariant.
LEMMA FeatureSteps ==
    ASSUME FeaturesInv, FeaturesNext
    PROVE  FeaturesInv'
<1>0. /\ flagCalls \in [FlagCallers -> FlagCall] /\ featureStore \in [Flags -> FlagValues \cup {Unset}]
      /\ \A c \in FlagCallers : flagCalls[c].keys \subseteq Flags
      /\ \A c \in FlagCallers : Busy(c) => flagCalls[c].manager \in Managers
      /\ flagCaches \in [Managers -> [Flags -> FlagValues \cup {Unset}]]
      /\ unsure \in [Managers -> SUBSET Flags]
      /\ resolvers \in [Managers -> [FeatureNames -> {"default", Undefined, Unset}]]
  BY DEF FeaturesInv, FeaturesTypeOK, CallsAreFormed, FlagCall
<1>1. ASSUME NEW m \in Managers, flushCache(m)
      PROVE  FeaturesInv'
  <2>1. /\ flagCaches' \in [Managers -> [Flags -> FlagValues \cup {Unset}]]
        /\ \A n \in Managers, k \in Flags : flagCaches'[n][k] = IF n = m THEN Unset ELSE flagCaches[n][k]
    BY <1>0, <1>1 DEF flushCache, Remember
  <2>2. /\ unsure' \in [Managers -> SUBSET Flags]
        /\ \A n \in Managers : n # m => unsure'[n] = unsure[n]
        /\ unsure'[m] = unsure[m] \/ \A c \in FlagCallers : ~(Busy(c) /\ flagCalls[c].manager = m)
    BY <1>0, <1>1 DEF flushCache
  <2>3. UNCHANGED <<featureStore, resolvers, flagCalls, everStored>>
    BY <1>1 DEF flushCache
  <2>4. FeaturesTypeOK' /\ CallsAreFormed'
    BY <2>1, <2>2, <2>3 DEF FeaturesInv, FeaturesTypeOK, CallsAreFormed, Busy
  <2>5. ValuesWereStored'
    BY <2>1, <2>3 DEF FeaturesInv, ValuesWereStored
  <2>6. DoubtlessValuesAreCurrent'
    BY <2>1, <2>2, <2>3 DEF FeaturesInv, DoubtlessValuesAreCurrent, Touches, Busy
  <2> QED  BY <2>4, <2>5, <2>6 DEF FeaturesInv
<1>2. ASSUME NEW m \in Managers, NEW f \in FeatureNames, define(m, f)
      PROVE  FeaturesInv'
  <2>1. resolvers' \in [Managers -> [FeatureNames -> {"default", Undefined, Unset}]]
    BY <1>0, <1>2 DEF define
  <2>2. UNCHANGED <<featureStore, flagCaches, flagCalls, everStored, unsure>>
    BY <1>2 DEF define
  <2> QED  BY <2>1, <2>2 DEF FeaturesInv, FeaturesTypeOK, CallsAreFormed, ValuesWereStored,
                             DoubtlessValuesAreCurrent, Touches, Busy
<1>3. ASSUME NEW c \in FlagCallers, NEW m \in Managers, NEW k \in Flags,
             valueFor(c, m, k) \/ setFor(c, m, k) \/ forgetFor(c, m, k)
      PROVE  FeaturesInv'
  <2>1. \E op \in {"get", "set", "delete"}, value \in FlagValues \cup {Unset} :
           Begin(c, m, op, {k}, value) /\ UNCHANGED flagCaches
    BY <1>3 DEF valueFor, setFor, forgetFor, FlagValues
  <2> QED  BY <2>1, BeginSteps
<1>4. ASSUME NEW c \in FlagCallers, NEW m \in Managers, purge(c, m)
      PROVE  FeaturesInv'
  <2>1. \E keys \in SUBSET Flags : Begin(c, m, "purge", keys, Unset) /\ UNCHANGED flagCaches
    BY <1>4 DEF purge
  <2> QED  BY <2>1, BeginSteps
<1>5. ASSUME NEW c \in FlagCallers, getStored(c)
      PROVE  FeaturesInv'
  <2>1. PICK k \in flagCalls[c].keys : flagCalls' = [flagCalls EXCEPT ![c].pc = "got", ![c].value = featureStore[k]]
    BY <1>5 DEF getStored
  <2>2. /\ flagCalls[c].pc = "get" /\ featureStore[k] \in FlagValues \cup {Unset}
        /\ UNCHANGED <<featureStore, flagCaches, resolvers, everStored, unsure>>
    BY <1>0, <1>5 DEF getStored
  <2>3. \A j \in flagCalls[c].keys : featureStore[k] = featureStore[j]
    BY <2>2 DEF FeaturesInv, CallsAreFormed
  <2> QED  BY <2>1, <2>2, <2>3, ProgressSteps
<1>6. ASSUME NEW c \in FlagCallers, found(c)
      PROVE  FeaturesInv'
  BY <1>0, <1>6, AnsweredSteps DEF found
<1>7. ASSUME NEW c \in FlagCallers, Busy(c), flagCalls[c].pc # "applied", Rest(c),
             UNCHANGED <<featureStore, flagCaches, resolvers, everStored, unsure>>
      PROVE  FeaturesInv'
  <2>1. unsure' = [unsure EXCEPT ![flagCalls[c].manager] =
                      IF flagCalls[c].pc = "applied" THEN @ \cup flagCalls[c].keys ELSE @]
    BY <1>0, <1>7
  <2> QED  BY <1>7, <2>1, UnansweredSteps
<1>8. ASSUME NEW c \in FlagCallers, resolves(c)
      PROVE  FeaturesInv'
  <2>1. /\ flagCalls[c].pc = "got" /\ Busy(c)
        /\ UNCHANGED <<featureStore, flagCaches, resolvers, everStored, unsure>>
    BY <1>8 DEF resolves, Busy
  <2>2. \/ Rest(c)
        \/ \E value \in FlagValues : flagCalls' = [flagCalls EXCEPT ![c].pc = "set", ![c].value = value]
    <3>1. PICK k \in flagCalls[c].keys :
             LET value == resolvers[flagCalls[c].manager][k[1]]
             IN IF value \in {Unset, Undefined} THEN Rest(c)
                ELSE flagCalls' = [flagCalls EXCEPT ![c].pc = "set", ![c].value = value]
      BY <1>8 DEF resolves
    <3>2. k[1] \in FeatureNames
      BY <1>0 DEF Flags
    <3>3. resolvers[flagCalls[c].manager][k[1]] \in {"default", Undefined, Unset}
      BY <1>0, <2>1, <3>2
    <3> QED  BY <3>1, <3>3 DEF FlagValues
  <2> QED  BY <1>7, <2>1, <2>2, ProgressSteps
<1>9. ASSUME NEW c \in FlagCallers, resolverFails(c)
      PROVE  FeaturesInv'
  BY <1>7, <1>9 DEF resolverFails, Busy
<1>10. ASSUME NEW c \in FlagCallers, returns(c)
       PROVE  FeaturesInv'
  <2> DEFINE keys == IF flagCalls[c].op = "purge" THEN Flags ELSE flagCalls[c].keys
  <2>1. flagCalls[c].keys \subseteq keys /\ keys \in SUBSET Flags
    BY <1>0
  <2>2. flagCalls[c].op = "purge" => flagCalls[c].value = Unset
    BY DEF FeaturesInv, CallsAreFormed
  <2> QED  BY <1>10, <2>1, <2>2, AnsweredSteps DEF returns
<1>11. ASSUME NEW c \in FlagCallers, rejects(c)
       PROVE  FeaturesInv'
  BY <1>11, UnansweredSteps DEF rejects, Busy
<1> QED  BY <1>1, <1>2, <1>3, <1>4, <1>5, <1>6, <1>8, <1>9, <1>10, <1>11, ChangeSteps DEF FeaturesNext

\* FeatureManager and ScopedFeatures over a shared store, with any number of managers and calls
\* in flight: a remembered flag has been stored for its feature and scope and, where no change
\* met another call, memory or lost answer, it is the stored one.
THEOREM FeaturesAreAlwaysKept == FeaturesSpec => [](FeaturesTypeOK /\ FeaturesAreKept)
<1>1. FeaturesInit => FeaturesInv
  <2> SUFFICES ASSUME FeaturesInit
               PROVE  FeaturesInv
    OBVIOUS
  <2>1. Resting \in FlagCall /\ Resting.pc = "idle" /\ Resting.op = "none"
    BY DEF Resting, FlagCall
  <2>2. FeaturesTypeOK
    BY DEF FeaturesInit, FeaturesTypeOK
  <2>3. CallsAreFormed
    BY <2>1 DEF FeaturesInit, CallsAreFormed, Busy, Resting
  <2>4. ValuesWereStored
    BY <2>1 DEF FeaturesInit, ValuesWereStored
  <2>5. DoubtlessValuesAreCurrent
    BY <2>1 DEF FeaturesInit, DoubtlessValuesAreCurrent
  <2> QED  BY <2>2, <2>3, <2>4, <2>5 DEF FeaturesInv
<1>2. FeaturesInv /\ [FeaturesNext]_featureVars => FeaturesInv'
  <2>1. ASSUME FeaturesInv, UNCHANGED featureVars
        PROVE  FeaturesInv'
    BY <2>1 DEF featureVars, FeaturesInv, FeaturesTypeOK, CallsAreFormed, ValuesWereStored,
                DoubtlessValuesAreCurrent, Touches, Busy
  <2> QED  BY <2>1, FeatureSteps
<1>3. FeaturesInv => FeaturesTypeOK /\ FeaturesAreKept
  BY DEF FeaturesInv, FeaturesAreKept, ValuesWereStored, DoubtlessValuesAreCurrent
<1> QED  BY <1>1, <1>2, <1>3, PTL DEF FeaturesSpec

(***************************************************************************)
(* WorkflowStart.  Rows are inserted where neither id nor key is taken, and  *)
(* afterwards only their attempts grow, until the process of a memory store   *)
(* dies with all its calls: so what a call once found in the store stays.    *)
(***************************************************************************)
Definitions == UNION {{batch[i] : i \in DOMAIN batch} : batch \in DefinitionBatches}

StartRow == [id : WorkflowIds, identity : {request.identity : request \in StartRequests},
        startKey : {request.startKey : request \in StartRequests},
        input : {request.input : request \in StartRequests},
        shape : {d.shape : d \in Definitions}, attempts : Nat]

StartCall == [pc : {"idle", "create", "select", "receipt"}, process : Processes \cup {"none"},
              request : StartRequests \cup {NoRequest}, definition : Definitions \cup {NoDefinition},
              requested : StartRow \cup {NoRow}, persisted : StartRow \cup {NoRow}, created : BOOLEAN,
              answer : {"none", "invalid", "conflict", "contract error", "identity conflict", "started", "unknown"}]

StartsAreTyped ==
    /\ startStore \in StartStores
    /\ registries \in [Processes -> SUBSET Definitions]
    /\ workflows \in [Homes -> SUBSET StartRow]
    /\ starts \in [StartCallers -> StartCall]
    /\ started \in 0..MaxStarts

\* The row as it was or after further attempts.
Continues(later, rec) ==
    /\ later.id = rec.id /\ SameStart(later, rec) /\ later.input = rec.input /\ later.shape = rec.shape
    /\ later.attempts >= rec.attempts

\* What has been asked of the store is the snapshot of a registered definition.
AskedFor(call) ==
    /\ call.process \in Processes /\ call.requested \in StartRow /\ call.definition \in Definitions
    /\ call.requested.identity = call.definition.identity
    /\ call.requested.shape = call.definition.shape /\ call.requested.attempts = 0

\* A receipt is the row just inserted, or an earlier one with the key and the input asked for.
Received(call) ==
    /\ call.persisted \in StartRow
    /\ SameStart(call.persisted, call.requested) /\ call.persisted.input = call.requested.input
    /\ call.created => call.persisted = call.requested

\* What a call relies on, among the rows of its store.
GroundedIn(call, rows, store) ==
    /\ call.process \in Processes \/ (call.pc = "idle" /\ call.answer \in {"none", "invalid", "unknown"})
    /\ call.pc # "idle" => AskedFor(call) /\ call.answer = "none"
    /\ call.pc = "select" =>
          store = "drizzle" /\ \E rec \in rows : Collides(rec, call.requested)
    /\ call.pc = "receipt" => Received(call) /\ \E rec \in rows : Continues(rec, call.persisted)
    /\ call.answer = "started" =>
          \E rec \in rows : /\ rec.id = call.persisted.id
                            /\ SameStart(rec, call.requested) /\ rec.input = call.requested.input
                            /\ rec.shape = call.definition.shape
    /\ call.answer # "contract error"
    /\ call.answer = "conflict" =>
          \E rec \in rows : \/ SameStart(rec, call.requested) /\ rec.input # call.requested.input
                            \/ rec.id = call.requested.id /\ ~SameStart(rec, call.requested)
    /\ call.answer = "identity conflict" =>
          /\ call.definition.maxAttempts \in Nat
          /\ \E rec \in rows : /\ ~call.created /\ SameStart(rec, call.requested)
                               /\ ~MatchesDefinition(rec, call.definition)

Grounded(c) == GroundedIn(starts[c], workflows[HomeOf(starts[c].process)], startStore)
CallsAreGrounded == \A c \in StartCallers : Grounded(c)

StartInv ==
    /\ StartsAreTyped
    /\ RowsAreOne
    /\ RegistriesAreWhole
    /\ CallsAreGrounded

LEMMA AtMost == \A x, y, z \in Nat : x >= y /\ x <= z => y <= z
  OBVIOUS

\* A call that waits does not lose its ground when the rows of its store go on.
LEMMA GroundStays ==
    ASSUME NEW call, NEW rows \in SUBSET StartRow, NEW later \in SUBSET StartRow, NEW store, GroundedIn(call, rows, store),
           \A rec \in rows : \E l \in later : Continues(l, rec)
    PROVE  GroundedIn(call, later, store)
<1>1. \A rec \in rows \cup later : rec.attempts \in Nat
  BY DEF StartRow
<1>2. \A r : \A rec \in rows : Collides(rec, r) => \E l \in later : Collides(l, r)
  BY DEF Continues, Collides, SameStart
<1>3. call.pc = "receipt" => \E l \in later : Continues(l, call.persisted)
  <2> SUFFICES ASSUME call.pc = "receipt"
               PROVE  \E l \in later : Continues(l, call.persisted)
    OBVIOUS
  <2>1. PICK rec \in rows : Continues(rec, call.persisted)
    BY DEF GroundedIn
  <2>2. PICK l \in later : Continues(l, rec)
    OBVIOUS
  <2>3. call.persisted.attempts \in Nat
    BY DEF GroundedIn, Received, StartRow
  <2> QED  BY <1>1, <2>1, <2>2, <2>3 DEF Continues, SameStart
<1>4. call.answer = "started" =>
        \E rec \in later : /\ rec.id = call.persisted.id
                           /\ SameStart(rec, call.requested) /\ rec.input = call.requested.input
                           /\ rec.shape = call.definition.shape
  BY DEF GroundedIn, Continues, SameStart
<1>5. call.answer = "conflict" =>
        \E rec \in later : \/ SameStart(rec, call.requested) /\ rec.input # call.requested.input
                           \/ rec.id = call.requested.id /\ ~SameStart(rec, call.requested)
  BY DEF GroundedIn, Continues, SameStart
<1>6. call.answer = "identity conflict" =>
        \E rec \in later : /\ ~call.created /\ SameStart(rec, call.requested)
                           /\ ~MatchesDefinition(rec, call.definition)
  <2> SUFFICES ASSUME call.answer = "identity conflict"
               PROVE  \E rec \in later : /\ ~call.created /\ SameStart(rec, call.requested)
                                         /\ ~MatchesDefinition(rec, call.definition)
    OBVIOUS
  <2>1. PICK rec \in rows : /\ ~call.created /\ SameStart(rec, call.requested)
                            /\ ~MatchesDefinition(rec, call.definition)
    BY DEF GroundedIn
  <2>2. PICK l \in later : Continues(l, rec)
    OBVIOUS
  <2>3. call.definition.maxAttempts \in Nat
    BY DEF GroundedIn
  <2>4. l.attempts <= call.definition.maxAttempts => rec.attempts <= call.definition.maxAttempts
    <3>2. l.attempts \in Nat /\ rec.attempts \in Nat /\ l.attempts >= rec.attempts
      BY <1>1, <2>2 DEF Continues
    <3> QED  BY <2>3, <3>2, AtMost
  <2>5. ~MatchesDefinition(l, call.definition)
    BY <2>1, <2>2, <2>4 DEF Continues, SameStart, MatchesDefinition
  <2> QED  BY <2>1, <2>2, <2>5 DEF Continues, SameStart
<1> QED  BY <1>2, <1>3, <1>4, <1>5, <1>6 DEF GroundedIn

\* A call that does nothing keeps its ground, in a store whose rows go on.
LEMMA WaitingSteps ==
    ASSUME StartInv, NEW c \in StartCallers, starts'[c] = starts[c], startStore' = startStore,
           workflows' \in [Homes -> SUBSET StartRow],
           starts[c].process \in Processes =>
              LET h == HomeOf(starts[c].process)
              IN  \A rec \in workflows[h] : \E l \in workflows'[h] : Continues(l, rec)
    PROVE  Grounded(c)'
<1> DEFINE h == HomeOf(starts[c].process)
<1>1. GroundedIn(starts[c], workflows'[h], startStore) => Grounded(c)'
  BY DEF HomeOf, Grounded
<1>2. GroundedIn(starts[c], workflows[h], startStore)
  BY DEF StartInv, CallsAreGrounded, Grounded
<1>3. CASE starts[c].process \in Processes
  <2>1. h \in Homes
    BY <1>3 DEF HomeOf, Homes
  <2>2. workflows[h] \in SUBSET StartRow /\ workflows'[h] \in SUBSET StartRow
    BY <2>1 DEF StartInv, StartsAreTyped
  <2> HIDE DEF h
  <2>3. \A rec \in workflows[h] : \E l \in workflows'[h] : Continues(l, rec)
    BY <1>3 DEF h
  <2>4. GroundedIn(starts[c], workflows'[h], startStore)
    BY <1>2, <2>2, <2>3, GroundStays
  <2> QED  BY <1>1, <2>4
<1>4. CASE starts[c].process \notin Processes
  BY <1>1, <1>2, <1>4 DEF GroundedIn, AskedFor
<1> QED  BY <1>3, <1>4

\* Every row continues itself.
LEMMA RowsContinue == \A rec \in StartRow : Continues(rec, rec)
  BY DEF Continues, SameStart, StartRow

\* A registry admits a batch as a whole or not at all (WorkflowRegistry.register).
LEMMA RegistrationSteps ==
    ASSUME StartInv, NEW p \in Processes, registerWorkflows(p)
    PROVE  StartInv'
<1>1. PICK batch \in DefinitionBatches :
         registries' = [registries EXCEPT ![p] = @ \cup AdmittedDefinitions(@, batch)]
  BY DEF registerWorkflows
<1>2. UNCHANGED <<startStore, workflows, starts, started>>
  BY DEF registerWorkflows
<1>3. registries \in [Processes -> SUBSET Definitions]
  BY DEF StartInv, StartsAreTyped
<1>4. AdmittedDefinitions(registries[p], batch) \subseteq Definitions
  BY DEF AdmittedDefinitions, Definitions
<1>5. /\ registries' \in [Processes -> SUBSET Definitions]
      /\ registries'[p] = registries[p] \cup AdmittedDefinitions(registries[p], batch)
      /\ \A q \in Processes \ {p} : registries'[q] = registries[q]
  BY <1>1, <1>3, <1>4
<1>6. StartsAreTyped'
  BY <1>2, <1>5 DEF StartInv, StartsAreTyped
<1>7. \A d, e \in registries[p] \cup AdmittedDefinitions(registries[p], batch) :
         d.identity = e.identity => d = e
  BY DEF StartInv, RegistriesAreWhole, AdmittedDefinitions
<1>8. \A d \in AdmittedDefinitions(registries[p], batch) :
         /\ \E i \in DOMAIN batch : batch[i] = d
         /\ \A i \in DOMAIN batch : batch[i] \in AdmittedDefinitions(registries[p], batch)
  BY DEF AdmittedDefinitions
<1>9. RegistriesAreWhole'
  <2> SUFFICES ASSUME NEW q \in Processes
               PROVE  /\ \A d, e \in registries'[q] : d.identity = e.identity => d = e
                      /\ \A d \in registries'[q] : \E b \in DefinitionBatches :
                            /\ \E i \in DOMAIN b : b[i] = d
                            /\ \A i \in DOMAIN b : b[i] \in registries'[q]
    BY DEF RegistriesAreWhole
  <2>1. CASE q # p
    BY <1>5, <2>1 DEF StartInv, RegistriesAreWhole
  <2>2. CASE q = p
    <3>1. ASSUME NEW d \in registries[p]
          PROVE  \E b \in DefinitionBatches :
                    /\ \E i \in DOMAIN b : b[i] = d
                    /\ \A i \in DOMAIN b : b[i] \in registries[p]
      BY DEF StartInv, RegistriesAreWhole
    <3>2. ASSUME NEW d \in AdmittedDefinitions(registries[p], batch)
          PROVE  /\ \E i \in DOMAIN batch : batch[i] = d
                 /\ \A i \in DOMAIN batch : batch[i] \in registries'[p]
      BY <1>5, <1>8
    <3> QED  BY <1>5, <1>7, <2>2, <3>1, <3>2
  <2> QED  BY <2>1, <2>2
<1>10. RowsAreOne' /\ CallsAreGrounded'
  BY <1>2 DEF StartInv, RowsAreOne, CallsAreGrounded, Grounded, HomeOf
<1> QED  BY <1>6, <1>9, <1>10 DEF StartInv

\* A start whose reference resolves asks for the snapshot of a registered definition.
LEMMA AskingSteps ==
    ASSUME StartInv, NEW c \in StartCallers, startWorkflow(c)
    PROVE  StartInv'
<1>1. starts \in [StartCallers -> StartCall] /\ UNCHANGED <<startStore, registries, workflows>>
  BY DEF StartInv, StartsAreTyped, startWorkflow
<1>2. started' \in 0..MaxStarts
  <2>1. started \in 0..MaxStarts /\ started < MaxStarts /\ started' = started + 1
    BY DEF StartInv, StartsAreTyped, startWorkflow
  <2> QED  BY <2>1, StartAssumption
<1>3. PICK p \in Processes, request \in StartRequests :
         LET call == [NotStarting EXCEPT !.process = p, !.request = request]
         IN \/ starts' = [starts EXCEPT ![c] = [NotStarting EXCEPT !.answer = "invalid"]]
            \/ \E id \in WorkflowIds, definition \in resolveExact(p, request) :
                  starts' = [starts EXCEPT ![c] = [call EXCEPT !.pc = "create", !.definition = definition,
                                                               !.requested = snapshotOf(id, request, definition)]]
  BY DEF startWorkflow
<1>4. ASSUME NEW call \in StartCall, starts' = [starts EXCEPT ![c] = call],
             \A rows : GroundedIn(call, rows, startStore)
      PROVE  StartInv'
  <2>1. StartsAreTyped'
    BY <1>1, <1>2, <1>4 DEF StartInv, StartsAreTyped
  <2>2. RowsAreOne' /\ RegistriesAreWhole'
    BY <1>1 DEF StartInv, RowsAreOne, RegistriesAreWhole
  <2>3. CallsAreGrounded'
    <3> SUFFICES ASSUME NEW d \in StartCallers
                 PROVE  Grounded(d)'
      BY DEF CallsAreGrounded
    <3>1. CASE d = c
      BY <1>1, <1>4, <3>1 DEF Grounded
    <3>2. CASE d # c
      <4>1. starts'[d] = starts[d]
        BY <1>1, <1>4, <3>2
      <4> QED  BY <1>1, <4>1 DEF StartInv, CallsAreGrounded, Grounded, HomeOf
    <3> QED  BY <3>1, <3>2
  <2> QED  BY <2>1, <2>2, <2>3 DEF StartInv
<1>5. CASE starts' = [starts EXCEPT ![c] = [NotStarting EXCEPT !.answer = "invalid"]]
  <2> DEFINE call == [NotStarting EXCEPT !.answer = "invalid"]
  <2>1. call \in StartCall
    BY DEF NotStarting, StartCall
  <2>2. \A rows : GroundedIn(call, rows, startStore)
    BY DEF NotStarting, GroundedIn
  <2> QED  BY <1>4, <1>5, <2>1, <2>2
<1>6. ASSUME NEW id \in WorkflowIds, NEW definition \in resolveExact(p, request),
             starts' = [starts EXCEPT ![c] =
                [[NotStarting EXCEPT !.process = p, !.request = request]
                    EXCEPT !.pc = "create", !.definition = definition,
                           !.requested = snapshotOf(id, request, definition)]]
      PROVE  StartInv'
  <2> DEFINE rec == snapshotOf(id, request, definition)
             call == [[NotStarting EXCEPT !.process = p, !.request = request]
                         EXCEPT !.pc = "create", !.definition = definition, !.requested = rec]
  <2>1. definition \in Definitions /\ definition.identity = request.identity
    BY DEF resolveExact, StartInv, StartsAreTyped
  <2>2. /\ rec \in StartRow /\ rec.identity = definition.identity /\ rec.shape = definition.shape
        /\ rec.attempts = 0
    BY <2>1 DEF snapshotOf, StartRow
  <2> HIDE DEF rec
  <2>3. NotStarting \in StartCall /\ NotStarting.answer = "none"
    BY DEF NotStarting, StartCall
  <2>4. /\ call \in StartCall
        /\ call.pc = "create" /\ call.process = p /\ call.definition = definition
        /\ call.requested = rec /\ call.answer = "none"
    BY <2>1, <2>2, <2>3 DEF StartCall
  <2>5. \A rows : GroundedIn(call, rows, startStore)
    BY <2>1, <2>2, <2>4 DEF GroundedIn, AskedFor
  <2> QED  BY <1>4, <1>6, <2>4, <2>5 DEF rec
<1> QED  BY <1>3, <1>5, <1>6

\* What the call looks like that an answer ends, or that has a receipt.
LEMMA StartCallFields ==
    ASSUME StartsAreTyped, NEW c \in StartCallers
    PROVE  /\ \A answer \in {"conflict", "identity conflict", "started"} : Answered(c, answer) =>
                /\ starts' \in [StartCallers -> StartCall]
                /\ \A d \in StartCallers \ {c} : starts'[d] = starts[d]
                /\ starts'[c].pc = "idle" /\ starts'[c].answer = answer
                /\ starts'[c].process = starts[c].process /\ starts'[c].requested = starts[c].requested
                /\ starts'[c].definition = starts[c].definition /\ starts'[c].persisted = starts[c].persisted
                /\ starts'[c].created = starts[c].created
           /\ \A rec \in StartRow, created \in BOOLEAN : Returned(c, rec, created) =>
                /\ starts' \in [StartCallers -> StartCall]
                /\ \A d \in StartCallers \ {c} : starts'[d] = starts[d]
                /\ starts'[c].pc = "receipt" /\ starts'[c].answer = starts[c].answer
                /\ starts'[c].process = starts[c].process /\ starts'[c].requested = starts[c].requested
                /\ starts'[c].definition = starts[c].definition /\ starts'[c].persisted = rec
                /\ starts'[c].created = created
<1>1. starts \in [StartCallers -> StartCall] /\ starts[c] \in StartCall
  BY DEF StartsAreTyped
<1>2. ASSUME NEW answer \in {"conflict", "identity conflict", "started"}
      PROVE  LET call == [starts[c] EXCEPT !.pc = "idle", !.answer = answer]
             IN  /\ call \in StartCall /\ call.pc = "idle" /\ call.answer = answer
                 /\ call.process = starts[c].process /\ call.requested = starts[c].requested
                 /\ call.definition = starts[c].definition /\ call.persisted = starts[c].persisted
                 /\ call.created = starts[c].created
  BY <1>1 DEF StartCall
<1>3. ASSUME NEW rec \in StartRow, NEW created \in BOOLEAN
      PROVE  LET call == [starts[c] EXCEPT !.pc = "receipt", !.persisted = rec, !.created = created]
             IN  /\ call \in StartCall /\ call.pc = "receipt" /\ call.answer = starts[c].answer
                 /\ call.process = starts[c].process /\ call.requested = starts[c].requested
                 /\ call.definition = starts[c].definition /\ call.persisted = rec
                 /\ call.created = created
  BY <1>1 DEF StartCall
<1>4. ASSUME NEW call \in StartCall, starts' = [starts EXCEPT ![c] = call]
      PROVE  /\ starts' \in [StartCallers -> StartCall] /\ starts'[c] = call
             /\ \A d \in StartCallers \ {c} : starts'[d] = starts[d]
  BY <1>1, <1>4
<1>5. ASSUME NEW answer \in {"conflict", "identity conflict", "started"}, Answered(c, answer)
      PROVE  starts' = [starts EXCEPT ![c] = [starts[c] EXCEPT !.pc = "idle", !.answer = answer]]
  BY <1>1, <1>5 DEF Answered
<1>6. ASSUME NEW rec \in StartRow, NEW created \in BOOLEAN, Returned(c, rec, created)
      PROVE  starts' = [starts EXCEPT ![c] =
                           [starts[c] EXCEPT !.pc = "receipt", !.persisted = rec, !.created = created]]
  BY <1>1, <1>6 DEF Returned
<1>7. ASSUME NEW answer \in {"conflict", "identity conflict", "started"}, Answered(c, answer)
      PROVE  /\ starts' \in [StartCallers -> StartCall]
             /\ \A d \in StartCallers \ {c} : starts'[d] = starts[d]
             /\ starts'[c].pc = "idle" /\ starts'[c].answer = answer
             /\ starts'[c].process = starts[c].process /\ starts'[c].requested = starts[c].requested
             /\ starts'[c].definition = starts[c].definition /\ starts'[c].persisted = starts[c].persisted
             /\ starts'[c].created = starts[c].created
  <2> DEFINE call == [starts[c] EXCEPT !.pc = "idle", !.answer = answer]
  <2>1. starts' = [starts EXCEPT ![c] = call]
    BY <1>5, <1>7
  <2>2. /\ call \in StartCall /\ call.pc = "idle" /\ call.answer = answer
        /\ call.process = starts[c].process /\ call.requested = starts[c].requested
        /\ call.definition = starts[c].definition /\ call.persisted = starts[c].persisted
        /\ call.created = starts[c].created
    BY <1>2
  <2> HIDE DEF call
  <2>3. starts'[c] = call
    BY <1>4, <2>1, <2>2
  <2> QED  BY <1>4, <2>1, <2>2, <2>3
<1>8. ASSUME NEW rec \in StartRow, NEW created \in BOOLEAN, Returned(c, rec, created)
      PROVE  /\ starts' \in [StartCallers -> StartCall]
             /\ \A d \in StartCallers \ {c} : starts'[d] = starts[d]
             /\ starts'[c].pc = "receipt" /\ starts'[c].answer = starts[c].answer
             /\ starts'[c].process = starts[c].process /\ starts'[c].requested = starts[c].requested
             /\ starts'[c].definition = starts[c].definition /\ starts'[c].persisted = rec
             /\ starts'[c].created = created
  <2> DEFINE call == [starts[c] EXCEPT !.pc = "receipt", !.persisted = rec, !.created = created]
  <2>1. starts' = [starts EXCEPT ![c] = call]
    BY <1>6, <1>8
  <2>2. /\ call \in StartCall /\ call.pc = "receipt" /\ call.answer = starts[c].answer
        /\ call.process = starts[c].process /\ call.requested = starts[c].requested
        /\ call.definition = starts[c].definition /\ call.persisted = rec
        /\ call.created = created
    BY <1>3
  <2> HIDE DEF call
  <2>3. starts'[c] = call
    BY <1>4, <2>1, <2>2
  <2> QED  BY <1>4, <2>1, <2>2, <2>3
<1> QED  BY <1>7, <1>8

\* A step of one call, in stores whose rows go on, keeps what the others rely on.
LEMMA OneCallSteps ==
    ASSUME StartInv, NEW c \in StartCallers,
           starts' \in [StartCallers -> StartCall], \A d \in StartCallers \ {c} : starts'[d] = starts[d],
           UNCHANGED <<startStore, registries, started>>,
           workflows' \in [Homes -> SUBSET StartRow],
           \A h \in Homes : \A rec \in workflows[h] : \E l \in workflows'[h] : Continues(l, rec),
           RowsAreOne', Grounded(c)'
    PROVE  StartInv'
<1>1. StartsAreTyped'
  BY DEF StartInv, StartsAreTyped
<1>2. RegistriesAreWhole'
  BY DEF StartInv, RegistriesAreWhole
<1>3. \A d \in StartCallers : starts[d].process \in Processes => HomeOf(starts[d].process) \in Homes
  BY DEF HomeOf, Homes
<1>4. CallsAreGrounded'
  <2> SUFFICES ASSUME NEW d \in StartCallers
               PROVE  Grounded(d)'
    BY DEF CallsAreGrounded
  <2>1. CASE d = c
    BY <2>1
  <2>2. CASE d # c
    <3>1. starts'[d] = starts[d]
      BY <2>2
    <3> QED  BY <1>3, <3>1, WaitingSteps
  <2> QED  BY <2>1, <2>2
<1> QED  BY <1>1, <1>2, <1>4 DEF StartInv

\* A call that met a row: the row of its own start is its receipt, any other is a conflict.
LEMMA MeetingSteps ==
    ASSUME StartInv, NEW c \in StartCallers, starts[c].pc \in {"create", "select"},
           \E rec \in workflows[HomeOf(starts[c].process)] : Collides(rec, starts[c].requested),
           ExistingOrConflict(c, workflows[HomeOf(starts[c].process)]),
           UNCHANGED <<startStore, registries, workflows, started>>
    PROVE  StartInv'
<1> DEFINE h == HomeOf(starts[c].process)
           requested == starts[c].requested
<1>1. /\ AskedFor(starts[c]) /\ starts[c].answer = "none" /\ StartsAreTyped /\ Grounded(c)
  BY DEF StartInv, CallsAreGrounded, Grounded, GroundedIn
<1>2. h \in Homes /\ workflows[h] \subseteq StartRow
  BY <1>1 DEF AskedFor, HomeOf, Homes, StartsAreTyped
<1>3. ASSUME Grounded(c)', starts' \in [StartCallers -> StartCall], \A d \in StartCallers \ {c} : starts'[d] = starts[d]
      PROVE  StartInv'
  <2>1. RowsAreOne' /\ workflows' \in [Homes -> SUBSET StartRow]
    BY DEF StartInv, RowsAreOne, StartsAreTyped
  <2>2. \A g \in Homes : \A rec \in workflows[g] : \E l \in workflows'[g] : Continues(l, rec)
    BY <2>1, RowsContinue
  <2> QED  BY <1>3, <2>1, <2>2, OneCallSteps
<1>4. ASSUME starts'[c].process = starts[c].process, GroundedIn(starts'[c], workflows[h], startStore)
      PROVE  Grounded(c)'
  BY <1>4 DEF Grounded, HomeOf
<1>5. CASE Existing(workflows[h], requested) = {} /\ Answered(c, "conflict")
  <2>1. \E rec \in workflows[h] : \/ SameStart(rec, requested) /\ rec.input # requested.input
                                  \/ rec.id = requested.id /\ ~SameStart(rec, requested)
    BY <1>5 DEF Existing, Collides
  <2>2. /\ starts' \in [StartCallers -> StartCall]
        /\ \A d \in StartCallers \ {c} : starts'[d] = starts[d]
        /\ starts'[c].pc = "idle" /\ starts'[c].answer = "conflict"
        /\ starts'[c].process = starts[c].process /\ starts'[c].requested = requested
    BY <1>1, <1>5, StartCallFields
  <2>3. GroundedIn(starts'[c], workflows[h], startStore)
    BY <1>1, <2>1, <2>2 DEF GroundedIn, AskedFor
  <2> QED  BY <1>3, <1>4, <2>2, <2>3
<1>6. ASSUME NEW rec \in Existing(workflows[h], requested), Returned(c, rec, FALSE)
      PROVE  StartInv'
  <2>1. rec \in workflows[h] /\ rec \in StartRow /\ SameStart(rec, requested) /\ rec.input = requested.input
    BY <1>2, <1>6 DEF Existing
  <2>2. /\ starts' \in [StartCallers -> StartCall]
        /\ \A d \in StartCallers \ {c} : starts'[d] = starts[d]
        /\ starts'[c].pc = "receipt" /\ starts'[c].answer = "none"
        /\ starts'[c].process = starts[c].process /\ starts'[c].requested = requested
        /\ starts'[c].definition = starts[c].definition /\ starts'[c].persisted = rec
        /\ starts'[c].created = FALSE
    BY <1>1, <1>6, <2>1, StartCallFields
  <2>3. AskedFor(starts'[c]) /\ Received(starts'[c])
    BY <1>1, <2>1, <2>2 DEF AskedFor, Received
  <2>4. GroundedIn(starts'[c], workflows[h], startStore)
    BY <1>1, <2>1, <2>2, <2>3, RowsContinue DEF GroundedIn, AskedFor
  <2> QED  BY <1>3, <1>4, <2>2, <2>4
<1> QED  BY <1>5, <1>6 DEF ExistingOrConflict

\* A row is inserted where no row has its id or its key.
LEMMA InsertingSteps ==
    ASSUME StartInv, NEW c \in StartCallers, starts[c].pc = "create",
           NEW h, h = HomeOf(starts[c].process),
           ~\E rec \in workflows[h] : Collides(rec, starts[c].requested),
           workflows' = [workflows EXCEPT ![h] = @ \cup {starts[c].requested}],
           Returned(c, starts[c].requested, TRUE),
           UNCHANGED <<startStore, registries, started>>
    PROVE  StartInv'
<1> DEFINE requested == starts[c].requested
<1>1. /\ AskedFor(starts[c]) /\ starts[c].answer = "none" /\ StartsAreTyped
  BY DEF StartInv, CallsAreGrounded, Grounded, GroundedIn
<1>2. h \in Homes /\ requested \in StartRow /\ workflows \in [Homes -> SUBSET StartRow]
  BY <1>1 DEF AskedFor, HomeOf, Homes, StartsAreTyped
<1>3. /\ workflows' \in [Homes -> SUBSET StartRow] /\ workflows'[h] = workflows[h] \cup {requested}
      /\ \A g \in Homes \ {h} : workflows'[g] = workflows[g]
  BY <1>2
<1>4. \A g \in Homes : \A rec \in workflows[g] : \E l \in workflows'[g] : Continues(l, rec)
  BY <1>2, <1>3, RowsContinue
<1>5. RowsAreOne'
  <2> SUFFICES ASSUME NEW g \in Homes, NEW one \in workflows'[g], NEW other \in workflows'[g],
                      one.id = other.id \/ SameStart(one, other)
               PROVE  one = other
    BY DEF RowsAreOne
  <2>1. CASE g # h
    BY <1>3, <2>1 DEF StartInv, RowsAreOne
  <2>2. CASE g = h /\ one \in workflows[h] /\ other \in workflows[h]
    BY <1>2, <2>2 DEF StartInv, RowsAreOne
  <2>3. CASE g = h /\ (one = requested \/ other = requested)
    BY <1>3, <2>3 DEF Collides, SameStart
  <2> QED  BY <1>3, <2>1, <2>2, <2>3
<1>6. /\ starts' \in [StartCallers -> StartCall]
      /\ \A d \in StartCallers \ {c} : starts'[d] = starts[d]
      /\ starts'[c].pc = "receipt" /\ starts'[c].answer = "none"
      /\ starts'[c].process = starts[c].process /\ starts'[c].requested = requested
      /\ starts'[c].definition = starts[c].definition /\ starts'[c].persisted = requested
  BY <1>1, <1>2, StartCallFields
<1>7. AskedFor(starts'[c]) /\ Received(starts'[c])
  BY <1>1, <1>2, <1>6 DEF AskedFor, Received, SameStart
<1>8. GroundedIn(starts'[c], workflows'[h], startStore)
  BY <1>2, <1>3, <1>6, <1>7, RowsContinue DEF GroundedIn, AskedFor
<1>9. Grounded(c)'
  BY <1>6, <1>8 DEF Grounded, HomeOf
<1> QED  BY <1>3, <1>4, <1>5, <1>6, <1>9, OneCallSteps

\* create of the in-memory store looks and writes in one step.
LEMMA CreatingSteps ==
    ASSUME StartInv, NEW c \in StartCallers, createInMemory(c)
    PROVE  StartInv'
<1> DEFINE h == HomeOf(starts[c].process)
           requested == starts[c].requested
<1>1. starts[c].pc = "create" /\ UNCHANGED <<startStore, registries, started>>
  BY DEF createInMemory
<1>2. CASE \E rec \in workflows[h] : Collides(rec, requested)
  <2>1. ExistingOrConflict(c, workflows[h]) /\ UNCHANGED workflows
    BY <1>2 DEF createInMemory, Collides
  <2> QED  BY <1>1, <1>2, <2>1, MeetingSteps
<1>3. CASE ~\E rec \in workflows[h] : Collides(rec, requested)
  <2>1. workflows' = [workflows EXCEPT ![h] = @ \cup {requested}] /\ Returned(c, requested, TRUE)
    BY <1>3 DEF createInMemory, Collides
  <2> QED  BY <1>1, <1>3, <2>1, InsertingSteps
<1> QED  BY <1>2, <1>3

\* The insert of the SQL store writes the row, or nothing because it met one: which stays.
LEMMA InsertSteps ==
    ASSUME StartInv, NEW c \in StartCallers, insertRow(c)
    PROVE  StartInv'
<1> DEFINE requested == starts[c].requested
<1>1. /\ starts[c].pc = "create" /\ startStore = "drizzle" /\ UNCHANGED <<startStore, registries, started>>
      /\ HomeOf(starts[c].process) = "database"
  BY DEF insertRow, HomeOf
<1>2. CASE ~\E rec \in workflows["database"] : Collides(rec, requested)
  <2>1. workflows' = [workflows EXCEPT !["database"] = @ \cup {requested}] /\ Returned(c, requested, TRUE)
    BY <1>2 DEF insertRow
  <2> QED  BY <1>1, <1>2, <2>1, InsertingSteps
<1>3. CASE \E rec \in workflows["database"] : Collides(rec, requested)
  <2>1. starts' = [starts EXCEPT ![c].pc = "select"] /\ UNCHANGED workflows
    BY <1>3 DEF insertRow
  <2>2. /\ AskedFor(starts[c]) /\ starts[c].answer = "none" /\ StartsAreTyped
    BY <1>1 DEF StartInv, CallsAreGrounded, Grounded, GroundedIn
  <2>3. starts \in [StartCallers -> StartCall] /\ starts[c] \in StartCall
    BY <2>2 DEF StartsAreTyped
  <2> DEFINE call == [starts[c] EXCEPT !.pc = "select"]
  <2>4. /\ call \in StartCall /\ call.pc = "select" /\ call.answer = starts[c].answer
        /\ call.process = starts[c].process /\ call.requested = requested
        /\ call.definition = starts[c].definition
    BY <2>3 DEF StartCall
  <2>5. starts' = [starts EXCEPT ![c] = call]
    BY <2>1
  <2> HIDE DEF call
  <2>6. /\ starts' \in [StartCallers -> StartCall] /\ starts'[c] = call
        /\ \A d \in StartCallers \ {c} : starts'[d] = starts[d]
    BY <2>3, <2>4, <2>5
  <2>7. GroundedIn(call, workflows["database"], startStore)
    BY <1>1, <1>3, <2>2, <2>4 DEF GroundedIn, AskedFor
  <2>8. Grounded(c)'
    BY <1>1, <2>1, <2>4, <2>6, <2>7 DEF Grounded, HomeOf
  <2>9. /\ RowsAreOne' /\ workflows' \in [Homes -> SUBSET StartRow]
        /\ \A h \in Homes : \A rec \in workflows[h] : \E l \in workflows'[h] : Continues(l, rec)
    BY <2>1, <2>2, RowsContinue DEF StartInv, RowsAreOne, StartsAreTyped
  <2> QED  BY <1>1, <2>6, <2>8, <2>9, OneCallSteps
<1> QED  BY <1>2, <1>3

\* The second statement of the SQL store finds what the first one met.
LEMMA SelectSteps ==
    ASSUME StartInv, NEW c \in StartCallers, selectRow(c)
    PROVE  StartInv'
<1>1. /\ starts[c].pc = "select" /\ ExistingOrConflict(c, workflows["database"])
      /\ UNCHANGED <<startStore, registries, workflows, started>>
  BY DEF selectRow
<1>2. /\ startStore = "drizzle"
      /\ \E rec \in workflows[HomeOf(starts[c].process)] : Collides(rec, starts[c].requested)
  BY <1>1 DEF StartInv, CallsAreGrounded, Grounded, GroundedIn
<1>3. HomeOf(starts[c].process) = "database"
  BY <1>2 DEF HomeOf
<1> QED  BY <1>1, <1>2, <1>3, MeetingSteps

\* What start() makes of a receipt.
LEMMA ReceiptSteps ==
    ASSUME StartInv, NEW c \in StartCallers, readReceipt(c)
    PROVE  StartInv'
<1> DEFINE call == starts[c]
           h == HomeOf(call.process)
           answer == IF ~ReceiptValid(call) THEN "contract error"
                     ELSE IF ~MatchesDefinition(call.persisted, call.definition) THEN "identity conflict"
                     ELSE "started"
<1>1. /\ call.pc = "receipt" /\ Answered(c, answer)
      /\ UNCHANGED <<startStore, registries, workflows, started>>
  BY DEF readReceipt
<1>2. /\ AskedFor(call) /\ Received(call) /\ StartsAreTyped
      /\ \E rec \in workflows[h] : Continues(rec, call.persisted)
  BY <1>1 DEF StartInv, CallsAreGrounded, Grounded, GroundedIn
<1>3. h \in Homes /\ workflows[h] \subseteq StartRow
  BY <1>2 DEF AskedFor, HomeOf, Homes, StartsAreTyped
<1>4. ReceiptValid(call)
  BY <1>2 DEF ReceiptValid, Received
<1>5. answer = IF ~MatchesDefinition(call.persisted, call.definition) THEN "identity conflict" ELSE "started"
  BY <1>4
<1>6. call.definition.maxAttempts \in Nat
  BY <1>2, StartAssumption DEF AskedFor, Definitions
<1>7. answer = "identity conflict" =>
         \E rec \in workflows[h] : /\ ~call.created /\ SameStart(rec, call.requested)
                                   /\ ~MatchesDefinition(rec, call.definition)
  <2> SUFFICES ASSUME ~MatchesDefinition(call.persisted, call.definition)
               PROVE  \E rec \in workflows[h] : /\ ~call.created /\ SameStart(rec, call.requested)
                                                /\ ~MatchesDefinition(rec, call.definition)
    BY <1>5
  <2>1. MatchesDefinition(call.requested, call.definition)
    BY <1>2, <1>6 DEF AskedFor, MatchesDefinition
  <2>2. ~call.created
    BY <1>2, <2>1 DEF Received
  <2>3. PICK rec \in workflows[h] : Continues(rec, call.persisted)
    BY <1>2
  <2>4. /\ rec.attempts \in Nat /\ call.persisted.attempts \in Nat
        /\ rec.attempts >= call.persisted.attempts
    BY <1>2, <1>3, <2>3 DEF StartRow, Received, Continues
  <2>5. rec.attempts <= call.definition.maxAttempts => call.persisted.attempts <= call.definition.maxAttempts
    BY <1>6, <2>4, AtMost
  <2>6. ~MatchesDefinition(rec, call.definition)
    BY <2>3, <2>5 DEF MatchesDefinition, Continues, SameStart
  <2> QED  BY <1>2, <2>2, <2>3, <2>6 DEF Continues, SameStart, Received
<1>8. answer = "started" =>
         \E rec \in workflows[h] : /\ rec.id = call.persisted.id
                                   /\ SameStart(rec, call.requested) /\ rec.input = call.requested.input
                                   /\ rec.shape = call.definition.shape
  BY <1>2, <1>5 DEF Continues, Received, MatchesDefinition, SameStart
<1>9. answer \in {"conflict", "identity conflict", "started"}
  BY <1>5
<1> HIDE DEF answer
<1>10. /\ starts' \in [StartCallers -> StartCall]
       /\ \A d \in StartCallers \ {c} : starts'[d] = starts[d]
       /\ starts'[c].pc = "idle" /\ starts'[c].answer = answer
       /\ starts'[c].process = call.process /\ starts'[c].requested = call.requested
       /\ starts'[c].definition = call.definition /\ starts'[c].persisted = call.persisted
       /\ starts'[c].created = call.created
  BY <1>1, <1>2, <1>9, StartCallFields
<1>11. GroundedIn(starts'[c], workflows[h], startStore)
  <2>1. answer # "conflict"
    BY <1>5 DEF answer
  <2>2. starts'[c].process \in Processes
    BY <1>2, <1>10 DEF AskedFor
  <2> HIDE DEF call
  <2> QED  BY <1>6, <1>7, <1>8, <1>9, <1>10, <2>1, <2>2 DEF GroundedIn
<1>12. Grounded(c)'
  BY <1>1, <1>10, <1>11 DEF Grounded, HomeOf
<1>13. /\ RowsAreOne' /\ workflows' \in [Homes -> SUBSET StartRow]
       /\ \A g \in Homes : \A rec \in workflows[g] : \E l \in workflows'[g] : Continues(l, rec)
  BY <1>1, <1>2, RowsContinue DEF StartInv, RowsAreOne, StartsAreTyped
<1> QED  BY <1>1, <1>10, <1>12, <1>13, OneCallSteps

\* The death of a process takes its calls, its registry and, if the store is its memory, the rows.
LEMMA DyingSteps ==
    ASSUME StartInv, NEW p \in Processes, processDies(p)
    PROVE  StartInv'
<1>1. /\ starts' = [c \in StartCallers |->
              IF starts[c].pc # "idle" /\ starts[c].process = p
              THEN [NotStarting EXCEPT !.answer = "unknown"] ELSE
              IF startStore = "memory" /\ starts[c].process = p THEN NotStarting ELSE starts[c]]
      /\ registries' = [registries EXCEPT ![p] = {}]
      /\ workflows' = [workflows EXCEPT ![p] = {}]
      /\ UNCHANGED <<startStore, started>>
  BY DEF processDies
<1>2. /\ StartsAreTyped /\ registries \in [Processes -> SUBSET Definitions] /\ workflows \in [Homes -> SUBSET StartRow]
      /\ starts \in [StartCallers -> StartCall]
  BY DEF StartInv, StartsAreTyped
<1>3. p \in Homes
  BY DEF Homes
<1>4. /\ registries' \in [Processes -> SUBSET Definitions] /\ registries'[p] = {}
      /\ \A q \in Processes \ {p} : registries'[q] = registries[q]
  BY <1>1, <1>2
<1>5. /\ workflows' \in [Homes -> SUBSET StartRow] /\ workflows'[p] = {}
      /\ \A g \in Homes \ {p} : workflows'[g] = workflows[g]
  BY <1>1, <1>2, <1>3
<1>6. NotStarting \in StartCall /\ [NotStarting EXCEPT !.answer = "unknown"] \in StartCall
  BY DEF NotStarting, StartCall
<1>7. StartsAreTyped'
  BY <1>1, <1>2, <1>4, <1>5, <1>6 DEF StartsAreTyped
<1>8. RowsAreOne'
  BY <1>5 DEF StartInv, RowsAreOne
<1>9. RegistriesAreWhole'
  <2> SUFFICES ASSUME NEW q \in Processes
               PROVE  /\ \A d, e \in registries'[q] : d.identity = e.identity => d = e
                      /\ \A d \in registries'[q] : \E b \in DefinitionBatches :
                            /\ \E i \in DOMAIN b : b[i] = d
                            /\ \A i \in DOMAIN b : b[i] \in registries'[q]
    BY DEF RegistriesAreWhole
  <2>1. CASE q # p
    BY <1>4, <2>1 DEF StartInv, RegistriesAreWhole
  <2>2. CASE q = p
    BY <1>4, <2>2
  <2> QED  BY <2>1, <2>2
<1>10. CallsAreGrounded'
  <2> SUFFICES ASSUME NEW c \in StartCallers
               PROVE  Grounded(c)'
    BY DEF CallsAreGrounded
  <2>1. ASSUME NEW rows
        PROVE  /\ GroundedIn(NotStarting, rows, startStore)
               /\ GroundedIn([NotStarting EXCEPT !.answer = "unknown"], rows, startStore)
    BY DEF NotStarting, GroundedIn
  <2>2. CASE starts'[c] \in {NotStarting, [NotStarting EXCEPT !.answer = "unknown"]}
    BY <1>1, <2>1, <2>2 DEF Grounded
  <2>3. CASE /\ starts'[c] = starts[c]
             /\ ~(startStore = "memory" /\ starts[c].process = p)
    <3>1. starts[c].process \in Processes =>
             /\ HomeOf(starts[c].process) \in Homes
             /\ HomeOf(starts[c].process) # p
      BY <2>3, StartAssumption DEF HomeOf, Homes
    <3>2. starts[c].process \in Processes =>
             LET h == HomeOf(starts[c].process)
             IN  \A rec \in workflows[h] : \E l \in workflows'[h] : Continues(l, rec)
      <4> SUFFICES ASSUME starts[c].process \in Processes
                   PROVE  \A rec \in workflows[HomeOf(starts[c].process)] :
                             \E l \in workflows'[HomeOf(starts[c].process)] : Continues(l, rec)
        OBVIOUS
      <4>1. /\ workflows'[HomeOf(starts[c].process)] = workflows[HomeOf(starts[c].process)]
            /\ workflows[HomeOf(starts[c].process)] \subseteq StartRow
        BY <1>2, <1>5, <3>1
      <4> QED  BY <4>1, RowsContinue
    <3> QED  BY <1>1, <1>5, <2>3, <3>2, WaitingSteps
  <2> QED  BY <1>1, <2>2, <2>3
<1> QED  BY <1>7, <1>8, <1>9, <1>10 DEF StartInv

\* An attempt leaves the row what it is.
LEMMA AttemptSteps ==
    ASSUME StartInv, NEW p \in Processes, attempt(p)
    PROVE  StartInv'
<1> DEFINE h == HomeOf(p)
<1>1. PICK rec \in workflows[h] :
         workflows' = [workflows EXCEPT ![h] = (@ \ {rec}) \cup {[rec EXCEPT !.attempts = @ + 1]}]
  BY DEF attempt
<1>2. UNCHANGED <<startStore, registries, starts, started>>
  BY DEF attempt
<1>3. h \in Homes /\ workflows \in [Homes -> SUBSET StartRow] /\ rec \in StartRow
  BY <1>1 DEF StartInv, StartsAreTyped, HomeOf, Homes
<1> DEFINE later == [rec EXCEPT !.attempts = @ + 1]
<1>4. /\ later \in StartRow /\ Continues(later, rec)
      /\ later.id = rec.id /\ later.identity = rec.identity /\ later.startKey = rec.startKey
  BY <1>3 DEF StartRow, Continues, SameStart
<1> HIDE DEF later
<1>5. /\ workflows' \in [Homes -> SUBSET StartRow]
      /\ workflows'[h] = (workflows[h] \ {rec}) \cup {later}
      /\ \A g \in Homes \ {h} : workflows'[g] = workflows[g]
  BY <1>1, <1>3, <1>4 DEF later
<1>6. StartsAreTyped' /\ RegistriesAreWhole'
  BY <1>2, <1>5 DEF StartInv, StartsAreTyped, RegistriesAreWhole
<1>7. RowsAreOne'
  <2> SUFFICES ASSUME NEW g \in Homes, NEW one \in workflows'[g], NEW other \in workflows'[g],
                      one.id = other.id \/ SameStart(one, other)
               PROVE  one = other
    BY DEF RowsAreOne
  <2>1. CASE g # h
    BY <1>5, <2>1 DEF StartInv, RowsAreOne
  <2>2. ASSUME NEW x \in workflows[h] \ {rec}
        PROVE  ~(x.id = later.id \/ SameStart(x, later) \/ SameStart(later, x))
    BY <1>1, <1>3, <1>4, <2>2 DEF StartInv, RowsAreOne, SameStart
  <2>3. CASE g = h
    BY <1>3, <1>5, <2>2, <2>3 DEF StartInv, RowsAreOne
  <2> QED  BY <2>1, <2>3
<1>8. \A g \in Homes : \A r \in workflows[g] : \E l \in workflows'[g] : Continues(l, r)
  BY <1>3, <1>4, <1>5, RowsContinue
<1>9. CallsAreGrounded'
  <2> SUFFICES ASSUME NEW c \in StartCallers
               PROVE  Grounded(c)'
    BY DEF CallsAreGrounded
  <2>1. starts[c].process \in Processes => HomeOf(starts[c].process) \in Homes
    BY DEF HomeOf, Homes
  <2> QED  BY <1>2, <1>5, <1>8, <2>1, WaitingSteps
<1> QED  BY <1>6, <1>7, <1>9 DEF StartInv

\* The start of a workflow is idempotent (WorkflowManager.start, WorkflowRegistry.register, create
\* of both stores): ids and start keys name one row however calls, deaths and attempts interleave,
\* every answer is founded on the rows that are there, and registration is all or nothing.
THEOREM StartsAreAlwaysOne == StartSpec => [](StartTypeOK /\ StartsAreOne)
<1>1. StartInit => StartInv
  <2> SUFFICES ASSUME StartInit
               PROVE  StartInv
    OBVIOUS
  <2>1. StartsAreTyped
    BY StartAssumption DEF StartInit, StartsAreTyped, NotStarting, StartCall
  <2>2. RowsAreOne /\ RegistriesAreWhole
    BY DEF StartInit, RowsAreOne, RegistriesAreWhole
  <2>3. CallsAreGrounded
    BY DEF StartInit, CallsAreGrounded, Grounded, GroundedIn, NotStarting
  <2> QED  BY <2>1, <2>2, <2>3 DEF StartInv
<1>2. StartInv /\ [StartNext]_startVars => StartInv'
  <2> SUFFICES ASSUME StartInv, [StartNext]_startVars
               PROVE  StartInv'
    OBVIOUS
  <2>1. ASSUME NEW p \in Processes, registerWorkflows(p) \/ processDies(p) \/ attempt(p)
        PROVE  StartInv'
    BY <2>1, RegistrationSteps, DyingSteps, AttemptSteps
  <2>2. ASSUME NEW c \in StartCallers,
               startWorkflow(c) \/ createInMemory(c) \/ insertRow(c) \/ selectRow(c) \/ readReceipt(c)
        PROVE  StartInv'
    BY <2>2, AskingSteps, CreatingSteps, InsertSteps, SelectSteps, ReceiptSteps
  <2>3. CASE UNCHANGED startVars
    BY <2>3 DEF startVars, StartInv, StartsAreTyped, RowsAreOne, RegistriesAreWhole, CallsAreGrounded,
                Grounded, HomeOf
  <2> QED  BY <2>1, <2>2, <2>3 DEF StartNext
<1>3. StartInv => StartTypeOK /\ StartsAreOne
  <2> SUFFICES ASSUME StartInv
               PROVE  StartTypeOK /\ StartsAreOne
    OBVIOUS
  <2>1. StartTypeOK
    BY DEF StartInv, StartsAreTyped, StartCall, StartTypeOK
  <2>2. AnswersAreKept /\ RefusalsAreFounded
    BY DEF StartInv, CallsAreGrounded, Grounded, GroundedIn, AnswersAreKept, RefusalsAreFounded
  <2> QED  BY <2>1, <2>2 DEF StartInv, StartsAreOne
<1> QED  BY <1>1, <1>2, <1>3, PTL DEF StartSpec

(***************************************************************************)
(* WorkflowWake.  A wake that is consumed too early is never the last one:   *)
(* what a worker has read and still holds true was due when it was read, and *)
(* a row that is leased was due when it was claimed.                         *)
(***************************************************************************)
Overdue == row.state = "waiting" => row.retry = 0

ClaimedWhenDue == Leased => Overdue

ReadWhenDue == \A w \in Workers : worker[w].pc = "observed" /\ worker[w].current => Overdue

\* Before its creation nothing knows of the workflow.
QuietWhenAbsent ==
    row.state = "absent" =>
        /\ ~Leased /\ row.retry = 0 /\ scan.phase \notin {"read", "draining"} /\ scan.due = 0
        /\ \A t \in Instants : wakes[t] = 0
        /\ \A w \in Workers : worker[w].pc = "idle"

WakeInv == TypeOK /\ QuietWhenAbsent /\ ClaimedWhenDue /\ ReadWhenDue /\ WakeIsArmed

\* The horizon is the longer of the two delays.
LEMMA HorizonFits ==
    /\ Horizon \in Nat \ {0} /\ LeaseDuration \in Instants /\ RetryDelay \in Instants
    /\ 0 \in Instants /\ 1 \in Instants /\ LeaseDuration > 0
    /\ \A t \in Instants : t \in Nat
  BY WakeAssumption DEF Horizon, Instants

\* When the engine can use the row again is an instant.
LEMMA DueInFits ==
    ASSUME TypeOK
    PROVE  /\ DueIn \in Instants /\ DueIn \in Nat /\ row.lease \in Nat /\ row.retry \in Nat
           /\ row.lease \in Instants /\ row.retry \in Instants
<1>1. /\ row.lease \in 0 .. LeaseDuration /\ row.retry \in 0 .. RetryDelay
  BY DEF TypeOK, Row
<1>2. row.lease \in Instants /\ row.retry \in Instants /\ row.lease \in Nat /\ row.retry \in Nat
  BY <1>1, WakeAssumption DEF Horizon, Instants
<1> QED  BY <1>2, HorizonFits DEF DueIn

\* The state of worker w, changed.
WakeWorker == [pc : {"idle", "new", "observed", "claimed", "running", "acking"}, current : BOOLEAN]

LEMMA WorkersFit ==
    ASSUME TypeOK, NEW w \in Workers,
           NEW pc \in {"idle", "new", "observed", "claimed", "running", "acking"}
    PROVE  /\ At(w, pc) \in [Workers -> WakeWorker]
           /\ \A u \in Workers : /\ At(w, pc)[u].pc = IF u = w THEN pc ELSE worker[u].pc
                                 /\ At(w, pc)[u].current = worker[u].current
  BY DEF TypeOK, At, WakeWorker

\* The initial state.
LEMMA InitWakeInv == Init => WakeInv
<1> SUFFICES ASSUME Init PROVE WakeInv
  OBVIOUS
<1>1. TypeOK
  <2>1. row \in Row
    BY WakeAssumption DEF Init, Row
  <2>2. transitions \in 0 .. MaxTransitions /\ renewals \in 0 .. MaxRenewals /\ faults \in 0 .. MaxFaults
    BY WakeAssumption DEF Init
  <2>3. row.holder = None => row.lease = 0
    BY DEF Init
  <2>4. /\ wakes \in [Instants -> Nat]
        /\ scan \in [phase : {"asleep", "read", "draining", "ended"}, due : Instants, current : BOOLEAN]
    BY HorizonFits DEF Init
  <2> QED  BY <2>1, <2>2, <2>3, <2>4 DEF Init, TypeOK
<1>2. QuietWhenAbsent /\ ClaimedWhenDue /\ ReadWhenDue /\ WakeIsArmed
  BY DEF Init, QuietWhenAbsent, ClaimedWhenDue, ReadWhenDue, WakeIsArmed, Active, Leased, Overdue
<1> QED  BY <1>1, <1>2 DEF WakeInv

\* Every step keeps the types.
BoundsOK ==
    /\ transitions \in 0 .. MaxTransitions /\ renewals \in 0 .. MaxRenewals
    /\ faults \in 0 .. MaxFaults

LEMMA BoundsFit ==
    ASSUME TypeOK, Next
    PROVE  BoundsOK'
<1>1. BoundsOK
  BY DEF TypeOK, BoundsOK
<1>2. UNCHANGED bounds => BoundsOK'
  BY <1>1 DEF bounds, BoundsOK
<1>3. Fault => BoundsOK'
  BY <1>1, WakeAssumption DEF Fault, BoundsOK
<1>4. ASSUME NEW w \in Workers, RenewLease(w) \/ CommitRelease(w) PROVE BoundsOK'
  BY <1>1, <1>4, WakeAssumption DEF RenewLease, CommitRelease, BoundsOK
<1>5. \/ UNCHANGED bounds \/ Fault
      \/ \E w \in Workers : RenewLease(w) \/ CommitRelease(w)
  BY DEF Next, Create, RequestCancellation, Tick, ReconcileReads, ReconcileAppends, ReconcileFails,
         NewGeneration, LoopEnds, Stop, Restart, TakeWake, Observe, Claim, ClaimConflict, CommitStart,
         CommitTerminal, Acknowledge, LeaseLost, CrashOrThrow, GiveUp, bounds
<1> QED  BY <1>2, <1>3, <1>4, <1>5

\* A write of the row makes stale what the workers have read.
LEMMA BumpFits ==
    ASSUME TypeOK, NEW workers \in [Workers -> WakeWorker],
           Bump(workers)
    PROVE  /\ worker' \in [Workers -> WakeWorker]
           /\ \A u \in Workers : worker'[u].pc = workers[u].pc /\ ~worker'[u].current
           /\ reconciled' \in BOOLEAN
           /\ scan' \in [phase : {"asleep", "read", "draining", "ended"}, due : Instants, current : BOOLEAN]
  BY DEF Bump, TypeOK, WakeWorker

\* An appended wake.
LEMMA AppendFits ==
    ASSUME TypeOK, NEW t \in Instants, append(t)
    PROVE  /\ wakes' \in [Instants -> Nat] /\ wakes'[t] > 0
           /\ \A u \in Instants : wakes[u] > 0 => wakes'[u] > 0
<1>1. /\ wakes \in [Instants -> Nat] /\ wakes' = [wakes EXCEPT ![t] = wakes[t] + 1]
  BY DEF TypeOK, append
<1>2. \A u \in Instants : wakes'[u] = IF u = t THEN wakes[t] + 1 ELSE wakes[u]
  BY <1>1
<1> QED  BY <1>1, <1>2

\* A tick takes one from every instant that is ahead.
LEMMA LessFits ==
    ASSUME NEW n \in Nat
    PROVE  /\ Less(n) \in Nat /\ Less(n) <= n /\ (n = 0 => Less(n) = 0)
           /\ \A m \in Nat : n >= m => Less(n) >= Less(m)
  BY DEF Less

\* The types, without the bounds.
PartsOK ==
    /\ row \in Row /\ (row.holder = None => row.lease = 0)
    /\ wakes \in [Instants -> Nat]
    /\ worker \in [Workers -> WakeWorker]
    /\ reconciled \in BOOLEAN /\ lost \in BOOLEAN
    /\ scan \in [phase : {"asleep", "read", "draining", "ended"}, due : Instants, current : BOOLEAN]

LEMMA TypeParts ==
    /\ TypeOK <=> PartsOK /\ BoundsOK
    /\ TypeOK' <=> PartsOK' /\ BoundsOK'
  BY DEF TypeOK, PartsOK, BoundsOK, WakeWorker

\* The steps of a call that leave the row alone.
LEMMA CallTypes ==
    ASSUME TypeOK, NEW w \in Workers,
           \/ TakeWake(w) \/ Observe(w) \/ ClaimConflict(w) \/ Acknowledge(w)
           \/ LeaseLost(w) \/ CrashOrThrow(w) \/ GiveUp(w)
    PROVE  PartsOK'
<1>1. PartsOK
  BY TypeParts
<1>2. row' = row /\ reconciled' = reconciled /\ scan' = scan /\ lost' \in BOOLEAN
  BY <1>1 DEF TakeWake, Observe, ClaimConflict, Acknowledge, LeaseLost, CrashOrThrow, GiveUp, PartsOK
<1>3. wakes' \in [Instants -> Nat]
  <2>1. \/ wakes' = wakes \/ wakes' = [wakes EXCEPT ![0] = @ + 1]
        \/ wakes[0] > 0 /\ wakes' = [wakes EXCEPT ![0] = @ - 1]
    BY DEF TakeWake, Observe, ClaimConflict, Acknowledge, LeaseLost, CrashOrThrow, GiveUp, Redelivered
  <2>2. wakes[0] \in Nat
    BY <1>1, HorizonFits DEF PartsOK
  <2>3. wakes[0] + 1 \in Nat /\ (wakes[0] > 0 => wakes[0] - 1 \in Nat)
    BY <2>2
  <2> QED  BY <1>1, <2>1, <2>3 DEF PartsOK
<1>4. worker' \in [Workers -> WakeWorker]
  <2>1. \/ \E pc \in {"idle", "new", "acking"} : worker' = At(w, pc)
        \/ worker' = [worker EXCEPT ![w] = [pc |-> "observed", current |-> TRUE]]
        \/ worker' = [worker EXCEPT ![w] = [pc |-> "idle", current |-> FALSE]]
    BY DEF TakeWake, Observe, ClaimConflict, Acknowledge, LeaseLost, CrashOrThrow, GiveUp, Redelivered
  <2>2. /\ [pc |-> "observed", current |-> TRUE] \in WakeWorker
        /\ [pc |-> "idle", current |-> FALSE] \in WakeWorker
    BY DEF WakeWorker
  <2>3. \A s \in WakeWorker : [worker EXCEPT ![w] = s] \in [Workers -> WakeWorker]
    BY <1>1 DEF PartsOK
  <2>4. \A pc \in {"idle", "new", "acking"} : At(w, pc) \in [Workers -> WakeWorker]
    BY WorkersFit
  <2> QED  BY <2>1, <2>2, <2>3, <2>4
<1> QED  BY <1>1, <1>2, <1>3, <1>4 DEF PartsOK

\* The reconciler.
LEMMA ScanTypes ==
    ASSUME TypeOK,
           \/ ReconcileReads \/ ReconcileAppends \/ ReconcileFails \/ NewGeneration
           \/ LoopEnds \/ Stop \/ Restart
    PROVE  PartsOK'
<1>1. PartsOK /\ DueIn \in Instants /\ scan.due \in Instants
  BY TypeParts, DueInFits DEF PartsOK
<1>2. row' = row /\ worker' = worker
  BY DEF ReconcileReads, ReconcileAppends, ReconcileFails, NewGeneration, LoopEnds, Stop, Restart
<1>3. wakes' \in [Instants -> Nat]
  <2>1. wakes' = wakes \/ append(scan.due)
    BY DEF ReconcileReads, ReconcileAppends, ReconcileFails, NewGeneration, LoopEnds, Stop, Restart
  <2> QED  BY <1>1, <2>1, AppendFits DEF PartsOK
<1>4. reconciled' \in BOOLEAN /\ lost' \in BOOLEAN
  BY <1>1 DEF ReconcileReads, ReconcileAppends, ReconcileFails, NewGeneration, LoopEnds, Stop, Restart, PartsOK
<1>5. scan' \in [phase : {"asleep", "read", "draining", "ended"}, due : Instants, current : BOOLEAN]
  <2>1. /\ scan.phase \in {"asleep", "read", "draining", "ended"} /\ scan.current \in BOOLEAN
        /\ scan = [phase |-> scan.phase, due |-> scan.due, current |-> scan.current]
    BY <1>1 DEF PartsOK
  <2>2. CASE ReconcileReads
    BY <1>1, <2>2 DEF ReconcileReads
  <2>3. CASE ReconcileAppends \/ ReconcileFails
    <3>1. PassEnds
      BY <2>3 DEF ReconcileAppends, ReconcileFails
    <3>2. \E phase \in {"asleep", "ended"} : scan' = [phase |-> phase, due |-> 0, current |-> FALSE]
      BY <3>1 DEF PassEnds
    <3> QED  BY <3>2, HorizonFits
  <2>4. CASE NewGeneration
    BY <1>1, <2>4 DEF NewGeneration, PartsOK
  <2>5. CASE LoopEnds \/ Stop \/ Restart
    <3>1. \E phase \in {"asleep", "draining", "ended"} : scan' = [scan EXCEPT !.phase = phase]
      BY <2>5 DEF LoopEnds, Stop, Restart
    <3> QED  BY <1>1, <3>1 DEF PartsOK
  <2> QED  BY <2>2, <2>3, <2>4, <2>5
<1> QED  BY <1>1, <1>2, <1>3, <1>4, <1>5 DEF PartsOK

\* The writes of the row, in the transactions of TransactionalWorkflowStore.
LEMMA WriteTypes ==
    ASSUME TypeOK,
           \/ Create \/ RequestCancellation
           \/ \E w \in Workers : \/ Claim(w) \/ RenewLease(w) \/ CommitStart(w)
                                 \/ CommitRelease(w) \/ CommitTerminal(w)
    PROVE  PartsOK'
<1>1. PartsOK
  BY TypeParts
<1>2. row' \in Row /\ (row'.holder = None => row'.lease = 0)
  <2>1. CASE Create \/ RequestCancellation
    BY <1>1, <2>1 DEF Create, RequestCancellation, PartsOK, Row
  <2>2. ASSUME NEW w \in Workers, Claim(w) \/ RenewLease(w) \/ CommitStart(w)
        PROVE  row' \in Row /\ (row'.holder = None => row'.lease = 0)
    <3>1. LeaseDuration \in 0 .. LeaseDuration /\ w # None
      BY WakeAssumption
    <3>2. CASE Claim(w)
      BY <1>1, <3>1, <3>2 DEF Claim, PartsOK, Row
    <3>3. CASE RenewLease(w)
      BY <1>1, <3>1, <3>3 DEF RenewLease, Owns, PartsOK, Row
    <3>4. CASE CommitStart(w)
      BY <1>1, <3>4 DEF CommitStart, PartsOK
    <3> QED  BY <2>2, <3>2, <3>3, <3>4
  <2>3. ASSUME NEW w \in Workers, CommitRelease(w) \/ CommitTerminal(w)
        PROVE  row' \in Row /\ (row'.holder = None => row'.lease = 0)
    <3>1. \E state \in {"ready", "waiting", "terminal"} : row' = ReleasedRow(state)
      BY <2>3 DEF CommitRelease, CommitTerminal
    <3>2. 0 \in 0 .. LeaseDuration /\ 0 \in 0 .. RetryDelay /\ RetryDelay \in 0 .. RetryDelay
      BY WakeAssumption
    <3> QED  BY <1>1, <3>1, <3>2 DEF ReleasedRow, PartsOK, Row
  <2> QED  BY <2>1, <2>2, <2>3
<1>3. wakes' \in [Instants -> Nat]
  <2>1. wakes' = wakes \/ \E t \in Instants : append(t)
    BY HorizonFits DEF Create, RequestCancellation, Claim, RenewLease, CommitStart, CommitRelease,
                       CommitTerminal, AvailableIn
  <2> QED  BY <1>1, <2>1, AppendFits DEF PartsOK
<1>4. /\ worker' \in [Workers -> WakeWorker] /\ reconciled' \in BOOLEAN
      /\ scan' \in [phase : {"asleep", "read", "draining", "ended"}, due : Instants, current : BOOLEAN]
  <2>1. \/ UNCHANGED <<worker, reconciled, scan>> \/ Bump(worker)
        \/ \E w \in Workers : \E pc \in {"claimed", "running", "acking"} : Bump(At(w, pc))
    BY DEF Create, RequestCancellation, Claim, RenewLease, CommitStart, CommitRelease, CommitTerminal
  <2> QED  BY <1>1, <2>1, BumpFits, WorkersFit DEF PartsOK
<1>5. lost' \in BOOLEAN
  BY <1>1 DEF Create, RequestCancellation, Claim, RenewLease, CommitStart, CommitRelease, CommitTerminal, PartsOK
<1> QED  BY <1>2, <1>3, <1>4, <1>5 DEF PartsOK

\* Time.
LEMMA TickTypes ==
    ASSUME TypeOK, Tick
    PROVE  /\ PartsOK'
           /\ row'.state = row.state /\ row'.holder = row.holder /\ row'.retry = Less(row.retry)
           /\ DueIn' = Less(DueIn)
           /\ \A t \in Instants : wakes[t] > 0 => Less(t) \in Instants /\ wakes'[Less(t)] > 0
<1>1. PartsOK
  BY TypeParts
<1>2. /\ row.lease \in Nat /\ row.retry \in Nat /\ DueIn \in Nat
      /\ row' = [row EXCEPT !.lease = Less(row.lease), !.retry = Less(row.retry)]
      /\ row.lease \in 0 .. LeaseDuration /\ row.retry \in 0 .. RetryDelay
  BY <1>1, DueInFits DEF Tick, PartsOK, Row
<1>3. Less(row.lease) \in 0 .. LeaseDuration /\ Less(row.retry) \in 0 .. RetryDelay
  BY <1>2, WakeAssumption DEF Less
<1>4. /\ row' \in Row /\ row'.state = row.state /\ row'.holder = row.holder
      /\ row'.lease = Less(row.lease) /\ row'.retry = Less(row.retry)
  BY <1>1, <1>2, <1>3 DEF PartsOK, Row
<1>5. (row'.holder = None => row'.lease = 0) /\ DueIn' = Less(DueIn)
  <2>1. Less(0) = 0
    BY DEF Less
  <2> QED  BY <1>1, <1>4, <2>1 DEF PartsOK, DueIn, Leased
<1>6. /\ wakes' \in [Instants -> Nat]
      /\ wakes'[0] = wakes[0] + wakes[1]
      /\ \A t \in Instants : t > 1 => wakes'[t - 1] = wakes[t]
  <2>1. /\ wakes \in [Instants -> Nat]
        /\ wakes' = [t \in Instants |->
              CASE t = 0 -> wakes[0] + wakes[1]
                [] t = Horizon -> 0
                [] OTHER -> wakes[t + 1]]
    BY <1>1 DEF PartsOK, Tick
  <2>2. \A t \in Instants : wakes'[t] = IF t = 0 THEN wakes[0] + wakes[1]
                                         ELSE IF t = Horizon THEN 0 ELSE wakes[t + 1]
    BY <2>1, HorizonFits
  <2>3. \A t \in Instants : t # 0 /\ t # Horizon => t + 1 \in Instants
    BY HorizonFits DEF Instants
  <2>4. \A t \in Instants : wakes'[t] \in Nat
    <3> SUFFICES ASSUME NEW t \in Instants PROVE wakes'[t] \in Nat
      OBVIOUS
    <3>1. wakes[0] + wakes[1] \in Nat
      BY <2>1, HorizonFits
    <3> QED  BY <2>1, <2>2, <2>3, <3>1
  <2>5. \A t \in Instants : t > 1 =>
            t - 1 \in Instants /\ t - 1 # 0 /\ t - 1 # Horizon /\ (t - 1) + 1 = t
    BY HorizonFits DEF Instants
  <2>6. \A t \in Instants : t > 1 => wakes'[t - 1] = wakes[t]
    BY <2>2, <2>5
  <2> QED  BY <2>1, <2>2, <2>4, <2>6, HorizonFits
<1>7. scan' \in [phase : {"asleep", "read", "draining", "ended"}, due : Instants, current : BOOLEAN]
  <2>1. scan.due \in Instants /\ scan' = [scan EXCEPT !.due = Less(scan.due)]
    BY <1>1 DEF PartsOK, Tick
  <2>2. Less(scan.due) \in Instants
    BY <2>1, HorizonFits DEF Less, Instants
  <2> QED  BY <1>1, <2>1, <2>2 DEF PartsOK
<1>8. ASSUME NEW t \in Instants, wakes[t] > 0
      PROVE  Less(t) \in Instants /\ wakes'[Less(t)] > 0
  <2>1. wakes[0] \in Nat /\ wakes[1] \in Nat /\ t \in Nat
    BY <1>1, HorizonFits DEF PartsOK
  <2>2. Less(t) \in Instants
    BY HorizonFits DEF Less, Instants
  <2>3. CASE t = 0 \/ t = 1
    BY <1>6, <1>8, <2>1, <2>2, <2>3 DEF Less
  <2>4. CASE t > 1
    BY <1>6, <1>8, <2>2, <2>4 DEF Less
  <2> QED  BY <2>1, <2>3, <2>4
<1>9. worker' = worker /\ reconciled' = reconciled /\ lost' = lost
  BY DEF Tick
<1> QED  BY <1>1, <1>4, <1>5, <1>6, <1>7, <1>8, <1>9 DEF PartsOK

LEMMA WakeTypes == TypeOK /\ Next => TypeOK'
<1> SUFFICES ASSUME TypeOK, Next PROVE TypeOK'
  OBVIOUS
<1>1. PartsOK'
  BY CallTypes, ScanTypes, WriteTypes, TickTypes DEF Next
<1> QED  BY <1>1, BoundsFit, TypeParts

\* The writes of the row that have an outcome for the wakes.
LEMMA WritesKeep ==
    ASSUME WakeInv, TypeOK',
           \/ Create \/ RequestCancellation
           \/ \E w \in Workers : \/ Claim(w) \/ RenewLease(w) \/ CommitStart(w)
                                 \/ CommitRelease(w) \/ CommitTerminal(w)
    PROVE  WakeInv'
<1> USE DEF WakeInv
<1>1. CASE Create
  <2>1. row' = [row EXCEPT !.state = "ready"] /\ row \in Row /\ ~Leased
    BY <1>1 DEF Create, TypeOK, QuietWhenAbsent
  <2>2. row'.state = "ready" /\ row'.holder = None
    BY <2>1 DEF Row, Leased
  <2>3. 0 \in Instants /\ wakes'[0] > 0 /\ DueIn' = 0
    BY <1>1, <2>2, AppendFits, HorizonFits DEF Create, DueIn, Leased
  <2> QED  BY <2>2, <2>3 DEF QuietWhenAbsent, ClaimedWhenDue, ReadWhenDue, WakeIsArmed, Overdue, Leased
<1>2. CASE RequestCancellation
  <2>1. row' = [row EXCEPT !.cancel = TRUE] /\ row \in Row /\ Active
    BY <1>2 DEF RequestCancellation, TypeOK
  <2>2. /\ row'.state = row.state /\ row'.holder = row.holder /\ row'.lease = row.lease
        /\ row'.retry = row.retry /\ row'.state # "absent"
    BY <2>1 DEF Row, Active
  <2>3. DueIn' = DueIn /\ Active' /\ Leased' = Leased /\ Overdue' = Overdue
    BY <2>1, <2>2 DEF DueIn, Active, Leased, Overdue
  <2>4. /\ 0 \in Instants /\ wakes'[0] > 0 /\ \A u \in Instants : wakes[u] > 0 => wakes'[u] > 0
        /\ lost' = lost
    BY <1>2, AppendFits, HorizonFits DEF RequestCancellation
  <2>5. \A u \in Workers : ~worker'[u].current
    BY <1>2, BumpFits, TypeParts DEF RequestCancellation, PartsOK
  <2> QED  BY <2>1, <2>2, <2>3, <2>4, <2>5 DEF QuietWhenAbsent, ClaimedWhenDue, ReadWhenDue, WakeIsArmed
<1>3. ASSUME NEW w \in Workers, Claim(w) \/ RenewLease(w)
      PROVE  WakeInv'
  <2>1. /\ row \in Row /\ worker[w].pc # "idle" /\ row.state # "absent" /\ w # None
        /\ \/ row' = [row EXCEPT !.holder = w, !.lease = LeaseDuration] /\ Overdue
           \/ row' = [row EXCEPT !.lease = LeaseDuration] /\ row.holder = w
    BY <1>3, WakeAssumption DEF Claim, RenewLease, Owns, TypeOK, QuietWhenAbsent, ReadWhenDue
  <2>2. /\ row'.state = row.state /\ row'.retry = row.retry /\ row'.holder = w
        /\ row'.lease = LeaseDuration
    BY <2>1 DEF Row
  <2>3. DueIn' = LeaseDuration /\ Overdue' /\ Leased'
    BY <2>1, <2>2 DEF DueIn, Leased, Overdue, ClaimedWhenDue
  <2>a. append(LeaseDuration) /\ LeaseDuration \in Instants
    BY <1>3, HorizonFits DEF Claim, RenewLease
  <2>b. wakes'[LeaseDuration] > 0
    BY <2>a, AppendFits
  <2>4. LeaseDuration \in Instants /\ LeaseDuration >= LeaseDuration /\ wakes'[LeaseDuration] > 0
    BY <2>a, <2>b, WakeAssumption
  <2>5. WakeIsArmed'
    BY <2>3, <2>4 DEF WakeIsArmed
  <2>6. QuietWhenAbsent' /\ ClaimedWhenDue' /\ ReadWhenDue'
    BY <2>1, <2>2, <2>3 DEF QuietWhenAbsent, ClaimedWhenDue, ReadWhenDue
  <2> QED  BY <2>5, <2>6
<1>4. ASSUME NEW w \in Workers, CommitStart(w)
      PROVE  WakeInv'
  <2>1. /\ row' = row /\ wakes' = wakes /\ lost' = lost /\ Leased /\ DueIn > 0 /\ row.state # "absent"
    BY <1>4, WakeAssumption DEF CommitStart, Owns, Leased, DueIn, QuietWhenAbsent
  <2>2. DueIn' = DueIn /\ (Active' <=> Active) /\ (Overdue' <=> Overdue) /\ (Leased' <=> Leased)
    BY <2>1 DEF DueIn, Active, Overdue, Leased
  <2>3. \A u \in Workers : ~worker'[u].current
    BY <1>4, BumpFits, WorkersFit DEF CommitStart
  <2>4. DueIn # 0
    BY <2>1, DueInFits
  <2> QED  BY <2>1, <2>2, <2>3, <2>4 DEF QuietWhenAbsent, ClaimedWhenDue, ReadWhenDue, WakeIsArmed
<1>5. ASSUME NEW w \in Workers, CommitRelease(w)
      PROVE  WakeInv'
  <2>1. PICK state \in {"ready", "waiting"} : row' = ReleasedRow(state) /\ append(AvailableIn(state))
    BY <1>5 DEF CommitRelease
  <2>2. /\ row'.state = state /\ row'.holder = None
        /\ row'.retry = IF state = "waiting" THEN RetryDelay ELSE 0
    BY <2>1 DEF ReleasedRow, TypeOK, Row
  <2>3. ~Leased' /\ row'.state # "absent" /\ DueIn' = AvailableIn(state)
    BY <2>1, <2>2 DEF Leased, DueIn, AvailableIn
  <2>4. AvailableIn(state) \in Instants /\ wakes'[AvailableIn(state)] > 0
    BY <2>1, AppendFits, HorizonFits DEF AvailableIn
  <2>5. AvailableIn(state) >= AvailableIn(state)
    BY <2>4, HorizonFits
  <2>6. \A u \in Workers : ~worker'[u].current
    BY <1>5, BumpFits, WorkersFit DEF CommitRelease
  <2> QED  BY <2>3, <2>4, <2>5, <2>6 DEF QuietWhenAbsent, ClaimedWhenDue, ReadWhenDue, WakeIsArmed
<1>6. ASSUME NEW w \in Workers, CommitTerminal(w)
      PROVE  WakeInv'
  <2>1. row'.state = "terminal" /\ row'.holder = None
    BY <1>6 DEF CommitTerminal, ReleasedRow, TypeOK, Row
  <2> QED  BY <2>1 DEF QuietWhenAbsent, ClaimedWhenDue, ReadWhenDue, WakeIsArmed, Overdue, Leased, Active
<1> QED  BY <1>1, <1>2, <1>3, <1>4, <1>5, <1>6

\* The steps of a call: a wake that is consumed leaves a witness behind.
LEMMA CallsKeep ==
    ASSUME WakeInv, TypeOK', NEW w \in Workers,
           \/ TakeWake(w) \/ Observe(w) \/ ClaimConflict(w) \/ Acknowledge(w)
           \/ LeaseLost(w) \/ CrashOrThrow(w) \/ GiveUp(w)
    PROVE  WakeInv'
<1> USE DEF WakeInv
<1>1. row' = row /\ reconciled' = reconciled /\ scan' = scan
  BY DEF TakeWake, Observe, ClaimConflict, Acknowledge, LeaseLost, CrashOrThrow, GiveUp
<1>2. DueIn' = DueIn /\ (Active' <=> Active) /\ (Overdue' <=> Overdue) /\ (Leased' <=> Leased)
  BY <1>1 DEF DueIn, Active, Overdue, Leased
<1>3. worker \in [Workers -> WakeWorker] /\ wakes \in [Instants -> Nat] /\ DueIn \in Nat
  BY TypeParts, DueInFits DEF PartsOK
<1>4. \A u \in Workers : u # w => worker'[u] = worker[u]
  BY <1>3 DEF TakeWake, Observe, ClaimConflict, Acknowledge, LeaseLost, CrashOrThrow, GiveUp,
              Redelivered, At
<1>5. row.state # "absent"
  BY HorizonFits DEF QuietWhenAbsent, TakeWake, Observe, ClaimConflict, Acknowledge, LeaseLost,
                     CrashOrThrow, GiveUp
<1>6. \/ worker'[w].pc \in {"idle", "new", "acking"}
      \/ worker'[w].pc = "observed" /\ Observe(w) /\ ~(row.state = "waiting" /\ row.retry > 0)
  BY <1>3 DEF TakeWake, Observe, ClaimConflict, Acknowledge, LeaseLost, CrashOrThrow, GiveUp,
              Redelivered, At, WakeWorker
<1>7. ReadWhenDue' /\ ClaimedWhenDue' /\ QuietWhenAbsent'
  <2>1. row.retry \in Nat
    BY DueInFits
  <2>2. ASSUME NEW u \in Workers, worker'[u].pc = "observed", worker'[u].current
        PROVE  Overdue
    BY <1>4, <1>6, <2>1, <2>2 DEF ReadWhenDue, Overdue
  <2> QED  BY <1>1, <1>2, <1>5, <2>2 DEF ReadWhenDue, ClaimedWhenDue, QuietWhenAbsent
<1>8. CASE TakeWake(w)
  <2>1. /\ worker'[w].pc = "new" /\ worker[w].pc = "idle" /\ lost' = lost
        /\ \A t \in Instants : t # 0 => wakes'[t] = wakes[t]
    BY <1>3, <1>8 DEF TakeWake, At, WakeWorker
  <2>2. ASSUME Active, ~lost, DueIn # 0
        PROVE  \E t \in Instants : wakes'[t] > 0 /\ t >= DueIn
    <3>1. PICK t \in Instants : wakes[t] > 0 /\ t >= DueIn
      BY <2>2 DEF WakeIsArmed
    <3>2. t # 0
      BY <1>3, <2>2, <3>1, HorizonFits
    <3> QED  BY <2>1, <3>1, <3>2
  <2> QED  BY <1>2, <1>7, <2>1, <2>2 DEF WakeIsArmed
<1>9. CASE Observe(w)
  <2>1. wakes' = wakes /\ lost' = lost /\ worker[w].pc = "new"
    BY <1>9 DEF Observe
  <2>2. CASE worker'[w].pc = "observed" /\ worker'[w].current
    BY <1>2, <1>4, <1>7, <2>1, <2>2 DEF WakeIsArmed
  <2>3. CASE row.state = "terminal"
    BY <1>1, <1>7, <2>3 DEF WakeIsArmed, Active
  <2>4. CASE row.state = "waiting" /\ row.retry > 0
    <3>1. row.retry # 0 /\ ~Leased
      BY <2>4, DueInFits DEF ClaimedWhenDue, Overdue
    <3>2. DueIn # 0
      BY <2>4, <3>1 DEF DueIn
    <3> QED  BY <1>2, <1>7, <2>1, <3>2 DEF WakeIsArmed
  <2>5. \/ worker' = [worker EXCEPT ![w] = [pc |-> "observed", current |-> TRUE]]
        \/ row.state = "terminal" \/ (row.state = "waiting" /\ row.retry > 0)
    BY <1>9 DEF Observe
  <2>6. CASE worker' = [worker EXCEPT ![w] = [pc |-> "observed", current |-> TRUE]]
    BY <1>3, <2>2, <2>6
  <2> QED  BY <2>3, <2>4, <2>5, <2>6
<1>10. CASE ClaimConflict(w)
  <2>1. wakes' = wakes /\ lost' = lost /\ worker[w].pc = "observed"
        /\ (worker[w].current => Leased /\ row.lease # 0)
    BY <1>10 DEF ClaimConflict
  <2>2. DueIn = 0 => ~worker[w].current
    BY <2>1 DEF DueIn
  <2> QED  BY <1>2, <1>4, <1>7, <2>1, <2>2 DEF WakeIsArmed
<1>11. CASE Acknowledge(w)
  <2>1. wakes' = wakes /\ lost' = lost /\ worker[w].pc = "acking"
    BY <1>11 DEF Acknowledge
  <2> QED  BY <1>2, <1>4, <1>7, <2>1 DEF WakeIsArmed
<1>12. CASE LeaseLost(w) \/ CrashOrThrow(w)
  <2>1. /\ wakes' = [wakes EXCEPT ![0] = wakes[0] + 1] /\ lost' = lost
    BY <1>12 DEF LeaseLost, CrashOrThrow, Redelivered
  <2>2. 0 \in Instants /\ wakes'[0] > 0 /\ \A t \in Instants : wakes[t] > 0 => wakes'[t] > 0
    <3>1. 0 \in Instants /\ wakes[0] \in Nat
      BY <1>3, HorizonFits
    <3>2. wakes'[0] = wakes[0] + 1 /\ \A t \in Instants : t # 0 => wakes'[t] = wakes[t]
      BY <1>3, <2>1, <3>1
    <3> QED  BY <3>1, <3>2
  <2>3. DueIn = 0 => 0 >= DueIn
    OBVIOUS
  <2> QED  BY <1>2, <1>7, <2>1, <2>2, <2>3 DEF WakeIsArmed
<1>13. CASE GiveUp(w)
  BY <1>7, <1>13 DEF GiveUp, WakeIsArmed
<1> QED  BY <1>8, <1>9, <1>10, <1>11, <1>12, <1>13

\* The reconciler: what it appends too early does not make up for a wake that was given up.
LEMMA ScansKeep ==
    ASSUME WakeInv, TypeOK',
           \/ ReconcileReads \/ ReconcileAppends \/ ReconcileFails \/ NewGeneration
           \/ LoopEnds \/ Stop \/ Restart
    PROVE  WakeInv'
<1> USE DEF WakeInv
<1>1. row' = row /\ worker' = worker
  BY DEF ReconcileReads, ReconcileAppends, ReconcileFails, NewGeneration, LoopEnds, Stop, Restart
<1>2. DueIn' = DueIn /\ (Active' <=> Active) /\ (Overdue' <=> Overdue) /\ (Leased' <=> Leased)
  BY <1>1 DEF DueIn, Active, Overdue, Leased
<1>3. ReadWhenDue' /\ ClaimedWhenDue'
  BY <1>1, <1>2 DEF ReadWhenDue, ClaimedWhenDue
<1>4. CASE ReconcileAppends
  <2>1. /\ append(scan.due) /\ scan.due \in Instants /\ lost' = (lost /\ scan.due < DueIn)
        /\ row.state # "absent"
    BY <1>4 DEF ReconcileAppends, TypeOK, QuietWhenAbsent
  <2>2. wakes'[scan.due] > 0 /\ \A t \in Instants : wakes[t] > 0 => wakes'[t] > 0
    BY <2>1, AppendFits
  <2>3. CASE lost /\ ~lost'
    <3>a. ~(scan.due < DueIn)
      BY <2>1, <2>3, Zenon
    <3>b. scan.due \in Nat /\ DueIn \in Nat
      BY <2>1, DueInFits, HorizonFits
    <3>1. scan.due >= DueIn
      BY <3>a, <3>b
    <3>2. WakeIsArmed'
      BY <1>2, <2>1, <2>2, <3>1 DEF WakeIsArmed
    <3> QED  BY <1>1, <1>3, <2>1, <3>2 DEF QuietWhenAbsent
  <2>4. CASE ~lost \/ lost'
    BY <1>1, <1>2, <1>3, <2>1, <2>2, <2>4 DEF WakeIsArmed, QuietWhenAbsent
  <2> QED  BY <2>3, <2>4
<1>5. CASE \/ ReconcileReads \/ ReconcileFails \/ NewGeneration \/ LoopEnds \/ Stop \/ Restart
  <2>1. wakes' = wakes /\ lost' = lost
    BY <1>5 DEF ReconcileReads, ReconcileFails, NewGeneration, LoopEnds, Stop, Restart
  <2>2. WakeIsArmed'
    BY <1>1, <1>2, <2>1 DEF WakeIsArmed
  <2>3. QuietWhenAbsent'
    <3>1. row.state = "absent" => scan'.phase \notin {"read", "draining"} /\ scan'.due = 0
      <4> SUFFICES ASSUME row.state = "absent"
                   PROVE  scan'.phase \notin {"read", "draining"} /\ scan'.due = 0
        OBVIOUS
      <4>1. scan.phase \notin {"read", "draining"} /\ scan.due = 0 /\ PartsOK
        BY TypeParts DEF QuietWhenAbsent
      <4>2. LoopEnds \/ Stop \/ Restart \/ NewGeneration
        BY <1>5, <4>1 DEF ReconcileReads, ReconcileFails, Active
      <4>3. \/ \E phase \in {"asleep", "ended"} : scan' = [scan EXCEPT !.phase = phase]
            \/ scan' = [scan EXCEPT !.current = FALSE]
        BY <4>1, <4>2 DEF LoopEnds, Stop, Restart, NewGeneration
      <4> QED  BY <4>1, <4>3 DEF PartsOK
    <3> QED  BY <1>1, <1>2, <2>1, <3>1 DEF QuietWhenAbsent
  <2> QED  BY <1>3, <2>2, <2>3
<1> QED  BY <1>4, <1>5

LEMMA TickKeeps ==
    ASSUME WakeInv, TypeOK', Tick
    PROVE  WakeInv'
<1> USE DEF WakeInv
<1>1. /\ row'.state = row.state /\ row'.holder = row.holder /\ row'.retry = Less(row.retry)
      /\ DueIn' = Less(DueIn) /\ DueIn \in Nat /\ row.retry \in Nat
      /\ \A t \in Instants : wakes[t] > 0 => Less(t) \in Instants /\ wakes'[Less(t)] > 0
      /\ worker' = worker /\ lost' = lost
  BY TickTypes, DueInFits DEF Tick
<1>2. (Active' <=> Active) /\ (Overdue => Overdue') /\ (Leased' <=> Leased)
  BY <1>1, LessFits DEF Active, Overdue, Leased
<1>3. ReadWhenDue' /\ ClaimedWhenDue'
  BY <1>1, <1>2 DEF ReadWhenDue, ClaimedWhenDue
<1>4. WakeIsArmed'
  <2> SUFFICES ASSUME Active, ~lost
               PROVE  \/ \E t \in Instants : wakes'[t] > 0 /\ t >= DueIn'
                      \/ DueIn' = 0 /\ \E w \in Workers :
                            worker[w].pc = "new" \/ (worker[w].pc = "observed" /\ worker[w].current)
    BY <1>1, <1>2 DEF WakeIsArmed
  <2>1. ASSUME NEW t \in Instants, wakes[t] > 0, t >= DueIn
        PROVE  Less(t) \in Instants /\ wakes'[Less(t)] > 0 /\ Less(t) >= DueIn'
    BY <1>1, <2>1, LessFits, HorizonFits
  <2>2. DueIn = 0 => DueIn' = 0
    BY <1>1, LessFits
  <2> QED  BY <2>1, <2>2 DEF WakeIsArmed
<1>5. QuietWhenAbsent'
  <2> SUFFICES ASSUME row.state = "absent" PROVE FALSE
    BY <1>1 DEF QuietWhenAbsent
  <2>1. /\ row.lease = 0 /\ row.retry = 0 /\ scan.due = 0
        /\ \A t \in Instants : wakes[t] = 0
    BY DEF QuietWhenAbsent, Leased, TypeOK
  <2> QED  BY <2>1 DEF Tick
<1> QED  BY <1>3, <1>4, <1>5

\* The wakes of a workflow, packages/workflows-reliability/src/index.ts: at any moment a
\* workflow that is not finished has a wake that is not too early, or a worker that is about
\* to use it, until the last failure a wake is allowed.
THEOREM WakesAreAlwaysArmed == Spec => []WakeIsArmed
<1>1. WakeInv /\ [Next]_vars => WakeInv'
  <2>1. ASSUME WakeInv, Next PROVE WakeInv'
    <3>1. TypeOK'
      BY <2>1, WakeTypes DEF WakeInv
    <3> QED  BY <2>1, <3>1, WritesKeep, CallsKeep, ScansKeep, TickKeeps DEF Next
  <2>2. ASSUME WakeInv, UNCHANGED vars PROVE WakeInv'
    BY <2>2 DEF WakeInv, TypeOK, QuietWhenAbsent, ClaimedWhenDue, ReadWhenDue, WakeIsArmed, Overdue,
                Leased, Active, DueIn, vars, bounds
  <2> QED  BY <2>1, <2>2
<1>2. WakeInv => WakeIsArmed
  BY DEF WakeInv
<1> QED  BY InitWakeInv, <1>1, <1>2, PTL DEF Spec

(***************************************************************************)
(* WorkflowCoordinator.  Every step that ends a job of a workflow that goes  *)
(* on has queued one, or has given it up.                                    *)
(***************************************************************************)
Flow == [revision : 0..MaxRevision, state : {"ready", "waiting", "terminal"},
         lease : Runners \union {"none"}]
Worker == [pc : Occupied \union {"idle"}, job : 0..MaxRevision, failures : 0..Tries, read : 0..MaxRevision]

CoordinatorInv ==
    /\ CoordinatorTypeOK /\ flow \in Flow /\ runner \in [Runners -> Worker]
    /\ \A w \in Runners : /\ runner[w].pc # "idle" => runner[w].job > 0
                          /\ runner[w].pc = "publish" => runner[w].read > 0
    /\ Live => flow.revision > 0
    /\ WorkflowsKeepTheirJob

\* Jobs are published under a revision.
LEMMA AddFits ==
    ASSUME CoordinatorInv, NEW r \in Revisions, Add(r)
    PROVE  /\ queued' \subseteq [job : Revisions, failures : 0..Tries] /\ known' \subseteq Revisions
           /\ queued' # {} \/ swallowed'
           /\ queued \subseteq queued'
<1>1. 0 \in 0..Tries
  BY CoordinatorAssumption
<1>2. [job |-> r, failures |-> 0] \in [job : Revisions, failures : 0..Tries]
  BY <1>1
<1>3. queued' = queued \/ queued' = queued \union {[job |-> r, failures |-> 0]}
  BY DEF Add
<1>4. queued' # {} \/ swallowed'
  <2>1. CASE ~Taken(r)
    BY <2>1 DEF Add
  <2>2. CASE Taken(r)
    <3>1. CASE \A q \in queued : q.job # r
      BY <2>2, <3>1 DEF Add
    <3>2. CASE ~(\A q \in queued : q.job # r)
      BY <1>3, <3>2
    <3> QED  BY <3>1, <3>2
  <2> QED  BY <2>1, <2>2
<1> QED  BY <1>2, <1>3, <1>4 DEF CoordinatorInv, CoordinatorTypeOK, Add

\* One worker changes: what the others are stays.
LEMMA RunnerChanges ==
    ASSUME CoordinatorInv, NEW w \in Runners, NEW s \in Worker, runner' = [runner EXCEPT ![w] = s],
           s.pc # "idle" => s.job > 0, s.pc = "publish" => s.read > 0
    PROVE  /\ runner' \in [Runners -> Worker]
           /\ \A u \in Runners : runner'[u] = IF u = w THEN s ELSE runner[u]
           /\ \A u \in Runners : /\ runner'[u].pc # "idle" => runner'[u].job > 0
                                 /\ runner'[u].pc = "publish" => runner'[u].read > 0
           /\ \A u \in Runners : runner'[u].pc \in Occupied \union {"idle"}
<1>1. runner \in [Runners -> Worker]
  BY DEF CoordinatorInv
<1>2. /\ runner' \in [Runners -> Worker]
      /\ \A u \in Runners : runner'[u] = IF u = w THEN s ELSE runner[u]
  BY <1>1
<1> QED  BY <1>2 DEF CoordinatorInv, Worker

\* A step of a worker keeps the invariant when the worker goes on, a job is queued, or the
\* workflow is given up or finished.
LEMMA WorkerStepKeeps ==
    ASSUME CoordinatorInv, NEW w \in Runners, NEW s \in Worker, runner' = [runner EXCEPT ![w] = s],
           s.pc # "idle" => s.job > 0, s.pc = "publish" => s.read > 0,
           transport' = transport, flow' \in Flow, flow'.revision > 0,
           queued' \subseteq [job : Revisions, failures : 0..Tries], known' \subseteq Revisions,
           s.pc # "idle" \/ queued' # {} \/ dropped' \/ swallowed' \/ flow'.state = "terminal"
    PROVE  CoordinatorInv'
<1>1. /\ runner' \in [Runners -> Worker]
      /\ \A u \in Runners : runner'[u] = IF u = w THEN s ELSE runner[u]
      /\ \A u \in Runners : /\ runner'[u].pc # "idle" => runner'[u].job > 0
                            /\ runner'[u].pc = "publish" => runner'[u].read > 0
      /\ \A u \in Runners : runner'[u].pc \in Occupied \union {"idle"}
  BY RunnerChanges
<1>2. CoordinatorTypeOK'
  BY <1>1 DEF CoordinatorInv, CoordinatorTypeOK, Flow
<1>3. WorkflowsKeepTheirJob'
  BY <1>1 DEF WorkflowsKeepTheirJob, Live, Unfinished
<1> QED  BY <1>1, <1>2, <1>3 DEF CoordinatorInv

\* What a worker that is not idle has in hand.
LEMMA BusyWorker ==
    ASSUME CoordinatorInv, NEW w \in Runners, runner[w].pc # "idle"
    PROVE  /\ runner[w] \in Worker /\ runner[w].job \in Revisions /\ runner[w].failures \in 0..Tries
           /\ runner[w].read \in 0..MaxRevision
           /\ flow \in Flow /\ flow.revision \in Revisions /\ flow.revision > 0
           /\ queued \subseteq [job : Revisions, failures : 0..Tries] /\ known \subseteq Revisions
<1>1. runner[w] \in Worker /\ flow \in Flow /\ runner[w].job > 0 /\ flow.revision > 0
  BY DEF CoordinatorInv, Live
<1>2. \A n \in 0..MaxRevision : n > 0 => n \in Revisions
  BY CoordinatorAssumption DEF Revisions
<1> QED  BY <1>1, <1>2 DEF Worker, Flow, CoordinatorInv, CoordinatorTypeOK

\* What the calls make of the state of a worker.
LEMMA WorkerStates ==
    /\ Idle \in Worker /\ Idle.pc = "idle"
    /\ \A s \in Worker, pc \in Occupied :
          /\ [s EXCEPT !.pc = pc] \in Worker /\ [s EXCEPT !.pc = pc].pc = pc
          /\ [s EXCEPT !.pc = pc].job = s.job
    /\ \A s \in Worker, pc \in Occupied, r \in 0..MaxRevision :
          /\ [s EXCEPT !.pc = pc, !.read = r] \in Worker /\ [s EXCEPT !.pc = pc, !.read = r].pc = pc
          /\ [s EXCEPT !.pc = pc, !.read = r].job = s.job /\ [s EXCEPT !.pc = pc, !.read = r].read = r
<1>1. Idle \in Worker /\ Idle.pc = "idle"
  BY CoordinatorAssumption DEF Idle, Worker
<1>2. ASSUME NEW s \in Worker, NEW pc \in Occupied
      PROVE  /\ [s EXCEPT !.pc = pc] \in Worker /\ [s EXCEPT !.pc = pc].pc = pc
             /\ [s EXCEPT !.pc = pc].job = s.job
  BY DEF Worker
<1>3. ASSUME NEW s \in Worker, NEW pc \in Occupied, NEW r \in 0..MaxRevision
      PROVE  /\ [s EXCEPT !.pc = pc, !.read = r] \in Worker /\ [s EXCEPT !.pc = pc, !.read = r].pc = pc
             /\ [s EXCEPT !.pc = pc, !.read = r].job = s.job /\ [s EXCEPT !.pc = pc, !.read = r].read = r
  BY DEF Worker
<1> QED  BY <1>1, <1>2, <1>3

LEMMA TakeSteps ==
    ASSUME CoordinatorInv, NEW w \in Runners, take(w)
    PROVE  CoordinatorInv'
<1>1. PICK q \in queued :
          /\ queued' = queued \ {q}
          /\ runner' = [runner EXCEPT ![w] = [pc |-> "read", job |-> q.job, failures |-> q.failures, read |-> 0]]
  BY DEF take
<1> DEFINE s == [pc |-> "read", job |-> q.job, failures |-> q.failures, read |-> 0]
<1>2. /\ q.job \in Revisions /\ q.failures \in 0..Tries /\ flow \in Flow /\ flow.revision > 0
      /\ queued' \subseteq [job : Revisions, failures : 0..Tries] /\ known \subseteq Revisions
  BY <1>1 DEF CoordinatorInv, CoordinatorTypeOK, Live
<1>3. s \in Worker /\ s.job > 0 /\ s.pc = "read"
  BY <1>2, CoordinatorAssumption DEF Worker, Occupied, Revisions
<1>4. transport' = transport /\ flow' = flow /\ known' = known
  BY DEF take
<1> HIDE DEF s
<1>5. runner' = [runner EXCEPT ![w] = s]
  BY <1>1 DEF s
<1> QED  BY <1>2, <1>3, <1>4, <1>5, WorkerStepKeeps

\* The calls that only read the row, or write it under the claim.
LEMMA RowSteps ==
    ASSUME CoordinatorInv, NEW w \in Runners,
           observe(w) \/ claim(w) \/ advance(w) \/ reload(w)
    PROVE  CoordinatorInv'
<1>1. /\ runner[w].pc \in {"read", "claim", "advance", "enqueue"}
      /\ transport' = transport /\ queued' = queued /\ known' = known
  BY DEF observe, claim, advance, reload
<1>2. /\ runner[w] \in Worker /\ runner[w].job \in Revisions /\ runner[w].job > 0
      /\ flow \in Flow /\ flow.revision \in Revisions /\ flow.revision > 0
      /\ flow.revision \in 0..MaxRevision
      /\ queued \subseteq [job : Revisions, failures : 0..Tries] /\ known \subseteq Revisions
  BY <1>1, BusyWorker DEF Revisions
<1>3. /\ flow' \in Flow /\ flow'.revision > 0
      /\ flow.revision + 1 \in 0..MaxRevision \/ flow' = flow
  <2>1. CASE observe(w) \/ reload(w)
    BY <1>2, <2>1 DEF observe, reload
  <2>2. CASE claim(w)
    <3>1. CASE flow' = flow
      BY <1>2, <3>1
    <3>2. CASE flow' # flow
      <4>1. /\ flow.revision < MaxRevision
            /\ flow' = [flow EXCEPT !.revision = flow.revision + 1, !.lease = w, !.state = "ready"]
        BY <2>2, <3>2 DEF claim
      <4>2. flow.revision + 1 \in 0..MaxRevision /\ flow.revision + 1 > 0
        BY <1>2, <4>1, CoordinatorAssumption DEF Revisions
      <4> QED  BY <1>2, <4>1, <4>2 DEF Flow
    <3> QED  BY <3>1, <3>2
  <2>3. CASE advance(w)
    <3>1. PICK s \in {"ready", "waiting", "terminal"} :
              flow' = [revision |-> flow.revision + 1, state |-> s, lease |-> "none"]
      BY <2>3 DEF advance
    <3>2. flow.revision + 1 \in 0..MaxRevision /\ flow.revision + 1 > 0
      BY <1>2, <2>3, CoordinatorAssumption DEF Revisions, advance
    <3> QED  BY <3>1, <3>2 DEF Flow
  <2> QED  BY <2>1, <2>2, <2>3
<1> DEFINE Fits(s) == /\ runner' = [runner EXCEPT ![w] = s] /\ (s.pc # "idle" => s.job > 0)
                      /\ (s.pc = "publish" => s.read > 0)
                      /\ s.pc # "idle" \/ flow'.state = "terminal"
<1>4. \E s \in Worker : Fits(s)
  <2>1. CASE runner' = [runner EXCEPT ![w] = Idle] /\ flow'.state = "terminal"
    BY <2>1, WorkerStates
  <2>2. CASE \E pc \in {"enqueue", "claim"} : runner' = [runner EXCEPT ![w] = [runner[w] EXCEPT !.pc = pc]]
    <3>1. PICK pc \in {"enqueue", "claim"} : runner' = [runner EXCEPT ![w] = [runner[w] EXCEPT !.pc = pc]]
      BY <2>2
    <3>2. pc \in Occupied /\ pc # "publish" /\ pc # "idle"
      BY DEF Occupied
    <3>3. Fits([runner[w] EXCEPT !.pc = pc])
      BY <1>2, <3>1, <3>2, WorkerStates
    <3> QED  BY <1>2, <3>2, <3>3, WorkerStates
  <2>3. CASE \E pc \in {"claim", "advance", "publish"} : \E r \in 1..MaxRevision :
                runner' = [runner EXCEPT ![w] = [runner[w] EXCEPT !.pc = pc, !.read = r]]
    <3>1. PICK pc \in {"claim", "advance", "publish"}, r \in 1..MaxRevision :
                runner' = [runner EXCEPT ![w] = [runner[w] EXCEPT !.pc = pc, !.read = r]]
      BY <2>3
    <3>2. pc \in Occupied /\ pc # "idle" /\ r \in 0..MaxRevision /\ r > 0
      BY CoordinatorAssumption DEF Occupied
    <3> DEFINE t == [runner[w] EXCEPT !.pc = pc, !.read = r]
    <3>3. t \in Worker /\ t.pc = pc /\ t.job = runner[w].job /\ t.read = r
      <4>1. runner[w] \in Worker
        BY <1>2
      <4> QED  BY <3>2, <4>1 DEF Worker
    <3>4. runner' = [runner EXCEPT ![w] = t]
      BY <3>1
    <3> HIDE DEF t
    <3> QED  BY <1>2, <3>2, <3>3, <3>4
  <2>4. CASE observe(w)
    <3>1. CASE flow.state = "terminal" /\ runner' = [runner EXCEPT ![w] = Idle]
      BY <2>1, <2>4, <3>1 DEF observe
    <3>2. CASE runner' = [runner EXCEPT ![w].pc = "enqueue"]
      BY <2>2, <3>2
    <3>3. CASE runner' = [runner EXCEPT ![w] = [@ EXCEPT !.pc = "claim", !.read = flow.revision]]
      <4>1. runner' = [runner EXCEPT ![w] = [runner[w] EXCEPT !.pc = "claim", !.read = flow.revision]]
        BY <3>3, Zenon
      <4> QED  BY <1>2, <2>3, <4>1 DEF Revisions
    <3> QED  BY <2>4, <3>1, <3>2, <3>3 DEF observe
  <2>5. CASE claim(w)
    <3>1. CASE flow.revision < MaxRevision /\ runner' = [runner EXCEPT ![w] = [@ EXCEPT !.pc = "advance", !.read = flow.revision + 1]]
      <4>1. flow.revision + 1 \in 1..MaxRevision
        BY <1>2, <3>1, CoordinatorAssumption
      <4>2. runner' = [runner EXCEPT ![w] = [runner[w] EXCEPT !.pc = "advance", !.read = flow.revision + 1]]
        BY <3>1, Zenon
      <4> QED  BY <2>3, <4>1, <4>2
    <3>2. CASE flow.state = "terminal" /\ flow' = flow /\ runner' = [runner EXCEPT ![w] = Idle]
      BY <2>1, <3>2
    <3>3. CASE runner' = [runner EXCEPT ![w] = [runner[w] EXCEPT !.pc = "enqueue"]]
      BY <2>2, <3>3
    <3> QED  BY <2>5, <3>1, <3>2, <3>3 DEF claim
  <2>6. CASE advance(w)
    <3>1. PICK s \in {"ready", "waiting", "terminal"} :
              /\ flow' = [revision |-> flow.revision + 1, state |-> s, lease |-> "none"]
              /\ runner' = [runner EXCEPT ![w] = IF s = "terminal" THEN Idle ELSE [@ EXCEPT !.pc = "enqueue"]]
      BY <2>6 DEF advance
    <3>2. CASE s = "terminal"
      BY <2>1, <3>1, <3>2
    <3>3. CASE s # "terminal"
      BY <2>2, <3>1, <3>3
    <3> QED  BY <3>2, <3>3
  <2>7. CASE reload(w)
    <3>1. CASE flow.state = "terminal"
      BY <2>1, <2>7, <3>1 DEF reload
    <3>2. CASE flow.state # "terminal"
      <4>1. runner' = [runner EXCEPT ![w] = [runner[w] EXCEPT !.pc = "publish", !.read = flow.revision]]
        BY <2>7, <3>2 DEF reload
      <4> QED  BY <1>2, <2>3, <4>1 DEF Revisions
    <3> QED  BY <3>1, <3>2
  <2> QED  BY <2>4, <2>5, <2>6, <2>7
<1>5. PICK s \in Worker : Fits(s)
  BY <1>4
<1> QED  BY <1>1, <1>2, <1>3, <1>5, WorkerStepKeeps

\* A job that ends has been published again, or is tried again, or its tries are used up.
LEMMA EndSteps ==
    ASSUME CoordinatorInv, NEW w \in Runners,
           publish(w) \/ jobFails(w) \/ workerCrashes(w)
    PROVE  CoordinatorInv'
<1>1. runner[w].pc # "idle" /\ runner' = [runner EXCEPT ![w] = Idle] /\ transport' = transport /\ flow' = flow
  BY DEF publish, jobFails, workerCrashes, Occupied
<1>2. /\ runner[w] \in Worker /\ runner[w].job \in Revisions /\ runner[w].failures \in 0..Tries
      /\ runner[w].read \in 0..MaxRevision /\ flow \in Flow /\ flow.revision > 0
      /\ queued \subseteq [job : Revisions, failures : 0..Tries] /\ known \subseteq Revisions
  BY <1>1, BusyWorker
<1>3. /\ queued' \subseteq [job : Revisions, failures : 0..Tries] /\ known' \subseteq Revisions
      /\ queued' # {} \/ dropped' \/ swallowed'
  <2>1. CASE publish(w)
    <3>1. runner[w].read \in Revisions /\ Add(runner[w].read)
      <4>1. runner[w].read > 0 /\ Add(runner[w].read)
        BY <2>1 DEF publish, CoordinatorInv
      <4> QED  BY <1>2, <4>1, CoordinatorAssumption DEF Revisions
    <3> QED  BY <3>1, AddFits
  <2>2. CASE jobFails(w)
    <3>1. Retried(w) /\ known' = known
      BY <2>2 DEF jobFails
    <3>2. CASE runner[w].failures + 1 < Tries
      <4>1. queued' = queued \union {[job |-> runner[w].job, failures |-> runner[w].failures + 1]}
        BY <3>1, <3>2 DEF Retried
      <4>2. runner[w].failures + 1 \in 0..Tries
        BY <1>2, <3>2, CoordinatorAssumption
      <4>3. [job |-> runner[w].job, failures |-> runner[w].failures + 1] \in [job : Revisions, failures : 0..Tries]
        BY <1>2, <4>2
      <4> QED  BY <1>2, <3>1, <4>1, <4>3
    <3>3. CASE ~(runner[w].failures + 1 < Tries)
      BY <1>2, <3>1, <3>3 DEF Retried
    <3> QED  BY <3>2, <3>3
  <2>3. CASE workerCrashes(w)
    <3>1. [job |-> runner[w].job, failures |-> runner[w].failures] \in [job : Revisions, failures : 0..Tries]
      BY <1>2
    <3> QED  BY <1>2, <2>3, <3>1 DEF workerCrashes
  <2> QED  BY <2>1, <2>2, <2>3
<1> QED  BY <1>1, <1>2, <1>3, WorkerStates, WorkerStepKeeps

\* The steps outside of the workers.
LEMMA OutsideSteps ==
    ASSUME CoordinatorInv, start \/ leaseExpires \/ reconcile
    PROVE  CoordinatorInv'
<1>1. runner' = runner /\ transport' = transport /\ flow \in Flow /\ CoordinatorTypeOK
  BY DEF start, leaseExpires, reconcile, CoordinatorInv
<1>2. CASE start
  <2>1. /\ flow' = [flow EXCEPT !.revision = 1]
        /\ (Add(1) /\ UNCHANGED <<dropped, mishaps>>) \/ (dropped' = TRUE /\ UNCHANGED <<queued, known, swallowed>>)
    BY <1>2 DEF start
  <2>2. CASE 1 \in Revisions
    <3>1. flow' \in Flow /\ flow'.revision = 1
      BY <1>1, <2>1, <2>2 DEF Flow, Revisions
    <3>2. /\ queued' \subseteq [job : Revisions, failures : 0..Tries] /\ known' \subseteq Revisions
          /\ queued' # {} \/ swallowed' \/ dropped'
      BY <1>1, <2>1, <2>2, AddFits DEF CoordinatorTypeOK
    <3>3. CoordinatorTypeOK'
      BY <1>1, <3>1, <3>2 DEF CoordinatorTypeOK, Flow
    <3> QED  BY <1>1, <3>1, <3>2, <3>3 DEF CoordinatorInv, WorkflowsKeepTheirJob, Live
  <2> QED  BY <2>2, CoordinatorAssumption DEF Revisions
<1>3. CASE leaseExpires
  <2>1. /\ flow' = [flow EXCEPT !.lease = "none"] /\ queued' = queued /\ known' = known
        /\ swallowed' = swallowed /\ dropped' = dropped
    BY <1>3 DEF leaseExpires
  <2>2. flow' \in Flow /\ flow'.revision = flow.revision /\ flow'.state = flow.state
    BY <1>1, <2>1 DEF Flow
  <2>3. CoordinatorTypeOK'
    BY <1>1, <2>1, <2>2 DEF CoordinatorTypeOK, Flow
  <2> QED  BY <1>1, <2>1, <2>2, <2>3 DEF CoordinatorInv, WorkflowsKeepTheirJob, Live, Unfinished
<1>4. CASE reconcile
  <2>1. /\ Add(flow.revision) /\ flow' = flow /\ flow.revision \in Revisions /\ flow.revision > 0
    BY <1>1, <1>4, CoordinatorAssumption DEF reconcile, Flow, Revisions
  <2>2. /\ queued' \subseteq [job : Revisions, failures : 0..Tries] /\ known' \subseteq Revisions
        /\ queued' # {} \/ swallowed'
    BY <2>1, AddFits
  <2>3. CoordinatorTypeOK'
    BY <1>1, <2>1, <2>2 DEF CoordinatorTypeOK
  <2> QED  BY <1>1, <2>1, <2>2, <2>3 DEF CoordinatorInv, WorkflowsKeepTheirJob, Live
<1> QED  BY <1>2, <1>3, <1>4

\* WorkflowCoordinator, packages/workflows-queue/src/WorkflowCoordinator.ts: a workflow that is
\* not terminal is in the hands of a job or a worker, unless its publication was cut off, a job
\* used up its tries or an add met an id that was taken.
THEOREM WorkflowsAlwaysKeepTheirJob == CoordinatorSpec => [](CoordinatorTypeOK /\ WorkflowsKeepTheirJob)
<1>1. CoordinatorInit => CoordinatorInv
  <2> SUFFICES ASSUME CoordinatorInit PROVE CoordinatorInv
    OBVIOUS
  <2>1. flow \in Flow /\ runner \in [Runners -> Worker] /\ \A w \in Runners : runner[w].pc = "idle"
    <3>1. 0 \in 0..MaxRevision
      BY CoordinatorAssumption
    <3> QED  BY <3>1, WorkerStates DEF CoordinatorInit, Flow
  <2>2. queued = {} /\ known = {} /\ transport \in Transports /\ flow.revision = 0
    BY DEF CoordinatorInit
  <2>3. CoordinatorTypeOK /\ ~Live
    BY <2>1, <2>2 DEF CoordinatorTypeOK, Flow, Live
  <2> QED  BY <2>1, <2>2, <2>3 DEF CoordinatorInv, WorkflowsKeepTheirJob, Unfinished
<1>2. CoordinatorInv /\ [CoordinatorNext]_coordinatorVars => CoordinatorInv'
  <2>1. ASSUME CoordinatorInv, CoordinatorNext PROVE CoordinatorInv'
    BY <2>1, TakeSteps, RowSteps, EndSteps, OutsideSteps DEF CoordinatorNext
  <2>2. ASSUME CoordinatorInv, UNCHANGED coordinatorVars PROVE CoordinatorInv'
    BY <2>2 DEF CoordinatorInv, CoordinatorTypeOK, WorkflowsKeepTheirJob, Live, Unfinished, coordinatorVars
  <2> QED  BY <2>1, <2>2
<1>3. CoordinatorInv => CoordinatorTypeOK /\ WorkflowsKeepTheirJob
  BY DEF CoordinatorInv
<1> QED  BY <1>1, <1>2, <1>3, PTL DEF CoordinatorSpec
==============================================================================
