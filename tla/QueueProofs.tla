---------------------------- MODULE QueueProofs ----------------------------
(***************************************************************************)
(* Proofs about InMemoryQueue, for any jobs, queues, chains, batches and    *)
(* ids.  An entry moves on its own; what ties entries together are the      *)
(* ready lists of the microtasks, the chain, the batch and the              *)
(* reservations, and each has a part of the invariant of its own.           *)
(***************************************************************************)
EXTENDS InMemoryQueue, FiniteSetTheorems, TLAPS

Live == {"delayed", "ready", "running"}
Waiting == {"new", "unused"}
Keyed == {j \in Jobs : KeyOf[j] # None}

\* An entry that is waiting to run has an attempt left, one that runs has taken it.
EntryFits(j, e) ==
    /\ e \in Entry /\ e.attempt <= TriesOf[j] /\ e.releases <= ReleasesOf[j]
    /\ e.state \in {"new", "delayed", "ready"} => e.attempt < TriesOf[j]
    /\ e.state = "running" => e.attempt >= 1

EntriesFit == job \in [Jobs -> Entry] /\ \A j \in Jobs : EntryFits(j, job[j])

ListsAreSound ==
    /\ scheduled \subseteq Queues /\ due \subseteq Jobs
    /\ turn \in {"loop", "drain", "handler"} /\ (turn = "loop" <=> due = {})
    /\ ReadyIsScheduled

\* A step of a chain is not touched before the step in front of it succeeds.
FollowersWait ==
    \A j \in Jobs : NextOf[j] # None =>
        /\ job[j].state # "succeeded" => job[NextOf[j]].state \in Waiting
        /\ job[j].state # "unused" => job[NextOf[j]].state # "unused"

\* The children enter together, and nothing is counted before.
ChildrenEnterTogether ==
    \/ /\ \A c \in Children : job[c].state \in Waiting
       /\ ~batch.known /\ batch.succeeded = 0 /\ batch.failed = 0 /\ batch.cancelled = 0
    \/ \A c \in Children : job[c].state \notin Waiting
BatchIsSound == batch \in Batch /\ ChildrenEnterTogether /\ ChildrenCountedOnce

ReservationsAreSound ==
    /\ reserved \subseteq Keyed /\ lapsed \subseteq reserved \cap Expiring
    /\ cleared \subseteq Jobs /\ \A j \in cleared : job[j].state \notin Waiting
    /\ DeduplicationIsExclusive

QueueInv ==
    /\ EntriesFit /\ ListsAreSound /\ FollowersWait /\ BatchIsSound /\ ReservationsAreSound
    /\ clears \in 0 .. MaxClears

\* The two action properties, for one step.
OwnedStep ==
    /\ \A j \in reserved \ reserved' :
          \/ j \in lapsed
          \/ clears' # clears
          \/ job[j].state = "running" /\ job'[j].state # "running"
    /\ \A j \in Jobs :
          /\ job[j].state \in Ended => job'[j] = job[j]
          /\ CancelRequested(j) /\ job'[j].state = "running" => job[j].state = "running"

(***************************************************************************)
(* What keeps each part.                                                   *)
(***************************************************************************)
LEMMA JobChanges ==
    ASSUME job \in [Jobs -> Entry], NEW j \in Jobs
    PROVE  /\ job[j] \in Entry
           /\ \A e \in Entry : /\ [job EXCEPT ![j] = e] \in [Jobs -> Entry]
                               /\ [job EXCEPT ![j] = e][j] = e
                               /\ \A i \in Jobs : i # j => [job EXCEPT ![j] = e][i] = job[i]
  OBVIOUS

\* #enqueue puts an entry into #pending, and one that is ready has a microtask.
LEMMA EnqueueSteps ==
    ASSUME NEW js \in SUBSET Jobs, NEW entries \in [Jobs -> Entry], Enqueue(js, entries), scheduled \subseteq Queues
    PROVE  /\ job' \in [Jobs -> Entry] /\ scheduled \subseteq scheduled' /\ scheduled' \subseteq Queues
           /\ \A i \in Jobs \ js : job'[i] = entries[i]
           /\ \A i \in js : /\ job'[i].state \in {"delayed", "ready"} /\ job'[i].attempt = entries[i].attempt
                            /\ job'[i].releases = entries[i].releases
                            /\ job'[i].state = "ready" => QueueOf[i] \in scheduled'
<1>1. PICK late \in SUBSET (js \cap Late) :
        /\ job' = [j \in Jobs |-> IF j \notin js THEN entries[j]
                     ELSE [entries[j] EXCEPT !.state = IF j \in late THEN "delayed" ELSE "ready"]]
        /\ scheduled' = scheduled \cup {QueueOf[j] : j \in js \ late}
  BY DEF Enqueue
<1> DEFINE put(j) == [entries[j] EXCEPT !.state = IF j \in late THEN "delayed" ELSE "ready"]
<1>2. \A j \in Jobs : /\ put(j) \in Entry /\ put(j).state \in {"delayed", "ready"}
                      /\ put(j).attempt = entries[j].attempt /\ put(j).releases = entries[j].releases
                      /\ put(j).state = "ready" => j \notin late
  BY DEF Entry, Alive
<1>3. job' = [j \in Jobs |-> IF j \notin js THEN entries[j] ELSE put(j)]
  BY <1>1
<1> HIDE DEF put
<1>4. /\ job' \in [Jobs -> Entry] /\ \A i \in Jobs \ js : job'[i] = entries[i]
      /\ \A i \in js : job'[i] = put(i)
  BY <1>2, <1>3
<1>5. scheduled \subseteq scheduled' /\ scheduled' \subseteq Queues
  BY <1>1, QueueAssumption
<1>6. \A i \in js : i \notin late => QueueOf[i] \in scheduled'
  BY <1>1
<1> QED  BY <1>2, <1>4, <1>5, <1>6

LEMMA EnqueueOne ==
    ASSUME NEW j \in Jobs, NEW entries \in [Jobs -> Entry], Enqueue({j}, entries), scheduled \subseteq Queues
    PROVE  /\ job' \in [Jobs -> Entry] /\ scheduled \subseteq scheduled' /\ scheduled' \subseteq Queues
           /\ \A i \in Jobs : i # j => job'[i] = entries[i]
           /\ job'[j].state \in {"delayed", "ready"} /\ job'[j].attempt = entries[j].attempt
           /\ job'[j].releases = entries[j].releases /\ (job'[j].state = "ready" => QueueOf[j] \in scheduled')
<1>1. {j} \in SUBSET Jobs /\ j \in {j} /\ \A i \in Jobs : i # j => i \in Jobs \ {j}
  OBVIOUS
<1>2. /\ job' \in [Jobs -> Entry] /\ scheduled \subseteq scheduled' /\ scheduled' \subseteq Queues
      /\ \A i \in Jobs \ {j} : job'[i] = entries[i]
      /\ \A i \in {j} : /\ job'[i].state \in {"delayed", "ready"} /\ job'[i].attempt = entries[i].attempt
                         /\ job'[i].releases = entries[i].releases
                         /\ (job'[i].state = "ready" => QueueOf[i] \in scheduled')
  BY <1>1, EnqueueSteps
<1>3. /\ job'[j].state \in {"delayed", "ready"} /\ job'[j].attempt = entries[j].attempt
      /\ job'[j].releases = entries[j].releases /\ (job'[j].state = "ready" => QueueOf[j] \in scheduled')
  BY <1>1, <1>2, Zenon
<1>4. \A i \in Jobs : i # j => job'[i] = entries[i]
  BY <1>1, <1>2, Zenon
<1> QED  BY <1>2, <1>3, <1>4

LEMMA ListsKept ==
    ASSUME ListsAreSound, UNCHANGED <<due, turn>>, scheduled \subseteq scheduled', scheduled' \subseteq Queues,
           \A j \in Jobs : job'[j].state = "ready" => job[j].state = "ready" \/ QueueOf[j] \in scheduled'
    PROVE  ListsAreSound'
  BY DEF ListsAreSound, ReadyIsScheduled, In

LEMMA FollowersKept ==
    ASSUME FollowersWait,
           \A f \in Followers : job[f].state \in Waiting => job'[f].state = job[f].state,
           \A j \in Jobs : /\ job[j].state = "succeeded" => job'[j].state = "succeeded"
                           /\ job[j].state = "unused" <=> job'[j].state = "unused"
    PROVE  FollowersWait'
<1> SUFFICES ASSUME NEW j \in Jobs, NextOf[j] # None
             PROVE  /\ job'[j].state # "succeeded" => job'[NextOf[j]].state \in Waiting
                    /\ job'[j].state # "unused" => job'[NextOf[j]].state # "unused"
  BY DEF FollowersWait
<1>1. NextOf[j] \in Followers /\ NextOf[j] \in Jobs
  BY QueueAssumption DEF Followers
<1>2. /\ job[j].state # "succeeded" => job[NextOf[j]].state \in Waiting
      /\ job[j].state # "unused" => job[NextOf[j]].state # "unused"
  BY DEF FollowersWait
<1> QED  BY <1>1, <1>2

LEMMA ChildrenKept ==
    ASSUME BatchIsSound, batch' \in Batch, batch'.known => batch.known,
           batch'.succeeded = batch.succeeded, batch'.failed = batch.failed, batch'.cancelled = batch.cancelled,
           \A c \in Children : job[c].state \in Waiting <=> job'[c].state \in Waiting,
           batch'.known => \A c \in Children : job[c].state \in Alive <=> job'[c].state \in Alive
    PROVE  BatchIsSound'
<1>1. ChildrenEnterTogether'
  BY DEF BatchIsSound, ChildrenEnterTogether, Batch
<1>2. ChildrenCountedOnce'
  <2> SUFFICES ASSUME batch'.known PROVE batch'.succeeded + batch'.failed + batch'.cancelled
                                              = Cardinality((Children \ In(Alive))')
    BY DEF ChildrenCountedOnce
  <2>1. (Children \ In(Alive))' = Children \ In(Alive)
    BY QueueAssumption DEF In
  <2> QED  BY <2>1 DEF BatchIsSound, ChildrenCountedOnce
<1> QED  BY <1>1, <1>2 DEF BatchIsSound

LEMMA ReservationsKept ==
    ASSUME ReservationsAreSound, cleared' = cleared, reserved' \subseteq Keyed, lapsed' \subseteq reserved' \cap Expiring,
           \A j \in Jobs : job'[j].state \in Waiting => job[j].state \in Waiting,
           \A j \in Keyed : job'[j].state \in Live => job[j].state \in Live,
           \A j \in Keyed \ Expiring : j \in reserved' <=> j \in reserved /\ job'[j].state \in Live
    PROVE  ReservationsAreSound'
<1>1. \A i, j \in Jobs : job'[i].state \in Live /\ job'[j].state \in Live /\ i # j
                         /\ KeyOf[i] # None /\ Slot(i) = Slot(j)
                           => {i, j} \cap cleared # {} \/ {i, j} \cap Expiring # {}
  <2> SUFFICES ASSUME NEW i \in Jobs, NEW j \in Jobs, job'[i].state \in Live, job'[j].state \in Live, i # j,
                      KeyOf[i] # None, Slot(i) = Slot(j)
               PROVE  {i, j} \cap cleared # {} \/ {i, j} \cap Expiring # {}
    OBVIOUS
  <2>1. i \in Keyed /\ j \in Keyed
    BY DEF Slot, Keyed
  <2>2. job[i].state \in Live /\ job[j].state \in Live
    BY <2>1
  <2>3. \A a, b \in {k \in Jobs : job[k].state \in Live} :
           a # b /\ KeyOf[a] # None /\ Slot(a) = Slot(b) =>
              {a, b} \cap cleared # {} \/ {a, b} \cap Expiring # {}
    BY DEF ReservationsAreSound, DeduplicationIsExclusive, Live, In
  <2> QED  BY <2>2, <2>3
<1>2. \A j \in Keyed \ Expiring : j \in reserved' <=> job'[j].state \in Live /\ j \notin cleared
  BY DEF ReservationsAreSound, DeduplicationIsExclusive, Live, Keyed
<1>3. DeduplicationIsExclusive'
  BY <1>1, <1>2 DEF DeduplicationIsExclusive, Live, Keyed, In, Slot
<1> QED  BY <1>3 DEF ReservationsAreSound

\* Entries move that are alive, or that a caller creates.
LEMMA EntriesMove ==
    ASSUME QueueInv, job' \in [Jobs -> Entry],
           \A i \in Jobs : job'[i] # job[i] =>
               /\ EntryFits(i, job'[i]) /\ job'[i].state \notin Waiting
               /\ job[i].state \in Alive \/ (job[i].state = "new" /\ i \notin Followers)
    PROVE  /\ EntriesFit' /\ FollowersWait'
           /\ \A i \in Jobs : job[i].state \in Ended => job'[i] = job[i]
           /\ \A i \in Jobs : job'[i].state \in Waiting => job[i].state \in Waiting
<1>1. EntriesFit'
  BY DEF QueueInv, EntriesFit
<1>2. FollowersWait'
  <2>1. \A f \in Followers : f \in Jobs
    BY QueueAssumption DEF Followers
  <2>2. \A f \in Followers : job[f].state \in Waiting => job'[f].state = job[f].state
    BY <2>1 DEF Waiting, Alive
  <2>3. \A i \in Jobs : /\ job[i].state = "succeeded" => job'[i].state = "succeeded"
                        /\ job[i].state = "unused" <=> job'[i].state = "unused"
    BY DEF Alive, Waiting
  <2> QED  BY <2>2, <2>3, FollowersKept DEF QueueInv
<1>3. \A i \in Jobs : job[i].state \in Ended => job'[i] = job[i]
  BY DEF Alive, Ended
<1> QED  BY <1>1, <1>2, <1>3

\* One entry moves.
LEMMA EntryMoves ==
    ASSUME QueueInv, NEW j \in Jobs, NEW e, EntryFits(j, e), job' = [job EXCEPT ![j] = e],
           job[j].state \in Alive \/ (job[j].state = "new" /\ j \notin Followers), e.state \notin Waiting
    PROVE  /\ EntriesFit' /\ FollowersWait' /\ e \in Entry
           /\ job'[j] = e /\ \A i \in Jobs : i # j => job'[i] = job[i]
           /\ \A i \in Jobs : job[i].state \in Ended => job'[i] = job[i]
           /\ \A i \in Jobs : job'[i].state \in Waiting => job[i].state \in Waiting
<1>1. e \in Entry /\ job \in [Jobs -> Entry]
  BY DEF QueueInv, EntriesFit, EntryFits
<1>2. /\ job' \in [Jobs -> Entry] /\ job'[j] = e
      /\ \A i \in Jobs : i # j => job'[i] = job[i]
  BY <1>1
<1> QED  BY <1>1, <1>2, EntriesMove

\* What holds of an entry that is alive or new.
LEMMA EntryFacts ==
    ASSUME QueueInv, NEW j \in Jobs
    PROVE  /\ job \in [Jobs -> Entry] /\ job[j] \in Entry /\ EntryFits(j, job[j])
           /\ TriesOf[j] \in Nat \ {0} /\ ReleasesOf[j] \in Nat /\ QueueOf[j] \in Queues
           /\ job[j].attempt \in Nat /\ job[j].releases \in Nat
           /\ job[j].state \in {"new"} \cup Alive \cup Ended
           /\ scheduled \subseteq Queues /\ batch \in Batch
  BY QueueAssumption DEF QueueInv, EntriesFit, Entry, ListsAreSound, BatchIsSound

LEMMA HeldIsLive ==
    ASSUME QueueInv, NEW j \in Keyed \ Expiring
    PROVE  j \in reserved <=> job[j].state \in Live /\ j \notin cleared
  BY DEF QueueInv, ReservationsAreSound, DeduplicationIsExclusive, Live, Keyed

\* Members of chains and batches have no id.
LEMMA KeylessMembers ==
    /\ \A j \in Children : j \in Jobs /\ j \notin Keyed /\ j \notin Followers /\ NextOf[j] = None
    /\ \A j \in Jobs : NextOf[j] # None => j \notin Keyed /\ j \notin Children
    /\ \A j \in Followers : j \in Jobs /\ j \notin Keyed /\ j \notin Children
<1>1. \A j \in Children \cup Followers : j \in Jobs
  BY QueueAssumption DEF Followers
<1>2. \A j \in Children \cup Followers \cup {i \in Jobs : NextOf[i] # None} : KeyOf[j] = None
  BY QueueAssumption
<1>3. Children \cap (Followers \cup {j \in Jobs : NextOf[j] # None}) = {}
  BY QueueAssumption
<1> QED  BY <1>1, <1>2, <1>3 DEF Keyed

\* An entry that ended fits.
LEMMA GoneFits ==
    ASSUME NEW j \in Jobs, NEW state \in Ended \ {"unused"}
    PROVE  EntryFits(j, Gone(state)) /\ Gone(state).state = state /\ state \notin Waiting /\ state \notin Live
           /\ state \notin Alive
<1>1. TriesOf[j] \in Nat /\ ReleasesOf[j] \in Nat
  BY QueueAssumption
<1> QED  BY <1>1 DEF EntryFits, Gone, Entry, Ended, Waiting, Live, Alive

(***************************************************************************)
(* The public methods.                                                     *)
(***************************************************************************)
LEMMA PushSteps ==
    ASSUME QueueInv, NEW j \in Jobs, Push(j)
    PROVE  QueueInv' /\ OwnedStep
<1>1. /\ EntryFits(j, job[j]) /\ job \in [Jobs -> Entry] /\ job[j].state = "new" /\ j \notin Children
      /\ j \notin Followers /\ Deduplicated(j) = {} /\ Enqueue({j}, job) /\ scheduled \subseteq Queues
      /\ UNCHANGED <<due, turn, batch, cleared, clears>>
  BY EntryFacts DEF Push
<1>2. /\ job' \in [Jobs -> Entry] /\ scheduled \subseteq scheduled' /\ scheduled' \subseteq Queues
      /\ \A i \in Jobs : i # j => job'[i] = job[i]
      /\ job'[j].state \in {"delayed", "ready"} /\ job'[j].attempt = job[j].attempt
      /\ job'[j].releases = job[j].releases /\ (job'[j].state = "ready" => QueueOf[j] \in scheduled')
  BY <1>1, EnqueueOne
<1>3. EntryFits(j, job'[j])
  BY <1>1, <1>2 DEF EntryFits
<1>4. /\ EntriesFit' /\ FollowersWait'
      /\ \A i \in Jobs : job[i].state \in Ended => job'[i] = job[i]
      /\ \A i \in Jobs : job'[i].state \in Waiting => job[i].state \in Waiting
  <2>1. job'[j].state \notin Waiting
    BY <1>2 DEF Waiting
  <2> QED  BY <1>1, <1>2, <1>3, <2>1, EntriesMove
<1>5. ListsAreSound'
  BY <1>1, <1>2, ListsKept DEF QueueInv
<1>6. BatchIsSound'
  BY <1>1, <1>2, ChildrenKept, KeylessMembers DEF QueueInv, BatchIsSound
<1>7. ReservationsAreSound' /\ \A i \in reserved \ reserved' : i \in lapsed
  <2>0. /\ reserved \subseteq Keyed /\ lapsed \subseteq reserved \cap Expiring /\ j \notin cleared
        /\ cleared \subseteq Jobs /\ \A i \in cleared : job[i].state \notin Waiting
    BY <1>1 DEF QueueInv, ReservationsAreSound, Waiting
  <2>1. CASE KeyOf[j] = None
    <3>1. reserved' = reserved /\ lapsed' = lapsed /\ j \notin Keyed
      BY <2>1 DEF Push, Keyed
    <3> QED  BY <1>1, <1>2, <1>4, <2>0, <3>1, ReservationsKept, HeldIsLive DEF QueueInv, Keyed
  <2>2. CASE KeyOf[j] # None
    <3> DEFINE others == {h \in reserved : Slot(h) # Slot(j)}
    <3>1. reserved' = others \cup {j} /\ lapsed' = lapsed \cap others /\ j \in Keyed
      BY <2>2 DEF Push, Keyed
    <3>2. \A h \in reserved : Slot(h) = Slot(j) => h \in lapsed
      BY <1>1, <2>2 DEF Deduplicated
    <3>3. \A i \in Keyed \ Expiring : i # j => (i \in reserved' <=> i \in reserved)
      BY <2>0, <3>1, <3>2
    <3>4. \A i \in Keyed \ Expiring : i \in reserved' <=> job'[i].state \in Live /\ i \notin cleared
      BY <1>2, <2>0, <3>1, <3>3, HeldIsLive DEF Live, Keyed
    <3>5. \A i \in Jobs : i # j /\ job[i].state \in Live /\ Slot(i) = Slot(j) => i \in cleared \/ i \in Expiring
      <4> SUFFICES ASSUME NEW i \in Jobs, i # j, job[i].state \in Live, Slot(i) = Slot(j), i \notin cleared, i \notin Expiring
                   PROVE  FALSE
        OBVIOUS
      <4>1. i \in Keyed \ Expiring
        BY <2>2 DEF Keyed, Slot
      <4>2. i \in reserved
        BY <4>1, HeldIsLive
      <4> QED  BY <2>0, <3>2, <4>2
    <3>6. \A a, b \in Jobs : job[a].state \in Live /\ job[b].state \in Live /\ a # b /\ KeyOf[a] # None /\ Slot(a) = Slot(b)
             => {a, b} \cap cleared # {} \/ {a, b} \cap Expiring # {}
      BY DEF QueueInv, ReservationsAreSound, DeduplicationIsExclusive, Live, In
    <3>7. \A a, b \in Jobs : job'[a].state \in Live /\ job'[b].state \in Live /\ a # b /\ KeyOf[a] # None /\ Slot(a) = Slot(b)
             => {a, b} \cap cleared # {} \/ {a, b} \cap Expiring # {}
      BY <1>2, <3>5, <3>6
    <3>8. DeduplicationIsExclusive'
      BY <1>1, <3>4, <3>7 DEF DeduplicationIsExclusive, Live, Keyed, In, Slot
    <3>9. reserved' \subseteq Keyed /\ lapsed' \subseteq reserved' \cap Expiring
      BY <2>0, <3>1
    <3>10. \A i \in cleared' : job'[i].state \notin Waiting
      BY <1>1, <1>4, <2>0
    <3>11. ReservationsAreSound'
      BY <1>1, <2>0, <3>8, <3>9, <3>10 DEF ReservationsAreSound
    <3> QED  BY <3>1, <3>2, <3>11
  <2> QED  BY <2>1, <2>2
<1>8. OwnedStep
  BY <1>2, <1>4, <1>7 DEF OwnedStep
<1> QED  BY <1>1, <1>4, <1>5, <1>6, <1>7, <1>8 DEF QueueInv

LEMMA PushDuplicateSteps ==
    ASSUME QueueInv, NEW j \in Jobs, PushDuplicate(j)
    PROVE  QueueInv' /\ OwnedStep
<1> DEFINE e == [job[j] EXCEPT !.state = "duplicate"]
<1>1. /\ job[j] \in Entry /\ EntryFits(j, job[j]) /\ job[j].state = "new" /\ job' = [job EXCEPT ![j] = e]
      /\ UNCHANGED <<scheduled, due, turn, reserved, lapsed, batch, cleared, clears>>
      /\ KeyOf[j] # None /\ scheduled \subseteq Queues
  BY EntryFacts DEF PushDuplicate, Move, Deduplicated
<1>2. EntryFits(j, e) /\ e.state = "duplicate"
  BY <1>1 DEF EntryFits, Entry, Ended
<1> HIDE DEF e
<1>3. j \in Keyed /\ j \notin Followers /\ j \notin Children
  BY <1>1, KeylessMembers DEF Keyed
<1>4. /\ EntriesFit' /\ FollowersWait' /\ job'[j] = e /\ \A i \in Jobs : i # j => job'[i] = job[i]
      /\ \A i \in Jobs : job[i].state \in Ended => job'[i] = job[i]
      /\ \A i \in Jobs : job'[i].state \in Waiting => job[i].state \in Waiting
  BY <1>1, <1>2, <1>3, EntryMoves DEF Waiting
<1>5. ListsAreSound'
  <2>1. \A i \in Jobs : job'[i].state = "ready" => job[i].state = "ready"
    BY <1>2, <1>4
  <2> QED  BY <1>1, <2>1, ListsKept DEF QueueInv
<1>6. BatchIsSound'
  BY <1>1, <1>3, <1>4, ChildrenKept, KeylessMembers DEF QueueInv, BatchIsSound
<1>7. ReservationsAreSound'
  <2>1. \A i \in Keyed : job'[i].state \in Live => job[i].state \in Live
    BY <1>2, <1>4 DEF Live, Keyed
  <2>2. \A i \in Keyed \ Expiring : i \in reserved' <=> i \in reserved /\ job'[i].state \in Live
    <3>1. \A i \in Keyed \ Expiring : i \in reserved => job[i].state \in Live
      BY HeldIsLive
    <3>2. j \in Keyed \ Expiring => j \notin reserved
      BY <1>1, <3>1 DEF Live
    <3> QED  BY <1>1, <1>4, <3>1, <3>2 DEF Keyed
  <2> QED  BY <1>1, <1>4, <2>1, <2>2, ReservationsKept DEF QueueInv, ReservationsAreSound
<1>8. OwnedStep
  BY <1>1, <1>2, <1>4 DEF OwnedStep
<1> QED  BY <1>1, <1>4, <1>5, <1>6, <1>7, <1>8 DEF QueueInv

LEMMA ChainSteps ==
    ASSUME QueueInv, NEW j \in Jobs, Chain(j)
    PROVE  QueueInv' /\ OwnedStep
<1>1. /\ EntryFits(j, job[j]) /\ job \in [Jobs -> Entry] /\ job[j].state = "new" /\ NextOf[j] # None
      /\ j \notin Followers /\ Enqueue({j}, job) /\ scheduled \subseteq Queues
      /\ UNCHANGED <<due, turn, reserved, lapsed, batch, cleared, clears>>
      /\ j \notin Keyed /\ j \notin Children
  BY EntryFacts, KeylessMembers DEF Chain
<1>2. /\ job' \in [Jobs -> Entry] /\ scheduled \subseteq scheduled' /\ scheduled' \subseteq Queues
      /\ \A i \in Jobs : i # j => job'[i] = job[i]
      /\ job'[j].state \in {"delayed", "ready"} /\ job'[j].attempt = job[j].attempt
      /\ job'[j].releases = job[j].releases /\ (job'[j].state = "ready" => QueueOf[j] \in scheduled')
  BY <1>1, EnqueueOne
<1>3. EntryFits(j, job'[j])
  BY <1>1, <1>2 DEF EntryFits
<1>4. /\ EntriesFit' /\ FollowersWait'
      /\ \A i \in Jobs : job[i].state \in Ended => job'[i] = job[i]
      /\ \A i \in Jobs : job'[i].state \in Waiting => job[i].state \in Waiting
  <2>1. job'[j].state \notin Waiting
    BY <1>2 DEF Waiting
  <2> QED  BY <1>1, <1>2, <1>3, <2>1, EntriesMove
<1>5. ListsAreSound'
  BY <1>1, <1>2, ListsKept DEF QueueInv
<1>6. BatchIsSound'
  BY <1>1, <1>2, ChildrenKept, KeylessMembers DEF QueueInv, BatchIsSound
<1>7. ReservationsAreSound'
  <2>1. \A i \in Keyed : job'[i] = job[i]
    BY <1>1, <1>2 DEF Keyed
  <2> QED  BY <1>1, <1>4, <2>1, HeldIsLive, ReservationsKept DEF QueueInv, ReservationsAreSound
<1>8. OwnedStep
  BY <1>1, <1>2, <1>4 DEF OwnedStep
<1> QED  BY <1>1, <1>4, <1>5, <1>6, <1>7, <1>8 DEF QueueInv

LEMMA BatchSteps ==
    ASSUME QueueInv, BatchJobs
    PROVE  QueueInv' /\ OwnedStep
<1>1. /\ job \in [Jobs -> Entry] /\ \A c \in Children : job[c].state = "new"
      /\ Enqueue(Children, job) /\ scheduled \subseteq Queues /\ batch' = [batch EXCEPT !.known = TRUE]
      /\ UNCHANGED <<due, turn, reserved, lapsed, cleared, clears>> /\ Children \in SUBSET Jobs
  BY QueueAssumption DEF BatchJobs, QueueInv, EntriesFit, ListsAreSound
<1>2. /\ job' \in [Jobs -> Entry] /\ scheduled \subseteq scheduled' /\ scheduled' \subseteq Queues
      /\ \A i \in Jobs \ Children : job'[i] = job[i]
      /\ \A i \in Children : /\ job'[i].state \in {"delayed", "ready"} /\ job'[i].attempt = job[i].attempt
                             /\ job'[i].releases = job[i].releases
                             /\ job'[i].state = "ready" => QueueOf[i] \in scheduled'
  BY <1>1, EnqueueSteps
<1>3. \A i \in Children : EntryFits(i, job'[i]) /\ job'[i].state \notin Waiting /\ job[i].state = "new" /\ i \notin Followers
  BY <1>1, <1>2, EntryFacts, KeylessMembers DEF EntryFits, Waiting
<1>4. /\ EntriesFit' /\ FollowersWait'
      /\ \A i \in Jobs : job[i].state \in Ended => job'[i] = job[i]
      /\ \A i \in Jobs : job'[i].state \in Waiting => job[i].state \in Waiting
  BY <1>2, <1>3, EntriesMove
<1>5. ListsAreSound'
  BY <1>1, <1>2, ListsKept DEF QueueInv
<1>6. BatchIsSound'
  <2>1. /\ ~batch.known /\ batch.succeeded = 0 /\ batch.failed = 0 /\ batch.cancelled = 0 /\ batch \in Batch
    BY <1>1, QueueAssumption DEF QueueInv, BatchIsSound, ChildrenEnterTogether, Waiting
  <2>2. batch' \in Batch /\ batch'.succeeded = 0 /\ batch'.failed = 0 /\ batch'.cancelled = 0
    BY <1>1, <2>1 DEF Batch
  <2>3. (Children \ In(Alive))' = {}
    BY <1>1, <1>2 DEF In, Alive
  <2>4. Cardinality((Children \ In(Alive))') = 0
    BY <2>3, FS_EmptySet
  <2> QED  BY <1>3, <2>2, <2>4 DEF BatchIsSound, ChildrenEnterTogether, ChildrenCountedOnce
<1>7. ReservationsAreSound'
  <2>1. \A i \in Keyed : job'[i] = job[i]
    BY <1>2, KeylessMembers DEF Keyed
  <2> QED  BY <1>1, <1>4, <2>1, HeldIsLive, ReservationsKept DEF QueueInv, ReservationsAreSound
<1>8. OwnedStep
  <2>1. \A i \in Jobs : job'[i].state = "running" => job[i].state = "running"
    BY <1>2
  <2> QED  BY <1>1, <1>4, <2>1 DEF OwnedStep
<1> QED  BY <1>1, <1>4, <1>5, <1>6, <1>7, <1>8 DEF QueueInv

\* Entries that are taken out of the queue.
LEMMA RemovedFits ==
    ASSUME QueueInv, NEW gone \in SUBSET Pending, NEW state \in {"cancelled", "dropped"},
           job' = [j \in Jobs |-> IF j \in gone THEN Gone(state) ELSE job[j]]
    PROVE  /\ EntriesFit' /\ FollowersWait' /\ job' \in [Jobs -> Entry]
           /\ \A i \in Jobs : job[i].state \in Ended => job'[i] = job[i]
           /\ \A i \in Jobs : job'[i].state \in Waiting => job[i].state \in Waiting
           /\ \A i \in Jobs \ gone : job'[i] = job[i]
           /\ \A i \in gone : /\ i \in Jobs /\ job[i].state \in {"delayed", "ready"} /\ job[i].state \in Alive
                              /\ job'[i].state = state
           /\ state \notin Alive /\ state \notin Live /\ state \notin Waiting
<1>1. /\ \A i \in Jobs : EntryFits(i, Gone(state)) /\ Gone(state).state = state
      /\ state \notin Alive /\ state \notin Live /\ state \notin Waiting
  <2>1. state \in Ended \ {"unused"} /\ Gone(state).state = state
    BY DEF Ended, Gone
  <2>2. state \notin Alive /\ state \notin Live /\ state \notin Waiting
    BY DEF Alive, Live, Waiting
  <2> QED  BY <2>1, <2>2, GoneFits
<1>2. \A i \in gone : i \in Jobs /\ job[i].state \in {"delayed", "ready"} /\ job[i].state \in Alive
  BY DEF Pending, In, Alive
<1>3. \A i \in Jobs : job[i] \in Entry
  BY EntryFacts
<1>4. /\ \A i \in Jobs \ gone : job'[i] = job[i]
      /\ \A i \in gone : job'[i] = Gone(state)
  BY <1>2
<1>5. job' \in [Jobs -> Entry]
  BY <1>1, <1>3 DEF EntryFits
<1>6. /\ EntriesFit' /\ FollowersWait'
      /\ \A i \in Jobs : job[i].state \in Ended => job'[i] = job[i]
      /\ \A i \in Jobs : job'[i].state \in Waiting => job[i].state \in Waiting
  BY <1>1, <1>2, <1>4, <1>5, EntriesMove
<1> QED  BY <1>1, <1>2, <1>4, <1>5, <1>6

LEMMA CancelBatchSteps ==
    ASSUME QueueInv, CancelBatch
    PROVE  QueueInv' /\ OwnedStep
<1> DEFINE gone == CancelledChildren
<1>1. /\ batch.known /\ batch' = [batch EXCEPT !.cancellationRequested = TRUE, !.cancelled = @ + Cardinality(gone)]
      /\ job' = [j \in Jobs |-> IF j \in gone THEN Gone("cancelled") ELSE job[j]]
      /\ gone \in SUBSET Pending /\ gone \in SUBSET Children
      /\ UNCHANGED <<scheduled, due, turn, reserved, lapsed, cleared, clears>>
  BY DEF CancelBatch, CancelledChildren
<1> HIDE DEF gone
<1>2. /\ EntriesFit' /\ FollowersWait' /\ job' \in [Jobs -> Entry]
      /\ \A i \in Jobs : job[i].state \in Ended => job'[i] = job[i]
      /\ \A i \in Jobs : job'[i].state \in Waiting => job[i].state \in Waiting
      /\ \A i \in Jobs \ gone : job'[i] = job[i]
      /\ \A i \in gone : /\ i \in Jobs /\ job[i].state \in Alive /\ job'[i].state = "cancelled"
      /\ "cancelled" \notin Alive /\ "cancelled" \notin Live /\ "cancelled" \notin Waiting
  BY <1>1, RemovedFits
<1>3. ListsAreSound'
  <2>1. \A i \in Jobs : job'[i].state = "ready" => job[i].state = "ready"
    BY <1>2
  <2>2. scheduled \subseteq Queues
    BY DEF QueueInv, ListsAreSound
  <2> QED  BY <1>1, <2>1, <2>2, ListsKept DEF QueueInv
<1>4. BatchIsSound'
  <2> DEFINE over == Children \ In(Alive)
  <2>1. /\ batch \in Batch /\ batch.succeeded + batch.failed + batch.cancelled = Cardinality(over)
        /\ \A c \in Children : job[c].state \notin Waiting
    BY <1>1 DEF QueueInv, BatchIsSound, ChildrenCountedOnce, ChildrenEnterTogether
  <2>2. over' = over \cup gone /\ over \cap gone = {}
    BY <1>1, <1>2, KeylessMembers DEF In
  <2>3. /\ IsFiniteSet(over) /\ IsFiniteSet(gone) /\ Cardinality(gone) \in Nat /\ Cardinality(over) \in Nat
    BY <1>1, QueueAssumption, FS_Subset, FS_CardinalityType
  <2>4. Cardinality(over \cup gone) = Cardinality(over) + Cardinality(gone)
    BY <2>2, <2>3, FS_Union, FS_EmptySet
  <2>5. /\ batch' \in Batch /\ batch'.succeeded = batch.succeeded /\ batch'.failed = batch.failed
        /\ batch'.cancelled = batch.cancelled + Cardinality(gone)
    <3>1. PICK n \in Nat : n = Cardinality(gone)
      BY <2>3
    <3>2. batch' = [batch EXCEPT !.cancellationRequested = TRUE, !.cancelled = batch.cancelled + n]
      BY <1>1, <3>1
    <3>3. /\ batch' \in Batch /\ batch'.succeeded = batch.succeeded /\ batch'.failed = batch.failed
          /\ batch'.cancelled = batch.cancelled + n
      <4>1. batch \in Batch /\ batch.cancelled + n \in Nat
        BY <2>1 DEF Batch
      <4>2. PICK m \in Nat : m = batch.cancelled + n
        BY <4>1
      <4>3. batch' = [batch EXCEPT !.cancellationRequested = TRUE, !.cancelled = m]
        BY <3>2, <4>2
      <4>4. /\ batch' \in Batch /\ batch'.succeeded = batch.succeeded /\ batch'.failed = batch.failed
            /\ batch'.cancelled = m
        BY <4>1, <4>3 DEF Batch
      <4> QED  BY <4>2, <4>4
    <3> QED  BY <3>1, <3>3
  <2>6. batch.succeeded \in Nat /\ batch.failed \in Nat /\ batch.cancelled \in Nat
    BY <2>1 DEF Batch
  <2>7. batch'.succeeded + batch'.failed + batch'.cancelled = Cardinality(over')
    <3>1. Cardinality(over') = Cardinality(over) + Cardinality(gone)
      BY <2>2, <2>4, Zenon
    <3>2. PICK n \in Nat, m \in Nat : n = Cardinality(over) /\ m = Cardinality(gone)
      BY <2>3
    <3>3. batch'.succeeded + batch'.failed + batch'.cancelled = n + m
      BY <2>1, <2>5, <2>6, <3>2
    <3> QED  BY <3>1, <3>2, <3>3
  <2>8. \A c \in Children : job'[c].state \notin Waiting
    BY <1>2, <2>1, KeylessMembers
  <2> QED  BY <2>5, <2>7, <2>8 DEF BatchIsSound, ChildrenCountedOnce, ChildrenEnterTogether
<1>5. ReservationsAreSound'
  <2>1. \A i \in Keyed : i \in Jobs /\ job'[i] = job[i]
    BY <1>1, <1>2, KeylessMembers DEF Keyed
  <2> QED  BY <1>1, <1>2, <2>1, HeldIsLive, ReservationsKept DEF QueueInv, ReservationsAreSound
<1>6. OwnedStep
  <2>1. \A i \in Jobs : job'[i].state = "running" => job[i].state = "running"
    BY <1>2
  <2> QED  BY <1>1, <1>2, <2>1 DEF OwnedStep
<1> QED  BY <1>1, <1>2, <1>3, <1>4, <1>5, <1>6 DEF QueueInv

LEMMA ClearSteps ==
    ASSUME QueueInv, NEW queues \in SUBSET Queues, Clear(queues)
    PROVE  QueueInv' /\ OwnedStep
<1> DEFINE here == {j \in Jobs : QueueOf[j] \in queues}
           gone == Pending \cap here
<1>1. /\ clears' = clears + 1 /\ clears < MaxClears /\ gone \in SUBSET Pending
      /\ job' = [j \in Jobs |-> IF j \in gone THEN Gone("dropped") ELSE job[j]]
      /\ reserved' = reserved \ here /\ lapsed' = lapsed \ here
      /\ batch' = IF Children \subseteq here THEN [batch EXCEPT !.known = FALSE] ELSE batch
      /\ cleared' = cleared \cup {j \in here \cap In(Alive) : KeyOf[j] # None}
      /\ UNCHANGED <<scheduled, due, turn>>
  BY DEF Clear
<1>2. here \subseteq Jobs /\ (Children \subseteq here \/ Children \cap here = {})
  BY QueueAssumption
<1>3. gone \subseteq here /\ \A j \in here : job[j].state \in {"delayed", "ready"} => j \in gone
  BY DEF Pending, In
<1> HIDE DEF here, gone
<1>4. /\ EntriesFit' /\ FollowersWait' /\ job' \in [Jobs -> Entry]
      /\ \A i \in Jobs : job[i].state \in Ended => job'[i] = job[i]
      /\ \A i \in Jobs : job'[i].state \in Waiting => job[i].state \in Waiting
      /\ \A i \in Jobs \ gone : job'[i] = job[i]
      /\ \A i \in gone : /\ i \in Jobs /\ job[i].state \in Alive /\ job'[i].state = "dropped"
      /\ "dropped" \notin Alive /\ "dropped" \notin Live /\ "dropped" \notin Waiting
  BY <1>1, RemovedFits
<1>5. ListsAreSound'
  <2>1. \A i \in Jobs : job'[i].state = "ready" => job[i].state = "ready"
    BY <1>4
  <2>2. scheduled \subseteq Queues
    BY DEF QueueInv, ListsAreSound
  <2> QED  BY <1>1, <2>1, <2>2, ListsKept DEF QueueInv
<1>6. BatchIsSound'
  <2>1. batch \in Batch /\ \A c \in Children : c \in Jobs
    BY EntryFacts, KeylessMembers, QueueAssumption DEF QueueInv, BatchIsSound
  <2>2. \A c \in Children : job[c].state \in Waiting <=> job'[c].state \in Waiting
    BY <1>4, <2>1 DEF Alive, Waiting
  <2>3. CASE Children \subseteq here
    <3>1. /\ batch' \in Batch /\ ~batch'.known /\ batch'.succeeded = batch.succeeded
          /\ batch'.failed = batch.failed /\ batch'.cancelled = batch.cancelled
      BY <1>1, <2>1, <2>3 DEF Batch
    <3> QED  BY <2>2, <3>1, ChildrenKept DEF QueueInv
  <2>4. CASE ~(Children \subseteq here)
    <3>1. batch' = batch
      BY <1>1, <2>4
    <3>2. \A c \in Children : job'[c] = job[c]
      BY <1>2, <1>3, <1>4, <2>1, <2>4
    <3> QED  BY <2>1, <3>1, <3>2, ChildrenKept DEF QueueInv
  <2> QED  BY <2>3, <2>4
<1>7. ReservationsAreSound'
  <2>1. /\ reserved \subseteq Keyed /\ lapsed \subseteq reserved \cap Expiring
        /\ cleared \subseteq Jobs /\ \A i \in cleared : job[i].state \notin Waiting
    BY DEF QueueInv, ReservationsAreSound
  <2>2. \A i \in cleared' : i \in Jobs /\ job[i].state \notin Waiting
    BY <1>1, <1>2, <2>1 DEF In, Alive, Waiting
  <2>3. \A i \in Jobs : job'[i].state \in Live => job'[i] = job[i] /\ (i \in here => job[i].state = "running")
    BY <1>3, <1>4 DEF Live
  <2>4. \A i \in Keyed : i \in here /\ job'[i].state \in Live => i \in cleared'
    BY <1>1, <2>3 DEF In, Keyed, Alive
  <2>5. \A i \in Keyed : i \notin here => job'[i] = job[i] /\ (i \in cleared' <=> i \in cleared)
    BY <1>1, <1>3, <1>4 DEF Keyed
  <2>6. \A i \in Keyed \ Expiring : i \in reserved' <=> job'[i].state \in Live /\ i \notin cleared'
    BY <1>1, <2>4, <2>5, HeldIsLive
  <2>7. \A a, b \in Jobs : job[a].state \in Live /\ job[b].state \in Live /\ a # b /\ KeyOf[a] # None /\ Slot(a) = Slot(b)
           => {a, b} \cap cleared # {} \/ {a, b} \cap Expiring # {}
    BY DEF QueueInv, ReservationsAreSound, DeduplicationIsExclusive, Live, In
  <2>8. \A a, b \in Jobs : job'[a].state \in Live /\ job'[b].state \in Live /\ a # b /\ KeyOf[a] # None /\ Slot(a) = Slot(b)
           => {a, b} \cap cleared' # {} \/ {a, b} \cap Expiring # {}
    BY <1>1, <2>3, <2>7
  <2>9. DeduplicationIsExclusive'
    BY <2>6, <2>8 DEF DeduplicationIsExclusive, Live, Keyed, In, Slot
  <2> QED  BY <1>1, <1>4, <2>1, <2>2, <2>9 DEF ReservationsAreSound
<1>8. OwnedStep
  <2>1. \A i \in Jobs : job'[i].state = "running" => job[i].state = "running"
    BY <1>4
  <2>2. clears' # clears
    BY <1>1 DEF QueueInv
  <2> QED  BY <1>4, <2>1, <2>2 DEF OwnedStep
<1>9. clears' \in 0 .. MaxClears
  BY <1>1, QueueAssumption DEF QueueInv
<1> QED  BY <1>4, <1>5, <1>6, <1>7, <1>8, <1>9 DEF QueueInv

(***************************************************************************)
(* The event loop.                                                         *)
(***************************************************************************)
LEMMA AliveMoves ==
    ASSUME QueueInv, NEW j \in Jobs, job' \in [Jobs -> Entry], \A i \in Jobs : i # j => job'[i] = job[i],
           EntryFits(j, job'[j]), job[j].state \in Alive, job'[j].state \notin Waiting \cup {"running"},
           job'[j].state = "ready" => QueueOf[j] \in scheduled',
           job'[j].state \in Live => job[j].state \in Live,
           scheduled \subseteq scheduled', scheduled' \subseteq Queues,
           UNCHANGED <<due, turn, lapsed, cleared, clears>>, BatchIsSound',
           \/ reserved' = reserved /\ (j \notin Keyed \/ (job[j].state \in Live => job'[j].state \in Live))
           \/ reserved' = Released(j) /\ job[j].state = "running" /\ job'[j].state \notin Live
    PROVE  QueueInv' /\ OwnedStep
<1>1. /\ EntriesFit' /\ FollowersWait'
      /\ \A i \in Jobs : job[i].state \in Ended => job'[i] = job[i]
      /\ \A i \in Jobs : job'[i].state \in Waiting => job[i].state \in Waiting
  BY EntriesMove
<1>2. ListsAreSound'
  BY ListsKept DEF QueueInv
<1>3. ReservationsAreSound'
  <2>1. /\ reserved \subseteq Keyed /\ lapsed \subseteq reserved \cap Expiring
    BY DEF QueueInv, ReservationsAreSound
  <2>2. /\ reserved' \subseteq reserved /\ lapsed \subseteq reserved' \cap Expiring
        /\ \A i \in reserved \ reserved' : i = j
    BY <2>1 DEF Released
  <2>3. \A i \in Keyed : job'[i].state \in Live => job[i].state \in Live
    BY DEF Keyed
  <2>4. \A i \in Keyed \ Expiring : i \in reserved' <=> i \in reserved /\ job'[i].state \in Live
    <3> SUFFICES ASSUME NEW i \in Keyed \ Expiring PROVE i \in reserved' <=> i \in reserved /\ job'[i].state \in Live
      OBVIOUS
    <3>1. i \in reserved => job[i].state \in Live
      BY HeldIsLive
    <3>2. CASE i # j
      BY <2>2, <3>1, <3>2 DEF Keyed
    <3>3. CASE i = j
      BY <3>1, <3>3 DEF Released
    <3> QED  BY <3>2, <3>3
  <2> QED  BY <1>1, <2>1, <2>2, <2>3, <2>4, ReservationsKept DEF QueueInv
<1>4. OwnedStep
  <2>1. \A i \in reserved \ reserved' : job[i].state = "running" /\ job'[i].state # "running"
    BY DEF Released, Live
  <2>2. \A i \in Jobs : job'[i].state = "running" => job[i].state = "running"
    OBVIOUS
  <2> QED  BY <1>1, <2>1, <2>2 DEF OwnedStep
<1> QED  BY <1>1, <1>2, <1>3, <1>4 DEF QueueInv

\* The count of a batch does not change while an entry is not a child, or stays alive.
LEMMA ChildStays ==
    ASSUME QueueInv, NEW j \in Jobs, \A i \in Jobs : i # j => job'[i] = job[i], batch' = batch,
           j \notin Children \/ (job[j].state \in Alive /\ job'[j].state \in Alive)
    PROVE  BatchIsSound'
<1>1. \A c \in Children : /\ job[c].state \in Waiting <=> job'[c].state \in Waiting
                          /\ job[c].state \in Alive <=> job'[c].state \in Alive
  BY KeylessMembers DEF Waiting, Alive
<1> QED  BY <1>1, ChildrenKept DEF QueueInv, BatchIsSound

\* #settleBatch: one more child ended, and one more is counted.
LEMMA ChildSettles ==
    ASSUME QueueInv, NEW j \in Jobs, \A i \in Jobs : i # j => job'[i] = job[i],
           job[j].state \in Alive, job'[j].state \notin Alive \cup Waiting,
           NEW outcome \in {"succeeded", "failed", "cancelled"}, batch' = Settled(j, outcome)
    PROVE  BatchIsSound'
<1>1. CASE j \notin Children
  BY <1>1, ChildStays DEF Settled
<1>2. CASE j \in Children /\ ~batch.known
  <2>1. batch' = batch /\ batch \in Batch
    BY <1>2 DEF Settled, QueueInv, BatchIsSound
  <2>2. \A c \in Children : job[c].state \in Waiting <=> job'[c].state \in Waiting
    BY KeylessMembers DEF Alive, Waiting
  <2> QED  BY <1>2, <2>1, <2>2, ChildrenKept DEF QueueInv
<1>3. CASE j \in Children /\ batch.known
  <2> DEFINE over == Children \ In(Alive)
  <2>1. /\ batch \in Batch /\ batch.succeeded + batch.failed + batch.cancelled = Cardinality(over)
        /\ \A c \in Children : job[c].state \notin Waiting
    BY <1>3 DEF QueueInv, BatchIsSound, ChildrenCountedOnce, ChildrenEnterTogether
  <2>2. over' = over \cup {j} /\ j \notin over
    BY <1>3, KeylessMembers DEF In
  <2>3. IsFiniteSet(over)
    BY QueueAssumption, FS_Subset
  <2>4. Cardinality(over') = Cardinality(over) + 1
    <3>1. Cardinality(over \cup {j}) = Cardinality(over) + 1
      BY <2>2, <2>3, FS_AddElement
    <3> QED  BY <2>2, <3>1, Zenon
  <2>5. /\ batch.succeeded \in Nat /\ batch.failed \in Nat /\ batch.cancelled \in Nat
    BY <2>1 DEF Batch
  <2>6. /\ batch' \in Batch
        /\ batch'.succeeded + batch'.failed + batch'.cancelled = batch.succeeded + batch.failed + batch.cancelled + 1
    <3>1. CASE outcome = "succeeded"
      <4>1. batch' = [batch EXCEPT !.succeeded = @ + 1]
        BY <1>3, <3>1 DEF Settled
      <4> QED  BY <2>1, <2>5, <4>1 DEF Batch
    <3>2. CASE outcome = "failed"
      <4>1. batch' = [batch EXCEPT !.failed = @ + 1]
        BY <1>3, <3>2 DEF Settled
      <4> QED  BY <2>1, <2>5, <4>1 DEF Batch
    <3>3. CASE outcome = "cancelled"
      <4>1. batch' = [batch EXCEPT !.cancelled = @ + 1]
        BY <1>3, <3>3 DEF Settled
      <4> QED  BY <2>1, <2>5, <4>1 DEF Batch
    <3> QED  BY <3>1, <3>2, <3>3
  <2>7. batch'.succeeded + batch'.failed + batch'.cancelled = Cardinality(over')
    BY <2>1, <2>4, <2>6
  <2>8. \A c \in Children : job'[c].state \notin Waiting
    BY <2>1, KeylessMembers
  <2> QED  BY <2>6, <2>7, <2>8 DEF BatchIsSound, ChildrenCountedOnce, ChildrenEnterTogether
<1> QED  BY <1>1, <1>2, <1>3

LEMMA TimerSteps ==
    ASSUME QueueInv, NEW j \in Jobs, TimerFires(j)
    PROVE  QueueInv' /\ OwnedStep
<1> DEFINE e == [job[j] EXCEPT !.state = "ready"]
<1>1. /\ EntryFits(j, job[j]) /\ job[j] \in Entry /\ job[j].state = "delayed" /\ job' = [job EXCEPT ![j] = e]
      /\ scheduled' = scheduled \cup {QueueOf[j]} /\ QueueOf[j] \in Queues /\ scheduled \subseteq Queues
      /\ UNCHANGED <<due, turn, reserved, lapsed, batch, cleared, clears>> /\ job \in [Jobs -> Entry]
  BY EntryFacts DEF TimerFires, Move
<1>2. EntryFits(j, e) /\ e \in Entry /\ e.state = "ready"
  BY <1>1 DEF EntryFits, Entry, Alive
<1> HIDE DEF e
<1>3. job' \in [Jobs -> Entry] /\ job'[j] = e /\ \A i \in Jobs : i # j => job'[i] = job[i]
  BY <1>1, <1>2, JobChanges
<1>4. BatchIsSound'
  BY <1>1, <1>2, <1>3, ChildStays DEF Alive
<1> QED  BY <1>1, <1>2, <1>3, <1>4, AliveMoves DEF Live, Alive, Waiting

LEMMA MicrotaskSteps ==
    ASSUME QueueInv, NEW q \in Queues, Microtask(q)
    PROVE  QueueInv' /\ OwnedStep
<1>1. UNCHANGED <<job, reserved, lapsed, batch, cleared, clears>>
  BY DEF Microtask
<1>2. EntriesFit' /\ FollowersWait' /\ BatchIsSound' /\ ReservationsAreSound' /\ clears' \in 0 .. MaxClears
  BY <1>1 DEF QueueInv, EntriesFit, FollowersWait, BatchIsSound, ReservationsAreSound, ChildrenEnterTogether,
              ChildrenCountedOnce, DeduplicationIsExclusive, In
<1>3. ListsAreSound'
  <2>1. /\ due = {} /\ scheduled' = scheduled \ {q} /\ scheduled \subseteq Queues
        /\ due' = {j \in Jobs : job[j].state = "ready" /\ QueueOf[j] = q}
        /\ turn' = IF due' = {} THEN "loop" ELSE "drain"
    BY DEF Microtask, InLoop, QueueInv, ListsAreSound, In
  <2>2. \A j \in Jobs : job[j].state = "ready" => QueueOf[j] \in scheduled
    BY <2>1 DEF QueueInv, ListsAreSound, ReadyIsScheduled, In
  <2> QED  BY <1>1, <2>1, <2>2 DEF ListsAreSound, ReadyIsScheduled, In
<1> QED  BY <1>1, <1>2, <1>3 DEF QueueInv, OwnedStep

LEMMA RunSteps ==
    ASSUME QueueInv, NEW j \in Jobs, Run(j)
    PROVE  QueueInv' /\ OwnedStep
<1>1. /\ turn \in {"drain", "handler"} /\ j \in due /\ due' = due \ {j}
      /\ turn' = IF due' = {} THEN "loop" ELSE IF job'[j].state = "running" THEN "handler" ELSE "drain"
      /\ UNCHANGED <<scheduled, reserved, lapsed, cleared, clears>>
      /\ due \subseteq Jobs /\ scheduled \subseteq Queues
      /\ \A i \in Jobs : job[i].state = "ready" => QueueOf[i] \in scheduled \/ i \in due
  BY DEF Run, QueueInv, ListsAreSound, ReadyIsScheduled, In
<1>2. ASSUME job' \in [Jobs -> Entry], job'[j].state # "ready", \A i \in Jobs : i # j => job'[i] = job[i]
      PROVE  ListsAreSound'
  BY <1>1, <1>2 DEF ListsAreSound, ReadyIsScheduled, In
<1>3. CASE ~Runnable(j)
  <2>1. job' = job /\ batch' = batch /\ job \in [Jobs -> Entry] /\ job[j].state # "ready"
    BY <1>3, EntryFacts DEF Run, Runnable, Pending, In
  <2>2. ListsAreSound'
    BY <1>2, <2>1
  <2>3. EntriesFit' /\ FollowersWait' /\ BatchIsSound' /\ ReservationsAreSound' /\ clears' \in 0 .. MaxClears
    BY <1>1, <2>1 DEF QueueInv, EntriesFit, FollowersWait, BatchIsSound, ReservationsAreSound, ChildrenEnterTogether,
                ChildrenCountedOnce, DeduplicationIsExclusive, In
  <2> QED  BY <1>1, <2>1, <2>2, <2>3 DEF QueueInv, OwnedStep
<1>4. CASE Runnable(j) /\ Stopped(j)
  <2> DEFINE e == Gone("cancelled")
  <2>1. /\ job' = [job EXCEPT ![j] = e] /\ batch' = Settled(j, "cancelled")
        /\ job[j].state \in Alive /\ j \in Children
    BY <1>4 DEF Run, Runnable, Stopped, CancelRequested, Pending, In, Alive
  <2>2. EntryFits(j, e) /\ e.state = "cancelled" /\ e.state \notin Waiting /\ e.state \notin Live /\ e.state \notin Alive
    BY GoneFits DEF Ended
  <2> HIDE DEF e
  <2>3. /\ EntriesFit' /\ FollowersWait' /\ job'[j] = e /\ \A i \in Jobs : i # j => job'[i] = job[i]
        /\ \A i \in Jobs : job[i].state \in Ended => job'[i] = job[i]
        /\ \A i \in Jobs : job'[i].state \in Waiting => job[i].state \in Waiting
    BY <2>1, <2>2, EntryMoves
  <2>4. ListsAreSound'
    BY <1>2, <2>2, <2>3 DEF EntriesFit
  <2>5. BatchIsSound'
    BY <2>1, <2>2, <2>3, ChildSettles
  <2>6. ReservationsAreSound'
    <3>1. \A i \in Keyed : job'[i] = job[i]
      BY <2>1, <2>3, KeylessMembers DEF Keyed
    <3> QED  BY <1>1, <2>3, <3>1, HeldIsLive, ReservationsKept DEF QueueInv, ReservationsAreSound
  <2>7. OwnedStep
    BY <1>1, <2>2, <2>3 DEF OwnedStep
  <2> QED  BY <1>1, <2>3, <2>4, <2>5, <2>6, <2>7 DEF QueueInv
<1>5. CASE Runnable(j) /\ ~Stopped(j)
  <2> DEFINE e == [job[j] EXCEPT !.state = "running", !.attempt = @ + 1]
  <2>1. /\ job' = [job EXCEPT ![j] = e] /\ batch' = batch /\ job[j] \in Entry /\ EntryFits(j, job[j])
        /\ job[j].state \in {"delayed", "ready"} /\ ~CancelRequested(j) /\ TriesOf[j] \in Nat
        /\ job[j].attempt \in Nat
    <3>1. job' = [job EXCEPT ![j] = e] /\ batch' = batch
      BY <1>5 DEF Run
    <3>2. job[j].state \in {"delayed", "ready"} /\ ~CancelRequested(j)
      BY <1>5 DEF Runnable, Stopped, Pending, In
    <3>3. job[j] \in Entry /\ EntryFits(j, job[j]) /\ TriesOf[j] \in Nat /\ job[j].attempt \in Nat
      BY EntryFacts
    <3> HIDE DEF e
    <3> QED  BY <3>1, <3>2, <3>3
  <2>2. EntryFits(j, e) /\ e.state = "running"
    <3>1. PICK n \in Nat : n = job[j].attempt + 1
      BY <2>1
    <3>2. e = [job[j] EXCEPT !.state = "running", !.attempt = n]
      BY <3>1
    <3>3. e \in Entry /\ e.state = "running" /\ e.attempt = n /\ e.releases = job[j].releases
      BY <2>1, <3>2 DEF Entry, Alive
    <3>4. n >= 1 /\ n <= TriesOf[j] /\ job[j].releases <= ReleasesOf[j]
      BY <2>1, <3>1 DEF EntryFits
    <3> HIDE DEF e
    <3> QED  BY <3>3, <3>4 DEF EntryFits
  <2> HIDE DEF e
  <2>3. /\ EntriesFit' /\ FollowersWait' /\ job'[j] = e /\ \A i \in Jobs : i # j => job'[i] = job[i]
        /\ \A i \in Jobs : job[i].state \in Ended => job'[i] = job[i]
        /\ \A i \in Jobs : job'[i].state \in Waiting => job[i].state \in Waiting
    BY <2>1, <2>2, EntryMoves DEF Alive, Waiting
  <2>4. ListsAreSound'
    BY <1>2, <2>2, <2>3 DEF EntriesFit
  <2>5. BatchIsSound'
    BY <2>1, <2>2, <2>3, ChildStays DEF Alive
  <2>6. ReservationsAreSound'
    <3>1. \A i \in Keyed : job'[i].state \in Live <=> job[i].state \in Live
      BY <2>1, <2>2, <2>3 DEF Keyed, Live
    <3> QED  BY <1>1, <2>3, <3>1, HeldIsLive, ReservationsKept DEF QueueInv, ReservationsAreSound
  <2>7. OwnedStep
    BY <1>1, <2>1, <2>2, <2>3 DEF OwnedStep
  <2> QED  BY <1>1, <2>3, <2>4, <2>5, <2>6, <2>7 DEF QueueInv
<1> QED  BY <1>3, <1>4, <1>5

LEMMA SucceedSteps ==
    ASSUME QueueInv, NEW j \in Jobs, JobSucceeds(j)
    PROVE  QueueInv' /\ OwnedStep
<1> DEFINE e == Gone("succeeded")
           done == [job EXCEPT ![j] = e]
           f == NextOf[j]
<1>1. /\ job \in [Jobs -> Entry] /\ job[j].state = "running" /\ scheduled \subseteq Queues
      /\ UNCHANGED <<due, turn, lapsed, cleared, clears>> /\ reserved' = Released(j)
      /\ batch' = Settled(j, "succeeded")
      /\ IF f = None THEN job' = done /\ UNCHANGED scheduled ELSE Enqueue({f}, done)
  BY EntryFacts DEF JobSucceeds, Ends
<1>2. EntryFits(j, e) /\ e \in Entry /\ e.state = "succeeded" /\ e.state \notin Waiting /\ e.state \notin Live /\ e.state \notin Alive
  BY GoneFits DEF Ended, EntryFits
<1> HIDE DEF e
<1>3. done \in [Jobs -> Entry] /\ done[j] = e /\ \A i \in Jobs : i # j => done[i] = job[i]
  BY <1>1, <1>2, JobChanges
<1> HIDE DEF done
<1>4. CASE f = None
  <2>1. job' = done /\ scheduled' = scheduled
    BY <1>1, <1>4
  <2>2. BatchIsSound'
    BY <1>1, <1>2, <1>3, <2>1, ChildSettles DEF Alive
  <2> QED  BY <1>1, <1>2, <1>3, <2>1, <2>2, AliveMoves DEF Alive
<1>5. CASE f # None
  <2>1. /\ f \in Jobs /\ f \in Followers /\ f \notin Keyed /\ f \notin Children /\ j \notin Keyed /\ j \notin Children
        /\ Enqueue({f}, done)
    BY <1>1, <1>5, KeylessMembers DEF Followers
  <2>2. job[f].state = "new" /\ f # j
    BY <1>1, <1>5 DEF QueueInv, FollowersWait, Waiting
  <2>3. /\ job' \in [Jobs -> Entry] /\ scheduled \subseteq scheduled' /\ scheduled' \subseteq Queues
        /\ \A i \in Jobs : i # f => job'[i] = done[i]
        /\ job'[f].state \in {"delayed", "ready"} /\ job'[f].attempt = done[f].attempt
        /\ job'[f].releases = done[f].releases /\ (job'[f].state = "ready" => QueueOf[f] \in scheduled')
    BY <1>1, <1>3, <2>1, EnqueueOne
  <2>4. /\ job'[j] = e /\ \A i \in Jobs : i # j /\ i # f => job'[i] = job[i]
        /\ job'[f].attempt = job[f].attempt /\ job'[f].releases = job[f].releases
    BY <1>3, <2>1, <2>2, <2>3
  <2>5. EntriesFit'
    <3>1. EntryFits(f, job'[f])
      BY <2>1, <2>2, <2>3, <2>4, EntryFacts DEF EntryFits
    <3> QED  BY <1>2, <2>3, <2>4, <3>1 DEF QueueInv, EntriesFit
  <2>6. FollowersWait'
    <3> SUFFICES ASSUME NEW k \in Jobs, NextOf[k] # None
                 PROVE  /\ job'[k].state # "succeeded" => job'[NextOf[k]].state \in Waiting
                        /\ job'[k].state # "unused" => job'[NextOf[k]].state # "unused"
      BY DEF FollowersWait
    <3>1. /\ NextOf[k] \in Jobs /\ (NextOf[k] = f => k = j)
      BY QueueAssumption
    <3>2. /\ job[k].state # "succeeded" => job[NextOf[k]].state \in Waiting
          /\ job[k].state # "unused" => job[NextOf[k]].state # "unused"
      BY DEF QueueInv, FollowersWait
    <3>3. CASE k = j
      BY <1>2, <2>3, <2>4, <3>3
    <3>4. CASE k # j /\ NextOf[k] = j
      <4>1. job[k].state = "succeeded" /\ k # f
        BY <1>1, <2>2, <3>2, <3>4 DEF Waiting
      <4> QED  BY <1>2, <2>4, <3>4, <4>1
    <3>5. CASE k # j /\ NextOf[k] # j
      <4>1. job'[NextOf[k]] = job[NextOf[k]]
        BY <2>4, <3>1, <3>5
      <4>2. CASE k = f
        BY <2>2, <3>2, <4>1, <4>2
      <4>3. CASE k # f
        BY <2>4, <3>2, <3>5, <4>1, <4>3
      <4> QED  BY <4>2, <4>3
    <3> QED  BY <3>3, <3>4, <3>5
  <2>7. ListsAreSound'
    <3>1. \A i \in Jobs : job'[i].state = "ready" => job[i].state = "ready" \/ QueueOf[i] \in scheduled'
      BY <1>2, <2>3, <2>4
    <3> QED  BY <1>1, <2>3, <3>1, ListsKept DEF QueueInv
  <2>8. BatchIsSound'
    <3>1. \A c \in Children : job'[c] = job[c]
      BY <2>1, <2>4, KeylessMembers
    <3>2. batch' = batch
      BY <1>1, <2>1 DEF Settled
    <3> QED  BY <3>1, <3>2, ChildrenKept DEF QueueInv, BatchIsSound
  <2>9. reserved' = reserved /\ ReservationsAreSound'
    <3>1. \A i \in Keyed : job'[i] = job[i]
      BY <2>1, <2>4 DEF Keyed
    <3>2. reserved' = reserved
      BY <1>1, <2>1 DEF QueueInv, ReservationsAreSound, Released
    <3>3. \A i \in Jobs : job'[i].state \in Waiting => job[i].state \in Waiting
      BY <1>2, <2>3, <2>4 DEF Waiting
    <3> QED  BY <1>1, <3>1, <3>2, <3>3, HeldIsLive, ReservationsKept DEF QueueInv, ReservationsAreSound
  <2>10. OwnedStep
    <3>1. \A i \in Jobs : job[i].state \in Ended => job'[i] = job[i]
      BY <1>1, <2>2, <2>4 DEF Ended
    <3>2. \A i \in Jobs : job'[i].state = "running" => job[i].state = "running"
      BY <1>2, <2>3, <2>4
    <3> QED  BY <2>9, <3>1, <3>2 DEF OwnedStep
  <2> QED  BY <1>1, <2>5, <2>6, <2>7, <2>8, <2>9, <2>10 DEF QueueInv
<1> QED  BY <1>4, <1>5

LEMMA CancelSteps ==
    ASSUME QueueInv, NEW j \in Jobs, JobCancels(j)
    PROVE  QueueInv' /\ OwnedStep
<1> DEFINE e == Gone("cancelled")
<1>1. /\ job \in [Jobs -> Entry] /\ job[j].state = "running" /\ scheduled \subseteq Queues /\ job' = [job EXCEPT ![j] = e]
      /\ UNCHANGED <<scheduled, due, turn, reserved, lapsed, cleared, clears>>
      /\ batch' = Settled(j, "cancelled") /\ j \notin Keyed
  BY EntryFacts, KeylessMembers DEF JobCancels, Ends, CancelRequested
<1>2. EntryFits(j, e) /\ e \in Entry /\ e.state = "cancelled" /\ e.state \notin Waiting /\ e.state \notin Live /\ e.state \notin Alive
  BY GoneFits DEF Ended, EntryFits
<1> HIDE DEF e
<1>3. job' \in [Jobs -> Entry] /\ job'[j] = e /\ \A i \in Jobs : i # j => job'[i] = job[i]
  BY <1>1, <1>2, JobChanges
<1>4. BatchIsSound'
  BY <1>1, <1>2, <1>3, ChildSettles DEF Alive
<1> QED  BY <1>1, <1>2, <1>3, <1>4, AliveMoves DEF Alive

LEMMA ReleaseSteps ==
    ASSUME QueueInv, NEW j \in Jobs, JobReleases(j)
    PROVE  QueueInv' /\ OwnedStep
<1> DEFINE e == [[job[j] EXCEPT !.attempt = @ - 1, !.releases = @ + 1] EXCEPT !.state = "delayed"]
<1>1. /\ job' = [job EXCEPT ![j] = e] /\ job[j].state = "running" /\ job[j].releases < ReleasesOf[j]
      /\ UNCHANGED <<scheduled, due, turn, reserved, lapsed, batch, cleared, clears>>
  BY DEF JobReleases, Ends, EnqueueLater
<1>2. /\ job \in [Jobs -> Entry] /\ job[j] \in Entry /\ EntryFits(j, job[j]) /\ scheduled \subseteq Queues
      /\ TriesOf[j] \in Nat /\ ReleasesOf[j] \in Nat /\ job[j].attempt \in Nat /\ job[j].releases \in Nat
  BY EntryFacts
<1>3. EntryFits(j, e) /\ e \in Entry /\ e.state = "delayed"
  <2>1. PICK n \in Nat, m \in Nat : n = job[j].attempt - 1 /\ m = job[j].releases + 1
    BY <1>1, <1>2 DEF EntryFits
  <2>2. e = [[job[j] EXCEPT !.attempt = n, !.releases = m] EXCEPT !.state = "delayed"]
    BY <2>1
  <2>3. e \in Entry /\ e.state = "delayed" /\ e.attempt = n /\ e.releases = m
    BY <1>2, <2>2 DEF Entry, Alive
  <2>4. n < TriesOf[j] /\ m <= ReleasesOf[j]
    BY <1>1, <1>2, <2>1 DEF EntryFits
  <2> HIDE DEF e
  <2> QED  BY <1>2, <2>3, <2>4 DEF EntryFits
<1> HIDE DEF e
<1>4. job' \in [Jobs -> Entry] /\ job'[j] = e /\ \A i \in Jobs : i # j => job'[i] = job[i]
  BY <1>1, <1>2, <1>3, JobChanges
<1>5. BatchIsSound'
  BY <1>1, <1>3, <1>4, ChildStays DEF Alive
<1> QED  BY <1>1, <1>2, <1>3, <1>4, <1>5, AliveMoves DEF Alive, Live, Waiting

LEMMA RetrySteps ==
    ASSUME QueueInv, NEW j \in Jobs, JobRetries(j)
    PROVE  QueueInv' /\ OwnedStep
<1>1. /\ job \in [Jobs -> Entry] /\ EntryFits(j, job[j]) /\ scheduled \subseteq Queues
      /\ job[j].state = "running" /\ Enqueue({j}, job) /\ job[j].attempt < TriesOf[j]
      /\ UNCHANGED <<due, turn, reserved, lapsed, batch, cleared, clears>>
  BY EntryFacts DEF JobRetries, Ends, Retries
<1>2. /\ job' \in [Jobs -> Entry] /\ scheduled \subseteq scheduled' /\ scheduled' \subseteq Queues
      /\ \A i \in Jobs : i # j => job'[i] = job[i]
      /\ job'[j].state \in {"delayed", "ready"} /\ job'[j].attempt = job[j].attempt
      /\ job'[j].releases = job[j].releases /\ (job'[j].state = "ready" => QueueOf[j] \in scheduled')
  BY <1>1, EnqueueOne
<1>3. EntryFits(j, job'[j])
  BY <1>1, <1>2 DEF EntryFits
<1>4. BatchIsSound'
  BY <1>1, <1>2, ChildStays DEF Alive
<1> QED  BY <1>1, <1>2, <1>3, <1>4, AliveMoves DEF Alive, Live, Waiting

LEMMA FailSteps ==
    ASSUME QueueInv, NEW j \in Jobs, JobFails(j)
    PROVE  QueueInv' /\ OwnedStep
<1> DEFINE e == [job[j] EXCEPT !.state = "failing"]
<1>1. /\ job \in [Jobs -> Entry] /\ job[j] \in Entry /\ EntryFits(j, job[j]) /\ scheduled \subseteq Queues
      /\ job[j].state = "running" /\ job' = [job EXCEPT ![j] = e] /\ reserved' = Released(j)
      /\ UNCHANGED <<scheduled, due, turn, lapsed, batch, cleared, clears>>
  BY EntryFacts DEF JobFails, Ends, Move
<1>2. EntryFits(j, e) /\ e \in Entry /\ e.state = "failing"
  BY <1>1 DEF EntryFits, Entry, Alive
<1> HIDE DEF e
<1>3. job' \in [Jobs -> Entry] /\ job'[j] = e /\ \A i \in Jobs : i # j => job'[i] = job[i]
  BY <1>1, <1>2, JobChanges
<1>4. BatchIsSound'
  BY <1>1, <1>2, <1>3, ChildStays DEF Alive
<1> QED  BY <1>1, <1>2, <1>3, <1>4, AliveMoves DEF Alive, Live, Waiting

LEMMA ObservedSteps ==
    ASSUME QueueInv, NEW j \in Jobs, FailureObserved(j)
    PROVE  QueueInv' /\ OwnedStep
<1> DEFINE e == Gone("failed")
<1>1. /\ job \in [Jobs -> Entry] /\ job[j].state = "failing" /\ scheduled \subseteq Queues /\ job' = [job EXCEPT ![j] = e]
      /\ UNCHANGED <<scheduled, due, turn, reserved, lapsed, cleared, clears>> /\ batch' = Settled(j, "failed")
  BY EntryFacts DEF FailureObserved
<1>2. EntryFits(j, e) /\ e \in Entry /\ e.state = "failed" /\ e.state \notin Waiting /\ e.state \notin Live /\ e.state \notin Alive
  BY GoneFits DEF Ended, EntryFits
<1> HIDE DEF e
<1>3. job' \in [Jobs -> Entry] /\ job'[j] = e /\ \A i \in Jobs : i # j => job'[i] = job[i]
  BY <1>1, <1>2, JobChanges
<1>4. BatchIsSound'
  BY <1>1, <1>2, <1>3, ChildSettles DEF Alive
<1> QED  BY <1>1, <1>2, <1>3, <1>4, AliveMoves DEF Alive, Live

\* A ttl passes, the sweep forgets what has expired, or nothing happens.
LEMMA ReservationSteps ==
    ASSUME QueueInv, (\E j \in Jobs : ReservationLapses(j)) \/ Sweep \/ UNCHANGED vars
    PROVE  QueueInv' /\ OwnedStep
<1>1. /\ reserved \subseteq Keyed /\ lapsed \subseteq reserved \cap Expiring
  BY DEF QueueInv, ReservationsAreSound
<1>2. UNCHANGED <<job, scheduled, due, turn, batch, cleared, clears>>
  BY DEF ReservationLapses, Sweep, vars
<1>3. /\ reserved' \subseteq Keyed /\ lapsed' \subseteq reserved' \cap Expiring /\ reserved \ reserved' \subseteq lapsed
      /\ \A i \in Keyed \ Expiring : i \in reserved' <=> i \in reserved
  BY <1>1 DEF ReservationLapses, Sweep, vars
<1>4. EntriesFit' /\ FollowersWait' /\ BatchIsSound' /\ ListsAreSound' /\ clears' \in 0 .. MaxClears
  BY <1>2 DEF QueueInv, EntriesFit, FollowersWait, BatchIsSound, ListsAreSound, ReadyIsScheduled, ChildrenEnterTogether,
              ChildrenCountedOnce, In
<1>5. ReservationsAreSound'
  BY <1>2, <1>3, HeldIsLive, ReservationsKept DEF QueueInv
<1> QED  BY <1>2, <1>3, <1>4, <1>5 DEF QueueInv, OwnedStep

LEMMA QueueStarts == Init => QueueInv
<1> SUFFICES ASSUME Init PROVE QueueInv
  OBVIOUS
<1>1. PICK w \in Workloads : job = [j \in Jobs |-> [state |-> IF j \in w THEN "new" ELSE "unused",
                                                 attempt |-> 0, releases |-> 0]]
  BY DEF Init
<1>2. /\ scheduled = {} /\ due = {} /\ turn = "loop" /\ reserved = {} /\ lapsed = {} /\ cleared = {} /\ clears = 0
      /\ batch = [known |-> FALSE, cancellationRequested |-> FALSE, succeeded |-> 0, failed |-> 0, cancelled |-> 0]
  BY DEF Init
<1>3. \A j \in Jobs : /\ job[j].state = IF j \in w THEN "new" ELSE "unused"
                      /\ job[j].attempt = 0 /\ job[j].releases = 0 /\ job[j] \in Entry
  BY <1>1 DEF Entry, Ended
<1>4. EntriesFit
  <2>1. job \in [Jobs -> Entry]
    BY <1>1, <1>3
  <2>2. \A j \in Jobs : TriesOf[j] \in Nat \ {0} /\ ReleasesOf[j] \in Nat
    BY QueueAssumption
  <2> QED  BY <1>3, <2>1, <2>2 DEF EntriesFit, EntryFits
<1>5. ListsAreSound
  BY <1>2, <1>3 DEF ListsAreSound, ReadyIsScheduled, In
<1>6. FollowersWait
  <2>1. \A j \in Jobs : NextOf[j] # None => NextOf[j] \in Jobs /\ (j \in w => NextOf[j] \in w)
    BY QueueAssumption
  <2> QED  BY <1>3, <2>1 DEF FollowersWait, Waiting
<1>7. BatchIsSound
  BY <1>2, <1>3, KeylessMembers DEF BatchIsSound, Batch, ChildrenEnterTogether, ChildrenCountedOnce, Waiting
<1>8. ReservationsAreSound
  BY <1>2, <1>3 DEF ReservationsAreSound, DeduplicationIsExclusive, In
<1>9. clears \in 0 .. MaxClears
  BY <1>2, QueueAssumption
<1> QED  BY <1>4, <1>5, <1>6, <1>7, <1>8, <1>9 DEF QueueInv

LEMMA QueueMoves == QueueInv /\ [Next]_vars => QueueInv' /\ OwnedStep
<1> SUFFICES ASSUME QueueInv, [Next]_vars PROVE QueueInv' /\ OwnedStep
  OBVIOUS
<1>1. ASSUME NEW j \in Jobs, Push(j) \/ PushDuplicate(j) \/ Chain(j) PROVE QueueInv' /\ OwnedStep
  BY <1>1, PushSteps, PushDuplicateSteps, ChainSteps
<1>2. ASSUME NEW j \in Jobs, TimerFires(j) \/ Run(j) \/ FailureObserved(j) PROVE QueueInv' /\ OwnedStep
  BY <1>2, TimerSteps, RunSteps, ObservedSteps
<1>3. ASSUME NEW j \in Jobs, JobSucceeds(j) \/ JobCancels(j) \/ JobReleases(j) \/ JobRetries(j) \/ JobFails(j)
      PROVE  QueueInv' /\ OwnedStep
  BY <1>3, SucceedSteps, CancelSteps, ReleaseSteps, RetrySteps, FailSteps
<1>4. CASE BatchJobs \/ CancelBatch
  BY <1>4, BatchSteps, CancelBatchSteps
<1>5. ASSUME NEW q \in Queues, Clear({q}) PROVE QueueInv' /\ OwnedStep
  BY <1>5, ClearSteps
<1>6. ASSUME NEW q \in Queues, Microtask(q) PROVE QueueInv' /\ OwnedStep
  BY <1>6, MicrotaskSteps
<1>7. CASE Clear(Queues)
  BY <1>7, ClearSteps
<1>8. CASE (\E j \in Jobs : ReservationLapses(j)) \/ Sweep \/ UNCHANGED vars
  BY <1>8, ReservationSteps
<1> QED  BY <1>1, <1>2, <1>3, <1>4, <1>5, <1>6, <1>7, <1>8 DEF Next

LEMMA QueueInductive == Spec => []QueueInv
  BY QueueStarts, QueueMoves, PTL DEF Spec

\* Whatever handlers call while the microtask starts jobs, nothing ready is forgotten, every
\* child is counted once, an id has one live job and no entry exceeds its budgets; for any
\* jobs, queues, chains, batch and number of clears (InMemoryQueue.ts).
THEOREM EntriesAreAlwaysAccounted == Spec => [](TypeOK /\ EntriesAreAccounted)
<1>1. QueueInv => EntriesAreAccounted
  BY DEF QueueInv, EntriesFit, EntryFits, ListsAreSound, BatchIsSound, ReservationsAreSound, EntriesAreAccounted
<1>2. QueueInv => TypeOK
  BY DEF QueueInv, EntriesFit, ListsAreSound, BatchIsSound, ReservationsAreSound, TypeOK, Keyed
<1> QED  BY <1>1, <1>2, QueueInductive, PTL

\* What ended stays ended, no child starts after cancelBatch, and a reservation goes with its
\* own job, its ttl or a clear(); for any jobs and queues (#run, cancelBatch, #releaseDeduplication).
THEOREM EntriesAreAlwaysOwned == Spec => EntriesAreOwned
<1>1. QueueInv /\ [Next]_vars => [\A j \in reserved \ reserved' :
          \/ j \in lapsed
          \/ clears' # clears
          \/ job[j].state = "running" /\ job'[j].state # "running"]_vars
  BY QueueMoves DEF OwnedStep
<1>2. QueueInv /\ [Next]_vars => [\A j \in Jobs :
          /\ job[j].state \in Ended => job'[j] = job[j]
          /\ CancelRequested(j) /\ job'[j].state = "running" => job[j].state = "running"]_vars
  BY QueueMoves DEF OwnedStep
<1> QED  BY <1>1, <1>2, QueueInductive, PTL DEF Spec, EntriesAreOwned, ReservationsAreOwned, EndedStaysEnded
=============================================================================
