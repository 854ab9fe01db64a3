--------------------------- MODULE MessagingProofs ---------------------------
(***************************************************************************)
(* Proofs about ReliableMessaging, for any messages, processors, consumers, *)
(* limits, budgets and faults.                                             *)
(*                                                                         *)
(* Every claim of an inbox row has a token of its own, so at most one call  *)
(* holds the live lease.  A handler that takes effect without it has lost a *)
(* claim, and a claim is lost only with a lapse: effects that are owed are   *)
(* counted against lapses.                                                  *)
(***************************************************************************)
EXTENDS ReliableMessaging, FiniteSetTheorems, TLAPS

\* A call that holds the live lease of a row, and has heard nothing else.
GoodIn(s, r, m) ==
    /\ s.pc \in {"handling", "settling"} /\ s.m = m /\ s.token = TokenOf(r)
    /\ r.state = "processing" /\ r.live /\ ~s.leaseLost

\* A call that has lost its claim, and whose handler may still take effect.
AstrayIn(s, r, m) == s.pc = "handling" /\ s.m = m /\ ~GoodIn(s, r, m)
Astray(m) == {c \in Consumers : AstrayIn(consumer[c], inbox[m], m)}

\* The one effect that needs no lapse has been had.
EarnedIn(s, r, m) == GoodIn(s, r, m) /\ s.pc = "settling" /\ s.result = "ok"
Earned(m) == Terminal(inbox[m]) \/ \E c \in Consumers : EarnedIn(consumer[c], inbox[m], m)

Kept(m) == \E c \in Consumers : GoodIn(consumer[c], inbox[m], m)

One(b) == IF b THEN 1 ELSE 0

EffectsArePaid(m) ==
    /\ IsFiniteSet(Astray(m))
    /\ effects[m] + Cardinality(Astray(m)) <= lapses[m] + One(Earned(m))

\* An attempt beyond the budget is paid for by a lapse, before it is made.
InboxIsPaid(m) ==
    /\ inbox[m].epoch = 0
    /\ inbox[m].state = "absent" => inbox[m].attempts = 0
    /\ inbox[m].attempts <= InboxAttempts + lapses[m]
    /\ inbox[m].state = "pending" => inbox[m].attempts < InboxAttempts
    /\ inbox[m].state = "processing" => Kept(m) \/ inbox[m].attempts < InboxAttempts + lapses[m]

CallFits(s, rows) ==
    /\ s.pc # "idle" => s.m \in Messages
    /\ s.pc \in {"claiming", "reclaiming"} => ~s.leaseLost
    /\ s.pc \in {"handling", "settling"} => s.token[1] = 0 /\ s.token[2] <= rows[s.m].attempts

TokensDiffer ==
    \A c, d \in Consumers :
       /\ c # d /\ consumer[c].m = consumer[d].m
       /\ consumer[c].pc \in {"handling", "settling"} /\ consumer[d].pc \in {"handling", "settling"}
       => consumer[c].token # consumer[d].token

InboxInv ==
    /\ inbox \in [Messages -> Row] /\ consumer \in [Consumers -> ConsumerState]
    /\ effects \in [Messages -> Nat] /\ lapses \in [Messages -> Nat]
    /\ \A c \in Consumers : CallFits(consumer[c], inbox)
    /\ TokensDiffer
    /\ \A m \in Messages : EffectsArePaid(m) /\ InboxIsPaid(m)

(***************************************************************************)
(* The inbox: one call moves, or one row.                                  *)
(***************************************************************************)

\* How many calls go astray when one of them moves.
LEMMA AstrayCounts ==
    ASSUME NEW A, NEW B, IsFiniteSet(A), NEW c, A \ {c} = B \ {c}
    PROVE  /\ IsFiniteSet(B) /\ Cardinality(A) \in Nat /\ Cardinality(B) \in Nat
           /\ Cardinality(B) + One(c \in A) = Cardinality(A) + One(c \in B)
<1> DEFINE K == A \ {c}
<1>1. IsFiniteSet(K) /\ c \notin K
  BY FS_Subset
<1> HIDE DEF K
<1>2. Cardinality(K) \in Nat /\ IsFiniteSet(K \cup {c}) /\ Cardinality(K \cup {c}) = Cardinality(K) + 1
  BY <1>1, FS_CardinalityType, FS_AddElement
<1>3. /\ c \in A => A = K \cup {c}
      /\ c \notin A => A = K
      /\ c \in B => B = K \cup {c}
      /\ c \notin B => B = K
  BY DEF K
<1>4. Cardinality(A) = Cardinality(K) + One(c \in A)
  BY <1>2, <1>3 DEF One
<1>5. Cardinality(B) = Cardinality(K) + One(c \in B) /\ IsFiniteSet(B)
  BY <1>1, <1>2, <1>3 DEF One
<1>6. One(c \in A) \in 0..1 /\ One(c \in B) \in 0..1
  BY DEF One
<1> QED  BY <1>2, <1>4, <1>5, <1>6

\* A call c becomes s, the row of message m becomes r, with e effects and l lapses.
Moves(c, m, s, r, e, l) ==
    /\ consumer' = [consumer EXCEPT ![c] = s] /\ inbox' = [inbox EXCEPT ![m] = r]
    /\ effects' = [effects EXCEPT ![m] = e] /\ lapses' = [lapses EXCEPT ![m] = l]

\* It stays with its message; a new token is a new attempt, and the other calls keep or miss
\* their leases as before.
MoveFits(c, m, s, r) ==
    /\ consumer[c].pc = "idle" \/ consumer[c].m = m
    /\ s.pc = "idle" \/ s.m = m
    /\ s.pc \in {"claiming", "reclaiming"} => ~s.leaseLost
    /\ s.pc \in {"handling", "settling"} =>
          \/ consumer[c].pc \in {"handling", "settling"} /\ s.token = consumer[c].token
          \/ s.token[1] = 0 /\ s.token[2] = r.attempts /\ s.token[2] > inbox[m].attempts
    /\ \A d \in Consumers \ {c} : GoodIn(consumer[d], r, m) <=> GoodIn(consumer[d], inbox[m], m)

\* The attempts and the effects are paid for.
MoveIsPaid(c, m, s, r, e, l) ==
    /\ r.epoch = 0 /\ r.attempts >= inbox[m].attempts
    /\ r.state = "absent" => r.attempts = 0
    /\ r.attempts <= InboxAttempts + l
    /\ r.state = "pending" => r.attempts < InboxAttempts
    /\ r.state = "processing" =>
          \/ GoodIn(s, r, m) \/ \E d \in Consumers \ {c} : GoodIn(consumer[d], r, m)
          \/ r.attempts < InboxAttempts + l
    /\ e + One(AstrayIn(s, r, m)) + lapses[m] + One(Earned(m))
          <= l + One(Earned(m)') + effects[m] + One(AstrayIn(consumer[c], inbox[m], m))

LEMMA CallMoves ==
    ASSUME InboxInv, NEW c \in Consumers, NEW m \in Messages, NEW s \in ConsumerState, NEW r \in Row,
           NEW e \in Nat, NEW l \in Nat,
           Moves(c, m, s, r, e, l), MoveFits(c, m, s, r), MoveIsPaid(c, m, s, r, e, l)
    PROVE  InboxInv'
<1>1. /\ consumer \in [Consumers -> ConsumerState] /\ inbox \in [Messages -> Row]
      /\ effects \in [Messages -> Nat] /\ lapses \in [Messages -> Nat]
  BY DEF InboxInv
<1>2. /\ consumer' \in [Consumers -> ConsumerState] /\ consumer'[c] = s
      /\ \A d \in Consumers \ {c} : consumer'[d] = consumer[d]
      /\ inbox' \in [Messages -> Row] /\ inbox'[m] = r
      /\ \A n \in Messages \ {m} : inbox'[n] = inbox[n]
      /\ effects' \in [Messages -> Nat] /\ effects'[m] = e
      /\ lapses' \in [Messages -> Nat] /\ lapses'[m] = l
      /\ \A n \in Messages \ {m} : effects'[n] = effects[n] /\ lapses'[n] = lapses[n]
  BY <1>1 DEF Moves
<1>3. \A n \in Messages : inbox'[n].attempts \in Nat /\ inbox[n].attempts \in Nat /\ inbox'[n].attempts >= inbox[n].attempts
  BY <1>1, <1>2 DEF Row, MoveIsPaid
<1>4. \A d \in Consumers : CallFits(consumer[d], inbox)
  BY DEF InboxInv
<1>5. ASSUME NEW d \in Consumers
      PROVE  CallFits(consumer'[d], inbox')
  <2>1. CASE d = c
    <3>1. s.pc \in {"handling", "settling"} => s.token[1] = 0 /\ s.token[2] <= r.attempts
      <4>1. s.token[2] \in Nat /\ r.attempts \in Nat /\ inbox[m].attempts \in Nat
        BY <1>1 DEF ConsumerState, Row
      <4>2. r.attempts >= inbox[m].attempts
        BY DEF MoveIsPaid
      <4>3. CallFits(consumer[c], inbox)
        BY <1>4
      <4>4. consumer[c].pc \in {"handling", "settling"} =>
               consumer[c].m = m /\ consumer[c].token[1] = 0 /\ consumer[c].token[2] <= inbox[m].attempts
        BY <4>3 DEF CallFits, MoveFits
      <4>5. consumer[c].token[2] \in Nat
        BY <1>1 DEF ConsumerState
      <4> QED  BY <4>1, <4>2, <4>4, <4>5 DEF MoveFits
    <3> QED  BY <1>2, <2>1, <3>1 DEF CallFits, MoveFits
  <2>2. CASE d # c
    <3>1. consumer'[d] = consumer[d] /\ CallFits(consumer[d], inbox) /\ consumer[d].token[2] \in Nat
      BY <1>1, <1>2, <1>4, <2>2 DEF ConsumerState
    <3> QED  BY <1>3, <3>1 DEF CallFits
  <2> QED  BY <2>1, <2>2
<1>6. TokensDiffer'
  <2>1. ASSUME NEW d \in Consumers \ {c}, s.pc \in {"handling", "settling"}, consumer[d].m = m,
               consumer[d].pc \in {"handling", "settling"}
        PROVE  s.token # consumer[d].token
    <3>1. consumer[d].token[2] <= inbox[m].attempts /\ consumer[d].token[2] \in Nat /\ inbox[m].attempts \in Nat
      BY <1>1, <1>4, <2>1 DEF CallFits, ConsumerState, Row
    <3>2. CASE consumer[c].pc \in {"handling", "settling"} /\ s.token = consumer[c].token
      BY <2>1, <3>2 DEF InboxInv, TokensDiffer, MoveFits
    <3>3. CASE s.token[2] > inbox[m].attempts
      BY <3>1, <3>3
    <3> QED  BY <2>1, <3>2, <3>3 DEF MoveFits
  <2>2. s.pc \in {"handling", "settling"} => s.m = m
    BY DEF MoveFits
  <2>3. TokensDiffer
    BY DEF InboxInv
  <2> QED  BY <1>2, <2>1, <2>2, <2>3 DEF TokensDiffer
<1>7. ASSUME NEW n \in Messages, n # m
      PROVE  (EffectsArePaid(n) /\ InboxIsPaid(n))'
  <2>1. \A d \in Consumers : /\ GoodIn(consumer'[d], inbox'[n], n) <=> GoodIn(consumer[d], inbox[n], n)
                             /\ AstrayIn(consumer'[d], inbox'[n], n) <=> AstrayIn(consumer[d], inbox[n], n)
                             /\ EarnedIn(consumer'[d], inbox'[n], n) <=> EarnedIn(consumer[d], inbox[n], n)
    BY <1>2, <1>7 DEF GoodIn, AstrayIn, EarnedIn, MoveFits
  <2>2. Astray(n)' = Astray(n) /\ (Earned(n)' <=> Earned(n)) /\ (Kept(n)' <=> Kept(n))
    BY <1>2, <1>7, <2>1 DEF Astray, Earned, Kept
  <2>3. EffectsArePaid(n) /\ InboxIsPaid(n)
    BY DEF InboxInv
  <2> QED  BY <1>2, <1>7, <2>2, <2>3 DEF EffectsArePaid, InboxIsPaid, One
<1>8. EffectsArePaid(m)'
  <2>1. /\ IsFiniteSet(Astray(m)) /\ effects[m] \in Nat /\ lapses[m] \in Nat
        /\ effects[m] + Cardinality(Astray(m)) <= lapses[m] + One(Earned(m))
    BY <1>1 DEF InboxInv, EffectsArePaid
  <2>2. Astray(m) \ {c} = Astray(m)' \ {c}
    BY <1>2 DEF Astray, AstrayIn, MoveFits
  <2>3. ((c \in Astray(m)) <=> AstrayIn(consumer[c], inbox[m], m)) /\ ((c \in Astray(m)') <=> AstrayIn(s, r, m))
    BY <1>2 DEF Astray
  <2>4. /\ IsFiniteSet(Astray(m)') /\ Cardinality(Astray(m)) \in Nat /\ Cardinality(Astray(m)') \in Nat
        /\ Cardinality(Astray(m)') + One(c \in Astray(m)) = Cardinality(Astray(m)) + One(c \in Astray(m)')
    BY <2>1, <2>2, AstrayCounts
  <2> DEFINE k == Cardinality(Astray(m))
             k1 == Cardinality(Astray(m)')
             a == One(AstrayIn(consumer[c], inbox[m], m))
             a1 == One(AstrayIn(s, r, m))
             b == One(Earned(m))
             b1 == One(Earned(m)')
  <2>5. a \in 0..1 /\ a1 \in 0..1 /\ b \in 0..1 /\ b1 \in 0..1
    BY DEF One
  <2>6. k \in Nat /\ k1 \in Nat /\ k1 + a = k + a1
    <3>1. One(c \in Astray(m)) = a /\ One(c \in Astray(m)') = a1
      BY <2>3 DEF One
    <3> QED  BY <2>4, <3>1
  <2>7. effects[m] + k <= lapses[m] + b /\ e + a1 + lapses[m] + b <= l + b1 + effects[m] + a
    BY <2>1 DEF MoveIsPaid
  <2> HIDE DEF k, k1, a, a1, b, b1
  <2>8. e + k1 <= l + b1
    BY <2>1, <2>5, <2>6, <2>7
  <2> QED  BY <1>2, <2>4, <2>8 DEF EffectsArePaid, k1, b1
<1>9. InboxIsPaid(m)'
  <2>1. r.state = "processing" => Kept(m)' \/ r.attempts < InboxAttempts + l
    BY <1>2 DEF Kept, MoveIsPaid
  <2> QED  BY <1>2, <2>1 DEF InboxIsPaid, MoveIsPaid
<1> QED  BY <1>2, <1>5, <1>6, <1>7, <1>8, <1>9 DEF InboxInv

\* What take, settle and the passing of time make of a row.
LEMMA RowFacts ==
    ASSUME NEW r \in Row
    PROVE  /\ Taken(r) \in Row /\ Taken(r).state = "processing" /\ Taken(r).live
           /\ Taken(r).attempts = r.attempts + 1 /\ Taken(r).epoch = r.epoch
           /\ LET gone == [r EXCEPT !.live = FALSE]
              IN  gone \in Row /\ gone.state = r.state /\ ~gone.live /\ gone.attempts = r.attempts /\ gone.epoch = r.epoch
           /\ LET due == [r EXCEPT !.due = TRUE]
              IN  due \in Row /\ due.state = r.state /\ due.live = r.live /\ due.attempts = r.attempts /\ due.epoch = r.epoch
           /\ r.attempts \in Nat /\ r.epoch \in Nat
<1>1. Taken(r) \in Row /\ Taken(r).state = "processing" /\ Taken(r).live
      /\ Taken(r).attempts = r.attempts + 1 /\ Taken(r).epoch = r.epoch
  <2> DEFINE n == r.attempts + 1
             u == [r EXCEPT !.state = "processing", !.attempts = n, !.live = TRUE, !.due = FALSE]
  <2>1. n \in Nat
    BY DEF Row
  <2> HIDE DEF n
  <2>2. u \in Row /\ u.state = "processing" /\ u.live /\ u.attempts = n /\ u.epoch = r.epoch
    BY <2>1 DEF Row
  <2>3. Taken(r) = u
    BY DEF Taken, n
  <2> HIDE DEF u
  <2> QED  BY <2>2, <2>3 DEF n
<1> QED  BY <1>1 DEF Row

\* What a claim makes of a row.
LEMMA TakenFacts ==
    ASSUME NEW r \in Row
    PROVE  /\ Taken(r) \in Row /\ Taken(r).state = "processing" /\ Taken(r).live
           /\ Taken(r).attempts = r.attempts + 1
  BY RowFacts

\* Tokens are pairs of numbers.
LEMMA TokenFits ==
    ASSUME NEW r \in Row
    PROVE  TokenOf(r) \in Nat \X Nat
  BY DEF TokenOf, Row

\* What the end of an attempt makes of a row.
LEMMA SettledFacts ==
    ASSUME NEW r \in Row, NEW state \in {"delivered", "dead", "pending"}
    PROVE  /\ Settled(r, state) \in Row /\ Settled(r, state).state = state /\ ~Settled(r, state).live
           /\ Settled(r, state).attempts = r.attempts /\ Settled(r, state).epoch = r.epoch
           /\ r.attempts \in Nat
  BY DEF Row, Settled

\* At most one call holds the live lease of a row.
LEMMA OneGood ==
    ASSUME InboxInv, NEW m \in Messages, NEW c \in Consumers, NEW d \in Consumers,
           GoodIn(consumer[c], inbox[m], m), GoodIn(consumer[d], inbox[m], m)
    PROVE  c = d
  BY DEF InboxInv, TokensDiffer, GoodIn

\* The token of a later claim is nobody's.
LEMMA FreshTokens ==
    ASSUME InboxInv, NEW m \in Messages, NEW r \in Row, r.attempts > inbox[m].attempts
    PROVE  \A c \in Consumers : ~GoodIn(consumer[c], r, m)
<1> SUFFICES ASSUME NEW c \in Consumers, GoodIn(consumer[c], r, m)
             PROVE  FALSE
  OBVIOUS
<1>1. consumer[c].token[2] = r.attempts /\ consumer[c].token[2] <= inbox[m].attempts
  <2>1. CallFits(consumer[c], inbox)
    BY DEF InboxInv
  <2>2. consumer[c].m = m /\ consumer[c].pc \in {"handling", "settling"} /\ consumer[c].token = <<r.epoch, r.attempts>>
    BY DEF GoodIn, TokenOf
  <2> QED  BY <2>1, <2>2 DEF CallFits
<1>2. r.attempts \in Nat /\ inbox[m].attempts \in Nat
  BY DEF Row, InboxInv
<1> QED  BY <1>1, <1>2

\* A step of a call that neither wins nor loses a claim, and pays for nothing.
LEMMA CallWaits ==
    ASSUME InboxInv, NEW c \in Consumers, NEW m \in Messages, NEW s \in ConsumerState,
           consumer' = [consumer EXCEPT ![c] = s], UNCHANGED <<inbox, effects, lapses>>,
           consumer[c].pc = "idle" \/ consumer[c].m = m, s.pc = "idle" \/ s.m = m,
           s.pc \in {"claiming", "reclaiming"} => ~s.leaseLost,
           s.pc \in {"handling", "settling"} =>
              consumer[c].pc \in {"handling", "settling"} /\ s.token = consumer[c].token,
           GoodIn(s, inbox[m], m) <=> GoodIn(consumer[c], inbox[m], m),
           EarnedIn(s, inbox[m], m) <=> EarnedIn(consumer[c], inbox[m], m),
           AstrayIn(s, inbox[m], m) => AstrayIn(consumer[c], inbox[m], m)
    PROVE  InboxInv'
<1>1. /\ consumer \in [Consumers -> ConsumerState] /\ inbox \in [Messages -> Row]
      /\ effects \in [Messages -> Nat] /\ lapses \in [Messages -> Nat]
      /\ inbox[m] \in Row /\ effects[m] \in Nat /\ lapses[m] \in Nat /\ inbox[m].attempts \in Nat
      /\ InboxIsPaid(m)
  BY DEF InboxInv, Row
<1>2. /\ inbox' = [inbox EXCEPT ![m] = inbox[m]] /\ effects' = [effects EXCEPT ![m] = effects[m]]
      /\ lapses' = [lapses EXCEPT ![m] = lapses[m]]
      /\ consumer'[c] = s /\ \A d \in Consumers \ {c} : consumer'[d] = consumer[d]
  BY <1>1
<1>3. Earned(m)' <=> Earned(m)
  BY <1>1, <1>2 DEF Earned
<1>4. effects[m] + One(AstrayIn(s, inbox[m], m)) + lapses[m] + One(Earned(m))
        <= lapses[m] + One(Earned(m)') + effects[m] + One(AstrayIn(consumer[c], inbox[m], m))
  <2>1. One(Earned(m)') = One(Earned(m)) /\ One(Earned(m)) \in Nat
    BY <1>3 DEF One
  <2>2. /\ One(AstrayIn(s, inbox[m], m)) <= One(AstrayIn(consumer[c], inbox[m], m))
        /\ One(AstrayIn(s, inbox[m], m)) \in Nat /\ One(AstrayIn(consumer[c], inbox[m], m)) \in Nat
    BY DEF One
  <2> QED  BY <1>1, <2>1, <2>2
<1>5. inbox[m].state = "processing" =>
         \/ GoodIn(s, inbox[m], m) \/ (\E d \in Consumers \ {c} : GoodIn(consumer[d], inbox[m], m))
         \/ inbox[m].attempts < InboxAttempts + lapses[m]
  BY <1>1 DEF InboxIsPaid, Kept
<1>6. inbox[m].attempts >= inbox[m].attempts
  BY <1>1
<1>7. Moves(c, m, s, inbox[m], effects[m], lapses[m])
  BY <1>2 DEF Moves
<1>8. MoveFits(c, m, s, inbox[m])
  BY DEF MoveFits
<1>9. MoveIsPaid(c, m, s, inbox[m], effects[m], lapses[m])
  BY <1>1, <1>4, <1>5, <1>6 DEF MoveIsPaid, InboxIsPaid
<1> QED  BY <1>1, <1>7, <1>8, <1>9, CallMoves

\* The row of a message changes while no call holds its lease, before or after.
LEMMA RowMoves ==
    ASSUME InboxInv, NEW m \in Messages, NEW r \in Row,
           UNCHANGED <<consumer, effects, lapses>>, inbox' = [inbox EXCEPT ![m] = r],
           r.state = inbox[m].state, r.attempts = inbox[m].attempts, r.epoch = inbox[m].epoch,
           \A c \in Consumers : ~GoodIn(consumer[c], inbox[m], m) /\ ~GoodIn(consumer[c], r, m)
    PROVE  InboxInv'
<1>1. /\ consumer \in [Consumers -> ConsumerState] /\ inbox \in [Messages -> Row]
  BY DEF InboxInv
<1>2. /\ inbox' \in [Messages -> Row] /\ inbox'[m] = r
      /\ \A n \in Messages \ {m} : inbox'[n] = inbox[n]
  BY <1>1
<1>3. \A n \in Messages, c \in Consumers :
         /\ GoodIn(consumer'[c], inbox'[n], n) <=> GoodIn(consumer[c], inbox[n], n)
         /\ AstrayIn(consumer'[c], inbox'[n], n) <=> AstrayIn(consumer[c], inbox[n], n)
         /\ EarnedIn(consumer'[c], inbox'[n], n) <=> EarnedIn(consumer[c], inbox[n], n)
  BY <1>2 DEF AstrayIn, EarnedIn
<1>4. \A n \in Messages : /\ inbox'[n].state = inbox[n].state /\ inbox'[n].attempts = inbox[n].attempts
                          /\ inbox'[n].epoch = inbox[n].epoch
  BY <1>2
<1>5. \A n \in Messages : Astray(n)' = Astray(n) /\ (Earned(n)' <=> Earned(n)) /\ (Kept(n)' <=> Kept(n))
  BY <1>3, <1>4 DEF Astray, Earned, Kept, Terminal
<1>6. \A n \in Messages : (EffectsArePaid(n) /\ InboxIsPaid(n))'
  BY <1>4, <1>5 DEF InboxInv, EffectsArePaid, InboxIsPaid, One
<1>7. (\A c \in Consumers : CallFits(consumer[c], inbox))' /\ TokensDiffer'
  BY <1>4 DEF InboxInv, CallFits, TokensDiffer
<1> QED  BY <1>2, <1>6, <1>7 DEF InboxInv

\* An idle consumer holds nothing.
LEMMA IdleFits ==
    /\ IdleConsumer \in ConsumerState /\ IdleConsumer.pc = "idle"
    /\ \A r, m : ~GoodIn(IdleConsumer, r, m) /\ ~EarnedIn(IdleConsumer, r, m) /\ ~AstrayIn(IdleConsumer, r, m)
  BY DEF IdleConsumer, ConsumerState, GoodIn, EarnedIn, AstrayIn

\* What the invariant says of one call and of its message.
LEMMA CallFacts ==
    ASSUME InboxInv, NEW c \in Consumers, consumer[c].pc # "idle"
    PROVE  /\ consumer[c] \in ConsumerState /\ consumer[c].m \in Messages
           /\ consumer[c].pc \in {"claiming", "reclaiming"} => ~consumer[c].leaseLost
           /\ inbox[consumer[c].m] \in Row
           /\ effects[consumer[c].m] \in Nat /\ lapses[consumer[c].m] \in Nat
           /\ InboxIsPaid(consumer[c].m)
<1>1. consumer[c] \in ConsumerState /\ CallFits(consumer[c], inbox)
  BY DEF InboxInv
<1>2. consumer[c].m \in Messages
  BY <1>1 DEF CallFits
<1> QED  BY <1>1, <1>2 DEF InboxInv, CallFits

\* A job is taken from the queue.
LEMMA TakingSteps ==
    ASSUME InboxInv, NEW c \in Consumers, NEW m \in Messages, TakeJob(c, m)
    PROVE  InboxInv'
<1> DEFINE s == [IdleConsumer EXCEPT !.pc = "claiming", !.m = m]
<1>1. s \in ConsumerState /\ s.pc = "claiming" /\ s.m = m /\ ~s.leaseLost
  BY DEF IdleConsumer, ConsumerState
<1>2. /\ consumer' = [consumer EXCEPT ![c] = s] /\ UNCHANGED <<inbox, effects, lapses>>
      /\ consumer[c].pc = "idle"
  BY DEF TakeJob
<1> HIDE DEF s
<1>3. /\ GoodIn(s, inbox[m], m) <=> GoodIn(consumer[c], inbox[m], m)
      /\ EarnedIn(s, inbox[m], m) <=> EarnedIn(consumer[c], inbox[m], m)
      /\ AstrayIn(s, inbox[m], m) => AstrayIn(consumer[c], inbox[m], m)
  BY <1>1, <1>2 DEF GoodIn, EarnedIn, AstrayIn
<1> QED  BY <1>1, <1>2, <1>3, CallWaits

\* A call that holds no live lease ends.
LEMMA GivingUp ==
    ASSUME InboxInv, NEW c \in Consumers, consumer[c].pc # "idle",
           ~GoodIn(consumer[c], inbox[consumer[c].m], consumer[c].m),
           consumer' = [consumer EXCEPT ![c] = IdleConsumer], UNCHANGED <<inbox, effects, lapses>>
    PROVE  InboxInv'
<1>1. consumer[c].m \in Messages
  BY CallFacts
<1>2. ~EarnedIn(consumer[c], inbox[consumer[c].m], consumer[c].m)
  BY DEF EarnedIn
<1> QED  BY <1>1, <1>2, IdleFits, CallWaits

\* A claim takes a row that nobody holds.
LEMMA ReclaimSteps ==
    ASSUME InboxInv, NEW c \in Consumers, NEW m, m = consumer[c].m, consumer[c].pc \in {"claiming", "reclaiming"},
           inbox[m].state = "absent" \/ Claimable(inbox[m]), Reclaim(c, m), UNCHANGED <<effects, lapses>>
    PROVE  InboxInv'
<1> DEFINE old == inbox[m]
           r == Taken(old)
<1>1. /\ consumer[c] \in ConsumerState /\ m \in Messages /\ ~consumer[c].leaseLost /\ old \in Row
      /\ effects[m] \in Nat /\ lapses[m] \in Nat /\ InboxIsPaid(m)
  BY CallFacts
<1>2. /\ r \in Row /\ r.state = "processing" /\ r.live /\ r.attempts = old.attempts + 1 /\ r.epoch = old.epoch
      /\ old.attempts \in Nat
  BY <1>1, RowFacts
<1>3. inbox' = [inbox EXCEPT ![m] = r] /\ inbox'[m] = r
  BY <1>1 DEF Reclaim, InboxInv
<1> HIDE DEF r
<1> DEFINE s == [consumer[c] EXCEPT !.pc = "handling", !.token = TokenOf(r)]
<1>4. TokenOf(r) \in Nat \X Nat /\ TokenOf(r)[1] = r.epoch /\ TokenOf(r)[2] = r.attempts
  BY <1>2 DEF TokenOf, Row
<1>5. consumer' = [consumer EXCEPT ![c] = s]
  BY <1>3 DEF Reclaim
<1>6. s \in ConsumerState /\ s.pc = "handling" /\ s.m = m /\ ~s.leaseLost /\ s.token = TokenOf(r)
  BY <1>1, <1>4 DEF ConsumerState
<1> HIDE DEF s
<1>7. effects' = [effects EXCEPT ![m] = effects[m]] /\ lapses' = [lapses EXCEPT ![m] = lapses[m]]
  BY DEF InboxInv
<1>8. r.attempts > old.attempts
  BY <1>2
<1>9. \A d \in Consumers : ~GoodIn(consumer[d], r, m) /\ ~GoodIn(consumer[d], old, m)
  <2>1. ~(old.state = "processing" /\ old.live)
    BY DEF Claimable
  <2> QED  BY <1>1, <1>2, <1>8, <2>1, FreshTokens DEF GoodIn
<1>10. Moves(c, m, s, r, effects[m], lapses[m])
  BY <1>3, <1>5, <1>7 DEF Moves
<1>11. old.epoch = 0 /\ s.token[1] = 0 /\ s.token[2] = r.attempts /\ s.token[2] > old.attempts
  BY <1>1, <1>2, <1>4, <1>6 DEF InboxIsPaid
<1>12. MoveFits(c, m, s, r)
  BY <1>6, <1>9, <1>11 DEF MoveFits
<1>13. GoodIn(s, r, m) /\ ~AstrayIn(s, r, m)
  BY <1>2, <1>6 DEF GoodIn, AstrayIn
<1>14. r.attempts <= InboxAttempts + lapses[m]
  <2>1. InboxAttempts \in Nat \ {0}
    BY MessagingAssumption
  <2>2. ~Kept(m)
    BY <1>9 DEF Kept
  <2>3. old.attempts < InboxAttempts + lapses[m]
    BY <1>1, <1>2, <2>1, <2>2 DEF InboxIsPaid, Claimable
  <2> QED  BY <1>1, <1>2, <2>1, <2>3
<1>15. One(AstrayIn(s, r, m)) = 0 /\ One(Earned(m)) = 0 /\ One(Earned(m)') \in Nat
       /\ One(AstrayIn(consumer[c], old, m)) = 0
  <2>1. ~Terminal(old)
    BY DEF Claimable, Terminal
  <2>2. ~Earned(m)
    BY <1>9, <2>1 DEF Earned, EarnedIn
  <2> QED  BY <1>13, <2>2 DEF One, AstrayIn
<1>16. MoveIsPaid(c, m, s, r, effects[m], lapses[m])
  <2>1. effects[m] + One(AstrayIn(s, r, m)) + lapses[m] + One(Earned(m))
          <= lapses[m] + One(Earned(m)') + effects[m] + One(AstrayIn(consumer[c], inbox[m], m))
    BY <1>1, <1>15
  <2>2. r.attempts >= inbox[m].attempts
    BY <1>2
  <2> QED  BY <1>2, <1>11, <1>13, <1>14, <2>1, <2>2 DEF MoveIsPaid
<1> QED  BY <1>1, <1>2, <1>6, <1>10, <1>12, <1>16, CallMoves

\* A step of a call that holds a claim, or held one: what it gives up it pays for with a lapse.
LEMMA CallPays ==
    ASSUME InboxInv, NEW c \in Consumers, NEW m, m = consumer[c].m, consumer[c].pc \in {"handling", "settling"},
           NEW s \in ConsumerState,
           s.pc = "idle" \/ (s.pc \in {"handling", "settling"} /\ s.m = m /\ s.token = consumer[c].token),
           consumer' = [consumer EXCEPT ![c] = s], UNCHANGED inbox,
           NEW e \in Nat, NEW l \in Nat,
           effects' = [effects EXCEPT ![m] = e], lapses' = [lapses EXCEPT ![m] = l],
           l >= lapses[m], GoodIn(consumer[c], inbox[m], m) => GoodIn(s, inbox[m], m) \/ l > lapses[m],
           e + One(AstrayIn(s, inbox[m], m)) + lapses[m] + One(Earned(m))
              <= l + One(Earned(m)') + effects[m] + One(AstrayIn(consumer[c], inbox[m], m))
    PROVE  InboxInv'
<1>1. /\ m \in Messages /\ inbox[m] \in Row /\ effects[m] \in Nat /\ lapses[m] \in Nat /\ InboxIsPaid(m)
      /\ inbox[m].attempts \in Nat
  BY CallFacts, RowFacts
<1>2. Moves(c, m, s, inbox[m], e, l)
  BY <1>1 DEF Moves, InboxInv
<1>3. MoveFits(c, m, s, inbox[m])
  BY DEF MoveFits
<1>4. /\ inbox[m].epoch = 0 /\ inbox[m].attempts >= inbox[m].attempts
      /\ inbox[m].state = "absent" => inbox[m].attempts = 0
      /\ inbox[m].state = "pending" => inbox[m].attempts < InboxAttempts
  BY <1>1 DEF InboxIsPaid
<1>5. inbox[m].attempts <= InboxAttempts + l
  <2>1. inbox[m].attempts <= InboxAttempts + lapses[m] /\ InboxAttempts \in Nat \ {0}
    BY <1>1, MessagingAssumption DEF InboxIsPaid
  <2> QED  BY <1>1, <2>1
<1>6. inbox[m].state = "processing" =>
         \/ GoodIn(s, inbox[m], m) \/ \E d \in Consumers \ {c} : GoodIn(consumer[d], inbox[m], m)
         \/ inbox[m].attempts < InboxAttempts + l
  <2> SUFFICES ASSUME inbox[m].state = "processing", ~GoodIn(s, inbox[m], m),
                      \A d \in Consumers \ {c} : ~GoodIn(consumer[d], inbox[m], m)
               PROVE  inbox[m].attempts < InboxAttempts + l
    OBVIOUS
  <2>1. InboxAttempts \in Nat \ {0} /\ inbox[m].attempts <= InboxAttempts + lapses[m]
    BY <1>1, MessagingAssumption DEF InboxIsPaid
  <2>2. CASE l > lapses[m]
    BY <1>1, <2>1, <2>2
  <2>3. CASE ~GoodIn(consumer[c], inbox[m], m)
    <3>1. ~Kept(m)
      BY <2>3 DEF Kept
    <3>2. inbox[m].attempts < InboxAttempts + lapses[m]
      BY <1>1, <3>1 DEF InboxIsPaid
    <3> QED  BY <1>1, <2>1, <3>2
  <2> QED  BY <2>2, <2>3
<1>7. MoveIsPaid(c, m, s, inbox[m], e, l)
  BY <1>4, <1>5, <1>6 DEF MoveIsPaid
<1> QED  BY <1>1, <1>2, <1>3, <1>7, CallMoves

\* Whether the free effect has been had, as one call moves and the row stays.
LEMMA EarnedMoves ==
    ASSUME InboxInv, NEW c \in Consumers, NEW m \in Messages, NEW s,
           consumer' = [consumer EXCEPT ![c] = s], UNCHANGED inbox
    PROVE  /\ ~EarnedIn(consumer[c], inbox[m], m) /\ Earned(m) => Earned(m)'
           /\ EarnedIn(s, inbox[m], m) => Earned(m)'
           /\ One(Earned(m)) \in 0..1 /\ One(Earned(m)') \in 0..1
           /\ (Earned(m) => Earned(m)') => One(Earned(m)) <= One(Earned(m)')
           /\ Earned(m)' => One(Earned(m)') = 1
           /\ ~Earned(m) => One(Earned(m)) = 0
<1>1. consumer'[c] = s /\ \A d \in Consumers \ {c} : consumer'[d] = consumer[d]
  BY DEF InboxInv
<1> QED  BY <1>1 DEF Earned, One

\* The claim statements of the inbox.
LEMMA ClaimingSteps ==
    ASSUME InboxInv, NEW c \in Consumers, ClaimInbox(c) \/ ReclaimInbox(c)
    PROVE  InboxInv'
<1> DEFINE m == consumer[c].m
<1>1. /\ consumer[c] \in ConsumerState /\ m \in Messages /\ ~consumer[c].leaseLost
      /\ consumer[c].pc \in {"claiming", "reclaiming"} /\ UNCHANGED <<effects, lapses>>
  <2>1. consumer[c].pc \in {"claiming", "reclaiming"} /\ UNCHANGED <<effects, lapses>>
    BY DEF ClaimInbox, ReclaimInbox
  <2> QED  BY <2>1, CallFacts
<1>2. ~GoodIn(consumer[c], inbox[m], m)
  BY <1>1 DEF GoodIn
<1>3. ASSUME NEW result, EndJob(c, result), UNCHANGED inbox
      PROVE  InboxInv'
  <2>1. consumer' = [consumer EXCEPT ![c] = IdleConsumer]
    BY <1>3 DEF EndJob
  <2> QED  BY <1>1, <1>2, <1>3, <2>1, GivingUp
<1>4. ASSUME consumer' = [consumer EXCEPT ![c] = [@ EXCEPT !.pc = "reclaiming"]], UNCHANGED inbox
      PROVE  InboxInv'
  <2> DEFINE s == [consumer[c] EXCEPT !.pc = "reclaiming"]
  <2>1. s \in ConsumerState /\ s.pc = "reclaiming" /\ s.m = m /\ ~s.leaseLost
    BY <1>1 DEF ConsumerState
  <2>2. consumer' = [consumer EXCEPT ![c] = s]
    BY <1>4
  <2> HIDE DEF s
  <2>3. /\ GoodIn(s, inbox[m], m) <=> GoodIn(consumer[c], inbox[m], m)
        /\ EarnedIn(s, inbox[m], m) <=> EarnedIn(consumer[c], inbox[m], m)
        /\ AstrayIn(s, inbox[m], m) => AstrayIn(consumer[c], inbox[m], m)
    BY <1>2, <2>1 DEF GoodIn, EarnedIn, AstrayIn
  <2> QED  BY <1>1, <1>4, <2>1, <2>2, <2>3, CallWaits
<1>5. ASSUME Reclaim(c, m), inbox[m].state = "absent" \/ Claimable(inbox[m])
      PROVE  InboxInv'
  BY <1>1, <1>5, ReclaimSteps
<1>6. CASE ClaimInbox(c)
  <2>1. \/ Reclaim(c, m) /\ inbox[m].state = "absent"
        \/ consumer' = [consumer EXCEPT ![c] = [@ EXCEPT !.pc = "reclaiming"]] /\ UNCHANGED inbox
        \/ EndJob(c, InboxRead(inbox[m])) /\ UNCHANGED inbox
    BY <1>6 DEF ClaimInbox
  <2> QED  BY <1>3, <1>4, <1>5, <2>1
<1>7. CASE ReclaimInbox(c)
  BY <1>3, <1>5, <1>7 DEF ReclaimInbox
<1> QED  BY <1>6, <1>7

\* A heartbeat that fails, while the lease is live, is a lapse.
LEMMA HeartbeatSteps ==
    ASSUME InboxInv, NEW c \in Consumers, ConsumerRenewFails(c)
    PROVE  InboxInv'
<1>0. PICK m : m = consumer[c].m
  OBVIOUS
<1> DEFINE s == [consumer[c] EXCEPT !.leaseLost = TRUE]
<1>1. /\ consumer[c].pc = "handling" /\ ~consumer[c].leaseLost
      /\ consumer' = [consumer EXCEPT ![c] = s] /\ UNCHANGED <<inbox, effects>>
      /\ IF Fenced(inbox[m], consumer[c].token) THEN Lapse(m) ELSE UNCHANGED lapses
  BY <1>0 DEF ConsumerRenewFails
<1>2. /\ consumer[c] \in ConsumerState /\ m \in Messages /\ effects[m] \in Nat /\ lapses[m] \in Nat
  BY <1>0, <1>1, CallFacts
<1>3. s \in ConsumerState /\ s.pc = "handling" /\ s.m = m /\ s.leaseLost /\ s.token = consumer[c].token
  BY <1>0, <1>1, <1>2 DEF ConsumerState
<1> HIDE DEF s
<1>4. /\ ~GoodIn(s, inbox[m], m) /\ AstrayIn(s, inbox[m], m)
      /\ ~EarnedIn(s, inbox[m], m) /\ ~EarnedIn(consumer[c], inbox[m], m)
      /\ GoodIn(consumer[c], inbox[m], m) <=> Fenced(inbox[m], consumer[c].token)
      /\ AstrayIn(consumer[c], inbox[m], m) <=> ~Fenced(inbox[m], consumer[c].token)
  BY <1>0, <1>1, <1>3 DEF GoodIn, AstrayIn, EarnedIn, Fenced
<1>5. CASE ~Fenced(inbox[m], consumer[c].token)
  BY <1>0, <1>1, <1>2, <1>3, <1>4, <1>5, CallWaits
<1>6. CASE Fenced(inbox[m], consumer[c].token)
  <2> DEFINE e == effects[m]
             l == lapses[m] + 1
  <2>1. /\ effects' = [effects EXCEPT ![m] = e] /\ lapses' = [lapses EXCEPT ![m] = l]
        /\ e \in Nat /\ l \in Nat /\ l > lapses[m] /\ l >= lapses[m]
    BY <1>0, <1>1, <1>2, <1>6 DEF Lapse, InboxInv
  <2>2. /\ One(Earned(m)) <= One(Earned(m)') /\ One(Earned(m)) \in 0..1 /\ One(Earned(m)') \in 0..1
    BY <1>0, <1>1, <1>2, <1>4, EarnedMoves
  <2>3. e + One(AstrayIn(s, inbox[m], m)) + lapses[m] + One(Earned(m))
              <= l + One(Earned(m)') + effects[m] + One(AstrayIn(consumer[c], inbox[m], m))
    <3>1. One(AstrayIn(s, inbox[m], m)) = 1 /\ One(AstrayIn(consumer[c], inbox[m], m)) = 0
      BY <1>0, <1>4, <1>6 DEF One
    <3> QED  BY <1>0, <1>2, <2>2, <3>1
  <2> HIDE DEF e, l
  <2> QED  BY <1>0, <1>1, <1>3, <2>1, <2>3, CallPays
<1> QED  BY <1>0, <1>5, <1>6

\* The handler ends: with an effect, for which its claim or the lapse of its claim stands.
LEMMA HandlingSteps ==
    ASSUME InboxInv, NEW c \in Consumers, Handle(c)
    PROVE  InboxInv'
<1>0. PICK m : m = consumer[c].m
  OBVIOUS
<1>1. /\ consumer[c].pc = "handling" /\ UNCHANGED <<inbox, lapses>>
  BY <1>0 DEF Handle
<1>2. /\ consumer[c] \in ConsumerState /\ m \in Messages /\ effects[m] \in Nat /\ lapses[m] \in Nat
      /\ inbox[m] \in Row
  BY <1>0, <1>1, CallFacts
<1>3. PICK result \in {"ok", "retryable", "fatal"} :
         /\ consumer' = [consumer EXCEPT ![c] = [@ EXCEPT !.pc = "settling", !.result = result]]
         /\ effects' = IF result = "ok" THEN [effects EXCEPT ![m] = @ + 1] ELSE effects
  BY <1>0 DEF Handle
<1> DEFINE s == [consumer[c] EXCEPT !.pc = "settling", !.result = result]
<1>4. /\ s \in ConsumerState /\ s.pc = "settling" /\ s.m = m /\ s.token = consumer[c].token /\ s.result = result
      /\ s.leaseLost = consumer[c].leaseLost
  BY <1>0, <1>2 DEF ConsumerState
<1>5. consumer' = [consumer EXCEPT ![c] = s]
  BY <1>0, <1>3
<1> HIDE DEF s
<1>6. /\ GoodIn(s, inbox[m], m) <=> GoodIn(consumer[c], inbox[m], m)
      /\ ~AstrayIn(s, inbox[m], m) /\ ~EarnedIn(consumer[c], inbox[m], m)
      /\ EarnedIn(s, inbox[m], m) <=> (GoodIn(s, inbox[m], m) /\ result = "ok")
      /\ AstrayIn(consumer[c], inbox[m], m) <=> ~GoodIn(consumer[c], inbox[m], m)
  BY <1>0, <1>1, <1>4 DEF GoodIn, AstrayIn, EarnedIn
<1>7. CASE result # "ok"
  BY <1>0, <1>1, <1>2, <1>3, <1>4, <1>5, <1>6, <1>7, CallWaits
<1>8. CASE result = "ok"
  <2> DEFINE e == effects[m] + 1
             l == lapses[m]
  <2>1. /\ effects' = [effects EXCEPT ![m] = e] /\ lapses' = [lapses EXCEPT ![m] = l]
        /\ e \in Nat /\ l \in Nat /\ l >= lapses[m]
    BY <1>0, <1>1, <1>2, <1>3, <1>8 DEF InboxInv
  <2>2. /\ One(Earned(m)) <= One(Earned(m)') /\ One(Earned(m)) \in 0..1 /\ One(Earned(m)') \in 0..1
    BY <1>0, <1>1, <1>2, <1>5, <1>6, EarnedMoves
  <2>3. e + One(AstrayIn(s, inbox[m], m)) + lapses[m] + One(Earned(m))
              <= l + One(Earned(m)') + effects[m] + One(AstrayIn(consumer[c], inbox[m], m))
    <3>1. One(AstrayIn(s, inbox[m], m)) = 0
      BY <1>0, <1>6 DEF One
    <3>2. CASE GoodIn(consumer[c], inbox[m], m)
      <4>1. ~Terminal(inbox[m])
        BY <3>2 DEF GoodIn, Terminal
      <4>2. \A d \in Consumers : ~EarnedIn(consumer[d], inbox[m], m)
        BY <1>0, <1>2, <1>6, <3>2, OneGood DEF EarnedIn
      <4>3. ~Earned(m) /\ Earned(m)'
        BY <1>0, <1>1, <1>2, <1>5, <1>6, <1>8, <3>2, <4>1, <4>2, EarnedMoves DEF Earned
      <4>4. One(Earned(m)) = 0 /\ One(Earned(m)') = 1 /\ One(AstrayIn(consumer[c], inbox[m], m)) = 0
        BY <1>0, <1>6, <3>2, <4>3 DEF One
      <4> QED  BY <1>0, <1>2, <3>1, <4>4
    <3>3. CASE ~GoodIn(consumer[c], inbox[m], m)
      <4>1. One(AstrayIn(consumer[c], inbox[m], m)) = 1
        BY <1>0, <1>6, <3>3 DEF One
      <4> QED  BY <1>0, <1>2, <2>2, <3>1, <4>1
    <3> QED  BY <3>2, <3>3
  <2> HIDE DEF e, l
  <2> QED  BY <1>0, <1>1, <1>4, <1>5, <1>6, <2>1, <2>3, CallPays
<1> QED  BY <1>0, <1>7, <1>8

\* An acknowledgement that fails, while the lease is live, is a lapse.
LEMMA AckSteps ==
    ASSUME InboxInv, NEW c \in Consumers, AckFails(c)
    PROVE  InboxInv'
<1>0. PICK m : m = consumer[c].m
  OBVIOUS
<1> DEFINE s == [consumer[c] EXCEPT !.result = "retryable"]
<1>1. /\ consumer[c].pc = "settling" /\ consumer[c].result = "ok" /\ ~consumer[c].leaseLost
      /\ consumer' = [consumer EXCEPT ![c] = s] /\ UNCHANGED <<inbox, effects>>
      /\ IF Fenced(inbox[m], consumer[c].token) THEN Lapse(m) ELSE UNCHANGED lapses
  BY <1>0 DEF AckFails
<1>2. /\ consumer[c] \in ConsumerState /\ m \in Messages /\ effects[m] \in Nat /\ lapses[m] \in Nat
  BY <1>0, <1>1, CallFacts
<1>3. /\ s \in ConsumerState /\ s.pc = "settling" /\ s.m = m /\ ~s.leaseLost /\ s.token = consumer[c].token
      /\ s.result = "retryable"
  BY <1>0, <1>1, <1>2 DEF ConsumerState
<1> HIDE DEF s
<1>4. /\ GoodIn(s, inbox[m], m) <=> GoodIn(consumer[c], inbox[m], m)
      /\ ~AstrayIn(s, inbox[m], m) /\ ~AstrayIn(consumer[c], inbox[m], m)
      /\ ~EarnedIn(s, inbox[m], m)
      /\ GoodIn(consumer[c], inbox[m], m) <=> Fenced(inbox[m], consumer[c].token)
  BY <1>0, <1>1, <1>3 DEF GoodIn, AstrayIn, EarnedIn, Fenced
<1>5. CASE ~Fenced(inbox[m], consumer[c].token)
  <2>1. ~EarnedIn(consumer[c], inbox[m], m)
    BY <1>0, <1>4, <1>5 DEF EarnedIn
  <2> QED  BY <1>0, <1>1, <1>2, <1>3, <1>4, <1>5, <2>1, CallWaits
<1>6. CASE Fenced(inbox[m], consumer[c].token)
  <2> DEFINE e == effects[m]
             l == lapses[m] + 1
  <2>1. /\ effects' = [effects EXCEPT ![m] = e] /\ lapses' = [lapses EXCEPT ![m] = l]
        /\ e \in Nat /\ l \in Nat /\ l > lapses[m] /\ l >= lapses[m]
    BY <1>0, <1>1, <1>2, <1>6 DEF Lapse, InboxInv
  <2>2. /\ One(Earned(m)) \in 0..1 /\ One(Earned(m)') \in 0..1
    BY <1>0, <1>1, <1>2, <1>4, EarnedMoves
  <2>3. e + One(AstrayIn(s, inbox[m], m)) + lapses[m] + One(Earned(m))
              <= l + One(Earned(m)') + effects[m] + One(AstrayIn(consumer[c], inbox[m], m))
    <3>1. One(AstrayIn(s, inbox[m], m)) = 0 /\ One(AstrayIn(consumer[c], inbox[m], m)) = 0
      BY <1>0, <1>4 DEF One
    <3> QED  BY <1>0, <1>2, <2>2, <3>1
  <2> HIDE DEF e, l
  <2> QED  BY <1>0, <1>1, <1>3, <2>1, <2>3, CallPays
<1> QED  BY <1>0, <1>5, <1>6

\* A consumer that dies while its claim counts on it pays with a lapse.
LEMMA DyingSteps ==
    ASSUME InboxInv, NEW c \in Consumers, ConsumerDies(c)
    PROVE  InboxInv'
<1>0. PICK m : m = consumer[c].m
  OBVIOUS
<1>1. /\ consumer[c].pc # "idle" /\ consumer' = [consumer EXCEPT ![c] = IdleConsumer] /\ UNCHANGED <<inbox, effects>>
      /\ IF OwnsInbox(c, m) /\ ~consumer[c].leaseLost THEN Lapse(m) ELSE UNCHANGED lapses
  BY <1>0 DEF ConsumerDies
<1>2. /\ consumer[c] \in ConsumerState /\ m \in Messages /\ effects[m] \in Nat /\ lapses[m] \in Nat
  BY <1>0, <1>1, CallFacts
<1>3. GoodIn(consumer[c], inbox[m], m) => OwnsInbox(c, m) /\ ~consumer[c].leaseLost
  BY <1>0 DEF GoodIn, OwnsInbox
<1>4. CASE ~(OwnsInbox(c, m) /\ ~consumer[c].leaseLost)
  BY <1>0, <1>1, <1>3, <1>4, GivingUp
<1>5. CASE OwnsInbox(c, m) /\ ~consumer[c].leaseLost
  <2> DEFINE e == effects[m]
             l == lapses[m] + 1
  <2>1. /\ effects' = [effects EXCEPT ![m] = e] /\ lapses' = [lapses EXCEPT ![m] = l]
        /\ e \in Nat /\ l \in Nat /\ l > lapses[m] /\ l >= lapses[m]
    BY <1>0, <1>1, <1>2, <1>5 DEF Lapse, InboxInv
  <2>2. /\ One(Earned(m)) \in 0..1 /\ One(Earned(m)') \in 0..1
    BY <1>0, <1>1, <1>2, EarnedMoves
  <2>3. e + One(AstrayIn(IdleConsumer, inbox[m], m)) + lapses[m] + One(Earned(m))
              <= l + One(Earned(m)') + effects[m] + One(AstrayIn(consumer[c], inbox[m], m))
    <3>1. One(AstrayIn(IdleConsumer, inbox[m], m)) = 0 /\ One(AstrayIn(consumer[c], inbox[m], m)) \in Nat
      BY IdleFits DEF One
    <3> QED  BY <1>0, <1>2, <2>2, <3>1
  <2>4. consumer[c].pc \in {"handling", "settling"}
    BY <1>0, <1>5 DEF OwnsInbox
  <2> HIDE DEF e, l
  <2> QED  BY <1>0, <1>1, <2>1, <2>3, <2>4, IdleFits, CallPays
<1> QED  BY <1>0, <1>4, <1>5

\* What an attempt ends with.
LEMMA OutcomeFacts ==
    ASSUME NEW result, NEW attempts \in Nat, NEW maxAttempts \in Nat
    PROVE  /\ OutcomeOf(result, attempts, maxAttempts) \in {"delivered", "dead", "pending"}
           /\ (OutcomeOf(result, attempts, maxAttempts) = "delivered") <=> (result = "ok")
           /\ OutcomeOf(result, attempts, maxAttempts) = "pending" => attempts < maxAttempts
<1>1. CASE result = "ok"
  BY <1>1 DEF OutcomeOf
<1>2. CASE result # "ok" /\ (result = "fatal" \/ attempts >= maxAttempts)
  BY <1>2 DEF OutcomeOf
<1>3. CASE result # "ok" /\ ~(result = "fatal" \/ attempts >= maxAttempts)
  BY <1>3 DEF OutcomeOf
<1> QED  BY <1>1, <1>2, <1>3

\* The call that holds the live lease settles its row: the budget is asked here.
LEMMA SettlingSteps ==
    ASSUME InboxInv, NEW c \in Consumers, SettleInbox(c)
    PROVE  InboxInv'
<1>0. PICK m : m = consumer[c].m
  OBVIOUS
<1> DEFINE s == consumer[c]
           outcome == OutcomeOf(s.result, s.token[2], InboxAttempts)
           old == inbox[m]
           r == Settled(old, outcome)
<1>1. /\ s.pc = "settling" /\ UNCHANGED <<effects, lapses>> /\ consumer' = [consumer EXCEPT ![c] = IdleConsumer]
      /\ \/ ~(~s.leaseLost /\ Fenced(old, s.token)) /\ UNCHANGED inbox
         \/ ~s.leaseLost /\ Fenced(old, s.token) /\ inbox' = [inbox EXCEPT ![m] = r]
  BY <1>0 DEF SettleInbox, EndJob
<1>2. /\ s \in ConsumerState /\ m \in Messages /\ effects[m] \in Nat /\ lapses[m] \in Nat
      /\ old \in Row /\ InboxIsPaid(m)
  BY <1>0, <1>1, CallFacts
<1>3. GoodIn(s, old, m) <=> (~s.leaseLost /\ Fenced(old, s.token))
  BY <1>0, <1>1 DEF GoodIn, Fenced
<1>4. CASE ~GoodIn(s, old, m)
  BY <1>0, <1>1, <1>3, <1>4, GivingUp
<1>5. CASE GoodIn(s, old, m)
  <2>1. inbox' = [inbox EXCEPT ![m] = r]
    BY <1>1, <1>3, <1>5
  <2>2. /\ outcome \in {"delivered", "dead", "pending"} /\ (s.result = "ok" => outcome = "delivered")
        /\ outcome = "pending" => s.token[2] < InboxAttempts
    <3>1. s.token[2] \in Nat /\ InboxAttempts \in Nat
      BY <1>2, MessagingAssumption DEF ConsumerState
    <3> QED  BY <3>1, OutcomeFacts
  <2> HIDE DEF outcome
  <2>3. /\ r \in Row /\ r.state = outcome /\ r.attempts = old.attempts /\ r.epoch = old.epoch
        /\ r.attempts \in Nat
    <3>1. old \in Row /\ outcome \in {"delivered", "dead", "pending"}
      BY <1>2, <2>2
    <3> QED  BY <3>1, SettledFacts
  <2>4. outcome = "pending" => old.attempts < InboxAttempts
    <3>1. s.token[2] = old.attempts
      BY <1>5 DEF GoodIn, TokenOf
    <3> QED  BY <2>2, <3>1
  <2> HIDE DEF r
  <2>5. \A d \in Consumers \ {c} : ~GoodIn(consumer[d], r, m) /\ ~GoodIn(consumer[d], old, m)
    <3>1. \A d \in Consumers \ {c} : ~GoodIn(consumer[d], r, m)
      BY <2>2, <2>3 DEF GoodIn
    <3>2. \A d \in Consumers : GoodIn(consumer[d], old, m) => d = c
      BY <1>2, <1>5, OneGood
    <3> QED  BY <3>1, <3>2
  <2>6. MoveFits(c, m, IdleConsumer, r)
    BY <1>0, <2>5, IdleFits DEF MoveFits
  <2>7. Moves(c, m, IdleConsumer, r, effects[m], lapses[m])
    BY <1>1, <2>1 DEF Moves, InboxInv
  <2>8. One(Earned(m)) <= One(Earned(m)')
    <3>1. Earned(m) => EarnedIn(s, old, m)
      <4>1. ~Terminal(old)
        BY <1>5 DEF GoodIn, Terminal
      <4> QED  BY <2>5, <4>1 DEF Earned, EarnedIn
    <3>2. Earned(m) => outcome = "delivered"
      BY <2>2, <3>1 DEF EarnedIn
    <3>3. inbox'[m] = r
      BY <1>2, <2>1 DEF InboxInv
    <3>4. Earned(m) => Earned(m)'
      BY <2>3, <3>2, <3>3 DEF Earned, Terminal
    <3> QED  BY <3>4 DEF One
  <2>9. One(AstrayIn(IdleConsumer, r, m)) = 0 /\ One(AstrayIn(s, old, m)) \in Nat
        /\ One(Earned(m)) \in Nat /\ One(Earned(m)') \in Nat
    BY IdleFits DEF One
  <2>10. effects[m] + One(AstrayIn(IdleConsumer, r, m)) + lapses[m] + One(Earned(m))
          <= lapses[m] + One(Earned(m)') + effects[m] + One(AstrayIn(s, old, m))
    BY <1>2, <2>8, <2>9
  <2>11. MoveIsPaid(c, m, IdleConsumer, r, effects[m], lapses[m])
    <3>1. r.attempts >= old.attempts
      BY <2>3
    <3> QED  BY <1>2, <2>2, <2>3, <2>4, <2>10, <3>1 DEF MoveIsPaid, InboxIsPaid
  <2> QED  BY <1>2, <2>3, <2>6, <2>7, <2>11, IdleFits, CallMoves
<1> QED  BY <1>4, <1>5

\* A lease that runs out is a lapse for the call that holds it.
LEMMA ExpirySteps ==
    ASSUME InboxInv, NEW m \in Messages, InboxLeaseExpires(m)
    PROVE  InboxInv'
<1> DEFINE old == inbox[m]
           r == [old EXCEPT !.live = FALSE]
<1>1. /\ old.state = "processing" /\ old.live /\ UNCHANGED <<consumer, effects>>
      /\ IF \E c \in Consumers : OwnsInbox(c, m) /\ ~consumer[c].leaseLost THEN Lapse(m) ELSE UNCHANGED lapses
  BY DEF InboxLeaseExpires
<1>2. /\ old \in Row /\ effects[m] \in Nat /\ lapses[m] \in Nat /\ InboxIsPaid(m)
      /\ inbox \in [Messages -> Row]
  BY DEF InboxInv
<1>3. inbox' = [inbox EXCEPT ![m] = r] /\ inbox'[m] = r
  BY <1>2 DEF InboxLeaseExpires
<1>4. /\ r \in Row /\ r.state = "processing" /\ ~r.live /\ r.attempts = old.attempts /\ r.epoch = old.epoch
      /\ r.attempts \in Nat
  BY <1>1, <1>2, RowFacts
<1> HIDE DEF r
<1>5. \A c \in Consumers : GoodIn(consumer[c], old, m) <=> (OwnsInbox(c, m) /\ ~consumer[c].leaseLost)
  BY <1>1 DEF GoodIn, OwnsInbox
<1>6. \A c \in Consumers : ~GoodIn(consumer[c], r, m)
  BY <1>4 DEF GoodIn
<1>7. CASE \A c \in Consumers : ~GoodIn(consumer[c], old, m)
  <2>1. UNCHANGED <<consumer, effects, lapses>>
    BY <1>1, <1>5, <1>7
  <2> QED  BY <1>1, <1>3, <1>4, <1>6, <1>7, <2>1, RowMoves
<1>8. ASSUME NEW c \in Consumers, GoodIn(consumer[c], old, m)
      PROVE  InboxInv'
  <2> DEFINE s == consumer[c]
             e == effects[m]
             l == lapses[m] + 1
  <2>1. s \in ConsumerState /\ s.pc \in {"handling", "settling"} /\ s.m = m /\ e \in Nat /\ l \in Nat
    BY <1>2, <1>8 DEF InboxInv, GoodIn
  <2>2. Moves(c, m, s, r, e, l)
    <3>1. Lapse(m)
      BY <1>1, <1>5, <1>8
    <3> QED  BY <1>1, <1>3, <3>1 DEF Moves, Lapse, InboxInv
  <2>3. \A d \in Consumers \ {c} : ~GoodIn(consumer[d], old, m)
    BY <1>8, OneGood
  <2>4. MoveFits(c, m, s, r)
    BY <1>6, <2>1, <2>3 DEF MoveFits
  <2>5. r.attempts <= InboxAttempts + l /\ r.attempts < InboxAttempts + l /\ r.attempts >= old.attempts
    BY <1>2, <1>4, MessagingAssumption DEF InboxIsPaid
  <2>6. One(AstrayIn(s, r, m)) + One(Earned(m)) <= 1 /\ One(AstrayIn(s, r, m)) \in 0..1
        /\ One(Earned(m)) \in 0..1 /\ One(Earned(m)') \in 0..1 /\ One(AstrayIn(s, old, m)) \in 0..1
    <3>1. ~Terminal(old)
      BY <1>1 DEF Terminal
    <3>2. Earned(m) => s.pc = "settling"
      BY <2>3, <3>1 DEF Earned, EarnedIn
    <3> QED  BY <3>2 DEF One, AstrayIn
  <2>7. e + One(AstrayIn(s, r, m)) + lapses[m] + One(Earned(m))
          <= l + One(Earned(m)') + effects[m] + One(AstrayIn(s, old, m))
    BY <1>2, <2>6
  <2>8. MoveIsPaid(c, m, s, r, e, l)
    BY <1>2, <1>4, <2>5, <2>7 DEF MoveIsPaid, InboxIsPaid
  <2> HIDE DEF e, l
  <2> QED  BY <1>4, <2>1, <2>2, <2>4, <2>8, CallMoves
<1> QED  BY <1>7, <1>8

\* A retried row becomes due.
LEMMA DueSteps ==
    ASSUME InboxInv, NEW m \in Messages, InboxBecomesDue(m)
    PROVE  InboxInv'
<1> DEFINE r == [inbox[m] EXCEPT !.due = TRUE]
<1>1. inbox[m].state = "pending" /\ UNCHANGED <<consumer, effects, lapses>> /\ inbox' = [inbox EXCEPT ![m] = r]
  BY DEF InboxBecomesDue, InboxInv
<1>2. r \in Row /\ r.state = "pending" /\ r.attempts = inbox[m].attempts /\ r.epoch = inbox[m].epoch
  <2>1. inbox[m] \in Row
    BY DEF InboxInv
  <2> QED  BY <1>1, <2>1, RowFacts
<1> HIDE DEF r
<1>3. \A c \in Consumers : ~GoodIn(consumer[c], inbox[m], m) /\ ~GoodIn(consumer[c], r, m)
  BY <1>1, <1>2 DEF GoodIn
<1> QED  BY <1>1, <1>2, <1>3, RowMoves

\* Every step keeps the inbox accounts.
LEMMA InboxSteps ==
    ASSUME InboxInv, [Next]_vars
    PROVE  InboxInv'
<1>1. ASSUME UNCHANGED <<inbox, consumer, effects, lapses>>
      PROVE  InboxInv'
  BY <1>1 DEF InboxInv, TokensDiffer, EffectsArePaid, InboxIsPaid, Astray, Earned, Kept
<1>2. CASE UNCHANGED vars
  BY <1>1, <1>2 DEF vars
<1>3. ASSUME NEW p \in Processors, ProcessorStep(p) \/ ProcessorDies(p)
      PROVE  InboxInv'
  BY <1>1, <1>3 DEF ProcessorStep, ClaimBatch, PassEnds, ProcessorDies
<1>4. ASSUME NEW t \in tasks, TaskStep(t) \/ TaskRenewFails(t) \/ TaskFails(t)
      PROVE  InboxInv'
  BY <1>1, <1>4 DEF TaskStep, Deliver, SettleTask, TaskRenewFails, TaskFails
<1>5. ASSUME NEW c \in Consumers, ConsumerStep(c) \/ ConsumerRenewFails(c) \/ AckFails(c) \/ ConsumerDies(c)
      PROVE  InboxInv'
  BY <1>5, TakingSteps, ClaimingSteps, HandlingSteps, SettlingSteps, HeartbeatSteps, AckSteps, DyingSteps
     DEF ConsumerStep
<1>6. ASSUME NEW m \in Messages,
             Append(m) \/ PruneOutbox(m) \/ JobStalls(m) \/ JobRemoved(m) \/ MessageStep(m)
      PROVE  InboxInv'
  <2>1. CASE InboxLeaseExpires(m) \/ InboxBecomesDue(m)
    BY <2>1, ExpirySteps, DueSteps
  <2>2. CASE Append(m) \/ PruneOutbox(m) \/ JobStalls(m) \/ JobRemoved(m) \/ OutboxLeaseExpires(m) \/ OutboxBecomesDue(m)
    BY <1>1, <2>2 DEF Append, PruneOutbox, JobStalls, JobRemoved, OutboxLeaseExpires, OutboxBecomesDue
  <2> QED  BY <1>6, <2>1, <2>2 DEF MessageStep
<1> QED  BY <1>2, <1>3, <1>4, <1>5, <1>6 DEF Next

(***************************************************************************)
(* The outbox: an attempt beyond the budget is paid for by a fault.         *)
(***************************************************************************)

\* A task that holds the live lease of a row, and has heard nothing else.
HoldsOutbox(t, m) == OwnsOutbox(t, m) /\ outbox[m].live /\ ~t.leaseLost

OutboxIsPaid(m) ==
    /\ outbox[m].state = "absent" => outbox[m].attempts = 0
    /\ outbox[m].attempts <= OutboxAttempts + faults
    /\ outbox[m].state = "pending" => outbox[m].attempts < OutboxAttempts
    /\ outbox[m].state = "processing" =>
          \/ \E t \in tasks : HoldsOutbox(t, m)
          \/ outbox[m].attempts < OutboxAttempts + faults

OutboxInv ==
    /\ outbox \in [Messages -> Row] /\ tasks \subseteq Task
    /\ pass \in [Processors -> [open : BOOLEAN, taken : SUBSET Messages]]
    /\ faults \in 0..MaxFaults
    /\ \A m \in Messages : OutboxIsPaid(m)

\* What the types of the outbox side add up to.
LEMMA OutboxNumbers ==
    ASSUME OutboxInv
    PROVE  /\ \A m \in Messages : outbox[m].attempts \in Nat
           /\ faults \in Nat /\ OutboxAttempts \in Nat /\ OutboxAttempts > 0
  BY MessagingAssumption DEF OutboxInv, Row

\* A step that pays a fault may take away any task.
LEMMA FaultPays ==
    ASSUME OutboxInv, Fault, UNCHANGED outbox, tasks' \subseteq Task,
           pass' \in [Processors -> [open : BOOLEAN, taken : SUBSET Messages]]
    PROVE  OutboxInv'
<1>1. faults' = faults + 1 /\ faults' \in 0..MaxFaults /\ faults' \in Nat
  BY MessagingAssumption DEF Fault, OutboxInv
<1>2. ASSUME NEW m \in Messages
      PROVE  OutboxIsPaid(m)'
  <2>1. outbox[m].attempts < OutboxAttempts + faults' /\ outbox[m].attempts <= OutboxAttempts + faults'
    BY <1>1, OutboxNumbers DEF OutboxInv, OutboxIsPaid
  <2> QED  BY <2>1 DEF OutboxInv, OutboxIsPaid
<1> QED  BY <1>1, <1>2 DEF OutboxInv

\* A step that leaves every row with the tasks that hold it.
LEMMA OutboxWaits ==
    ASSUME OutboxInv, UNCHANGED <<outbox, faults>>, tasks' \subseteq Task,
           pass' \in [Processors -> [open : BOOLEAN, taken : SUBSET Messages]],
           \A m \in Messages : (\E t \in tasks : HoldsOutbox(t, m)) => \E t \in tasks' : HoldsOutbox(t, m)
    PROVE  OutboxInv'
<1>1. \A m \in Messages : (\E t \in tasks : HoldsOutbox(t, m))
                             => (\E t \in tasks : HoldsOutbox(t, m))'
  BY DEF HoldsOutbox, OwnsOutbox
<1>2. \A m \in Messages : OutboxIsPaid(m)'
  BY <1>1 DEF OutboxInv, OutboxIsPaid
<1> QED  BY <1>2 DEF OutboxInv

\* A row that is not held, or whose holder is the task that goes, becomes r.
LEMMA OutboxRowMoves ==
    ASSUME OutboxInv, NEW m \in Messages, NEW r \in Row, outbox' = [outbox EXCEPT ![m] = r],
           tasks' \subseteq Task, UNCHANGED pass, faults' \in 0..MaxFaults, faults' >= faults,
           \A t \in tasks \ tasks' : t.m = m,
           r.state = "absent" => r.attempts = 0, r.attempts <= OutboxAttempts + faults,
           r.state = "pending" => r.attempts < OutboxAttempts,
           r.state = "processing" => r.attempts < OutboxAttempts + faults'
    PROVE  OutboxInv'
<1>1. /\ outbox' \in [Messages -> Row] /\ outbox'[m] = r
      /\ \A n \in Messages \ {m} : outbox'[n] = outbox[n]
  BY DEF OutboxInv
<1>2. faults' \in Nat /\ r.attempts \in Nat
  BY DEF Row
<1>3. OutboxIsPaid(m)'
  BY <1>1, <1>2, OutboxNumbers DEF OutboxIsPaid
<1>4. ASSUME NEW n \in Messages \ {m}
      PROVE  OutboxIsPaid(n)'
  <2>1. (\E t \in tasks : HoldsOutbox(t, n)) => (\E t \in tasks : HoldsOutbox(t, n))'
    BY <1>1 DEF HoldsOutbox, OwnsOutbox
  <2>2. OutboxIsPaid(n)
    BY DEF OutboxInv
  <2>3. /\ outbox[n].attempts <= OutboxAttempts + faults => outbox[n].attempts <= OutboxAttempts + faults'
        /\ outbox[n].attempts < OutboxAttempts + faults => outbox[n].attempts < OutboxAttempts + faults'
    BY <1>2, OutboxNumbers
  <2> QED  BY <1>1, <2>1, <2>2, <2>3 DEF OutboxIsPaid
<1> QED  BY <1>1, <1>3, <1>4 DEF OutboxInv

\* A claim pays for the attempt it makes: the row was below its budget, or a lease lapsed.
LEMMA ClaimBatchSteps ==
    ASSUME OutboxInv, NEW p \in Processors, ClaimBatch(p)
    PROVE  OutboxInv'
<1>1. PICK rows \in SUBSET ClaimableFor(p) :
         /\ outbox' = [m \in Messages |-> IF m \in rows THEN Taken(outbox[m]) ELSE outbox[m]]
         /\ tasks' = tasks \cup {NewTask(p, m) : m \in rows}
         /\ pass' = [pass EXCEPT ![p] = [open |-> Cardinality(rows) = Capacity(p), taken |-> @.taken \cup rows]]
  BY DEF ClaimBatch
<1>2. rows \subseteq Messages /\ UNCHANGED faults
  BY DEF ClaimBatch, ClaimableFor
<1>3. pass' \in [Processors -> [open : BOOLEAN, taken : SUBSET Messages]]
  <2> DEFINE open == Cardinality(rows) = Capacity(p)
             taken == pass[p].taken \cup rows
  <2>1. open \in BOOLEAN /\ taken \in SUBSET Messages
    BY <1>2 DEF OutboxInv
  <2>2. pass' = [pass EXCEPT ![p] = [open |-> open, taken |-> taken]]
    BY <1>1
  <2> HIDE DEF open, taken
  <2>3. [open |-> open, taken |-> taken] \in [open : BOOLEAN, taken : SUBSET Messages]
    BY <2>1
  <2> QED  BY <2>2, <2>3 DEF OutboxInv
<1>4. ASSUME NEW m \in rows
      PROVE  /\ outbox'[m] \in Row /\ outbox'[m].state = "processing" /\ outbox'[m].live
             /\ outbox'[m].attempts = outbox[m].attempts + 1 /\ outbox'[m] = Taken(outbox[m])
             /\ NewTask(p, m) \in Task /\ NewTask(p, m) \in tasks'
  <2>1. outbox'[m] = Taken(outbox[m]) /\ outbox[m] \in Row
    BY <1>1, <1>2 DEF OutboxInv
  <2>2. /\ outbox'[m] \in Row /\ outbox'[m].state = "processing" /\ outbox'[m].live
        /\ outbox'[m].attempts = outbox[m].attempts + 1
    BY <2>1, TakenFacts
  <2>3. TokenOf(Taken(outbox[m])) \in Nat \X Nat
    <3>1. Taken(outbox[m]) \in Row
      BY <2>1, <2>2
    <3> QED  BY <3>1, TokenFits
  <2>4. NewTask(p, m) \in Task
    BY <1>2, <2>3 DEF NewTask, Task
  <2> QED  BY <1>1, <2>1, <2>2, <2>4
<1>5. outbox' \in [Messages -> Row] /\ tasks' \subseteq Task
  <2>1. \A m \in Messages \ rows : outbox'[m] \in Row
    BY <1>1 DEF OutboxInv
  <2>2. \A m \in Messages : outbox'[m] \in Row
    BY <1>4, <2>1
  <2>3. outbox' = [m \in Messages |-> outbox'[m]]
    BY <1>1
  <2>4. \A t \in tasks' : t \in Task
    BY <1>1, <1>4 DEF OutboxInv
  <2> QED  BY <2>2, <2>3, <2>4
<1>6. ASSUME NEW m \in Messages \ rows
      PROVE  OutboxIsPaid(m)'
  <2>1. outbox'[m] = outbox[m] /\ tasks \subseteq tasks' /\ OutboxIsPaid(m)
    BY <1>1 DEF OutboxInv
  <2>2. (\E t \in tasks : HoldsOutbox(t, m)) => (\E t \in tasks : HoldsOutbox(t, m))'
    BY <2>1 DEF HoldsOutbox, OwnsOutbox
  <2> QED  BY <1>2, <2>1, <2>2 DEF OutboxIsPaid
<1>7. ASSUME NEW m \in rows
      PROVE  OutboxIsPaid(m)'
  <2>1. Claimable(outbox[m]) /\ OutboxIsPaid(m)
    BY <1>2 DEF ClaimableFor, OutboxInv
  <2>2. outbox[m].attempts < OutboxAttempts + faults
    <3>1. CASE outbox[m].state = "pending"
      BY <1>2, <2>1, <3>1, OutboxNumbers DEF OutboxIsPaid
    <3>2. CASE outbox[m].state = "processing" /\ ~outbox[m].live
      BY <2>1, <3>2 DEF OutboxIsPaid, HoldsOutbox
    <3> QED  BY <2>1, <3>1, <3>2 DEF Claimable
  <2>3. outbox'[m].attempts <= OutboxAttempts + faults
    BY <1>2, <1>4, <2>2, OutboxNumbers
  <2>4. (\E t \in tasks : HoldsOutbox(t, m))'
    <3>1. PICK u : u = NewTask(p, m)
      OBVIOUS
    <3>2. u \in tasks' /\ u.m = m /\ u.token = TokenOf(outbox'[m]) /\ ~u.leaseLost
      BY <1>4, <3>1 DEF NewTask
    <3>3. HoldsOutbox(u, m)'
      BY <1>4, <3>2 DEF HoldsOutbox, OwnsOutbox
    <3> QED  BY <3>2, <3>3
  <2> QED  BY <1>2, <1>4, <2>3, <2>4 DEF OutboxIsPaid
<1> QED  BY <1>2, <1>3, <1>5, <1>6, <1>7 DEF OutboxInv

\* The tasks of a processor: a row is left to the task that holds it, or settled by it.
LEMMA TaskSteps ==
    ASSUME OutboxInv, NEW t \in tasks, TaskStep(t) \/ TaskRenewFails(t) \/ TaskFails(t)
    PROVE  OutboxInv'
<1>1. /\ t \in Task /\ tasks \subseteq Task /\ outbox[t.m] \in Row /\ t.m \in Messages
      /\ pass \in [Processors -> [open : BOOLEAN, taken : SUBSET Messages]]
      /\ NewPass \in [open : BOOLEAN, taken : SUBSET Messages]
  BY DEF OutboxInv, Task, NewPass
<1>2. CASE Deliver(t)
  <2>1. PICK result \in {"ok", "retryable", "fatal", "thrown"} :
           Replace(t, [t EXCEPT !.pc = "settling", !.result = result])
    BY <1>2 DEF Deliver
  <2> DEFINE u == [t EXCEPT !.pc = "settling", !.result = result]
  <2>2. u \in Task /\ u.m = t.m /\ u.token = t.token /\ u.leaseLost = t.leaseLost
    BY <1>1 DEF Task
  <2>3. tasks' = (tasks \ {t}) \cup {u}
    BY <2>1 DEF Replace
  <2> HIDE DEF u
  <2>4. \A m \in Messages : (\E x \in tasks : HoldsOutbox(x, m)) => \E x \in tasks' : HoldsOutbox(x, m)
    BY <2>2, <2>3 DEF HoldsOutbox, OwnsOutbox
  <2>5. UNCHANGED <<outbox, pass, faults>> /\ tasks' \subseteq Task
    BY <1>1, <1>2, <2>2, <2>3 DEF Deliver
  <2> QED  BY <1>1, <2>4, <2>5, OutboxWaits
<1>3. CASE TaskRenewFails(t)
  <2> DEFINE u == [t EXCEPT !.leaseLost = TRUE]
  <2>1. u \in Task /\ tasks' = (tasks \ {t}) \cup {u} /\ UNCHANGED <<outbox, pass>>
    BY <1>1, <1>3 DEF TaskRenewFails, Replace, Task
  <2> HIDE DEF u
  <2>2. CASE Fenced(outbox[t.m], t.token)
    BY <1>1, <1>3, <2>1, <2>2, FaultPays DEF TaskRenewFails
  <2>3. CASE ~Fenced(outbox[t.m], t.token)
    <3>1. \A m \in Messages : ~HoldsOutbox(t, m)
      BY <2>3 DEF HoldsOutbox, OwnsOutbox, Fenced
    <3>2. UNCHANGED <<outbox, pass, faults>>
      BY <1>3, <2>3 DEF TaskRenewFails
    <3>3. \A m \in Messages : (\E x \in tasks : HoldsOutbox(x, m)) => \E x \in tasks' : HoldsOutbox(x, m)
      BY <2>1, <3>1
    <3> QED  BY <1>1, <2>1, <3>2, <3>3, OutboxWaits
  <2> QED  BY <2>2, <2>3
<1>4. CASE SettleTask(t)
  <2>1. tasks' = tasks \ {t} /\ UNCHANGED faults
    BY <1>4 DEF SettleTask
  <2>2. CASE ~t.leaseLost /\ Fenced(outbox[t.m], t.token)
    <3> DEFINE outcome == OutcomeOf(t.result, t.token[2], OutboxAttempts)
               r == Settled(outbox[t.m], outcome)
    <3>1. outbox' = [outbox EXCEPT ![t.m] = r] /\ UNCHANGED pass
      BY <1>4, <2>2 DEF SettleTask
    <3>2. t.token[2] = outbox[t.m].attempts /\ outbox[t.m].attempts \in Nat
      BY <1>1, <2>2 DEF Fenced, TokenOf, Row
    <3>3. outcome \in {"delivered", "dead", "pending"} /\ (outcome = "pending" => outbox[t.m].attempts < OutboxAttempts)
      BY <3>2, OutcomeFacts, OutboxNumbers
    <3> HIDE DEF outcome
    <3>4. r \in Row /\ r.state = outcome /\ r.attempts = outbox[t.m].attempts
      BY <1>1, <3>3, SettledFacts
    <3> HIDE DEF r
    <3>5. outbox[t.m].attempts <= OutboxAttempts + faults /\ faults' \in 0..MaxFaults /\ faults' >= faults
      BY <1>1, <2>1, MessagingAssumption DEF OutboxInv, OutboxIsPaid
    <3> QED  BY <1>1, <2>1, <3>1, <3>3, <3>4, <3>5, OutboxRowMoves
  <2>3. CASE ~(~t.leaseLost /\ Fenced(outbox[t.m], t.token))
    <3>1. UNCHANGED outbox /\ pass' \in {pass, [pass EXCEPT ![t.p] = NewPass]}
      BY <1>4, <2>3 DEF SettleTask
    <3>2. pass' \in [Processors -> [open : BOOLEAN, taken : SUBSET Messages]]
      BY <1>1, <3>1
    <3>3. \A m \in Messages : ~HoldsOutbox(t, m)
      BY <2>3 DEF HoldsOutbox, OwnsOutbox, Fenced
    <3>4. \A m \in Messages : (\E x \in tasks : HoldsOutbox(x, m)) => \E x \in tasks' : HoldsOutbox(x, m)
      BY <2>1, <3>3
    <3> QED  BY <1>1, <2>1, <3>1, <3>2, <3>4, OutboxWaits
  <2> QED  BY <2>2, <2>3
<1>5. CASE TaskFails(t)
  <2>1. pass' \in {pass, [pass EXCEPT ![t.p] = NewPass]} /\ Fault /\ UNCHANGED outbox /\ tasks' = tasks \ {t}
    BY <1>5 DEF TaskFails
  <2>2. pass' \in [Processors -> [open : BOOLEAN, taken : SUBSET Messages]]
    BY <1>1, <2>1
  <2> QED  BY <1>1, <2>1, <2>2, FaultPays
<1> QED  BY <1>2, <1>3, <1>4, <1>5 DEF TaskStep

\* Every step keeps the outbox accounts.
LEMMA OutboxSteps ==
    ASSUME OutboxInv, [Next]_vars
    PROVE  OutboxInv'
<1>1. /\ tasks \subseteq Task /\ pass \in [Processors -> [open : BOOLEAN, taken : SUBSET Messages]]
      /\ NewPass \in [open : BOOLEAN, taken : SUBSET Messages] /\ faults \in 0..MaxFaults
  BY DEF OutboxInv, NewPass
<1>2. ASSUME UNCHANGED <<outbox, tasks, pass>>, Fault \/ UNCHANGED faults
      PROVE  OutboxInv'
  <2>1. \A m \in Messages : (\E t \in tasks : HoldsOutbox(t, m)) => \E t \in tasks' : HoldsOutbox(t, m)
    BY <1>2
  <2> QED  BY <1>1, <1>2, <2>1, FaultPays, OutboxWaits
<1>3. CASE UNCHANGED vars
  BY <1>2, <1>3 DEF vars
<1>4. ASSUME NEW p \in Processors, PassEnds(p)
      PROVE  OutboxInv'
  <2>1. UNCHANGED <<outbox, tasks, faults>> /\ pass' = [pass EXCEPT ![p] = NewPass]
    BY <1>4 DEF PassEnds
  <2>2. \A m \in Messages : (\E t \in tasks : HoldsOutbox(t, m)) => \E t \in tasks' : HoldsOutbox(t, m)
    BY <2>1
  <2> QED  BY <1>1, <2>1, <2>2, OutboxWaits
<1>5. ASSUME NEW p \in Processors, ProcessorDies(p)
      PROVE  OutboxInv'
  <2>1. UNCHANGED outbox /\ pass' = [pass EXCEPT ![p] = NewPass] /\ Fault /\ tasks' \subseteq tasks
    BY <1>5 DEF ProcessorDies
  <2> QED  BY <1>1, <2>1, FaultPays
<1>6. ASSUME NEW c \in Consumers, ConsumerStep(c) \/ ConsumerRenewFails(c) \/ AckFails(c) \/ ConsumerDies(c)
      PROVE  OutboxInv'
  BY <1>2, <1>6 DEF ConsumerStep, TakeJob, ClaimInbox, ReclaimInbox, Handle, SettleInbox, ConsumerRenewFails,
                    AckFails, ConsumerDies
<1>7. ASSUME NEW m \in Messages, JobStalls(m) \/ JobRemoved(m) \/ InboxLeaseExpires(m) \/ InboxBecomesDue(m)
      PROVE  OutboxInv'
  BY <1>2, <1>7 DEF JobStalls, JobRemoved, InboxLeaseExpires, InboxBecomesDue
<1>8. ASSUME NEW m \in Messages, Append(m) \/ PruneOutbox(m) \/ OutboxLeaseExpires(m) \/ OutboxBecomesDue(m)
      PROVE  OutboxInv'
  <2>1. /\ outbox[m] \in Row /\ OutboxIsPaid(m) /\ outbox[m].attempts \in Nat /\ outbox[m].epoch \in Nat
        /\ UNCHANGED <<tasks, pass>> /\ faults' \in 0..MaxFaults /\ faults' >= faults
    BY <1>8, MessagingAssumption
       DEF OutboxInv, Row, Fault, Append, PruneOutbox, OutboxLeaseExpires, OutboxBecomesDue
  <2>2. CASE Append(m)
    <3> DEFINE r == AppendedRow(outbox[m].epoch + 1)
    <3>1. r \in Row /\ r.state = "pending" /\ r.attempts = 0
      BY <2>1 DEF AppendedRow, Row
    <3>2. outbox' = [outbox EXCEPT ![m] = r]
      BY <2>2 DEF Append
    <3> HIDE DEF r
    <3>3. r.attempts <= OutboxAttempts + faults /\ r.attempts < OutboxAttempts
      BY <3>1, OutboxNumbers
    <3> QED  BY <1>1, <2>1, <3>1, <3>2, <3>3, OutboxRowMoves
  <2>3. CASE PruneOutbox(m)
    <3> DEFINE r == [AbsentRow EXCEPT !.epoch = outbox[m].epoch]
    <3>1. r \in Row /\ r.state = "absent" /\ r.attempts = 0
      BY <2>1 DEF AbsentRow, Row
    <3>2. outbox' = [outbox EXCEPT ![m] = r]
      BY <2>3 DEF PruneOutbox
    <3> HIDE DEF r
    <3>3. r.attempts <= OutboxAttempts + faults
      BY <3>1, OutboxNumbers
    <3> QED  BY <1>1, <2>1, <3>1, <3>2, <3>3, OutboxRowMoves
  <2>4. CASE OutboxLeaseExpires(m)
    <3> DEFINE r == [outbox[m] EXCEPT !.live = FALSE]
    <3>1. r \in Row /\ r.state = "processing" /\ r.attempts = outbox[m].attempts
      BY <2>1, <2>4, RowFacts DEF OutboxLeaseExpires
    <3>2. outbox' = [outbox EXCEPT ![m] = r]
      BY <2>4 DEF OutboxLeaseExpires, OutboxInv
    <3> HIDE DEF r
    <3>3. outbox[m].attempts <= OutboxAttempts + faults /\ outbox[m].attempts < OutboxAttempts + faults'
      <4>1. CASE \E t \in tasks : OwnsOutbox(t, m)
        <5>1. faults' = faults + 1
          BY <2>4, <4>1 DEF OutboxLeaseExpires, Fault
        <5> QED  BY <2>1, <5>1, OutboxNumbers DEF OutboxIsPaid
      <4>2. CASE ~\E t \in tasks : OwnsOutbox(t, m)
        <5>1. UNCHANGED faults /\ outbox[m].state = "processing"
          BY <2>4, <4>2 DEF OutboxLeaseExpires
        <5> QED  BY <2>1, <4>2, <5>1 DEF OutboxIsPaid, HoldsOutbox
      <4> QED  BY <4>1, <4>2
    <3> QED  BY <1>1, <2>1, <3>1, <3>2, <3>3, OutboxRowMoves
  <2>5. CASE OutboxBecomesDue(m)
    <3> DEFINE r == [outbox[m] EXCEPT !.due = TRUE]
    <3>1. r \in Row /\ r.state = "pending" /\ r.attempts = outbox[m].attempts
      BY <2>1, <2>5, RowFacts DEF OutboxBecomesDue
    <3>2. outbox' = [outbox EXCEPT ![m] = r] /\ outbox[m].state = "pending"
      BY <2>5 DEF OutboxBecomesDue, OutboxInv
    <3> HIDE DEF r
    <3> QED  BY <1>1, <2>1, <3>1, <3>2, OutboxRowMoves DEF OutboxIsPaid
  <2> QED  BY <1>8, <2>2, <2>3, <2>4, <2>5
<1> QED  BY <1>3, <1>4, <1>5, <1>6, <1>7, <1>8, ClaimBatchSteps, TaskSteps DEF Next, ProcessorStep, MessageStep

(***************************************************************************)
(* The queue between them: a message leaves it handled, or stays in it.     *)
(***************************************************************************)

\* What an acknowledgement of the message relies on.
Safe(m) == Terminal(inbox[m]) \/ job[m].state \in {"waiting", "active", "failed"}

JobInv ==
    /\ job \in [Messages -> Job]
    /\ \A m \in Messages : /\ job[m].state = "waiting" => job[m].tries < Tries
                           /\ job[m].state = "done" => Terminal(inbox[m])
                           /\ outbox[m].state = "delivered" => Safe(m)
    /\ \A t \in tasks : t.pc = "settling" /\ t.result = "ok" => Safe(t.m)

MessagingInv == InboxInv /\ OutboxInv /\ JobInv

\* A settled inbox row is never opened again.
LEMMA TerminalStays ==
    ASSUME InboxInv, [Next]_vars, NEW m \in Messages, Terminal(inbox[m])
    PROVE  inbox'[m] = inbox[m]
<1>1. inbox \in [Messages -> Row] /\ inbox[m].state \in {"delivered", "dead"}
  BY DEF InboxInv, Terminal
<1>2. CASE UNCHANGED inbox
  BY <1>2
<1>3. ASSUME NEW c \in Consumers, ClaimInbox(c) \/ ReclaimInbox(c) \/ SettleInbox(c)
      PROVE  inbox'[m] = inbox[m]
  BY <1>1, <1>3 DEF ClaimInbox, ReclaimInbox, Reclaim, Claimable, SettleInbox, Fenced
<1>4. ASSUME NEW n \in Messages, InboxLeaseExpires(n) \/ InboxBecomesDue(n)
      PROVE  inbox'[m] = inbox[m]
  BY <1>1, <1>4 DEF InboxLeaseExpires, InboxBecomesDue
<1>5. \/ UNCHANGED inbox
      \/ \E c \in Consumers : ClaimInbox(c) \/ ReclaimInbox(c) \/ SettleInbox(c)
      \/ \E n \in Messages : InboxLeaseExpires(n) \/ InboxBecomesDue(n)
  BY DEF vars, Next, ProcessorStep, ClaimBatch, PassEnds, ProcessorDies, TaskStep, Deliver, SettleTask,
         TaskRenewFails, TaskFails, ConsumerStep, TakeJob, Handle, ConsumerRenewFails, AckFails, ConsumerDies,
         Append, PruneOutbox, JobStalls, JobRemoved, MessageStep, OutboxLeaseExpires, OutboxBecomesDue
<1> QED  BY <1>2, <1>3, <1>4, <1>5

\* What may become of a job.
JobFits(m) ==
    /\ job'[m] \in Job /\ (job'[m].state = "waiting" => job'[m].tries < Tries)
    /\ job'[m].state = "done" => Terminal(inbox'[m])
    /\ job'[m].state = "none" => job[m].state \in {"none", "done"}

LEMMA JobMoves ==
    ASSUME JobInv, InboxInv, [Next]_vars,
           job' = [m \in Messages |-> job'[m]], \A m \in Messages : JobFits(m),
           \A m \in Messages : outbox'[m].state = "delivered" => outbox[m].state = "delivered" \/ Safe(m),
           \A t \in tasks' : t.pc = "settling" /\ t.result = "ok" => t \in tasks \/ Safe(t.m)',
           \A t \in tasks' : t.m \in Messages
    PROVE  JobInv'
<1>1. \A m \in Messages : Terminal(inbox[m]) => Terminal(inbox[m])'
  BY TerminalStays
<1>2. ASSUME NEW m \in Messages, Safe(m)
      PROVE  Safe(m)'
  <2>1. JobFits(m) /\ (job[m].state = "done" => Terminal(inbox[m]))
    BY DEF JobInv
  <2>2. job'[m].state \in {"none", "waiting", "active", "done", "failed"}
    BY <2>1 DEF JobFits, Job
  <2> QED  BY <1>1, <1>2, <2>1, <2>2 DEF JobFits, Safe
<1>3. job' \in [Messages -> Job]
  BY DEF JobFits
<1> QED  BY <1>2, <1>3 DEF JobInv, JobFits

\* A job that nothing touches.
LEMMA JobWaits ==
    ASSUME JobInv, InboxInv, [Next]_vars, NEW m \in Messages, job'[m] = job[m]
    PROVE  JobFits(m)
<1>1. Terminal(inbox[m]) => Terminal(inbox'[m])
  BY TerminalStays
<1> QED  BY <1>1 DEF JobInv, JobFits

\* The end of a try: the job is done only when its message is settled.
LEMMA JobEnds ==
    ASSUME JobInv, InboxInv, [Next]_vars, NEW c \in Consumers, consumer[c].pc # "idle", NEW result,
           EndJob(c, result),
           result \in {"delivered", "duplicate", "dead"} => Terminal(inbox'[consumer[c].m])
    PROVE  job' = [m \in Messages |-> job'[m]] /\ \A m \in Messages : JobFits(m)
<1>0. PICK n : n = consumer[c].m
  OBVIOUS
<1>1. n \in Messages /\ job \in [Messages -> Job]
  BY <1>0, CallFacts DEF JobInv
<1>2. CASE job[n].state = "active"
  <2> DEFINE j == JobAfter(job[n], result)
  <2>1. job' = [job EXCEPT ![n] = j]
    BY <1>0, <1>2 DEF EndJob
  <2>2. /\ j \in Job /\ j.state # "none" /\ (j.state = "waiting" => j.tries < Tries)
        /\ j.state = "done" => result \in {"delivered", "duplicate", "dead"}
    <3>1. job[n] \in Job
      BY <1>1
    <3> QED  BY <3>1 DEF JobAfter, Job
  <2> HIDE DEF j
  <2>3. job'[n] = j /\ (\A m \in Messages \ {n} : job'[m] = job[m]) /\ job' = [m \in Messages |-> job'[m]]
    BY <1>1, <2>1
  <2>4. JobFits(n)
    BY <1>0, <2>2, <2>3 DEF JobFits
  <2> QED  BY <2>3, <2>4, JobWaits
<1>3. CASE job[n].state # "active"
  <2>1. job' = job
    BY <1>0, <1>3 DEF EndJob
  <2> QED  BY <1>1, <2>1, JobWaits
<1> QED  BY <1>2, <1>3

\* The queue takes a job back.
LEMMA JobReturns ==
    ASSUME JobInv, InboxInv, [Next]_vars, NEW n \in Messages, Requeued(n)
    PROVE  job' = [m \in Messages |-> job'[m]] /\ \A m \in Messages : JobFits(m)
<1>1. job \in [Messages -> Job]
  BY DEF JobInv
<1>2. CASE job[n].state = "active"
  <2> DEFINE j == [job[n] EXCEPT !.state = IF job[n].tries < Tries THEN "waiting" ELSE "failed"]
  <2>1. job' = [job EXCEPT ![n] = j]
    BY <1>1, <1>2 DEF Requeued
  <2>2. j \in Job /\ j.state \in {"waiting", "failed"} /\ (j.state = "waiting" => j.tries < Tries)
    <3>1. job[n] \in Job
      BY <1>1
    <3> QED  BY <3>1 DEF Job
  <2> HIDE DEF j
  <2>3. job'[n] = j /\ (\A m \in Messages \ {n} : job'[m] = job[m]) /\ job' = [m \in Messages |-> job'[m]]
    BY <1>1, <2>1
  <2>4. JobFits(n)
    BY <2>2, <2>3 DEF JobFits
  <2> QED  BY <2>3, <2>4, JobWaits
<1>3. CASE job[n].state # "active"
  <2>1. job' = job
    BY <1>3 DEF Requeued
  <2> QED  BY <1>1, <2>1, JobWaits
<1> QED  BY <1>2, <1>3

\* Every step leaves a message that was acknowledged where it will be handled.
LEMMA JobSteps ==
    ASSUME MessagingInv, [Next]_vars, OutboxInv'
    PROVE  JobInv'
<1>1. /\ InboxInv /\ OutboxInv /\ JobInv /\ job \in [Messages -> Job] /\ inbox \in [Messages -> Row]
      /\ outbox \in [Messages -> Row] /\ tasks \subseteq Task
      /\ \A t \in tasks' : t.m \in Messages
  BY DEF MessagingInv, JobInv, InboxInv, OutboxInv, Task
<1>2. ASSUME UNCHANGED job
      PROVE  job' = [m \in Messages |-> job'[m]] /\ \A m \in Messages : JobFits(m)
  BY <1>1, <1>2, JobWaits
<1>3. ASSUME NEW n \in Messages, NEW j, job' = [job EXCEPT ![n] = j],
             j \in Job, j.state = "waiting" => j.tries < Tries,
             j.state # "done", j.state = "none" => job[n].state \in {"none", "done"}
      PROVE  job' = [m \in Messages |-> job'[m]] /\ \A m \in Messages : JobFits(m)
  <2>1. job'[n] = j /\ (\A m \in Messages \ {n} : job'[m] = job[m]) /\ job' = [m \in Messages |-> job'[m]]
    BY <1>1, <1>3
  <2>2. JobFits(n)
    BY <1>3, <2>1 DEF JobFits
  <2> QED  BY <1>1, <2>1, <2>2, JobWaits
<1>4. ASSUME UNCHANGED <<outbox, tasks>>, job' = [m \in Messages |-> job'[m]], \A m \in Messages : JobFits(m)
      PROVE  JobInv'
  BY <1>1, <1>4, JobMoves
<1>5. CASE UNCHANGED vars
  BY <1>2, <1>4, <1>5 DEF vars
<1>6. ASSUME NEW p \in Processors, ProcessorStep(p) \/ ProcessorDies(p)
      PROVE  JobInv'
  <2>1. UNCHANGED job
    BY <1>6 DEF ProcessorStep, ClaimBatch, PassEnds, ProcessorDies
  <2>2. \A m \in Messages : outbox'[m].state = "delivered" => outbox[m].state = "delivered"
    <3>1. CASE ClaimBatch(p)
      <4>1. PICK rows \in SUBSET ClaimableFor(p) :
               outbox' = [m \in Messages |-> IF m \in rows THEN Taken(outbox[m]) ELSE outbox[m]]
        BY <3>1 DEF ClaimBatch
      <4> SUFFICES ASSUME NEW m \in Messages PROVE outbox'[m].state = "delivered" => outbox[m].state = "delivered"
        OBVIOUS
      <4>2. Taken(outbox[m]).state = "processing"
        BY <1>1, TakenFacts
      <4> QED  BY <4>1, <4>2
    <3>2. CASE PassEnds(p) \/ ProcessorDies(p)
      BY <3>2 DEF PassEnds, ProcessorDies
    <3> QED  BY <1>6, <3>1, <3>2 DEF ProcessorStep
  <2>3. \A t \in tasks' : t.pc = "settling" => t \in tasks
    BY <1>6 DEF ProcessorStep, ClaimBatch, NewTask, PassEnds, ProcessorDies
  <2> QED  BY <1>1, <1>2, <2>1, <2>2, <2>3, JobMoves
<1>7. ASSUME NEW t \in tasks, Deliver(t)
      PROVE  JobInv'
  <2>1. PICK result \in {"ok", "retryable", "fatal", "thrown"} :
           /\ Replace(t, [t EXCEPT !.pc = "settling", !.result = result])
           /\ Pushed(t.m) \/ (result # "ok" /\ UNCHANGED job)
    BY <1>7 DEF Deliver
  <2> DEFINE u == [t EXCEPT !.pc = "settling", !.result = result]
  <2>2. u.m = t.m /\ u.result = result /\ tasks' = (tasks \ {t}) \cup {u} /\ UNCHANGED outbox /\ t.m \in Messages
    BY <1>1, <1>7, <2>1 DEF Task, Replace, Deliver
  <2> HIDE DEF u
  <2>3. CASE UNCHANGED job /\ result # "ok"
    BY <1>1, <1>2, <2>2, <2>3, JobMoves
  <2>4. CASE Pushed(t.m)
    <3> DEFINE j == IF job[t.m].state = "none" THEN [state |-> "waiting", tries |-> 0] ELSE job[t.m]
    <3>1. job' = [job EXCEPT ![t.m] = j]
      BY <1>1, <2>4 DEF Pushed
    <3>2. [state |-> "waiting", tries |-> 0] \in Job /\ 0 < Tries
      BY MessagingAssumption DEF Job
    <3>3. job' = [m \in Messages |-> job'[m]] /\ \A m \in Messages : JobFits(m)
      <4>1. CASE job[t.m].state = "none"
        <5>1. j \in Job /\ j.state = "waiting" /\ j.tries < Tries
          BY <3>2, <4>1
        <5> HIDE DEF j
        <5> QED  BY <1>3, <2>2, <3>1, <5>1
      <4>2. CASE job[t.m].state # "none"
        BY <1>1, <1>2, <3>1, <4>2
      <4> QED  BY <4>1, <4>2
    <3>4. JobFits(t.m) /\ job'[t.m].state # "none"
      BY <1>1, <2>2, <3>1, <3>3
    <3>5. Terminal(inbox'[t.m]) \/ job'[t.m].state \in {"waiting", "active", "failed"}
      BY <3>4 DEF JobFits, Job
    <3>6. \A x \in tasks' : x.pc = "settling" /\ x.result = "ok" => x \in tasks \/ Safe(x.m)'
      BY <2>2, <3>5 DEF Safe
    <3> QED  BY <1>1, <2>2, <3>3, <3>6, JobMoves
  <2> QED  BY <2>1, <2>3, <2>4
<1>8. ASSUME NEW t \in tasks, TaskRenewFails(t)
      PROVE  JobInv'
  <2> DEFINE u == [t EXCEPT !.leaseLost = TRUE]
  <2>1. UNCHANGED <<outbox, job>> /\ tasks' = (tasks \ {t}) \cup {u} /\ t.pc = "delivering"
    BY <1>8 DEF TaskRenewFails, Replace
  <2>2. u.pc = "delivering"
    BY <1>1, <2>1 DEF Task
  <2> HIDE DEF u
  <2>3. \A x \in tasks' : x.pc = "settling" => x \in tasks
    BY <2>1, <2>2
  <2> QED  BY <1>1, <1>2, <2>1, <2>3, JobMoves
<1>9. ASSUME NEW t \in tasks, SettleTask(t) \/ TaskFails(t)
      PROVE  JobInv'
  <2>1. UNCHANGED job /\ tasks' \subseteq tasks /\ t.m \in Messages /\ outbox[t.m] \in Row
    BY <1>1, <1>9 DEF SettleTask, TaskFails, Task
  <2>2. \A m \in Messages : outbox'[m].state = "delivered" => outbox[m].state = "delivered" \/ Safe(m)
    <3>1. CASE UNCHANGED outbox
      BY <3>1
    <3>2. CASE SettleTask(t) /\ ~UNCHANGED outbox
      <4> DEFINE outcome == OutcomeOf(t.result, t.token[2], OutboxAttempts)
                 r == Settled(outbox[t.m], outcome)
      <4>1. t.pc = "settling" /\ outbox' = [outbox EXCEPT ![t.m] = r]
        BY <3>2 DEF SettleTask
      <4>2. t.token[2] \in Nat
        BY <1>1 DEF Task
      <4>3. outcome \in {"delivered", "dead", "pending"} /\ (outcome = "delivered" => t.result = "ok")
        BY <4>2, OutcomeFacts, OutboxNumbers, <1>1
      <4> HIDE DEF outcome
      <4>4. r.state = outcome
        BY <2>1, <4>3, SettledFacts
      <4> HIDE DEF r
      <4>5. t.result = "ok" => Safe(t.m)
        BY <1>1, <4>1 DEF JobInv
      <4> QED  BY <1>1, <4>1, <4>3, <4>4, <4>5
    <3> QED  BY <1>9, <3>1, <3>2 DEF TaskFails
  <2> QED  BY <1>1, <1>2, <2>1, <2>2, JobMoves
<1>10. ASSUME NEW c \in Consumers, ConsumerStep(c)
       PROVE  JobInv'
  <2>1. UNCHANGED <<outbox, tasks>>
    BY <1>10 DEF ConsumerStep, TakeJob, ClaimInbox, ReclaimInbox, Handle, SettleInbox
  <2>2. ASSUME NEW m \in Messages, TakeJob(c, m)
        PROVE  JobInv'
    <3> DEFINE j == [state |-> "active", tries |-> job[m].tries + 1]
    <3>1. job' = [job EXCEPT ![m] = j]
      BY <1>1, <2>2 DEF TakeJob
    <3>2. j \in Job
      <4>1. job[m].tries \in 0..Tries /\ job[m].tries < Tries /\ Tries \in Nat
        BY <1>1, <2>2, MessagingAssumption DEF JobInv, Job, TakeJob
      <4> QED  BY <4>1 DEF Job
    <3>3. j.state = "active"
      OBVIOUS
    <3> HIDE DEF j
    <3> QED  BY <1>3, <1>4, <2>1, <3>1, <3>2, <3>3
  <2>3. CASE ClaimInbox(c)
    <3>1. PICK m : m = consumer[c].m
      OBVIOUS
    <3>2. consumer[c].pc # "idle" /\ (UNCHANGED job \/ (EndJob(c, InboxRead(inbox[m])) /\ UNCHANGED inbox))
      BY <2>3, <3>1 DEF ClaimInbox, Reclaim
    <3>3. InboxRead(inbox[m]) \in {"delivered", "duplicate", "dead"} => Terminal(inbox[m])
      BY DEF InboxRead
    <3>4. CASE EndJob(c, InboxRead(inbox[m])) /\ UNCHANGED inbox
      <4>1. PICK result : result = InboxRead(inbox[m])
        OBVIOUS
      <4> QED  BY <1>1, <1>4, <2>1, <3>1, <3>2, <3>3, <3>4, <4>1, JobEnds
    <3> QED  BY <1>2, <1>4, <2>1, <3>2, <3>4
  <2>4. CASE ReclaimInbox(c)
    <3>1. consumer[c].pc # "idle" /\ (UNCHANGED job \/ EndJob(c, "busy"))
      BY <2>4 DEF ReclaimInbox, Reclaim
    <3> QED  BY <1>1, <1>2, <1>4, <2>1, <3>1, JobEnds
  <2>5. CASE Handle(c)
    BY <1>2, <1>4, <2>1, <2>5 DEF Handle
  <2>6. CASE SettleInbox(c)
    <3>1. PICK m : m = consumer[c].m
      OBVIOUS
    <3>2. PICK outcome : outcome = OutcomeOf(consumer[c].result, consumer[c].token[2], InboxAttempts)
      OBVIOUS
    <3>3. /\ consumer[c].pc # "idle"
          /\ \/ EndJob(c, "busy")
             \/ /\ inbox' = [inbox EXCEPT ![m] = Settled(inbox[m], outcome)]
                /\ \E result : EndJob(c, result) /\ result = IF outcome = "pending" THEN "retry" ELSE outcome
      BY <2>6, <3>1, <3>2 DEF SettleInbox
    <3>4. m \in Messages /\ consumer[c].token[2] \in Nat
      BY <1>1, <3>1, <3>3, CallFacts DEF ConsumerState
    <3>5. outcome \in {"delivered", "dead", "pending"}
      BY <3>2, <3>4, OutcomeFacts, MessagingAssumption
    <3>6. ASSUME inbox' = [inbox EXCEPT ![m] = Settled(inbox[m], outcome)],
                 NEW result, EndJob(c, result), result = IF outcome = "pending" THEN "retry" ELSE outcome
          PROVE  JobInv'
      <4>1. inbox'[m].state = outcome
        <5>1. inbox[m] \in Row /\ inbox'[m] = Settled(inbox[m], outcome)
          BY <1>1, <3>4, <3>6
        <5> QED  BY <3>5, <5>1, SettledFacts
      <4>2. result \in {"delivered", "duplicate", "dead"} => Terminal(inbox'[m])
        BY <3>5, <3>6, <4>1 DEF Terminal
      <4> QED  BY <1>1, <1>4, <2>1, <3>1, <3>3, <3>6, <4>2, JobEnds
    <3>7. CASE EndJob(c, "busy")
      BY <1>1, <1>4, <2>1, <3>3, <3>7, JobEnds
    <3> QED  BY <3>3, <3>6, <3>7
  <2> QED  BY <1>10, <2>2, <2>3, <2>4, <2>5, <2>6 DEF ConsumerStep
<1>11. ASSUME NEW c \in Consumers, ConsumerRenewFails(c) \/ AckFails(c) \/ ConsumerDies(c)
       PROVE  JobInv'
  <2>1. CASE ConsumerRenewFails(c) \/ AckFails(c)
    BY <1>2, <1>4, <2>1 DEF ConsumerRenewFails, AckFails
  <2>2. CASE ConsumerDies(c)
    <3>1. PICK m : m = consumer[c].m
      OBVIOUS
    <3>2. Requeued(m) /\ UNCHANGED <<outbox, tasks>> /\ m \in Messages
      BY <1>1, <2>2, <3>1, CallFacts DEF ConsumerDies
    <3> QED  BY <1>1, <1>4, <3>2, JobReturns
  <2> QED  BY <1>11, <2>1, <2>2
<1>12. ASSUME NEW n \in Messages, Append(n) \/ PruneOutbox(n) \/ OutboxLeaseExpires(n) \/ OutboxBecomesDue(n)
       PROVE  JobInv'
  <2>1. UNCHANGED <<job, tasks>>
    BY <1>12 DEF Append, PruneOutbox, OutboxLeaseExpires, OutboxBecomesDue
  <2>2. \A m \in Messages : outbox'[m].state = "delivered" => outbox[m].state = "delivered"
    <3>1. outbox'[n].state = "delivered" => outbox[n].state = "delivered"
      <4>1. CASE PruneOutbox(n)
        BY <1>1, <4>1 DEF PruneOutbox, AbsentRow
      <4>2. CASE Append(n) \/ OutboxLeaseExpires(n) \/ OutboxBecomesDue(n)
        BY <1>1, <4>2 DEF Append, OutboxLeaseExpires, OutboxBecomesDue, AppendedRow, Row
      <4> QED  BY <1>12, <4>1, <4>2
    <3>2. \A m \in Messages \ {n} : outbox'[m] = outbox[m]
      BY <1>1, <1>12 DEF Append, PruneOutbox, OutboxLeaseExpires, OutboxBecomesDue
    <3> QED  BY <3>1, <3>2
  <2> QED  BY <1>1, <1>2, <2>1, <2>2, JobMoves
<1>13. ASSUME NEW n \in Messages, JobStalls(n) \/ JobRemoved(n) \/ InboxLeaseExpires(n) \/ InboxBecomesDue(n)
       PROVE  JobInv'
  <2>1. UNCHANGED <<outbox, tasks>>
    BY <1>13 DEF JobStalls, JobRemoved, InboxLeaseExpires, InboxBecomesDue
  <2>2. CASE JobStalls(n)
    BY <1>1, <1>4, <2>1, <2>2, JobReturns DEF JobStalls
  <2>3. CASE JobRemoved(n)
    <3>1. [state |-> "none", tries |-> 0] \in Job
      BY MessagingAssumption DEF Job
    <3> DEFINE j == [state |-> "none", tries |-> 0]
    <3>2. job' = [job EXCEPT ![n] = j] /\ job[n].state = "done" /\ j.state = "none"
      BY <2>3 DEF JobRemoved
    <3> HIDE DEF j
    <3> QED  BY <1>3, <1>4, <2>1, <3>1, <3>2 DEF j
  <2>4. CASE InboxLeaseExpires(n) \/ InboxBecomesDue(n)
    BY <1>2, <1>4, <2>1, <2>4 DEF InboxLeaseExpires, InboxBecomesDue
  <2> QED  BY <1>13, <2>2, <2>3, <2>4
<1> QED  BY <1>5, <1>6, <1>7, <1>8, <1>9, <1>10, <1>11, <1>12, <1>13 DEF Next, TaskStep, MessageStep

(***************************************************************************)
(* The theorems.                                                           *)
(***************************************************************************)

\* Nothing is owed, nobody runs, nothing is stored.
LEMMA MessagingStarts == Init => MessagingInv
<1> SUFFICES ASSUME Init PROVE MessagingInv
  OBVIOUS
<1>1. /\ AbsentRow \in Row /\ AbsentRow.state = "absent" /\ AbsentRow.attempts = 0 /\ AbsentRow.epoch = 0
  BY DEF AbsentRow, Row
<1>2. /\ inbox \in [Messages -> Row] /\ outbox \in [Messages -> Row]
      /\ \A m \in Messages : /\ inbox[m] = AbsentRow /\ outbox[m] = AbsentRow
                             /\ effects[m] = 0 /\ lapses[m] = 0 /\ job[m] = [state |-> "none", tries |-> 0]
      /\ effects \in [Messages -> Nat] /\ lapses \in [Messages -> Nat] /\ tasks = {} /\ faults = 0
      /\ consumer = [c \in Consumers |-> IdleConsumer]
  BY <1>1 DEF Init
<1>3. consumer \in [Consumers -> ConsumerState] /\ \A c \in Consumers : consumer[c].pc = "idle"
  BY <1>2, IdleFits
<1>4. InboxInv
  <2>1. \A m \in Messages : Astray(m) = {} /\ One(Earned(m)) \in Nat
    BY <1>3 DEF Astray, AstrayIn, One
  <2>2. \A m \in Messages : EffectsArePaid(m)
    BY <1>2, <2>1, FS_EmptySet DEF EffectsArePaid
  <2>3. \A m \in Messages : InboxIsPaid(m)
    BY <1>1, <1>2, MessagingAssumption DEF InboxIsPaid
  <2> QED  BY <1>2, <1>3, <2>2, <2>3 DEF InboxInv, CallFits, TokensDiffer
<1>5. OutboxInv
  <2>1. pass \in [Processors -> [open : BOOLEAN, taken : SUBSET Messages]]
    BY DEF Init, NewPass
  <2>2. \A m \in Messages : OutboxIsPaid(m)
    BY <1>1, <1>2, MessagingAssumption DEF OutboxIsPaid
  <2> QED  BY <1>2, <2>1, <2>2, MessagingAssumption DEF OutboxInv
<1>6. JobInv
  <2>1. [state |-> "none", tries |-> 0] \in Job
    BY MessagingAssumption DEF Job
  <2>2. job \in [Messages -> Job]
    BY <2>1 DEF Init
  <2> QED  BY <1>1, <1>2, <2>2 DEF JobInv
<1> QED  BY <1>4, <1>5, <1>6 DEF MessagingInv

\* The inductive invariant of the whole path.
LEMMA MessagingInductive == Spec => []MessagingInv
<1>1. MessagingInv /\ [Next]_vars => MessagingInv'
  <2> SUFFICES ASSUME MessagingInv, [Next]_vars PROVE MessagingInv'
    OBVIOUS
  <2>1. InboxInv' /\ OutboxInv'
    BY InboxSteps, OutboxSteps DEF MessagingInv
  <2> QED  BY <2>1, JobSteps DEF MessagingInv
<1> QED  BY <1>1, MessagingStarts, PTL DEF Spec

\* Whatever dies, stalls or lapses: a message that the outbox or the queue has acknowledged is
\* settled or still queued, its handler takes effect once more only for a claim whose outcome
\* was lost, and its retries stay within their budget but for such claims.
THEOREM MessagesAreAlwaysAccounted == Spec => [](TypeOK /\ MessagesAreAccounted)
<1>1. MessagingInv => TypeOK /\ MessagesAreAccounted
  <2> SUFFICES ASSUME MessagingInv PROVE TypeOK /\ MessagesAreAccounted
    OBVIOUS
  <2>1. InboxInv /\ OutboxInv /\ JobInv
    BY DEF MessagingInv
  <2>2. TypeOK
    BY <2>1 DEF TypeOK, InboxInv, OutboxInv, JobInv
  <2>3. NothingForgotten
    BY <2>1 DEF JobInv, Safe, NothingForgotten
  <2>4. ASSUME NEW m \in Messages
        PROVE  effects[m] <= 1 + lapses[m]
    <3>1. /\ IsFiniteSet(Astray(m)) /\ effects[m] \in Nat /\ lapses[m] \in Nat
          /\ effects[m] + Cardinality(Astray(m)) <= lapses[m] + One(Earned(m))
      BY <2>1 DEF InboxInv, EffectsArePaid
    <3>2. Cardinality(Astray(m)) \in Nat /\ One(Earned(m)) \in 0..1
      BY <3>1, FS_CardinalityType DEF One
    <3> QED  BY <3>1, <3>2
  <2>5. RetriesAreBounded
    BY <2>1 DEF RetriesAreBounded, InboxInv, InboxIsPaid, OutboxInv, OutboxIsPaid
  <2> QED  BY <2>2, <2>3, <2>4, <2>5 DEF MessagesAreAccounted, DuplicatesArePaid
<1> QED  BY <1>1, MessagingInductive, PTL

(***************************************************************************)
(* Tasks and their tokens: a token is behind its row or the row's own, and  *)
(* no two tasks of a message have the same.                                 *)
(***************************************************************************)
TokenKnown(t, row) ==
    /\ t.token[1] <= row.epoch
    /\ t.token[1] = row.epoch /\ row.state # "absent" => t.token[2] <= row.attempts
TasksDiffer ==
    /\ \A t \in tasks : TokenKnown(t, outbox[t.m])
    /\ \A t, u \in tasks : t.m = u.m /\ t.token = u.token => t = u

\* A row that goes from r to s knows the tokens it knew.
RowGrows(r, s) ==
    /\ r.epoch <= s.epoch
    /\ r.epoch = s.epoch /\ s.state # "absent" => r.state # "absent" /\ r.attempts <= s.attempts

LEMMA KnownStays ==
    ASSUME NEW t \in Task, NEW r \in Row, NEW s \in Row, TokenKnown(t, r), RowGrows(r, s)
    PROVE  TokenKnown(t, s)
<1>1. PICK a \in Nat, b \in Nat : t.token = <<a, b>>
  BY DEF Task
<1>2. r.epoch \in Nat /\ s.epoch \in Nat /\ r.attempts \in Nat /\ s.attempts \in Nat
  BY DEF Row
<1> QED  BY <1>1, <1>2 DEF TokenKnown, RowGrows

LEMMA TasksKeep ==
    ASSUME OutboxInv, OutboxInv', TasksDiffer, \A m \in Messages : RowGrows(outbox[m], outbox'[m]),
           \/ tasks' \subseteq tasks
           \/ \E t \in tasks, u \in Task : u.m = t.m /\ u.token = t.token /\ tasks' = (tasks \ {t}) \cup {u}
    PROVE  TasksDiffer'
<1>1. ASSUME NEW t \in tasks PROVE TokenKnown(t, outbox'[t.m])
  <2>1. t \in Task /\ outbox[t.m] \in Row /\ outbox'[t.m] \in Row /\ RowGrows(outbox[t.m], outbox'[t.m]) /\ TokenKnown(t, outbox[t.m])
    BY DEF OutboxInv, Task, TasksDiffer
  <2> QED  BY <2>1, KnownStays
<1>2. CASE tasks' \subseteq tasks
  BY <1>1, <1>2 DEF TasksDiffer
<1>3. ASSUME NEW t \in tasks, NEW u \in Task, u.m = t.m, u.token = t.token, tasks' = (tasks \ {t}) \cup {u}
      PROVE  TasksDiffer'
  <2>1. TokenKnown(u, outbox'[u.m])
    BY <1>1, <1>3 DEF TokenKnown
  <2> QED  BY <1>1, <1>3, <2>1 DEF TasksDiffer
<1> QED  BY <1>2, <1>3

LEMMA BatchesDiffer ==
    ASSUME OutboxInv, TasksDiffer, NEW p \in Processors, ClaimBatch(p)
    PROVE  TasksDiffer'
<1>1. PICK rows \in SUBSET ClaimableFor(p) :
         /\ outbox' = [m \in Messages |-> IF m \in rows THEN Taken(outbox[m]) ELSE outbox[m]]
         /\ tasks' = tasks \cup {NewTask(p, m) : m \in rows}
  BY DEF ClaimBatch
<1>2. rows \subseteq Messages
  BY DEF ClaimableFor
<1>3. ASSUME NEW t \in tasks PROVE t \in Task /\ t.m \in Messages /\ TokenKnown(t, outbox'[t.m])
  <2>1. t \in Task /\ t.m \in Messages /\ outbox[t.m] \in Row /\ TokenKnown(t, outbox[t.m])
    BY DEF OutboxInv, Task, TasksDiffer
  <2>2. CASE t.m \notin rows
    BY <1>1, <2>1, <2>2
  <2>3. CASE t.m \in rows
    <3>1. outbox'[t.m] = Taken(outbox[t.m])
      BY <1>1, <2>1, <2>3
    <3>2. outbox[t.m].state # "absent"
      BY <2>3 DEF ClaimableFor, Claimable
    <3>3. RowGrows(outbox[t.m], Taken(outbox[t.m])) /\ Taken(outbox[t.m]) \in Row
      <4>1. PICK r \in Row : r = outbox[t.m]
        BY <2>1
      <4>2. /\ Taken(r) \in Row /\ Taken(r).attempts = r.attempts + 1 /\ Taken(r).epoch = r.epoch
            /\ r.attempts \in Nat /\ r.epoch \in Nat /\ r.state # "absent"
        BY <3>2, <4>1, RowFacts
      <4>3. RowGrows(r, Taken(r))
        BY <4>2 DEF RowGrows
      <4> QED  BY <4>1, <4>2, <4>3
    <3> QED  BY <2>1, <3>1, <3>3, KnownStays
  <2> QED  BY <2>1, <2>2, <2>3
<1>4. ASSUME NEW m \in rows
      PROVE  LET u == NewTask(p, m) IN
             /\ u.m = m /\ TokenKnown(u, outbox'[m]) /\ \A t \in tasks : t.m = m => t.token # u.token
  <2>1. outbox[m] \in Row /\ outbox'[m] = Taken(outbox[m]) /\ outbox[m].state # "absent"
    BY <1>1, <1>2 DEF OutboxInv, ClaimableFor, Claimable
  <2>2. PICK a \in Nat, e \in Nat : a = outbox[m].attempts /\ e = outbox[m].epoch
    BY <2>1 DEF Row
  <2>3. outbox'[m].attempts = a + 1 /\ outbox'[m].epoch = e
    <3>1. PICK r \in Row : r = outbox[m]
      BY <2>1
    <3>2. Taken(r).attempts = r.attempts + 1 /\ Taken(r).epoch = r.epoch
      BY RowFacts
    <3> QED  BY <2>1, <2>2, <3>1, <3>2
  <2>4. PICK u : u = NewTask(p, m)
    OBVIOUS
  <2>5. u.m = m /\ u.token = <<e, a + 1>>
    BY <2>1, <2>3, <2>4 DEF NewTask, TokenOf
  <2>6. ASSUME NEW t \in tasks, t.m = m PROVE t.token # <<e, a + 1>>
    <3>1. TokenKnown(t, outbox[m])
      BY <2>6 DEF TasksDiffer
    <3> QED  BY <2>1, <2>2, <3>1 DEF TokenKnown
  <2> QED  BY <2>2, <2>3, <2>4, <2>5, <2>6 DEF TokenKnown
<1>5. \A t \in tasks' : TokenKnown(t, outbox'[t.m])
  BY <1>1, <1>3, <1>4
<1>6. ASSUME NEW t \in tasks', NEW u \in tasks', t.m = u.m, t.token = u.token
      PROVE  t = u
  <2>1. CASE t \in tasks /\ u \in tasks
    BY <1>6, <2>1 DEF TasksDiffer
  <2>2. (t \in tasks \/ \E m \in rows : t = NewTask(p, m)) /\ (u \in tasks \/ \E m \in rows : u = NewTask(p, m))
    BY <1>1
  <2> QED  BY <1>4, <1>6, <2>1, <2>2
<1> QED  BY <1>5, <1>6 DEF TasksDiffer

LEMMA TasksDifferInductive == Spec => []TasksDiffer
<1>1. Init => TasksDiffer
  BY DEF Init, TasksDiffer
<1>2. OutboxInv /\ OutboxInv' /\ TasksDiffer /\ [Next]_vars => TasksDiffer'
  <2> SUFFICES ASSUME OutboxInv, OutboxInv', TasksDiffer, [Next]_vars PROVE TasksDiffer'
    OBVIOUS
  <2>1. \A m \in Messages : outbox[m] \in Row /\ RowGrows(outbox[m], outbox[m])
    BY DEF OutboxInv, Row, RowGrows
  <2>2. CASE UNCHANGED outbox /\ tasks' \subseteq tasks
    BY <2>1, <2>2, TasksKeep
  <2>3. ASSUME NEW t \in tasks, NEW u, u \in {[t EXCEPT !.pc = "settling", !.result = result] : result \in {"ok", "retryable", "fatal", "thrown"}}
                                            \cup {[t EXCEPT !.leaseLost = TRUE]},
               tasks' = (tasks \ {t}) \cup {u}, UNCHANGED outbox
        PROVE  TasksDiffer'
    <3>1. t \in Task
      BY DEF OutboxInv
    <3>2. u \in Task /\ u.m = t.m /\ u.token = t.token
      BY <2>3, <3>1 DEF Task
    <3> QED  BY <2>1, <2>3, <3>2, TasksKeep
  <2>4. ASSUME NEW t \in tasks, SettleTask(t) PROVE TasksDiffer'
    <3>1. tasks' \subseteq tasks
      BY <2>4 DEF SettleTask
    <3>2. CASE UNCHANGED outbox
      BY <2>2, <3>1, <3>2
    <3>3. CASE Fenced(outbox[t.m], t.token) /\ outbox' = [outbox EXCEPT ![t.m] = Settled(@, OutcomeOf(t.result, t.token[2], OutboxAttempts))]
      <4> DEFINE outcome == OutcomeOf(t.result, t.token[2], OutboxAttempts)
      <4>1. t.m \in Messages /\ outbox[t.m].state = "processing" /\ outbox[t.m] \in Row /\ t.token[2] \in Nat
        BY <3>3 DEF Fenced, OutboxInv, Task
      <4>2. outcome \in {"delivered", "dead", "pending"}
        BY <4>1, OutcomeFacts, OutboxNumbers
      <4> HIDE DEF outcome
      <4>3. outbox' = [outbox EXCEPT ![t.m] = Settled(outbox[t.m], outcome)]
        BY <3>3 DEF outcome
      <4>4. RowGrows(outbox[t.m], Settled(outbox[t.m], outcome))
        BY <4>1, <4>2, SettledFacts DEF RowGrows, Row
      <4>5. \A m \in Messages : RowGrows(outbox[m], outbox'[m])
        BY <2>1, <4>1, <4>3, <4>4 DEF OutboxInv
      <4> QED  BY <3>1, <4>5, TasksKeep
    <3> QED  BY <2>4, <3>2, <3>3 DEF SettleTask
  <2>5. ASSUME NEW m \in Messages, Append(m) \/ PruneOutbox(m) \/ OutboxLeaseExpires(m) \/ OutboxBecomesDue(m)
        PROVE  TasksDiffer'
    <3>1. UNCHANGED tasks /\ outbox[m] \in Row
      BY <2>5 DEF OutboxInv, Append, PruneOutbox, OutboxLeaseExpires, OutboxBecomesDue
    <3>2. RowGrows(outbox[m], outbox'[m])
      <4>1. outbox[m].epoch \in Nat /\ outbox[m].attempts \in Nat
        BY <3>1 DEF Row
      <4>2. CASE Append(m)
        BY <4>1, <4>2 DEF Append, AppendedRow, RowGrows, OutboxInv
      <4>3. CASE PruneOutbox(m)
        BY <4>1, <4>3 DEF PruneOutbox, AbsentRow, RowGrows, OutboxInv
      <4>4. CASE OutboxLeaseExpires(m) \/ OutboxBecomesDue(m)
        <5>1. PICK r \in Row : r = outbox[m]
          BY <3>1
        <5>2. outbox'[m] = [r EXCEPT !.live = FALSE] \/ outbox'[m] = [r EXCEPT !.due = TRUE]
          BY <4>4, <5>1 DEF OutboxLeaseExpires, OutboxBecomesDue, OutboxInv
        <5>3. outbox'[m].epoch = r.epoch /\ outbox'[m].attempts = r.attempts /\ outbox'[m].state = r.state
          BY <5>2, RowFacts
        <5> QED  BY <4>1, <5>1, <5>3 DEF RowGrows
      <4> QED  BY <2>5, <4>2, <4>3, <4>4
    <3>3. \A n \in Messages \ {m} : outbox'[n] = outbox[n]
      BY <2>5 DEF OutboxInv, Append, PruneOutbox, OutboxLeaseExpires, OutboxBecomesDue
    <3>4. \A n \in Messages : RowGrows(outbox[n], outbox'[n])
      BY <2>1, <3>2, <3>3
    <3> QED  BY <3>1, <3>4, TasksKeep
  <2>6. ASSUME NEW t \in tasks, Deliver(t) \/ TaskRenewFails(t) PROVE TasksDiffer'
    <3>1. \E u : /\ u \in {[t EXCEPT !.pc = "settling", !.result = result] : result \in {"ok", "retryable", "fatal", "thrown"}}
                           \cup {[t EXCEPT !.leaseLost = TRUE]}
                 /\ tasks' = (tasks \ {t}) \cup {u} /\ UNCHANGED outbox
      BY <2>6 DEF Deliver, TaskRenewFails, Replace
    <3> QED  BY <2>3, <3>1
  <2>7. \/ UNCHANGED outbox /\ tasks' \subseteq tasks
        \/ \E p \in Processors : ClaimBatch(p)
        \/ \E t \in tasks : Deliver(t) \/ TaskRenewFails(t) \/ SettleTask(t)
        \/ \E n \in Messages : Append(n) \/ PruneOutbox(n) \/ OutboxLeaseExpires(n) \/ OutboxBecomesDue(n)
    BY DEF Next, ProcessorStep, PassEnds, ProcessorDies, TaskStep, TaskFails,
           ConsumerStep, TakeJob, ClaimInbox, ReclaimInbox, Handle, SettleInbox, ConsumerRenewFails, AckFails,
           ConsumerDies, JobStalls, JobRemoved, MessageStep, InboxLeaseExpires, InboxBecomesDue, vars
  <2> QED  BY <2>2, <2>4, <2>5, <2>6, <2>7, BatchesDiffer
<1> QED  BY <1>1, <1>2, MessagingInductive, PTL DEF Spec, MessagingInv

\* Fencing by tokens, for any number of processors and consumers: while its lease is live only
\* its owner, or its expiry, moves a claimed row.
THEOREM ClaimsAreAlwaysRespected == Spec => ClaimsAreRespected
<1> DEFINE Respected(m) ==
              /\ \A t \in tasks : OwnsOutbox(t, m) /\ outbox'[m] # outbox[m] =>
                    \/ t \notin tasks' \/ ~outbox[m].live
                    \/ outbox'[m] = [outbox[m] EXCEPT !.live = FALSE]
              /\ \A c \in Consumers : OwnsInbox(c, m) /\ inbox'[m] # inbox[m] =>
                    \/ consumer'[c].pc = "idle" \/ ~inbox[m].live
                    \/ inbox'[m] = [inbox[m] EXCEPT !.live = FALSE]
<1>1. MessagingInv /\ TasksDiffer /\ [Next]_vars => [\A m \in Messages : Respected(m)]_vars
  <2> SUFFICES ASSUME MessagingInv, TasksDiffer, Next, NEW m \in Messages
               PROVE  Respected(m)
    BY DEF vars
  <2>0. InboxInv /\ OutboxInv /\ outbox \in [Messages -> Row] /\ inbox \in [Messages -> Row]
    BY DEF MessagingInv, InboxInv, OutboxInv
  <2>1. ASSUME NEW t \in tasks, OwnsOutbox(t, m), outbox'[m] # outbox[m], outbox[m].live
        PROVE  t \notin tasks' \/ outbox'[m] = [outbox[m] EXCEPT !.live = FALSE]
    <3>0. outbox[m].state = "processing" /\ t.m = m /\ t.token = TokenOf(outbox[m])
      BY <2>1 DEF OwnsOutbox
    <3>1. ASSUME NEW p \in Processors, ClaimBatch(p) PROVE FALSE
      BY <2>0, <2>1, <3>0, <3>1 DEF ClaimBatch, ClaimableFor, Claimable
    <3>2. ASSUME NEW u \in tasks, SettleTask(u) PROVE t \notin tasks'
      <4>1. tasks' = tasks \ {u}
        BY <3>2 DEF SettleTask
      <4>2. UNCHANGED outbox \/ (Fenced(outbox[u.m], u.token) /\ \E r : outbox' = [outbox EXCEPT ![u.m] = r])
        <5>1. CASE ~u.leaseLost /\ Fenced(outbox[u.m], u.token)
          <6> DEFINE r == Settled(outbox[u.m], OutcomeOf(u.result, u.token[2], OutboxAttempts))
          <6>1. outbox' = [outbox EXCEPT ![u.m] = r]
            BY <3>2, <5>1 DEF SettleTask
          <6> HIDE DEF r
          <6> QED  BY <5>1, <6>1
        <5>2. CASE ~(~u.leaseLost /\ Fenced(outbox[u.m], u.token))
          BY <3>2, <5>2 DEF SettleTask
        <5> QED  BY <5>1, <5>2
      <4>3. u.m = m /\ Fenced(outbox[m], u.token)
        BY <2>0, <2>1, <4>2
      <4>4. t = u
        BY <3>0, <4>3 DEF Fenced, TasksDiffer
      <4> QED  BY <4>1, <4>4
    <3>3. ASSUME NEW n \in Messages, Append(n) \/ PruneOutbox(n) \/ OutboxLeaseExpires(n) \/ OutboxBecomesDue(n)
          PROVE  outbox'[m] = [outbox[m] EXCEPT !.live = FALSE]
      <4>1. n = m
        BY <2>0, <2>1, <3>3 DEF Append, PruneOutbox, OutboxLeaseExpires, OutboxBecomesDue
      <4>2. outbox' = [outbox EXCEPT ![m].live = FALSE]
        BY <3>0, <3>3, <4>1 DEF Append, PruneOutbox, OutboxLeaseExpires, OutboxBecomesDue, Terminal
      <4> QED  BY <2>0, <4>2
    <3>4. \/ UNCHANGED outbox \/ \E p \in Processors : ClaimBatch(p)
          \/ \E u \in tasks : SettleTask(u)
          \/ \E n \in Messages : Append(n) \/ PruneOutbox(n) \/ OutboxLeaseExpires(n) \/ OutboxBecomesDue(n)
      BY DEF Next, ProcessorStep, PassEnds, ProcessorDies, TaskStep, Deliver, TaskRenewFails, TaskFails,
             ConsumerStep, TakeJob, ClaimInbox, ReclaimInbox, Handle, SettleInbox, ConsumerRenewFails, AckFails,
             ConsumerDies, JobStalls, JobRemoved, MessageStep, InboxLeaseExpires, InboxBecomesDue
    <3> QED  BY <2>1, <3>1, <3>2, <3>3, <3>4
  <2>2. ASSUME NEW c \in Consumers, OwnsInbox(c, m), inbox'[m] # inbox[m], inbox[m].live
        PROVE  consumer'[c].pc = "idle" \/ inbox'[m] = [inbox[m] EXCEPT !.live = FALSE]
    <3>1. inbox[m].state = "processing"
      BY <2>2 DEF OwnsInbox
    <3>2. ASSUME NEW d \in Consumers, ClaimInbox(d) \/ ReclaimInbox(d) PROVE FALSE
      BY <2>0, <2>2, <3>1, <3>2 DEF ClaimInbox, ReclaimInbox, Reclaim, Claimable
    <3>3. ASSUME NEW d \in Consumers, SettleInbox(d) PROVE consumer'[c].pc = "idle"
      <4>1. PICK n : n = consumer[d].m
        OBVIOUS
      <4>2. /\ consumer[d].pc = "settling" /\ consumer' = [consumer EXCEPT ![d] = IdleConsumer]
            /\ \/ UNCHANGED inbox
               \/ Fenced(inbox[n], consumer[d].token) /\ \E r : inbox' = [inbox EXCEPT ![n] = r]
        <5>1. PICK outcome : outcome = OutcomeOf(consumer[d].result, consumer[d].token[2], InboxAttempts)
          OBVIOUS
        <5>2. \/ UNCHANGED inbox
              \/ /\ Fenced(inbox[n], consumer[d].token)
                 /\ inbox' = [inbox EXCEPT ![n] = Settled(inbox[n], outcome)]
          BY <3>3, <4>1, <5>1 DEF SettleInbox
        <5>3. consumer[d].pc = "settling" /\ consumer' = [consumer EXCEPT ![d] = IdleConsumer]
          BY <3>3 DEF SettleInbox, EndJob
        <5> QED  BY <5>2, <5>3
      <4>3. n = m /\ Fenced(inbox[m], consumer[d].token)
        BY <2>0, <2>2, <4>2
      <4>4. c = d
        <5>1. /\ consumer[c].m = consumer[d].m /\ consumer[c].token = consumer[d].token
              /\ consumer[c].pc \in {"handling", "settling"} /\ consumer[d].pc \in {"handling", "settling"}
          BY <2>2, <4>1, <4>2, <4>3 DEF OwnsInbox, Fenced
        <5>2. TokensDiffer
          BY <2>0 DEF InboxInv
        <5> QED  BY <5>1, <5>2 DEF TokensDiffer
      <4> QED  BY <2>0, <4>2, <4>4, IdleFits DEF InboxInv
    <3>4. ASSUME NEW n \in Messages, InboxLeaseExpires(n) \/ InboxBecomesDue(n)
          PROVE  inbox'[m] = [inbox[m] EXCEPT !.live = FALSE]
      BY <2>0, <2>2, <3>1, <3>4 DEF InboxLeaseExpires, InboxBecomesDue
    <3>5. \/ UNCHANGED inbox
          \/ \E d \in Consumers : ClaimInbox(d) \/ ReclaimInbox(d) \/ SettleInbox(d)
          \/ \E n \in Messages : InboxLeaseExpires(n) \/ InboxBecomesDue(n)
      BY DEF Next, ProcessorStep, ClaimBatch, PassEnds, ProcessorDies, TaskStep, Deliver, SettleTask,
             TaskRenewFails, TaskFails, ConsumerStep, TakeJob, Handle, ConsumerRenewFails, AckFails, ConsumerDies,
             Append, PruneOutbox, JobStalls, JobRemoved, MessageStep, OutboxLeaseExpires, OutboxBecomesDue
    <3> QED  BY <2>2, <3>2, <3>3, <3>4, <3>5
  <2> QED  BY <2>1, <2>2
<1> QED  BY <1>1, MessagingInductive, TasksDifferInductive, PTL DEF Spec, ClaimsAreRespected
==============================================================================
