--------------------------- MODULE AssertionProofs ---------------------------
(***************************************************************************)
(* Proofs about Assertion for any scenes, source events, limits and number *)
(* of requests.                                                            *)
(***************************************************************************)
EXTENDS Assertion, MetricsProofs, DiscoveryProofs

-----------------------------------------------------------------------------
(* The queries. *)

\* The order of the queries names each of them, and nothing else.
LEMMA OrderNames ==
  ASSUME NEW k \in Kinds
  PROVE  /\ Len(Order(k)) \in Nat
         /\ \A i \in 1 .. Len(Order(k)) : Order(k)[i] \in DOMAIN Queries(k)
         /\ \A q \in DOMAIN Queries(k) : \E i \in 1 .. Len(Order(k)) : Order(k)[i] = q
<1>1. CASE k = "user"
  <2>1. /\ Order(k) = UserOrder
        /\ Queries(k) = UserQueries
    BY <1>1 DEF Order, Queries
  <2>2. DOMAIN UserQueries = {"followers", "posts", "reactions", "zapsRecd", "nutzapsRecd",
               "zapsSent", "nutzapsSent", "reportsRecd", "reportsSent"}
    BY DEF UserQueries
  <2>3. Len(UserOrder) = 9 /\ 1 .. 9 = {1, 2, 3, 4, 5, 6, 7, 8, 9}
    BY DEF UserOrder
  <2>4. /\ UserOrder[1] = "followers" /\ UserOrder[2] = "posts" /\ UserOrder[3] = "reactions"
        /\ UserOrder[4] = "zapsRecd" /\ UserOrder[5] = "nutzapsRecd" /\ UserOrder[6] = "zapsSent"
        /\ UserOrder[7] = "nutzapsSent" /\ UserOrder[8] = "reportsRecd"
        /\ UserOrder[9] = "reportsSent"
    BY DEF UserOrder
  <2>. QED BY <2>1, <2>2, <2>3, <2>4
<1>2. CASE k = "event"
  <2>1. /\ Order(k) = EventOrder
        /\ Queries(k) = EventQueries
    BY <1>2 DEF Order, Queries
  <2>2. DOMAIN EventQueries = {"comments", "quotes", "reposts", "reactions", "zaps", "nutzaps"}
    BY DEF EventQueries
  <2>3. Len(EventOrder) = 6 /\ 1 .. 6 = {1, 2, 3, 4, 5, 6}
    BY DEF EventOrder
  <2>4. /\ EventOrder[1] = "comments" /\ EventOrder[2] = "quotes" /\ EventOrder[3] = "reposts"
        /\ EventOrder[4] = "reactions" /\ EventOrder[5] = "zaps" /\ EventOrder[6] = "nutzaps"
    BY DEF EventOrder
  <2>. QED BY <2>1, <2>2, <2>3, <2>4
<1>3. CASE k = "address"
  <2>1. /\ Order(k) = AddressOrder
        /\ Queries(k) = AddressQueries
    BY <1>3 DEF Order, Queries
  <2>2. DOMAIN AddressQueries = {"comments", "reposts", "reactions", "zaps", "nutzaps"}
    BY DEF AddressQueries
  <2>3. Len(AddressOrder) = 5 /\ 1 .. 5 = {1, 2, 3, 4, 5}
    BY DEF AddressOrder
  <2>4. /\ AddressOrder[1] = "comments" /\ AddressOrder[2] = "reposts"
        /\ AddressOrder[3] = "reactions" /\ AddressOrder[4] = "zaps"
        /\ AddressOrder[5] = "nutzaps"
    BY DEF AddressOrder
  <2>. QED BY <2>1, <2>2, <2>3, <2>4
<1>. QED BY <1>1, <1>2, <1>3 DEF Kinds

\* An answer holds nothing but what matches, and all of it up to the limit.
LEMMA AnswersType ==
  ASSUME NEW S, NEW T \in Answers(S)
  PROVE  /\ T \subseteq S
         /\ \A e \in S \ T :
               Cardinality(T) = QueryLimit /\ \A f \in T : Data[e].at <= Data[f].at
  BY DEF Answers, kSubset

\* The kind and the events of a scene.
LEMMA SceneType ==
  ASSUME scene \in Scenes
  PROVE  kind \in Kinds /\ scene.local \subseteq Event /\ scene.remote \subseteq Event
  BY AssertionAssumption DEF kind

\* A sync is given nothing but what the relays hold.
LEMMA WantedType ==
  ASSUME scene \in Scenes, NEW r, NEW types
  PROVE  Wanted(r, types) \subseteq scene.remote
  BY SceneType DEF Wanted, Found, Kinds

\* Every key is one of the service's.
LEMMA KeyType ==
  ASSUME NEW k \in Kinds, NEW metric \in MetricsOf(k)
  PROVE  GetPubKey(k, metric) = <<k, metric>> /\ <<k, metric>> \in MetricKeySet
  BY DEF GetPubKey, MetricKeySet

\* The metrics of an assertion are metrics of the scene's kind.
LEMMA SignedType ==
  ASSUME TypeOK, NEW r \in Requests
  PROVE  Signed(r) \subseteq Assertions
<1>1. Wave(r) \subseteq MetricsOf(kind)
  BY DEF Wave, asked
<1>2. kind \in Kinds
  BY SceneType DEF TypeOK
<1>3. now \in Nat
  BY DEF TypeOK
<1>4. SUFFICES ASSUME NEW a \in Signed(r) PROVE a \in Assertions
  OBVIOUS
<1>5. PICK metric \in Wave(r) : a = [key |-> GetPubKey(kind, metric), by |-> r, at |-> now]
  BY <1>4 DEF Signed, SignedAt
<1>6. GetPubKey(kind, metric) \in MetricKeySet
  BY <1>1, <1>2, <1>5, KeyType
<1>. QED BY <1>3, <1>5, <1>6 DEF Assertions

-----------------------------------------------------------------------------
(* Type correctness. *)

LEMMA TypeInit == Init => TypeOK
  BY SceneType, AssertionAssumption DEF Init, TypeOK, kind

\* Beginning a wave keeps the types of what it changes.
LEMMA BeginWaveType ==
  ASSUME TypeOK, NEW r \in Requests, NEW w \in {"initial", "update", "final"}, BeginWave(r, w),
         updates' \in [Requests -> Nat]
  PROVE  TypeOK'
<1>1. /\ pc' \in [Requests -> {"idle", "query", "send", "select", "done"}]
      /\ wave' \in [Requests -> {"initial", "update", "final"}]
  BY DEF TypeOK, BeginWave
<1>2. next' \in [Requests -> Nat \ {0}] /\ began' \in [Requests -> Nat]
  BY DEF TypeOK, BeginWave
<1>3. base' \in [Requests -> SUBSET Event]
  BY DEF TypeOK, BeginWave
<1>4. fresh' \in [Requests -> BOOLEAN]
  BY DEF TypeOK, BeginWave
<1>. QED BY <1>1, <1>2, <1>3, <1>4 DEF TypeOK, BeginWave, kind, sync, published

LEMMA TypeStep == TypeOK /\ [Next]_vars => TypeOK'
<1>. SUFFICES ASSUME TypeOK, [Next]_vars PROVE TypeOK'
  OBVIOUS
<1>0. kind \in Kinds /\ scene.remote \subseteq Event
  BY SceneType DEF TypeOK
<1>1. ASSUME NEW r \in Requests, Begin(r) PROVE TypeOK'
  BY <1>1, BeginWaveType DEF TypeOK, Begin
<1>2. ASSUME NEW r \in Requests, Query(r) PROVE TypeOK'
  <2>1. PICK q, answer :
           /\ q = Order(kind)[next[r]]
           /\ answer \in Answers({e \in db : Matches(Queries(kind)[q], e, subject)})
           /\ got' = [got EXCEPT ![r][q] = answer]
    BY <1>2 DEF Query
  <2>2. answer \subseteq Event
    BY <2>1, AnswersType DEF TypeOK
  <2>3. got' \in [Requests -> [DOMAIN Queries(kind) -> SUBSET Event]]
    <3>1. got \in [Requests -> [DOMAIN Queries(kind) -> SUBSET Event]]
      BY DEF TypeOK
    <3>. QED BY <2>1, <2>2, <3>1
  <2>4. next' \in [Requests -> Nat \ {0}]
    BY <1>2 DEF TypeOK, Query
  <2>. QED BY <1>2, <2>3, <2>4 DEF TypeOK, Query, kind, sync, published
<1>3. ASSUME NEW r \in Requests, Rank(r) PROVE TypeOK'
  <2>1. graph' \in [Requests -> BOOLEAN]
    BY <1>3 DEF TypeOK, Rank
  <2>. QED BY <1>3, <2>1 DEF TypeOK, Rank, kind, sync, published
<1>4. ASSUME NEW r \in Requests, SendWave(r) PROVE TypeOK'
  <2>1. outbox' \subseteq Assertions \X scene.outlets
    BY <1>4, SignedType DEF TypeOK, SendWave, Publications
  <2>2. pc' = [pc EXCEPT ![r] = "select"] \/ pc' = [pc EXCEPT ![r] = "done"]
    BY <1>4 DEF SendWave
  <2>3. spc' = spc \/ spc' = [spc EXCEPT ![r] = "begin"]
    BY <1>4 DEF SendWave
  <2>4. ended' = ended \/ ended' = [ended EXCEPT ![r] = now]
    BY <1>4 DEF SendWave
  <2>5. pc' \in [Requests -> {"idle", "query", "send", "select", "done"}]
    BY <2>2 DEF TypeOK
  <2>6. spc' \in [Requests -> {"off", "begin", "run", "closed"}]
    BY <2>3 DEF TypeOK
  <2>7. ended' \in [Requests -> Nat]
    BY <2>4 DEF TypeOK
  <2>. QED BY <1>4, <2>1, <2>5, <2>6, <2>7 DEF TypeOK, SendWave, kind
<1>5. ASSUME NEW r \in Requests, SyncBegin(r) PROVE TypeOK'
  BY <1>5 DEF TypeOK, SyncBegin, kind, compute, published
<1>6. ASSUME NEW r \in Requests, Store(r) PROVE TypeOK'
  <2>1. PICK e \in Wanted(r, required) : /\ db' = db \cup {e}
                                         /\ handed' = [handed EXCEPT ![r] = @ \cup {e}]
    BY <1>6 DEF Store
  <2>2. e \in Event
    BY <2>1, <1>0, WantedType DEF TypeOK
  <2>3. db' \subseteq Event /\ handed' \in [Requests -> SUBSET Event]
        /\ fresh' \in [Requests -> BOOLEAN]
    BY <1>6, <2>1, <2>2 DEF TypeOK, Store
  <2>. QED BY <1>6, <2>3 DEF TypeOK, Store, kind, compute, published
<1>7. ASSUME NEW r \in Requests, EndSync(r) PROVE TypeOK'
  BY <1>7 DEF TypeOK, EndSync, kind, compute, published
<1>8. ASSUME NEW r \in Requests, Update(r) \/ Final(r) PROVE TypeOK'
  <2>1. updates' \in [Requests -> Nat]
    BY <1>8 DEF TypeOK, Update, Final
  <2>. QED BY <1>8, <2>1, BeginWaveType DEF Update, Final
<1>9. ASSUME NEW m \in outbox, Deliver(m) \/ Lose(m) PROVE TypeOK'
  <2>1. m[1] \in Assertions /\ m[2] \in scene.outlets /\ outbox' \subseteq outbox
    BY <1>9 DEF TypeOK, Deliver, Lose
  <2>2. received' \in [scene.outlets -> SUBSET Assertions]
    BY <1>9, <2>1 DEF TypeOK, Deliver, Lose
  <2>3. kept' \in [scene.outlets -> SUBSET Assertions]
    BY <1>9, <2>1 DEF TypeOK, Deliver, Lose, Keep
  <2>. QED BY <1>9, <2>1, <2>2, <2>3 DEF TypeOK, Deliver, Lose, kind, compute, sync
<1>10. CASE Tick
  BY <1>10 DEF TypeOK, Tick, kind, compute, sync, published
<1>11. CASE UNCHANGED vars
  BY <1>11 DEF TypeOK, vars, kind, compute, sync, published
<1>. QED
  BY <1>1, <1>2, <1>3, <1>4, <1>5, <1>6, <1>7, <1>8, <1>9, <1>10, <1>11 DEF Next, Work

\* Requests, their syncs and the storage relays keep to their types.
THEOREM TypeCorrect == Spec => []TypeOK
  BY TypeInit, TypeStep, PTL DEF Spec

-----------------------------------------------------------------------------
(* What the storage relays keep. *)

\* Of two assertions with one key exactly one replaces the other.
LEMMA ReplacesOrder ==
  ASSUME NEW a \in Assertions, NEW b \in Assertions, a.key = b.key
  PROVE  /\ a # b => Replaces(a, b) \/ Replaces(b, a)
         /\ ~(Replaces(a, b) /\ Replaces(b, a))
         /\ \A c \in Assertions : Replaces(a, b) /\ Replaces(b, c) => Replaces(a, c)
<1>1. ASSUME NEW c \in Assertions PROVE c.at \in Nat /\ c.by \in Nat
  BY AssertionAssumption DEF Assertions
<1>2. a.at = b.at /\ a.by = b.by => a = b
  BY DEF Assertions
<1>3. a.at \in Nat /\ a.by \in Nat /\ b.at \in Nat /\ b.by \in Nat
  BY <1>1
<1>. QED BY <1>1, <1>2, <1>3 DEF Replaces

\* A relay keeps what it received, at most one assertion per key, and for all it
\* received that one or one that replaces it.
Covers(S, R) ==
    /\ S \subseteq R
    /\ \A a, b \in S : a.key = b.key => a = b
    /\ \A b \in R : \E a \in S : a.key = b.key /\ (a = b \/ Replaces(a, b))

\* Another assertion keeps it so.
LEMMA KeepCovers ==
  ASSUME NEW R \in SUBSET Assertions, NEW S, Covers(S, R), NEW a \in Assertions
  PROVE  Covers(Keep(a, S), R \cup {a})
<1>1. CASE \E b \in S : b.key = a.key /\ ~Replaces(a, b)
  <2>1. PICK b \in S : b.key = a.key /\ ~Replaces(a, b)
    BY <1>1
  <2>2. b = a \/ Replaces(b, a)
    BY <2>1, ReplacesOrder DEF Covers
  <2>3. Keep(a, S) = S
    BY <1>1 DEF Keep
  <2>. QED BY <2>1, <2>2, <2>3 DEF Covers
<1>2. CASE ~ \E b \in S : b.key = a.key /\ ~Replaces(a, b)
  <2>1. Keep(a, S) = {b \in S : b.key # a.key} \cup {a}
    BY <1>2 DEF Keep
  <2>2. ASSUME NEW b \in R
        PROVE  \E c \in Keep(a, S) : c.key = b.key /\ (c = b \/ Replaces(c, b))
    <3>1. PICK c \in S : c.key = b.key /\ (c = b \/ Replaces(c, b))
      BY DEF Covers
    <3>2. CASE c.key # a.key
      BY <2>1, <3>1, <3>2
    <3>3. CASE c.key = a.key
      <4>1. Replaces(a, c)
        BY <1>2, <3>1, <3>3
      <4>2. b \in Assertions /\ c \in Assertions
        BY <3>1 DEF Covers
      <4>3. Replaces(a, b)
        BY <3>1, <3>3, <4>1, <4>2, ReplacesOrder
      <4>. QED BY <2>1, <3>1, <3>3, <4>3
    <3>. QED BY <3>2, <3>3
  <2>. QED BY <2>1, <2>2 DEF Covers
<1>. QED BY <1>1, <1>2

\* What a relay keeps is a function of what it received.
LEMMA CoverIsUnique ==
  ASSUME NEW R \in SUBSET Assertions, NEW S, NEW T, Covers(S, R), Covers(T, R)
  PROVE  S \subseteq T
<1>. SUFFICES ASSUME NEW a \in S PROVE a \in T
  OBVIOUS
<1>1. PICK b \in T : b.key = a.key /\ (b = a \/ Replaces(b, a))
  BY DEF Covers
<1>2. PICK c \in S : c.key = b.key /\ (c = b \/ Replaces(c, b))
  BY <1>1 DEF Covers
<1>3. c = a
  BY <1>1, <1>2 DEF Covers
<1>4. a \in Assertions /\ b \in Assertions
  BY <1>1 DEF Covers
<1>. QED BY <1>1, <1>2, <1>3, <1>4, ReplacesOrder

KeptInv == \A x \in scene.outlets : Covers(kept[x], received[x])

LEMMA KeptInit == Init => KeptInv
  BY DEF Init, KeptInv, Covers

LEMMA KeptStep == TypeOK /\ KeptInv /\ [Next]_vars => KeptInv'
<1>. SUFFICES ASSUME TypeOK, KeptInv, [Next]_vars PROVE KeptInv'
  OBVIOUS
<1>1. ASSUME NEW m \in outbox, Deliver(m) PROVE KeptInv'
  <2>1. m[1] \in Assertions
    BY DEF TypeOK
  <2>2. ASSUME NEW x \in scene.outlets PROVE Covers(kept'[x], received'[x])
    <3>1. received[x] \in SUBSET Assertions /\ Covers(kept[x], received[x])
      BY DEF TypeOK, KeptInv
    <3>2. CASE x = m[2]
      <4>1. kept'[x] = Keep(m[1], kept[x]) /\ received'[x] = received[x] \cup {m[1]}
        BY <1>1, <3>2 DEF Deliver, TypeOK
      <4>. QED BY <2>1, <3>1, <4>1, KeepCovers
    <3>3. CASE x # m[2]
      <4>1. kept'[x] = kept[x] /\ received'[x] = received[x]
        BY <1>1, <3>3 DEF Deliver, TypeOK
      <4>. QED BY <3>1, <4>1
    <3>. QED BY <3>2, <3>3
  <2>3. scene' = scene
    BY <1>1 DEF Deliver
  <2>. QED BY <2>2, <2>3 DEF KeptInv
<1>2. CASE UNCHANGED <<scene, received, kept>>
  BY <1>2 DEF KeptInv
<1>3. ASSUME NEW r \in Requests,
             Begin(r) \/ Work(r) \/ SyncBegin(r) \/ Store(r) \/ EndSync(r)
      PROVE  UNCHANGED <<scene, received, kept>>
  BY <1>3 DEF Work, Begin, BeginWave, Query, Rank, SendWave, SyncBegin, Store, EndSync, Update,
              Final, published
<1>4. ASSUME NEW m \in outbox, Lose(m) PROVE UNCHANGED <<scene, received, kept>>
  BY <1>4 DEF Lose
<1>5. CASE Tick
  BY <1>2, <1>5 DEF Tick, published
<1>6. CASE UNCHANGED vars
  BY <1>2, <1>6 DEF vars, published
<1>. QED BY <1>1, <1>2, <1>3, <1>4, <1>5, <1>6 DEF Next

LEMMA KeptInvariant == Spec => []KeptInv
  BY TypeCorrect, KeptInit, KeptStep, PTL DEF Spec

\* An assertion that one storage relay has received, or will receive, is one that
\* each of the others has received or will, as long as nothing is lost.
IsGiven(a, x) == a \in received[x] \/ <<a, x>> \in outbox

GivenInv ==
    ~scene.lossy =>
        \A a \in Assertions : \A x, y \in scene.outlets : IsGiven(a, x) => IsGiven(a, y)

LEMMA GivenInit == Init => GivenInv
  BY DEF Init, GivenInv, IsGiven

\* A publication that arrives stays given.
LEMMA DeliverGives ==
  ASSUME TypeOK, NEW m \in outbox, Deliver(m), NEW a \in Assertions, NEW x \in scene.outlets
  PROVE  IsGiven(a, x)' <=> IsGiven(a, x)
<1>1. m[1] \in Assertions /\ m[2] \in scene.outlets /\ m = <<m[1], m[2]>>
  BY DEF TypeOK
<1>2. outbox' = outbox \ {m}
  BY DEF Deliver
<1>3. received'[x] = IF x = m[2] THEN received[x] \cup {m[1]} ELSE received[x]
  BY <1>1 DEF Deliver, TypeOK
<1>4. CASE a = m[1] /\ x = m[2]
  <2>1. a \in received'[x] /\ <<a, x>> \in outbox
    BY <1>1, <1>3, <1>4
  <2>. QED BY <2>1 DEF IsGiven
<1>5. CASE ~(a = m[1] /\ x = m[2])
  <2>1. <<a, x>> # m
    BY <1>5
  <2>2. <<a, x>> \in outbox' <=> <<a, x>> \in outbox
    BY <1>2, <2>1
  <2>3. a \in received'[x] <=> a \in received[x]
    BY <1>3, <1>5
  <2>. QED BY <2>2, <2>3 DEF IsGiven
<1>. QED BY <1>4, <1>5

LEMMA GivenStep == TypeOK /\ GivenInv /\ [Next]_vars => GivenInv'
<1>. SUFFICES ASSUME TypeOK, GivenInv, [Next]_vars PROVE GivenInv'
  OBVIOUS
<1>1. ASSUME NEW m \in outbox, Deliver(m) PROVE GivenInv'
  <2>1. UNCHANGED scene
    BY <1>1 DEF Deliver
  <2>. QED BY <1>1, <2>1, DeliverGives DEF GivenInv
<1>2. ASSUME NEW m \in outbox, Lose(m) PROVE GivenInv'
  BY <1>2 DEF Lose, GivenInv
<1>3. ASSUME NEW r \in Requests, SendWave(r) PROVE GivenInv'
  <2>1. UNCHANGED <<scene, received>>
    BY <1>3 DEF SendWave
  <2>2. CASE outbox' = outbox
    BY <2>1, <2>2 DEF GivenInv, IsGiven
  <2>3. CASE outbox' = outbox \cup (Signed(r) \X scene.outlets)
    <3>1. \A a \in Assertions : \A x \in scene.outlets :
             IsGiven(a, x)' <=> IsGiven(a, x) \/ a \in Signed(r)
      BY <2>1, <2>3 DEF IsGiven
    <3>. QED BY <2>1, <3>1 DEF GivenInv
  <2>. QED BY <1>3, <2>2, <2>3 DEF SendWave, Publications
<1>4. ASSUME UNCHANGED <<scene, outbox, received>> PROVE GivenInv'
  BY <1>4 DEF GivenInv, IsGiven
<1>5. ASSUME NEW r \in Requests, Begin(r) \/ Query(r) \/ Rank(r) \/ Update(r) \/ Final(r)
      PROVE  UNCHANGED <<scene, outbox, received>>
  BY <1>5 DEF Begin, Query, Rank, Update, Final, BeginWave, published
<1>6. ASSUME NEW r \in Requests, SyncBegin(r) \/ Store(r) \/ EndSync(r)
      PROVE  UNCHANGED <<scene, outbox, received>>
  BY <1>6 DEF SyncBegin, Store, EndSync, published
<1>7. ASSUME Tick \/ UNCHANGED vars PROVE UNCHANGED <<scene, outbox, received>>
  BY <1>7 DEF Tick, vars, published
<1>. QED BY <1>1, <1>2, <1>3, <1>4, <1>5, <1>6, <1>7 DEF Next, Work

LEMMA GivenInvariant == Spec => []GivenInv
  BY TypeCorrect, GivenInit, GivenStep, PTL DEF Spec

\* When everything on its way has arrived and nothing was lost, all storage relays
\* keep the same assertions, in whatever order the goroutines of all requests
\* delivered them; with losses, those that received the same (publishToStorageRelays).
THEOREM RelaysConverge == Spec => []RelaysAgree
<1>1. TypeOK /\ KeptInv /\ GivenInv => RelaysAgree
  <2>. SUFFICES ASSUME TypeOK, KeptInv, GivenInv,
                       NEW x \in scene.outlets, NEW y \in scene.outlets,
                       (outbox = {} /\ ~scene.lossy) \/ received[x] = received[y]
                PROVE  kept[x] = kept[y]
    BY DEF RelaysAgree
  <2>1. received[x] \in SUBSET Assertions /\ received[y] \in SUBSET Assertions
    BY DEF TypeOK
  <2>2. received[x] = received[y]
    <3>1. CASE outbox = {} /\ ~scene.lossy
      <4>1. \A a \in Assertions : a \in received[x] <=> a \in received[y]
        BY <3>1 DEF GivenInv, IsGiven
      <4>. QED BY <2>1, <4>1
    <3>. QED BY <3>1
  <2>3. Covers(kept[x], received[x]) /\ Covers(kept[y], received[x])
    BY <2>2 DEF KeptInv
  <2>. QED BY <2>1, <2>3, CoverIsUnique
<1>. QED BY <1>1, TypeCorrect, KeptInvariant, GivenInvariant, PTL

-----------------------------------------------------------------------------
(* Which assertion is kept. *)

\* The clock is never behind a wave, and an assertion bears the time at which its
\* request, now done, signed it.
SignedInv ==
    /\ \A r \in Requests : began[r] <= now /\ (pc[r] = "done" => began[r] <= ended[r])
    /\ \A m \in outbox : pc[m[1].by] = "done" /\ m[1].at = ended[m[1].by]
    /\ \A x \in scene.outlets : \A a \in received[x] :
          pc[a.by] = "done" /\ a.at = ended[a.by]

\* A step of one request keeps the time of the others.
LEMMA SignedStep == TypeOK /\ SignedInv /\ [Next]_vars => SignedInv'
<1>. SUFFICES ASSUME TypeOK, SignedInv, [Next]_vars PROVE SignedInv'
  OBVIOUS
<1>0. /\ \A m \in outbox : m[1].by \in Requests
      /\ \A x \in scene.outlets : \A a \in received[x] : a.by \in Requests
  BY DEF TypeOK, Assertions
<1>1. ASSUME NEW r \in Requests, NEW w, BeginWave(r, w), pc[r] # "done" PROVE SignedInv'
  <2>1. /\ \A s \in Requests : pc[s] = "done" => pc'[s] = "done" /\ s # r
        /\ \A s \in Requests : pc'[s] = "done" => pc[s] = "done"
    BY <1>1 DEF TypeOK, BeginWave
  <2>2. \A s \in Requests : s # r => began'[s] = began[s]
    BY <1>1 DEF TypeOK, BeginWave
  <2>3. began'[r] = now
    BY <1>1 DEF TypeOK, BeginWave
  <2>4. UNCHANGED <<scene, now, ended, outbox, received>> /\ now \in Nat
    BY <1>1 DEF BeginWave, published, TypeOK
  <2>. QED BY <1>0, <2>1, <2>2, <2>3, <2>4 DEF SignedInv
<1>2. ASSUME NEW r \in Requests, Begin(r) \/ Update(r) \/ Final(r) PROVE SignedInv'
  BY <1>1, <1>2 DEF Begin, Update, Final
<1>3. ASSUME NEW r \in Requests, Query(r) PROVE SignedInv'
  BY <1>3 DEF SignedInv, Query, published
<1>4. ASSUME NEW r \in Requests, Rank(r) PROVE SignedInv'
  <2>1. \A s \in Requests : pc[s] = "done" <=> pc'[s] = "done"
    BY <1>4 DEF TypeOK, Rank
  <2>2. UNCHANGED <<scene, now, began, ended, outbox, received>>
    BY <1>4 DEF Rank, published
  <2>. QED BY <1>0, <2>1, <2>2 DEF SignedInv
<1>5. ASSUME NEW r \in Requests, SendWave(r) PROVE SignedInv'
  <2>1. UNCHANGED <<scene, now, began, received>> /\ pc[r] = "send"
    BY <1>5 DEF SendWave
  <2>2. CASE wave[r] # "final"
    <3>1. pc' = [pc EXCEPT ![r] = "select"] /\ UNCHANGED <<ended, outbox>>
      BY <1>5, <2>2 DEF SendWave
    <3>2. \A s \in Requests : pc[s] = "done" <=> pc'[s] = "done"
      BY <2>1, <3>1 DEF TypeOK
    <3>. QED BY <1>0, <2>1, <3>1, <3>2 DEF SignedInv
  <2>3. CASE wave[r] = "final"
    <3>1. /\ ended' = [ended EXCEPT ![r] = now]
          /\ outbox' = outbox \cup (Signed(r) \X scene.outlets)
          /\ pc' = [pc EXCEPT ![r] = "done"]
      BY <1>5, <2>3 DEF SendWave, Publications
    <3>2. /\ \A s \in Requests : s # r => pc'[s] = pc[s] /\ ended'[s] = ended[s]
          /\ pc'[r] = "done" /\ ended'[r] = now
      BY <3>1 DEF TypeOK
    <3>3. \A a \in Signed(r) : a.by = r /\ a.at = now
      BY DEF Signed, SignedAt
    <3>4. \A m \in outbox' \ outbox : m[1] \in Signed(r)
      BY <3>1
    <3>5. \A m \in outbox' : pc'[m[1].by] = "done" /\ m[1].at = ended'[m[1].by]
      <4>1. ASSUME NEW m \in outbox PROVE pc'[m[1].by] = "done" /\ m[1].at = ended'[m[1].by]
        BY <1>0, <2>1, <3>2 DEF SignedInv
      <4>2. ASSUME NEW m \in outbox' \ outbox
            PROVE  pc'[m[1].by] = "done" /\ m[1].at = ended'[m[1].by]
        BY <3>2, <3>3, <3>4
      <4>. QED BY <4>1, <4>2
    <3>6. \A x \in scene.outlets : \A a \in received[x] :
             pc'[a.by] = "done" /\ a.at = ended'[a.by]
      BY <1>0, <2>1, <3>2 DEF SignedInv
    <3>7. \A s \in Requests : began'[s] <= now' /\ (pc'[s] = "done" => began'[s] <= ended'[s])
      BY <2>1, <3>2 DEF SignedInv
    <3>. QED BY <2>1, <3>5, <3>6, <3>7 DEF SignedInv
  <2>. QED BY <2>2, <2>3
<1>6. ASSUME NEW r \in Requests, SyncBegin(r) \/ Store(r) \/ EndSync(r) PROVE SignedInv'
  BY <1>6 DEF SignedInv, SyncBegin, Store, EndSync, compute, published
<1>7. ASSUME NEW m \in outbox, Deliver(m) PROVE SignedInv'
  <2>1. UNCHANGED <<scene, now, pc, began, ended>> /\ outbox' \subseteq outbox
    BY <1>7 DEF Deliver, compute
  <2>2. \A x \in scene.outlets : received'[x] \subseteq received[x] \cup {m[1]}
    BY <1>7 DEF Deliver, TypeOK
  <2>. QED BY <2>1, <2>2 DEF SignedInv
<1>8. ASSUME NEW m \in outbox, Lose(m) PROVE SignedInv'
  BY <1>8 DEF SignedInv, Lose, compute
<1>9. CASE Tick
  <2>1. UNCHANGED <<scene, pc, began, ended, outbox, received>> /\ now' = now + 1
    BY <1>9 DEF Tick, compute, published
  <2>2. now \in Nat /\ \A r \in Requests : began[r] \in Nat
    BY DEF TypeOK
  <2>. QED BY <2>1, <2>2 DEF SignedInv
<1>10. CASE UNCHANGED vars
  BY <1>10 DEF SignedInv, vars, compute, published
<1>. QED
  BY <1>2, <1>3, <1>4, <1>5, <1>6, <1>7, <1>8, <1>9, <1>10 DEF Next, Work

LEMMA SignedInvariant == Spec => []SignedInv
<1>1. Init => SignedInv
  BY AssertionAssumption DEF Init, SignedInv
<1>. QED BY <1>1, TypeCorrect, SignedStep, PTL DEF Spec

\* An assertion whose computation began in a later second than another was signed
\* in is not given up for it, whatever goroutine is faster (createMetricEvent,
\* publishToStorageRelays).
THEOREM LaterSecondIsKept == Spec => []LaterSecondWins
<1>1. TypeOK /\ KeptInv /\ SignedInv => LaterSecondWins
  <2>. SUFFICES ASSUME TypeOK, KeptInv, SignedInv, NEW x \in scene.outlets,
                       NEW a \in received[x], NEW b \in received[x], a.key = b.key,
                       ended[b.by] < began[a.by], b \in kept[x]
                PROVE  FALSE
    BY DEF LaterSecondWins
  <2>1. received[x] \in SUBSET Assertions
    BY DEF TypeOK
  <2>2. a \in Assertions /\ b \in Assertions
    BY <2>1
  <2>3. a.by \in Requests /\ b.by \in Requests /\ a.at \in Nat /\ b.at \in Nat
    BY <2>2 DEF Assertions
  <2>4. b.at = ended[b.by] /\ a.at = ended[a.by] /\ began[a.by] <= ended[a.by]
    BY <2>3 DEF SignedInv
  <2>5. b.at < a.at
    <3>1. began[a.by] \in Nat
      BY <2>3 DEF TypeOK
    <3>. QED BY <2>3, <2>4, <3>1
  <2>6. PICK c \in kept[x] : c.key = a.key /\ (c = a \/ Replaces(c, a))
    BY DEF KeptInv, Covers
  <2>7. c = b
    BY <2>6 DEF KeptInv, Covers
  <2>. QED BY <2>3, <2>5, <2>6, <2>7 DEF Replaces
<1>. QED BY <1>1, TypeCorrect, KeptInvariant, SignedInvariant, PTL

\* While nothing is lost, each storage relay has received every assertion of a
\* request that is done, or will.
DoneInv ==
    ~scene.lossy =>
        \A r \in Requests : pc[r] = "done" =>
            \A metric \in Wave(r), x \in scene.outlets : \E a \in Assertions :
                a.key = GetPubKey(kind, metric) /\ a.by = r /\ IsGiven(a, x)

\* It stays so while the answers of the requests that are done stand, no other gets
\* done, and what is given stays given.
LEMMA DoneKept ==
  ASSUME DoneInv, scene' = scene, outbox \subseteq outbox',
         \A x \in scene.outlets : received[x] \subseteq received'[x],
         \A r \in Requests : pc'[r] = "done" => pc[r] = "done" /\ got'[r] = got[r]
  PROVE  DoneInv'
<1>. SUFFICES ASSUME ~scene.lossy, NEW r \in Requests, pc'[r] = "done",
                     NEW metric \in Wave(r)', NEW x \in scene.outlets
              PROVE  \E a \in Assertions :
                        a.key = GetPubKey(kind, metric) /\ a.by = r /\ IsGiven(a, x)'
  BY DEF DoneInv, kind
<1>1. Wave(r)' = Wave(r) /\ pc[r] = "done"
  BY DEF Wave, asked, kind
<1>2. PICK a \in Assertions : a.key = GetPubKey(kind, metric) /\ a.by = r /\ IsGiven(a, x)
  BY <1>1 DEF DoneInv
<1>3. IsGiven(a, x)'
  BY <1>2 DEF IsGiven
<1>. QED BY <1>2, <1>3

LEMMA DoneStep == TypeOK /\ DoneInv /\ [Next]_vars => DoneInv'
<1>. SUFFICES ASSUME TypeOK, DoneInv, [Next]_vars PROVE DoneInv'
  OBVIOUS
<1>1. ASSUME NEW r \in Requests, Begin(r) \/ Query(r) \/ Rank(r) \/ Update(r) \/ Final(r)
      PROVE  DoneInv'
  <2>1. UNCHANGED <<scene, outbox, received>>
    BY <1>1 DEF Begin, Query, Rank, Update, Final, BeginWave, published
  <2>2. \A s \in Requests : pc'[s] = "done" => pc[s] = "done" /\ got'[s] = got[s]
    BY <1>1 DEF TypeOK, Begin, Query, Rank, Update, Final, BeginWave
  <2>. QED BY <2>1, <2>2, DoneKept
<1>2. ASSUME NEW r \in Requests, SyncBegin(r) \/ Store(r) \/ EndSync(r) PROVE DoneInv'
  <2>1. UNCHANGED <<scene, outbox, received, pc, got>>
    BY <1>2 DEF SyncBegin, Store, EndSync, compute, published
  <2>. QED BY <2>1, DoneKept
<1>3. ASSUME Tick \/ UNCHANGED vars PROVE DoneInv'
  <2>1. UNCHANGED <<scene, outbox, received, pc, got>>
    BY <1>3 DEF Tick, vars, compute, published
  <2>. QED BY <2>1, DoneKept
<1>4. ASSUME NEW r \in Requests, SendWave(r) PROVE DoneInv'
  <2>1. UNCHANGED <<scene, received, got>> /\ UNCHANGED kind
    BY <1>4 DEF SendWave, kind
  <2>2. CASE wave[r] # "final"
    <3>1. pc' = [pc EXCEPT ![r] = "select"] /\ outbox' = outbox
      BY <1>4, <2>2 DEF SendWave
    <3>2. \A s \in Requests : pc'[s] = "done" => pc[s] = "done"
      BY <3>1 DEF TypeOK
    <3>. QED BY <2>1, <3>1, <3>2, DoneKept
  <2>3. CASE wave[r] = "final"
    <3>1. /\ outbox' = outbox \cup (Signed(r) \X scene.outlets)
          /\ pc' = [pc EXCEPT ![r] = "done"]
      BY <1>4, <2>3 DEF SendWave, Publications
    <3>2. SUFFICES ASSUME ~scene.lossy, NEW s \in Requests, pc'[s] = "done",
                          NEW metric \in Wave(s)', NEW x \in scene.outlets
                   PROVE  \E a \in Assertions :
                             a.key = GetPubKey(kind, metric) /\ a.by = s /\ IsGiven(a, x)'
      BY <2>1 DEF DoneInv
    <3>3. metric \in Wave(s)
      BY <2>1 DEF Wave, asked
    <3>4. CASE s = r
      <4>0. metric \in Wave(r)
        BY <3>3, <3>4
      <4>1. PICK a \in Signed(r) : a = [key |-> GetPubKey(kind, metric), by |-> r, at |-> SignedAt(r)]
        BY <4>0 DEF Signed
      <4>2. a \in Assertions /\ <<a, x>> \in outbox'
        BY <3>1, <4>1, SignedType
      <4>. QED BY <3>4, <4>1, <4>2 DEF IsGiven
    <3>5. CASE s # r
      <4>1. pc[s] = "done"
        BY <3>1, <3>2, <3>5 DEF TypeOK
      <4>2. PICK a \in Assertions : a.key = GetPubKey(kind, metric) /\ a.by = s /\ IsGiven(a, x)
        BY <3>2, <3>3, <4>1 DEF DoneInv
      <4>3. IsGiven(a, x)'
        BY <2>1, <3>1, <4>2 DEF IsGiven
      <4>. QED BY <4>2, <4>3
    <3>. QED BY <3>4, <3>5
  <2>. QED BY <2>2, <2>3
<1>5. ASSUME NEW m \in outbox, Deliver(m) PROVE DoneInv'
  <2>1. UNCHANGED <<scene, pc, got>> /\ UNCHANGED kind
    BY <1>5 DEF Deliver, compute, kind
  <2>2. ASSUME NEW a \in Assertions, NEW x \in scene.outlets, IsGiven(a, x)
        PROVE  IsGiven(a, x)'
    BY <1>5, <2>2, DeliverGives
  <2>3. \A r \in Requests : Wave(r)' = Wave(r)
    BY <2>1 DEF Wave, asked
  <2>. QED BY <2>1, <2>2, <2>3 DEF DoneInv
<1>6. ASSUME NEW m \in outbox, Lose(m) PROVE DoneInv'
  BY <1>6 DEF Lose, DoneInv
<1>. QED BY <1>1, <1>2, <1>3, <1>4, <1>5, <1>6 DEF Next, Work

LEMMA DoneInvariant == Spec => []DoneInv
<1>1. Init => DoneInv
  BY DEF Init, DoneInv
<1>. QED BY <1>1, TypeCorrect, DoneStep, PTL DEF Spec

\* When the publications of a request have arrived, every storage relay keeps its
\* assertions or newer ones of the same metrics, also after those of other
\* requests arrive, which may have been signed before (publishToStorageRelays).
THEOREM ArrivedAreKept == Spec => []ArrivedIsKept
<1>1. TypeOK /\ KeptInv /\ SignedInv /\ DoneInv => ArrivedIsKept
  <2>. SUFFICES ASSUME TypeOK, KeptInv, SignedInv, DoneInv, NEW r \in Requests,
                       pc[r] = "done", ~scene.lossy, \A m \in outbox : m[1].by # r
                PROVE  IsKept(r)
    BY DEF ArrivedIsKept
  <2>. SUFFICES ASSUME NEW metric \in Wave(r), NEW x \in scene.outlets
                PROVE  \E a \in kept[x] : a.key = GetPubKey(kind, metric)
                                         /\ (a.by = r \/ ended[a.by] >= began[r])
    BY DEF IsKept
  <2>1. PICK a \in Assertions : a.key = GetPubKey(kind, metric) /\ a.by = r /\ IsGiven(a, x)
    BY DEF DoneInv
  <2>2. a \in received[x]
    <3>1. <<a, x>> \notin outbox
      <4>1. <<a, x>>[1] = a
        OBVIOUS
      <4>. QED BY <2>1, <4>1
    <3>. QED BY <2>1, <3>1 DEF IsGiven
  <2>3. PICK c \in kept[x] : c.key = a.key /\ (c = a \/ Replaces(c, a))
    BY <2>2 DEF KeptInv, Covers
  <2>4. c \in received[x] /\ c \in Assertions
    BY <2>3 DEF KeptInv, Covers, TypeOK
  <2>5. c.by \in Requests /\ c.at \in Nat /\ a.at \in Nat
    BY <2>4 DEF Assertions
  <2>6. c = a \/ c.at >= a.at
    BY <2>3, <2>5 DEF Replaces
  <2>7. a.at = ended[r] /\ c.at = ended[c.by] /\ began[r] <= ended[r]
    BY <2>1, <2>2, <2>4 DEF SignedInv
  <2>8. began[r] \in Nat
    BY DEF TypeOK
  <2>9. c.by = r \/ ended[c.by] >= began[r]
    BY <2>1, <2>5, <2>6, <2>7, <2>8
  <2>. QED BY <2>1, <2>3, <2>9
<1>. QED BY <1>1, TypeCorrect, KeptInvariant, SignedInvariant, DoneInvariant, PTL

-----------------------------------------------------------------------------
(* What a wave counts. *)

\* Selected, for a kind that is given.
Chosen(k, q, S) == {e \in S : Matches(Queries(k)[q], e, Subject[k])}

\* An answer that holds all of S, or the limit of newer events.
Complete(answer, S) ==
    \A e \in S \ answer :
        Cardinality(answer) = QueryLimit /\ \A f \in answer : Data[e].at <= Data[f].at

\* The answers hold nothing but what matches and is stored; those to the queries
\* that this wave has asked are complete, and when it is sent all are asked.
AnsweredInv ==
    \A r \in Requests :
        /\ base[r] \subseteq db
        /\ \A q \in DOMAIN Queries(kind) : got[r][q] \subseteq Chosen(kind, q, db)
        /\ pc[r] = "send" => next[r] > Len(Order(kind))
        /\ pc[r] \in {"query", "send"} =>
              \A i \in 1 .. Len(Order(kind)) : \A q \in DOMAIN Queries(kind) :
                 i < next[r] /\ q = Order(kind)[i] =>
                    Complete(got[r][q], Chosen(kind, q, base[r]))

LEMMA AnsweredInit == Init => AnsweredInv
  BY SceneType DEF Init, AnsweredInv, kind

\* A step that leaves the queries of a wave alone and at most stores events.
LEMMA AnsweredKept ==
  ASSUME AnsweredInv, db \subseteq db', UNCHANGED <<scene, got, base, next>>,
         NEW p \in Requests, \A r \in Requests : r # p => pc'[r] = pc[r],
         \/ pc'[p] = pc[p]
         \/ pc'[p] \notin {"query", "send"}
         \/ pc'[p] = "send" /\ pc[p] = "query" /\ next[p] > Len(Order(kind))
  PROVE  AnsweredInv'
<1>1. kind' = kind
  BY DEF kind
<1>2. \A q : Chosen(kind, q, db) \subseteq Chosen(kind, q, db')
  BY DEF Chosen
<1>3. ASSUME NEW r \in Requests
      PROVE  \/ pc'[r] = pc[r]
             \/ pc'[r] \notin {"query", "send"}
             \/ pc'[r] = "send" /\ pc[r] = "query" /\ next[r] > Len(Order(kind))
  OBVIOUS
<1>. QED BY <1>1, <1>2, <1>3 DEF AnsweredInv

LEMMA AnsweredStep == TypeOK /\ AnsweredInv /\ [Next]_vars => AnsweredInv'
<1>. SUFFICES ASSUME TypeOK, AnsweredInv, [Next]_vars PROVE AnsweredInv'
  OBVIOUS
<1>0. kind \in Kinds
  BY SceneType DEF TypeOK
<1>1. ASSUME NEW r \in Requests, NEW w, BeginWave(r, w) PROVE AnsweredInv'
  <2>1. UNCHANGED <<scene, got, db>> /\ kind' = kind
    BY <1>1 DEF BeginWave, sync, kind
  <2>2. base'[r] = db /\ next'[r] = 1 /\ pc'[r] = "query"
    BY <1>1 DEF TypeOK, BeginWave
  <2>3. ASSUME NEW s \in Requests, s # r
        PROVE  base'[s] = base[s] /\ next'[s] = next[s] /\ pc'[s] = pc[s]
    BY <1>1, <2>3 DEF TypeOK, BeginWave
  <2>4. ~ \E i \in 1 .. Len(Order(kind)) : i < 1
    OBVIOUS
  <2>. QED BY <2>1, <2>2, <2>3, <2>4 DEF AnsweredInv
<1>2. ASSUME NEW r \in Requests, Query(r) PROVE AnsweredInv'
  <2>0. UNCHANGED <<scene, db, base, pc>> /\ kind' = kind
    BY <1>2 DEF Query, sync, kind
  <2>1. PICK q, answer :
           /\ q = Order(kind)[next[r]]
           /\ answer \in Answers(Chosen(kind, q, db))
           /\ got' = [got EXCEPT ![r][q] = answer]
    BY <1>2 DEF Query, Chosen, subject
  <2>2. /\ next[r] \in 1 .. Len(Order(kind)) /\ pc[r] = "query"
        /\ next' = [next EXCEPT ![r] = @ + 1]
    BY <1>0, <1>2, OrderNames DEF Query, TypeOK
  <2>3. q \in DOMAIN Queries(kind)
    BY <1>0, <2>1, <2>2, OrderNames
  <2>4. got \in [Requests -> [DOMAIN Queries(kind) -> SUBSET Event]]
    BY DEF TypeOK
  <2>5. got'[r][q] = answer
    BY <2>1, <2>3, <2>4
  <2>6. \A s \in Requests, p \in DOMAIN Queries(kind) :
           s # r \/ p # q => got'[s][p] = got[s][p]
    BY <2>1, <2>4
  <2>7. answer \subseteq Chosen(kind, q, db)
    BY <2>1, AnswersType
  <2>8. Complete(answer, Chosen(kind, q, base[r]))
    <3>1. Chosen(kind, q, base[r]) \subseteq Chosen(kind, q, db)
      BY DEF AnsweredInv, Chosen
    <3>. QED BY <2>1, <3>1, AnswersType DEF Complete
  <2>9. ASSUME NEW s \in Requests, NEW i \in 1 .. Len(Order(kind)),
               NEW p \in DOMAIN Queries(kind), p = Order(kind)[i],
               pc[s] \in {"query", "send"}, i < next'[s]
        PROVE  Complete(got'[s][p], Chosen(kind, p, base[s]))
    <3>1. CASE s = r /\ p = q
      BY <2>5, <2>8, <3>1
    <3>2. CASE ~(s = r /\ p = q)
      <4>1. next \in [Requests -> Nat \ {0}]
        BY DEF TypeOK
      <4>2. CASE s # r
        BY <2>2, <2>6, <2>9, <4>1, <4>2 DEF AnsweredInv
      <4>3. CASE s = r
        <5>1. next'[r] = next[r] + 1 /\ i # next[r]
          BY <2>1, <2>2, <2>9, <3>2, <4>1, <4>3
        <5>2. i < next[r]
          BY <1>0, <2>9, <4>1, <4>3, <5>1, OrderNames
        <5>. QED BY <2>6, <2>9, <3>2, <4>3, <5>2 DEF AnsweredInv
      <4>. QED BY <4>2, <4>3
    <3>. QED BY <3>1, <3>2
  <2>10. \A s \in Requests : pc[s] = "send" => next'[s] = next[s]
    BY <2>2 DEF TypeOK
  <2>11. \A s \in Requests, p \in DOMAIN Queries(kind) : got'[s][p] \subseteq Chosen(kind, p, db)
    BY <2>5, <2>6, <2>7 DEF AnsweredInv
  <2>. QED BY <2>0, <2>9, <2>10, <2>11 DEF AnsweredInv
<1>3. ASSUME NEW r \in Requests, Rank(r) PROVE AnsweredInv'
  <2>1. /\ UNCHANGED <<scene, got, base, next, db>>
        /\ pc' = [pc EXCEPT ![r] = "send"] /\ pc[r] = "query" /\ next[r] > Len(Order(kind))
    BY <1>3 DEF Rank, sync
  <2>. QED BY <2>1, AnsweredKept DEF TypeOK
<1>4. ASSUME NEW r \in Requests, SendWave(r) PROVE AnsweredInv'
  <2>1. UNCHANGED <<scene, got, base, next, db>>
    BY <1>4 DEF SendWave
  <2>2. pc' = [pc EXCEPT ![r] = "select"] \/ pc' = [pc EXCEPT ![r] = "done"]
    BY <1>4 DEF SendWave
  <2>3. (\A s \in Requests : s # r => pc'[s] = pc[s]) /\ pc'[r] \notin {"query", "send"}
    BY <2>2 DEF TypeOK
  <2>. QED BY <2>1, <2>3, AnsweredKept
<1>5. ASSUME NEW r \in Requests, SyncBegin(r) \/ Store(r) \/ EndSync(r) PROVE AnsweredInv'
  <2>1. UNCHANGED <<scene, got, base, next, pc>> /\ db \subseteq db'
    BY <1>5 DEF SyncBegin, Store, EndSync, compute
  <2>. QED BY <2>1, AnsweredKept
<1>6. CASE UNCHANGED <<scene, got, base, next, pc, db>>
  BY <1>6 DEF AnsweredInv, kind
<1>7. ASSUME NEW m \in outbox, Deliver(m) \/ Lose(m)
      PROVE  UNCHANGED <<scene, got, base, next, pc, db>>
  BY <1>7 DEF Deliver, Lose, compute, sync
<1>8. CASE Tick
  BY <1>6, <1>8 DEF Tick, compute, sync
<1>9. CASE UNCHANGED vars
  BY <1>6, <1>9 DEF vars, compute, sync
<1>. QED
  BY <1>1, <1>2, <1>3, <1>4, <1>5, <1>6, <1>7, <1>8, <1>9
     DEF Next, Work, Begin, Update, Final

LEMMA AnsweredInvariant == Spec => []AnsweredInv
  BY TypeCorrect, AnsweredInit, AnsweredStep, PTL DEF Spec

\* Every answer of a wave that is sent is complete.
LEMMA SentIsComplete ==
  ASSUME TypeOK, AnsweredInv, NEW r \in Requests, pc[r] = "send",
         NEW q \in DOMAIN Queries(kind)
  PROVE  /\ Complete(got[r][q], Selected(q, base[r]))
         /\ got[r][q] \subseteq Selected(q, db)
<1>1. kind \in Kinds
  BY SceneType DEF TypeOK
<1>2. PICK i \in 1 .. Len(Order(kind)) : Order(kind)[i] = q
  BY <1>1, OrderNames
<1>3. i < next[r]
  BY <1>1, <1>2, OrderNames DEF AnsweredInv, TypeOK
<1>4. \A S : Selected(q, S) = Chosen(kind, q, S)
  BY DEF Selected, Chosen, subject
<1>. QED BY <1>2, <1>3, <1>4 DEF AnsweredInv

\* Every wave counts what the event database held when the wave was begun, or newer
\* events up to the limit, and nothing it does not hold (Compute*Metrics).
THEOREM WavesAreCurrent == Spec => []WaveIsCurrent
<1>1. TypeOK /\ AnsweredInv => WaveIsCurrent
  <2>. SUFFICES ASSUME TypeOK, AnsweredInv, NEW r \in Requests, pc[r] = "send",
                       NEW q \in DOMAIN got[r]
                PROVE  got[r][q] \subseteq db /\ Complete(got[r][q], Selected(q, base[r]))
    BY DEF WaveIsCurrent, Complete
  <2>1. q \in DOMAIN Queries(kind)
    BY DEF TypeOK
  <2>. QED BY <2>1, SentIsComplete DEF Selected
<1>. QED BY <1>1, TypeCorrect, AnsweredInvariant, PTL

\* What an event must be to answer the queries for comments and for quotes.
LEMMA CommentsAndQuotes ==
  ASSUME kind = "event", NEW S
  PROVE  /\ "comments" \in DOMAIN Queries(kind) /\ "quotes" \in DOMAIN Queries(kind)
         /\ Selected("comments", S)
               = {e \in S : Data[e].kind = 1 /\ <<"e", subject>> \in Data[e].tags}
         /\ Selected("quotes", S)
               = {e \in S : Data[e].kind = 1 /\ <<"q", subject>> \in Data[e].tags}
<1>1. Queries(kind) = EventQueries
  BY DEF Queries
<1>2. /\ "comments" \in DOMAIN EventQueries /\ "quotes" \in DOMAIN EventQueries
      /\ EventQueries["comments"] = [kinds |-> {1}, author |-> FALSE, tag |-> "e"]
      /\ EventQueries["quotes"] = [kinds |-> {1}, author |-> FALSE, tag |-> "q"]
  BY DEF EventQueries, Tagging
<1>3. \A e : Matches(EventQueries["comments"], e, subject)
                <=> Data[e].kind = 1 /\ <<"e", subject>> \in Data[e].tags
  BY <1>2 DEF Matches
<1>4. \A e : Matches(EventQueries["quotes"], e, subject)
                <=> Data[e].kind = 1 /\ <<"q", subject>> \in Data[e].tags
  BY <1>2 DEF Matches
<1>. QED BY <1>1, <1>2, <1>3, <1>4 DEF Selected

\* A note that refers to the event by a reply and by a quote is counted once, and
\* every note stored when the wave was begun is counted (ComputeEventMetrics).
THEOREM NoMentionTwice == Spec => []MentionsCountedOnce
<1>1. TypeOK /\ AnsweredInv => MentionsCountedOnce
  <2>. SUFFICES ASSUME TypeOK, AnsweredInv, NEW r \in Requests, pc[r] = "send", kind = "event"
                PROVE  /\ CommentsOf(got[r], subject) \cap got[r].quotes = {}
                       /\ Cardinality(got[r].comments) < QueryLimit
                          /\ Cardinality(got[r].quotes) < QueryLimit
                          => Selected("comments", base[r])
                                \subseteq CommentsOf(got[r], subject) \cup got[r].quotes
    BY DEF MentionsCountedOnce
  <2>1. \A e \in got[r].quotes : IsQuote(e, subject)
    BY CommentsAndQuotes, SentIsComplete DEF IsQuote
  <2>2. \A e \in Selected("comments", base[r]) :
           IsQuote(e, subject) => e \in Selected("quotes", base[r])
    BY CommentsAndQuotes DEF IsQuote
  <2>3. /\ Cardinality(got[r].comments) < QueryLimit
           => Selected("comments", base[r]) \subseteq got[r].comments
        /\ Cardinality(got[r].quotes) < QueryLimit
           => Selected("quotes", base[r]) \subseteq got[r].quotes
    <3>1. QueryLimit \in Nat
      BY AssertionAssumption DEF MetricsAssumption
    <3>. QED BY CommentsAndQuotes, <3>1, SentIsComplete DEF Complete
  <2>. QED BY <2>1, <2>2, <2>3 DEF CommentsOf
<1>. QED BY <1>1, TypeCorrect, AnsweredInvariant, PTL

-----------------------------------------------------------------------------
(* Active hours. *)

\* The active hours are a proper part of the day, around midnight if need be,
\* which holds the first of the busiest hours and every hour that is joined to it,
\* at most eleven hours away, by hours with more than a quarter of its notes
\* (findActiveHoursRange).
THEOREM HoursReachOut == Spec => []ActiveHoursReachOut
<1>1. ASSUME TypeOK, NEW r \in Requests, kind = "user", got[r].posts # {}
      PROVE  LET counts == HourCounts(got[r].posts)
                 hours  == ActiveHours(counts)
                 peak   == PeakHour(counts)
                 busy(direction, k) ==
                     \A i \in 1 .. k :
                         4 * counts[(peak + direction * i + 24) % 24] > counts[peak]
             IN  /\ hours[1] # hours[2]
                 /\ \A direction \in {-1, 1} : \A k \in 0 .. 11 : busy(direction, k) =>
                       IsActive((peak + direction * k + 24) % 24, hours[1], hours[2])
  <2>. DEFINE counts    == HourCounts(got[r].posts)
              threshold == Threshold(counts)
              p         == PeakHour(counts)
              a         == Reach(counts, p, threshold, -1)
              b         == Reach(counts, p, threshold, 1)
              at(direction, k)   == (p + direction * k + 24) % 24
              busy(direction, k) == \A i \in 1 .. k : 4 * counts[at(direction, i)] > counts[p]
  <2>1. got[r].posts \in SUBSET Event
    <3>1. "posts" \in DOMAIN Queries(kind)
      BY <1>1 DEF Queries, UserQueries
    <3>. QED BY <1>1, <3>1 DEF TypeOK
  <2>2. counts \in [0 .. 23 -> Nat] /\ Peak(counts) > 0
    BY <1>1, <2>1, HourCountsType, AssertionAssumption
  <2>3. p \in 0 .. 23 /\ counts[p] = Peak(counts)
    <3>. HIDE DEF counts
    <3>. QED BY <2>2, PeakHourHasPeak
  <2>4. \A h \in 0 .. 23 : 4 * counts[h] > counts[p] => counts[h] >= threshold
    <3>. HIDE DEF counts, p
    <3>1. Peak(counts) \in Nat
      BY <2>2, <2>3
    <3>. QED BY <2>2, <2>3, <3>1 DEF Threshold
  <2>5. \A direction \in {-1, 1}, i \in 1 .. 11 : at(direction, i) \in 0 .. 23
    <3>. HIDE DEF p
    <3>. QED BY <2>3
  <2>6. a \in 0 .. 11 /\ \A k \in 0 .. 11 : busy(-1, k) => k <= a
    <3>1. ASSUME NEW k \in 0 .. 11, busy(-1, k)
          PROVE  \A i \in 1 .. k : counts[at(-1, i)] >= threshold
      <4>. HIDE DEF counts, threshold, p
      <4>. QED BY <2>4, <2>5, <3>1
    <3>. HIDE DEF counts, threshold, p
    <3>. QED BY <3>1, ReachGoesOn
  <2>7. b \in 0 .. 11 /\ \A k \in 0 .. 11 : busy(1, k) => k <= b
    <3>1. ASSUME NEW k \in 0 .. 11, busy(1, k)
          PROVE  \A i \in 1 .. k : counts[at(1, i)] >= threshold
      <4>. HIDE DEF counts, threshold, p
      <4>. QED BY <2>4, <2>5, <3>1
    <3>. HIDE DEF counts, threshold, p
    <3>. QED BY <3>1, ReachGoesOn
  <2>8. /\ ActiveHours(counts)[1] = FirstHour(p, a)
        /\ ActiveHours(counts)[2] = LastHour(p, b)
    <3>1. counts[PeakHour(counts)] # 0
      BY <2>2, <2>3
    <3>2. ActiveHours(counts) = <<FirstHour(p, a), LastHour(p, b)>>
      BY <3>1 DEF ActiveHours, FirstHour, LastHour
    <3>. QED BY <3>2
  <2>9. /\ FirstHour(p, a) # LastHour(p, b)
        /\ \A k \in 0 .. a : IsActive(at(-1, k), FirstHour(p, a), LastHour(p, b))
        /\ \A k \in 0 .. b : IsActive(at(1, k), FirstHour(p, a), LastHour(p, b))
    <3>. HIDE DEF p, a, b
    <3>. QED BY <2>3, <2>6, <2>7, RangeOfHours
  <2>10. ASSUME NEW direction \in {-1, 1}, NEW k \in 0 .. 11, busy(direction, k)
         PROVE  IsActive(at(direction, k), FirstHour(p, a), LastHour(p, b))
    <3>. HIDE DEF counts, p, a, b, at, busy
    <3>1. CASE direction = -1
      <4>1. k \in 0 .. a
        BY <2>6, <2>10, <3>1
      <4>. QED BY <2>9, <3>1, <4>1
    <3>2. CASE direction = 1
      <4>1. k \in 0 .. b
        BY <2>7, <2>10, <3>2
      <4>. QED BY <2>9, <3>2, <4>1
    <3>. QED BY <2>10, <3>1, <3>2
  <2>. QED BY <2>8, <2>9, <2>10
<1>2. TypeOK => ActiveHoursReachOut
  BY <1>1 DEF ActiveHoursReachOut
<1>. QED BY <1>2, TypeCorrect, PTL

-----------------------------------------------------------------------------
(* What a sync has to ask for. *)

\* The types of events that the metrics of a user need.
LEMMA NeedsOfMetrics ==
  ASSUME NEW metric \in UserMetrics
  PROVE  /\ MetricFilters[metric] \subseteq FilterAll
         /\ metric \in {"post_cnt", "reply_cnt", "first_created_at", "active_hours_start",
                        "active_hours_end", "t"} => "posts" \in MetricFilters[metric]
         /\ metric = "reactions_cnt" => "reactions" \in MetricFilters[metric]
         /\ metric = "followers" => "followers" \in MetricFilters[metric]
         /\ metric \in {"zap_amt_recd", "zap_cnt_recd", "zap_avg_amt_day_recd"}
               => "zapsRecd" \in MetricFilters[metric]
         /\ metric \in {"zap_amt_sent", "zap_cnt_sent", "zap_avg_amt_day_sent"}
               => "zapsSent" \in MetricFilters[metric]
         /\ metric = "reports_cnt_recd" => "reportsRecd" \in MetricFilters[metric]
         /\ metric = "reports_cnt_sent" => "reportsSent" \in MetricFilters[metric]
         /\ metric = "rank" => MetricFilters[metric] = FilterAll
  BY DEF MetricFilters, UserMetrics, FilterAll

\* A sync asks for the types that each metric asked for needs (GetRequiredFilters).
LEMMA RequiredCoversAsked ==
  ASSUME kind = "user", NEW metric \in asked
  PROVE  metric \in UserMetrics /\ MetricFilters[metric] \subseteq required
<1>1. metric \in UserMetrics
  BY DEF asked, MetricsOf
<1>2. CASE scene.authors = {}
  <2>1. required = FilterAll
    BY <1>2 DEF required, getRequestedMetrics, GetRequiredFilters
  <2>. QED BY <1>1, <2>1, NeedsOfMetrics
<1>3. CASE scene.authors # {}
  <2>1. getRequestedMetrics(kind, scene.authors) = asked
    BY <1>3 DEF getRequestedMetrics, asked
  <2>2. MetricFilters[metric]
           \subseteq UNION {MetricFilters[other] : other \in asked \cap UserMetrics}
    BY <1>1
  <2>. QED BY <1>1, <2>1, <2>2, NeedsOfMetrics DEF required, GetRequiredFilters
<1>. QED BY <1>1, <1>2, <1>3

\* A filter finds events of its kinds.
LEMMA MatchesKind ==
  ASSUME NEW filter, NEW e, NEW s, Matches(filter, e, s)
  PROVE  Data[e].kind \in filter.kinds
  BY DEF Matches

\* Reports have a kind of their own.
LEMMA ReportsApart ==
  /\ \A t \in FilterAll \ ReportTypes : \A filter \in UserSync[t] : 1984 \notin filter.kinds
  /\ \A t \in ReportTypes : \A filter \in UserSync[t] : filter.kinds = {1984}
  /\ ReportTypes \subseteq FilterAll
<1>1. /\ Authored(1).kinds = {1} /\ Authored(7).kinds = {7} /\ Authored(9321).kinds = {9321}
      /\ Authored(1984).kinds = {1984} /\ Tagging({1984}, "p").kinds = {1984}
      /\ Tagging({3}, "p").kinds = {3} /\ Tagging({9735}, "p").kinds = {9735}
      /\ Tagging({9735}, "P").kinds = {9735} /\ Tagging({9321}, "p").kinds = {9321}
  BY DEF Authored, Tagging
<1>2. /\ UserSync["posts"] = {Authored(1)}
      /\ UserSync["reactions"] = {Authored(7)}
      /\ UserSync["followers"] = {Tagging({3}, "p")}
      /\ UserSync["zapsRecd"] = {Tagging({9735}, "p"), Tagging({9321}, "p")}
      /\ UserSync["zapsSent"] = {Tagging({9735}, "P"), Authored(9321)}
      /\ UserSync["reportsRecd"] = {Tagging({1984}, "p")}
      /\ UserSync["reportsSent"] = {Authored(1984)}
  BY DEF UserSync
<1>3. ASSUME NEW t \in FilterAll \ ReportTypes, NEW filter \in UserSync[t]
      PROVE  1984 \notin filter.kinds
  <2>1. t \in {"posts", "reactions", "followers", "zapsRecd", "zapsSent"}
    BY <1>3 DEF FilterAll, ReportTypes
  <2>2. filter.kinds \in {{1}, {7}, {3}, {9735}, {9321}}
    BY <1>1, <1>2, <1>3, <2>1
  <2>. QED BY <2>2
<1>4. ASSUME NEW t \in ReportTypes, NEW filter \in UserSync[t] PROVE filter.kinds = {1984}
  BY <1>1, <1>2, <1>4 DEF ReportTypes
<1>. QED BY <1>3, <1>4 DEF FilterAll, ReportTypes

\* What a filter finds when everything is asked for, it finds when its type is.
LEMMA AskedIsFound ==
  ASSUME kind = "user", NEW r, NEW types \in SUBSET FilterAll, NEW t \in types,
         NEW filter \in UserSync[t], NEW e \in Wanted(r, FilterAll),
         Matches(filter, e, subject)
  PROVE  e \in Wanted(r, types)
<1>1. \A u : Wanted(r, u) = Found(UNION {UserSync[v] : v \in u \ ReportTypes}, peers[r].own)
                   \cup Found(UNION {UserSync[v] : v \in u \cap ReportTypes}, peers[r].reports)
  BY DEF Wanted
<1>2. e \in scene.remote
  BY <1>1 DEF Found
<1>3. CASE t \notin ReportTypes
  <2>1. e \notin Found(UNION {UserSync[v] : v \in FilterAll \cap ReportTypes}, peers[r].reports)
    <3>1. 1984 \notin filter.kinds /\ Data[e].kind \in filter.kinds
      BY <1>3, ReportsApart, MatchesKind
    <3>2. \A other \in UNION {UserSync[v] : v \in FilterAll \cap ReportTypes} :
             ~Matches(other, e, subject)
      BY <3>1, ReportsApart, MatchesKind
    <3>. QED BY <3>2 DEF Found
  <2>2. \E x \in peers[r].own : e \in Holds[x]
    BY <1>1, <2>1 DEF Found
  <2>3. filter \in UNION {UserSync[v] : v \in types \ ReportTypes}
    BY <1>3
  <2>. QED BY <1>1, <1>2, <2>2, <2>3 DEF Found
<1>4. CASE t \in ReportTypes
  <2>1. e \notin Found(UNION {UserSync[v] : v \in FilterAll \ ReportTypes}, peers[r].own)
    <3>1. Data[e].kind = 1984
      BY <1>4, ReportsApart, MatchesKind
    <3>2. \A other \in UNION {UserSync[v] : v \in FilterAll \ ReportTypes} :
             ~Matches(other, e, subject)
      BY <3>1, ReportsApart, MatchesKind
    <3>. QED BY <3>2 DEF Found
  <2>2. \E x \in peers[r].reports : e \in Holds[x]
    BY <1>1, <2>1 DEF Found
  <2>3. filter \in UNION {UserSync[v] : v \in types \cap ReportTypes}
    BY <1>4
  <2>. QED BY <1>1, <1>2, <2>2, <2>3 DEF Found
<1>. QED BY <1>3, <1>4

\* The queries that each type of events answers.
Supplies ==
    [posts       |-> {"posts"},
     reactions   |-> {"reactions"},
     followers   |-> {"followers"},
     zapsRecd    |-> {"zapsRecd", "nutzapsRecd"},
     zapsSent    |-> {"zapsSent", "nutzapsSent"},
     reportsRecd |-> {"reportsRecd"},
     reportsSent |-> {"reportsSent"}]

\* A sync uses the filters of the queries (SyncUserEventsAsync, ComputeUserMetrics).
LEMMA SyncAsksQueries ==
  ASSUME NEW t \in FilterAll, NEW q \in Supplies[t]
  PROVE  q \in DOMAIN UserQueries /\ UserQueries[q] \in UserSync[t]
  BY DEF FilterAll, Supplies, UserQueries, UserSync

-----------------------------------------------------------------------------
(* When the last wave is begun, the sync has stored all it was given. *)

FinalInv ==
    \A r \in Requests :
        /\ handed[r] \subseteq db
        /\ wave[r] = "final" => spc[r] = "closed" /\ handed[r] \subseteq base[r]
        /\ pc[r] = "idle" => wave[r] = "initial"
        /\ pc[r] = "done" => wave[r] = "final"

LEMMA FinalStep == TypeOK /\ FinalInv /\ [Next]_vars => FinalInv'
<1>. SUFFICES ASSUME TypeOK, FinalInv, [Next]_vars PROVE FinalInv'
  OBVIOUS
<1>1. ASSUME NEW r \in Requests, NEW w, BeginWave(r, w), w = "final" => spc[r] = "closed"
      PROVE  FinalInv'
  <2>1. UNCHANGED <<db, handed, spc>>
    BY <1>1 DEF BeginWave, sync
  <2>2. wave'[r] = w /\ base'[r] = db /\ pc'[r] = "query"
    BY <1>1 DEF TypeOK, BeginWave
  <2>3. \A s \in Requests : s # r => wave'[s] = wave[s] /\ base'[s] = base[s] /\ pc'[s] = pc[s]
    BY <1>1 DEF TypeOK, BeginWave
  <2>. QED BY <1>1, <2>1, <2>2, <2>3 DEF FinalInv
<1>2. ASSUME NEW r \in Requests, Begin(r) \/ Update(r) \/ Final(r) PROVE FinalInv'
  BY <1>1, <1>2 DEF Begin, Update, Final
<1>3. ASSUME NEW r \in Requests, Query(r) \/ Rank(r) PROVE FinalInv'
  <2>1. UNCHANGED <<db, handed, spc, wave, base>>
    BY <1>3 DEF Query, Rank, sync
  <2>2. \A s \in Requests : pc'[s] = pc[s] \/ pc'[s] = "send"
    BY <1>3 DEF TypeOK, Query, Rank
  <2>. QED BY <2>1, <2>2 DEF FinalInv
<1>4. ASSUME NEW r \in Requests, SendWave(r) PROVE FinalInv'
  <2>1. UNCHANGED <<db, handed, wave, base>>
    BY <1>4 DEF SendWave
  <2>2. spc' = spc \/ (wave[r] = "initial" /\ spc' = [spc EXCEPT ![r] = "begin"])
    BY <1>4 DEF SendWave
  <2>3. \A s \in Requests : wave[s] = "final" => spc'[s] = spc[s]
    BY <2>2 DEF TypeOK
  <2>4. \/ pc' = [pc EXCEPT ![r] = "select"]
        \/ pc' = [pc EXCEPT ![r] = "done"] /\ wave[r] = "final"
    BY <1>4 DEF SendWave
  <2>5. \A s \in Requests : \/ pc'[s] = pc[s]
                            \/ pc'[s] = "select"
                            \/ pc'[s] = "done" /\ wave[s] = "final"
    BY <2>4 DEF TypeOK
  <2>. QED BY <2>1, <2>3, <2>5 DEF FinalInv
<1>5. ASSUME NEW r \in Requests, SyncBegin(r) \/ EndSync(r) PROVE FinalInv'
  <2>1. UNCHANGED <<db, handed, wave, base, pc>>
    BY <1>5 DEF SyncBegin, EndSync, compute
  <2>2. \A s \in Requests : spc[s] = "closed" => spc'[s] = "closed"
    BY <1>5 DEF TypeOK, SyncBegin, EndSync
  <2>. QED BY <2>1, <2>2 DEF FinalInv
<1>6. ASSUME NEW r \in Requests, Store(r) PROVE FinalInv'
  <2>1. UNCHANGED <<spc, wave, base, pc>> /\ spc[r] = "run"
    BY <1>6 DEF Store, compute
  <2>2. PICK e : db' = db \cup {e} /\ handed' = [handed EXCEPT ![r] = @ \cup {e}]
    BY <1>6 DEF Store
  <2>3. \A s \in Requests : handed'[s] \subseteq handed[s] \cup {e}
                            /\ (s # r => handed'[s] = handed[s])
    BY <2>2 DEF TypeOK
  <2>. QED BY <2>1, <2>2, <2>3 DEF FinalInv
<1>7. CASE UNCHANGED <<db, handed, spc, wave, base, pc>>
  BY <1>7 DEF FinalInv
<1>8. ASSUME NEW m \in outbox, Deliver(m) \/ Lose(m)
      PROVE  UNCHANGED <<db, handed, spc, wave, base, pc>>
  BY <1>8 DEF Deliver, Lose, compute, sync
<1>9. CASE Tick
  BY <1>7, <1>9 DEF Tick, compute, sync
<1>10. CASE UNCHANGED vars
  BY <1>7, <1>10 DEF vars, compute, sync
<1>. QED BY <1>2, <1>3, <1>4, <1>5, <1>6, <1>7, <1>8, <1>9, <1>10 DEF Next, Work

LEMMA FinalInvariant == Spec => []FinalInv
<1>1. Init => FinalInv
  BY DEF Init, FinalInv
<1>. QED BY <1>1, TypeCorrect, FinalStep, PTL DEF Spec

-----------------------------------------------------------------------------
(* A metric is computed from the answers that its types of events supply. *)

LEMMA MetricNeedsAnswers ==
  ASSUME NEW metric \in UserMetrics, NEW g, NEW h, NEW n, NEW a,
         \A t \in MetricFilters[metric] : \A q \in Supplies[t] : g[q] = h[q]
  PROVE  /\ metric # "t" => ComputeUserMetrics(g, n, a)[metric] = ComputeUserMetrics(h, n, a)[metric]
         /\ metric = "t" => TopTopics(g.posts) = TopTopics(h.posts)
<1>1. /\ Supplies["posts"] = {"posts"} /\ Supplies["reactions"] = {"reactions"}
      /\ Supplies["followers"] = {"followers"}
      /\ Supplies["zapsRecd"] = {"zapsRecd", "nutzapsRecd"}
      /\ Supplies["zapsSent"] = {"zapsSent", "nutzapsSent"}
      /\ Supplies["reportsRecd"] = {"reportsRecd"} /\ Supplies["reportsSent"] = {"reportsSent"}
  BY DEF Supplies
<1>2. CASE metric \in {"post_cnt", "reply_cnt", "first_created_at", "active_hours_start",
                      "active_hours_end", "t"}
  <2>1. g.posts = h.posts
    BY <1>1, <1>2, NeedsOfMetrics
  <2>. QED BY <1>2, <2>1 DEF ComputeUserMetrics
<1>3. CASE metric \in {"zap_amt_recd", "zap_cnt_recd", "zap_avg_amt_day_recd"}
  <2>1. g.zapsRecd = h.zapsRecd /\ g.nutzapsRecd = h.nutzapsRecd
    BY <1>1, <1>3, NeedsOfMetrics
  <2>. QED BY <1>3, <2>1 DEF ComputeUserMetrics
<1>4. CASE metric \in {"zap_amt_sent", "zap_cnt_sent", "zap_avg_amt_day_sent"}
  <2>1. g.zapsSent = h.zapsSent /\ g.nutzapsSent = h.nutzapsSent
    BY <1>1, <1>4, NeedsOfMetrics
  <2>. QED BY <1>4, <2>1 DEF ComputeUserMetrics
<1>5. CASE metric = "reactions_cnt"
  <2>1. g.reactions = h.reactions
    BY <1>1, <1>5, NeedsOfMetrics
  <2>. QED BY <1>5, <2>1 DEF ComputeUserMetrics
<1>6. CASE metric = "followers"
  <2>1. g.followers = h.followers
    BY <1>1, <1>6, NeedsOfMetrics
  <2>. QED BY <1>6, <2>1 DEF ComputeUserMetrics
<1>7. CASE metric = "reports_cnt_recd"
  <2>1. g.reportsRecd = h.reportsRecd
    BY <1>1, <1>7, NeedsOfMetrics
  <2>. QED BY <1>7, <2>1 DEF ComputeUserMetrics
<1>8. CASE metric = "reports_cnt_sent"
  <2>1. g.reportsSent = h.reportsSent
    BY <1>1, <1>8, NeedsOfMetrics
  <2>. QED BY <1>8, <2>1 DEF ComputeUserMetrics
<1>9. CASE metric = "rank"
  <2>1. {"posts", "followers", "zapsRecd"} \subseteq MetricFilters[metric]
    BY <1>9, NeedsOfMetrics DEF FilterAll
  <2>2. /\ g.posts = h.posts /\ g.followers = h.followers
        /\ g.zapsRecd = h.zapsRecd /\ g.nutzapsRecd = h.nutzapsRecd
    BY <1>1, <2>1
  <2>. QED BY <1>9, <2>2 DEF ComputeUserMetrics
<1>. QED BY <1>2, <1>3, <1>4, <1>5, <1>6, <1>7, <1>8, <1>9 DEF UserMetrics

\* If all that a query could find was asked for and stored, filling adds nothing.
LEMMA FilledIsGot ==
  ASSUME TypeOK, AnsweredInv, FinalInv, NEW r \in Requests,
         pc[r] = "send", wave[r] = "final", Wanted(r, required) \subseteq handed[r],
         NEW q \in DOMAIN Queries(kind),
         Selected(q, Wanted(r, FilterAll)) \subseteq Wanted(r, required)
  PROVE  Filled(r)[q] = got[r][q]
<1>1. q \in DOMAIN got[r]
  BY DEF TypeOK
<1>2. Selected(q, Wanted(r, FilterAll)) \subseteq Selected(q, base[r])
  BY DEF FinalInv, Selected
<1>3. \A e \in Selected(q, Wanted(r, FilterAll)) \ got[r][q] :
         Cardinality(got[r][q]) = QueryLimit /\ \A f \in got[r][q] : Data[e].at <= Data[f].at
  BY <1>2, SentIsComplete DEF Complete
<1>. QED BY <1>1, <1>3 DEF Filled

\* A sync that asks only for the types of events that the requested metrics need
\* gives these metrics the values that a sync of everything would have given them
\* (keys.go, sync.go and metrics.go agree; "Selective relay queries").
THEOREM SelectiveSyncIsEnough == Spec => []SelectiveIsEnough
<1>1. TypeOK /\ AnsweredInv /\ FinalInv => SelectiveIsEnough
  <2>. SUFFICES ASSUME TypeOK, AnsweredInv, FinalInv, NEW r \in Requests,
                       pc[r] = "send", wave[r] = "final", Wanted(r, required) \subseteq handed[r],
                       NEW metric \in asked
                PROVE  /\ metric # "t" =>
                             Computed(got[r], r)[metric] = Computed(Filled(r), r)[metric]
                       /\ metric = "t" => TopTopics(got[r].posts) = TopTopics(Filled(r).posts)
    BY DEF SelectiveIsEnough
  <2>1. CASE kind = "user"
    <3>1. metric \in UserMetrics /\ MetricFilters[metric] \subseteq required
      BY <2>1, RequiredCoversAsked
    <3>2. required \subseteq FilterAll
      BY NeedsOfMetrics DEF required, GetRequiredFilters
    <3>3. ASSUME NEW t \in MetricFilters[metric], NEW q \in Supplies[t]
          PROVE  got[r][q] = Filled(r)[q]
      <4>1. t \in required /\ t \in FilterAll
        BY <3>1, <3>2
      <4>2. q \in DOMAIN Queries(kind) /\ Queries(kind)[q] \in UserSync[t]
        BY <2>1, <4>1, SyncAsksQueries DEF Queries
      <4>3. Selected(q, Wanted(r, FilterAll)) \subseteq Wanted(r, required)
        BY <2>1, <3>2, <4>1, <4>2, AskedIsFound DEF Selected
      <4>. QED BY <4>2, <4>3, FilledIsGot
    <3>. QED BY <2>1, <3>1, <3>3, MetricNeedsAnswers DEF Computed
  <2>2. CASE kind # "user"
    <3>1. kind \in {"event", "address"} /\ metric # "t"
      BY <2>2, SceneType DEF TypeOK, Kinds, asked, MetricsOf, EventMetrics
    <3>2. \A types, others : Wanted(r, types) = Wanted(r, others)
      BY <3>1 DEF Wanted
    <3>3. \A q \in DOMAIN Queries(kind) : got[r][q] = Filled(r)[q]
      BY <3>2, FilledIsGot DEF Selected
    <3>4. got[r] = Filled(r)
      BY <3>3 DEF TypeOK, Filled
    <3>. QED BY <3>1, <3>4
  <2>. QED BY <2>1, <2>2
<1>. QED BY <1>1, TypeCorrect, AnsweredInvariant, FinalInvariant, PTL

-----------------------------------------------------------------------------
(* Lookups. *)

\* Every lookup of a sync gives the list of the first storage relay that has one
\* and is reached in time, whatever the others do (GetPopularRelays,
\* GetUserNIP65Relays).
THEOREM LookupsFindFirst == Spec => []LookupFindsFirst
<1>1. TypeOK => LookupFindsFirst
  <2>1. scene \in Scenes => \A storage \in {scene.popular, scene.nip65} :
                              storage \in Seq(StorageRelay)
    BY AssertionAssumption
  <2>2. LookupTimeout \in Nat \ {0}
    BY AssertionAssumption DEF DiscoveryAssumption
  <2>. QED BY <2>1, <2>2, LookupIsFirst DEF TypeOK, LookupFindsFirst
<1>. QED BY <1>1, TypeCorrect, PTL
=============================================================================
