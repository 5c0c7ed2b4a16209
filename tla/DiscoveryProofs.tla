--------------------------- MODULE DiscoveryProofs ---------------------------
(***************************************************************************)
(* Proofs about Discovery: a lookup finds the list of the first storage    *)
(* relay that has one and is reached in time, and merging names each relay *)
(* once.                                                                   *)
(***************************************************************************)
EXTENDS Discovery, Induction

\* The lists a lookup may end with, and the seconds it may have spent.
Outcomes(storage) ==
    [list : {<<>>} \cup {storage[i].list : i \in 1 .. Len(storage)}, spent : 0 .. LookupTimeout]

\* The least of two natural numbers.
LEMMA MinOfTwo ==
  ASSUME NEW a \in Nat, NEW b \in Nat
  PROVE  Min({a, b}) = IF a <= b THEN a ELSE b
<1>1. PICK m \in {a, b} : \A y \in {a, b} : m <= y
  <2>1. a <= b \/ b <= a
    OBVIOUS
  <2>. QED BY <2>1
<1>2. Min({a, b}) \in {a, b} /\ \A y \in {a, b} : Min({a, b}) <= y
  BY <1>1 DEF Min
<1>. QED BY <1>2

\* A storage relay of a sequence of them.
LEMMA StorageRelays ==
  ASSUME NEW storage \in Seq(StorageRelay)
  PROVE  /\ Len(storage) \in Nat /\ DOMAIN storage = 1 .. Len(storage)
         /\ \A i \in 1 .. Len(storage) :
               /\ storage[i].up \in BOOLEAN
               /\ storage[i].connect \in Nat /\ storage[i].answer \in Nat
<1>1. Len(storage) \in Nat /\ DOMAIN storage = 1 .. Len(storage)
      /\ \A i \in 1 .. Len(storage) : storage[i] \in StorageRelay
  OBVIOUS
<1>. QED BY <1>1 DEF StorageRelay

\* The round of a lookup with relay i ends with an outcome.
LEMMA TryType ==
  ASSUME LookupTimeout \in Nat \ {0}, NEW storage \in Seq(StorageRelay),
         NEW i \in 1 .. Len(storage), NEW before \in Outcomes(storage)
  PROVE  Try(before, storage[i]) \in Outcomes(storage)
<1>. DEFINE relay == storage[i]
            spent == before.spent + relay.connect
<1>1. relay.up \in BOOLEAN /\ relay.connect \in Nat /\ relay.answer \in Nat
  BY StorageRelays
<1>2. before.spent \in 0 .. LookupTimeout /\ spent \in Nat
  BY <1>1 DEF Outcomes
<1>3. Min({LookupTimeout, spent + relay.answer}) \in 0 .. LookupTimeout
  <2>. HIDE DEF relay, spent
  <2>. DEFINE sum == spent + relay.answer
  <2>1. sum \in Nat
    BY <1>1, <1>2
  <2>. HIDE DEF sum
  <2>2. /\ Min({LookupTimeout, sum}) \in {LookupTimeout, sum}
        /\ Min({LookupTimeout, sum}) <= LookupTimeout
    BY <2>1, MinOfTwo
  <2>3. Min({LookupTimeout, sum}) \in 0 .. LookupTimeout
    BY <2>1, <2>2
  <2>. QED BY <2>3 DEF sum
<1>4. relay.list \in {storage[j].list : j \in 1 .. Len(storage)}
  OBVIOUS
<1>5. CASE before.list # <<>>
  BY <1>5 DEF Try
<1>6. CASE before.list = <<>> /\ spent >= LookupTimeout
  <2>1. Try(before, relay) = [list |-> <<>>, spent |-> LookupTimeout]
    BY <1>6 DEF Try
  <2>. QED BY <2>1 DEF Outcomes
<1>7. CASE before.list = <<>> /\ ~(spent >= LookupTimeout) /\ ~relay.up
  <2>1. Try(before, relay) = [list |-> <<>>, spent |-> spent]
    BY <1>7 DEF Try, Outcomes
  <2>2. spent \in 0 .. LookupTimeout
    BY <1>2, <1>7
  <2>. QED BY <2>1, <2>2 DEF Outcomes
<1>8. CASE before.list = <<>> /\ ~(spent >= LookupTimeout) /\ relay.up
  <2>1. Try(before, relay) =
          [list |-> relay.list, spent |-> Min({LookupTimeout, spent + relay.answer})]
    BY <1>8 DEF Try
  <2>. QED BY <1>3, <1>4, <2>1 DEF Outcomes
<1>. QED BY <1>5, <1>6, <1>7, <1>8

\* The rounds of a lookup, as a function of their number.
LEMMA LookupRounds ==
  ASSUME LookupTimeout \in Nat \ {0}, NEW storage \in Seq(StorageRelay)
  PROVE  \E tried \in [0 .. Len(storage) -> Outcomes(storage)] :
            /\ tried[0] = Untried
            /\ \A i \in 1 .. Len(storage) : tried[i] = Try(tried[i - 1], storage[i])
            /\ Lookup(storage) = tried[Len(storage)].list
<1>. DEFINE n == Len(storage)
            A == Outcomes(storage)
            s == [i \in 1 .. n |-> [before \in A |-> Try(before, storage[i])]]
            IsTried(f) == f = [i \in 0 .. n |->
                                  IF i = 0 THEN Untried ELSE Try(f[i - 1], storage[i])]
            tried == CHOOSE f : IsTried(f)
<1>1. n \in Nat
  BY StorageRelays
<1>2. Untried \in A
  BY DEF Untried, Outcomes
<1>3. s \in [1 .. n -> [A -> A]]
  BY TryType
<1>4. PICK g \in [0 .. n -> A] : g[0] = Untried /\ \A i \in 1 .. n : g[i] = s[i][g[i - 1]]
  <2>. HIDE DEF A, s, n
  <2>. QED BY <1>1, <1>2, <1>3, LoopExists
<1>5. ASSUME NEW i \in 1 .. n PROVE g[i] = Try(g[i - 1], storage[i])
  <2>1. i - 1 \in 0 .. n /\ g[i - 1] \in A
    <3>. HIDE DEF A, n
    <3>. QED BY <1>1
  <2>2. s[i][g[i - 1]] = Try(g[i - 1], storage[i])
    <3>. HIDE DEF A, n
    <3>. QED BY <2>1
  <2>. QED BY <1>4, <2>2
<1>6. IsTried(g)
  <2>. HIDE DEF A, n
  <2>. QED BY <1>1, <1>4, <1>5
<1>7. IsTried(tried)
  <2>. HIDE DEF IsTried
  <2>. QED BY <1>6
<1>8. Lookup(storage) = tried[n].list
  BY DEF Lookup
<1>9. tried[0] = Untried /\ \A i \in 1 .. n : tried[i] = Try(tried[i - 1], storage[i])
  <2>. HIDE DEF tried, n
  <2>. QED BY <1>1, <1>7
<1>10. tried \in [0 .. n -> A]
  <2>. DEFINE S == {k \in Nat : k <= n => tried[k] \in A}
  <2>1. 0 \in S
    BY <1>2, <1>9
  <2>2. ASSUME NEW k \in Nat, k \in S PROVE k + 1 \in S
    <3>. SUFFICES ASSUME k + 1 <= n PROVE tried[k + 1] \in A
      OBVIOUS
    <3>. HIDE DEF tried
    <3>1. k + 1 \in 1 .. n /\ tried[k] \in A /\ (k + 1) - 1 = k
      BY <1>1, <2>2
    <3>. QED BY <1>9, <3>1, TryType
  <2>3. \A k \in Nat : k \in S
    <3>. HIDE DEF S
    <3>. QED BY <2>1, <2>2, SetInduction
  <2>4. DOMAIN tried = 0 .. n /\ tried = [i \in 0 .. n |-> tried[i]]
    <3>. HIDE DEF tried
    <3>. QED BY <1>7
  <2>. HIDE DEF tried
  <2>. QED BY <1>1, <2>3, <2>4
<1>. QED BY <1>8, <1>9, <1>10

\* The seconds that the first storage relays take, as a function of their number.
LEMMA SpentRounds ==
  ASSUME NEW storage \in Seq(StorageRelay)
  PROVE  /\ Spent(storage) \in [0 .. Len(storage) -> Nat]
         /\ Spent(storage)[0] = 0
         /\ \A i \in 1 .. Len(storage) :
               Spent(storage)[i] = Spent(storage)[i - 1] + storage[i].connect
                                   + (IF storage[i].up THEN storage[i].answer ELSE 0)
<1>. DEFINE n == Len(storage)
            cost(i) == IF storage[i].up THEN storage[i].answer ELSE 0
            s == [i \in 1 .. n |-> [t \in Nat |-> t + storage[i].connect + cost(i)]]
            IsSpent(f) == f = [i \in 0 .. n |->
                                  IF i = 0 THEN 0 ELSE f[i - 1] + storage[i].connect + cost(i)]
            spent == CHOOSE f : IsSpent(f)
            A == Nat
            zero == 0
<1>0. n \in Nat
  BY StorageRelays
<1>1. n \in Nat /\ \A i \in 1 .. n : storage[i].connect \in Nat /\ cost(i) \in Nat
  BY StorageRelays
<1>2. s \in [1 .. n -> [A -> A]]
  <2>. HIDE DEF cost, n
  <2>. QED BY <1>1
<1>3. PICK g \in [0 .. n -> Nat] : g[0] = 0 /\ \A i \in 1 .. n : g[i] = s[i][g[i - 1]]
  <2>1. zero \in A
    OBVIOUS
  <2>2. \E g \in [0 .. n -> A] : g[0] = zero /\ \A i \in 1 .. n : g[i] = s[i][g[i - 1]]
    <3>. HIDE DEF s, n, A, zero
    <3>. QED BY <1>0, <1>2, <2>1, LoopExists
  <2>. QED BY <2>2
<1>4. IsSpent(g)
  <2>1. ASSUME NEW i \in 1 .. n PROVE g[i] = g[i - 1] + storage[i].connect + cost(i)
    <3>1. i - 1 \in 0 .. n /\ g[i - 1] \in Nat
      <4>. HIDE DEF n
      <4>. QED BY <1>1
    <3>2. s[i][g[i - 1]] = g[i - 1] + storage[i].connect + cost(i)
      <4>. HIDE DEF cost, n
      <4>. QED BY <3>1
    <3>. QED BY <1>3, <3>2
  <2>. HIDE DEF cost, n, s
  <2>. QED BY <1>1, <1>3, <2>1
<1>5. IsSpent(spent)
  <2>. HIDE DEF IsSpent
  <2>. QED BY <1>4
<1>6. Spent(storage) = spent
  BY DEF Spent
<1>7. spent[0] = 0 /\ \A i \in 1 .. n : spent[i] = spent[i - 1] + storage[i].connect + cost(i)
  <2>. HIDE DEF spent, n, cost
  <2>. QED BY <1>1, <1>5
<1>8. spent \in [0 .. n -> Nat]
  <2>. DEFINE S == {k \in Nat : k <= n => spent[k] \in Nat}
  <2>1. 0 \in S
    BY <1>7
  <2>2. ASSUME NEW k \in Nat, k \in S PROVE k + 1 \in S
    <3>. HIDE DEF spent, n, cost
    <3>. SUFFICES ASSUME k + 1 <= n PROVE spent[k + 1] \in Nat
      OBVIOUS
    <3>1. k + 1 \in 1 .. n /\ spent[k] \in Nat /\ (k + 1) - 1 = k
      BY <1>0, <2>2
    <3>2. spent[k + 1] = spent[k] + storage[k + 1].connect + cost(k + 1)
      BY <1>7, <3>1
    <3>3. storage[k + 1].connect \in Nat /\ cost(k + 1) \in Nat
      BY <1>1, <3>1
    <3>. QED BY <3>1, <3>2, <3>3
  <2>3. \A k \in Nat : k \in S
    <3>. HIDE DEF S
    <3>. QED BY <2>1, <2>2, SetInduction
  <2>4. DOMAIN spent = 0 .. n /\ spent = [i \in 0 .. n |-> spent[i]]
    <3>. HIDE DEF spent
    <3>. QED BY <1>5
  <2>. HIDE DEF spent
  <2>. QED BY <1>1, <2>3, <2>4
<1>. QED BY <1>6, <1>7, <1>8

\* The least of some natural numbers.
LEMMA MinIsLeast ==
  ASSUME NEW S \in SUBSET Nat, NEW m \in S, \A x \in S : m <= x
  PROVE  Min(S) = m
<1>1. Min(S) \in S /\ \A x \in S : Min(S) <= x
  BY DEF Min
<1>2. Min(S) <= m /\ m <= Min(S)
  BY <1>1
<1>3. Min(S) \in Nat /\ m \in Nat
  BY <1>1
<1>. QED BY <1>2, <1>3

\* A lookup ends with the list of the first storage relay that has one and is
\* reached in time, and with none if there is no such relay.
LEMMA LookupIsFirst ==
  ASSUME LookupTimeout \in Nat \ {0}, NEW storage \in Seq(StorageRelay)
  PROVE  Lookup(storage) = FirstKnown(storage)
<1>. DEFINE n == Len(storage)
            spent == Spent(storage)
            has(k) == {i \in Lists(storage) : i <= k}
<1>1. PICK tried \in [0 .. n -> Outcomes(storage)] :
         /\ tried[0] = Untried
         /\ \A i \in 1 .. n : tried[i] = Try(tried[i - 1], storage[i])
         /\ Lookup(storage) = tried[n].list
  BY LookupRounds
<1>2. n \in Nat /\ Lists(storage) \subseteq 1 .. n
  BY StorageRelays DEF Lists
<1>. DEFINE Sound(k) ==
              /\ has(k) = {} => /\ tried[k].list = <<>>
                                /\ tried[k].spent = IF spent[k] <= LookupTimeout
                                                    THEN spent[k] ELSE LookupTimeout
              /\ \A m \in has(k) : (\A j \in has(k) : m <= j) => tried[k].list = storage[m].list
            S == {k \in Nat : k <= n => Sound(k)}
<1>3. 0 \in S
  <2>1. has(0) = {}
    BY <1>2
  <2>2. spent[0] = 0
    BY SpentRounds
  <2>. QED BY <1>1, <2>1, <2>2 DEF Untried
<1>4. ASSUME NEW k \in Nat, k \in S PROVE k + 1 \in S
  <2>. SUFFICES ASSUME k + 1 <= n PROVE Sound(k + 1)
    OBVIOUS
  <2>. DEFINE before == tried[k]
              after  == tried[k + 1]
              relay  == storage[k + 1]
              reach  == before.spent + relay.connect
  <2>1. Sound(k) /\ k + 1 \in 1 .. n /\ (k + 1) - 1 = k
    BY <1>2, <1>4
  <2>2. after = Try(before, relay)
    BY <1>1, <2>1
  <2>3. /\ relay.up \in BOOLEAN /\ relay.connect \in Nat /\ relay.answer \in Nat
        /\ spent[k] \in Nat
        /\ spent[k + 1] = spent[k] + relay.connect + (IF relay.up THEN relay.answer ELSE 0)
    <3>1. spent[k] \in Nat
      BY <2>1, SpentRounds
    <3>. QED BY <2>1, <3>1, StorageRelays, SpentRounds
  <2>4. has(k + 1) = has(k) \cup (IF k + 1 \in Lists(storage) THEN {k + 1} ELSE {})
    BY <1>2
  <2>5. k + 1 \in Lists(storage)
        <=> relay.up /\ spent[k] + relay.connect < LookupTimeout /\ relay.list # <<>>
    BY <2>1, StorageRelays DEF Lists, IsReached
  <2>6. CASE has(k) # {}
    <3>1. has(k) \subseteq Nat
      BY <1>2
    <3>2. PICK m \in has(k) : \A j \in has(k) : m <= j
      <4>. HIDE DEF has
      <4>. QED BY <2>6, <3>1, LeastNat
    <3>3. before.list = storage[m].list /\ storage[m].list # <<>>
      BY <2>1, <3>2 DEF Lists
    <3>4. after = before
      BY <2>2, <3>3 DEF Try
    <3>5. m \in 1 .. k
      BY <1>2
    <3>6. \A q \in has(k + 1) : (\A j \in has(k + 1) : q <= j) => q = m
      <4>1. m \in has(k + 1) /\ \A q \in has(k + 1) : m <= q /\ q \in Nat
        BY <1>2, <2>4, <3>2, <3>5
      <4>. HIDE DEF has
      <4>. QED BY <3>5, <4>1
    <3>. QED BY <2>4, <2>6, <3>3, <3>4, <3>6
  <2>7. CASE has(k) = {}
    <3>1. before.list = <<>>
          /\ before.spent = IF spent[k] <= LookupTimeout THEN spent[k] ELSE LookupTimeout
      BY <2>1, <2>7
    <3>. HIDE DEF has, spent
    <3>2. CASE reach >= LookupTimeout
      <4>1. after = [list |-> <<>>, spent |-> LookupTimeout]
        BY <2>2, <3>1, <3>2 DEF Try
      <4>2. spent[k] + relay.connect >= LookupTimeout /\ spent[k + 1] >= LookupTimeout
        BY <2>3, <3>1, <3>2
      <4>3. has(k + 1) = {}
        BY <2>3, <2>4, <2>5, <2>7, <4>2
      <4>. QED BY <2>3, <4>1, <4>2, <4>3
    <3>3. CASE reach < LookupTimeout
      <4>1. before.spent = spent[k] /\ spent[k] + relay.connect < LookupTimeout
        BY <2>3, <3>1, <3>3
      <4>2. CASE ~relay.up
        <5>1. after = [list |-> <<>>, spent |-> reach]
          BY <2>2, <2>3, <3>1, <3>3, <4>1, <4>2 DEF Try
        <5>2. has(k + 1) = {}
          BY <2>4, <2>5, <2>7, <4>2
        <5>3. spent[k + 1] = reach /\ spent[k + 1] <= LookupTimeout
          BY <2>3, <4>1, <4>2
        <5>. QED BY <5>1, <5>2, <5>3
      <4>3. CASE relay.up
        <5>1. after = [list |-> relay.list,
                       spent |-> Min({LookupTimeout, reach + relay.answer})]
          BY <2>2, <2>3, <3>1, <3>3, <4>1, <4>3 DEF Try
        <5>2. reach + relay.answer = spent[k + 1] /\ spent[k + 1] \in Nat
          BY <2>3, <4>1, <4>3
        <5>3. after.list = relay.list
              /\ after.spent = IF spent[k + 1] <= LookupTimeout THEN spent[k + 1]
                               ELSE LookupTimeout
          BY <5>1, <5>2, MinOfTwo
        <5>4. CASE relay.list = <<>>
          <6>1. has(k + 1) = {}
            BY <2>4, <2>5, <2>7, <5>4
          <6>. QED BY <5>3, <5>4, <6>1
        <5>5. CASE relay.list # <<>>
          <6>1. has(k + 1) = {k + 1}
            BY <2>4, <2>5, <2>7, <4>1, <4>3, <5>5
          <6>. QED BY <5>3, <6>1
        <5>. QED BY <5>4, <5>5
      <4>. QED BY <2>3, <4>2, <4>3
    <3>. QED BY <2>3, <3>1, <3>2, <3>3
  <2>. QED BY <2>6, <2>7
<1>5. Sound(n)
  <2>1. n \in S
    <3>. HIDE DEF S, n
    <3>. QED BY <1>2, <1>3, <1>4, SetInduction
  <2>. QED BY <2>1
<1>6. has(n) = Lists(storage)
  BY <1>2
<1>7. CASE Lists(storage) = {}
  BY <1>1, <1>5, <1>6, <1>7 DEF FirstKnown
<1>8. CASE Lists(storage) # {}
  <2>1. Lists(storage) \subseteq Nat
    BY <1>2
  <2>2. PICK m \in Lists(storage) : \A j \in Lists(storage) : m <= j
    BY <1>8, <2>1, LeastNat
  <2>3. Min(Lists(storage)) = m
    BY <2>1, <2>2, MinIsLeast
  <2>4. tried[n].list = storage[m].list
    BY <1>5, <1>6, <2>2
  <2>. QED BY <1>1, <1>8, <2>3, <2>4 DEF FirstKnown
<1>. QED BY <1>7, <1>8

-----------------------------------------------------------------------------
(* Merging lists of relays. *)

NoneTwice(s) == \A i, j \in DOMAIN s : s[i] = s[j] => i = j

LEMMA RangeOfSeq ==
  ASSUME NEW s \in Seq(Url)
  PROVE  /\ Len(s) \in Nat /\ DOMAIN s = 1 .. Len(s)
         /\ Range(s) = {s[i] : i \in 1 .. Len(s)}
BY DEF Range

\* Adding a relay to a list in which none is twice.
LEMMA AddOnceAdds ==
  ASSUME NEW s \in Seq(Url), NEW u \in Url, NoneTwice(s)
  PROVE  /\ AddOnce(s, u) \in Seq(Url)
         /\ NoneTwice(AddOnce(s, u))
         /\ Range(AddOnce(s, u)) = Range(s) \cup {u}
<1>. DEFINE n == Len(s)
            t == Append(s, u)
<1>1. n \in Nat /\ DOMAIN s = 1 .. n /\ Range(s) = {s[i] : i \in 1 .. n}
  BY RangeOfSeq
<1>2. CASE u \in Range(s)
  BY <1>2 DEF AddOnce
<1>3. CASE u \notin Range(s)
  <2>1. AddOnce(s, u) = t /\ t \in Seq(Url)
    BY <1>3 DEF AddOnce
  <2>2. /\ Len(t) = n + 1 /\ t[n + 1] = u
        /\ \A i \in 1 .. n : t[i] = s[i]
    OBVIOUS
  <2>3. DOMAIN t = 1 .. n + 1 /\ Range(t) = {t[i] : i \in 1 .. n + 1}
    BY <2>1, <2>2, RangeOfSeq
  <2>. HIDE DEF t, n
  <2>4. \A i \in 1 .. n : t[i] # u
    BY <1>1, <1>3, <2>2
  <2>5. Range(t) = Range(s) \cup {u}
    BY <1>1, <2>2, <2>3
  <2>6. ASSUME NEW i \in 1 .. n + 1, NEW j \in 1 .. n + 1, t[i] = t[j] PROVE i = j
    <3>1. i \in 1 .. n \/ i = n + 1
      BY <1>1
    <3>2. j \in 1 .. n \/ j = n + 1
      BY <1>1
    <3>3. CASE i \in 1 .. n /\ j \in 1 .. n
      BY <1>1, <2>2, <2>6, <3>3 DEF NoneTwice
    <3>. QED BY <2>2, <2>4, <2>6, <3>1, <3>2, <3>3
  <2>. QED BY <2>1, <2>3, <2>5, <2>6 DEF NoneTwice
<1>. QED BY <1>2, <1>3

\* Adding relays one after the other, each of them once.
LEMMA AddingRounds ==
  ASSUME NEW n \in Nat, NEW both, \A i \in 1 .. n : both[i] \in Url
  PROVE  \E g \in [0 .. n -> Seq(Url)] :
            g[0] = <<>> /\ \A i \in 1 .. n : g[i] = AddOnce(g[i - 1], both[i])
<1>. DEFINE A == Seq(Url)
            none == <<>>
            s == [i \in 1 .. n |-> [relays \in A |-> AddOnce(relays, both[i])]]
<1>1. none \in A
  OBVIOUS
<1>2. \A relays \in A, u \in Url : AddOnce(relays, u) \in A
  BY DEF AddOnce
<1>3. s \in [1 .. n -> [A -> A]]
  <2>. HIDE DEF A
  <2>. QED BY <1>2
<1>4. PICK g \in [0 .. n -> A] : g[0] = none /\ \A i \in 1 .. n : g[i] = s[i][g[i - 1]]
  <2>. HIDE DEF A, none, s
  <2>. QED BY <1>1, <1>3, LoopExists
<1>5. ASSUME NEW i \in 1 .. n PROVE g[i] = AddOnce(g[i - 1], both[i])
  <2>1. i - 1 \in 0 .. n /\ g[i - 1] \in A
    <3>. HIDE DEF A
    <3>. QED OBVIOUS
  <2>2. s[i][g[i - 1]] = AddOnce(g[i - 1], both[i])
    <3>. HIDE DEF A
    <3>. QED BY <2>1
  <2>. QED BY <1>4, <2>2
<1>. QED BY <1>4, <1>5

\* The merged list has the relays of both lists, and none of them twice
\* (MergeRelays), so that a fetch has one goroutine for a relay's cursor.
THEOREM MergedOnce ==
  ASSUME NEW one \in Seq(Url), NEW two \in Seq(Url)
  PROVE  /\ Range(MergeRelays(one, two)) = Range(one) \cup Range(two)
         /\ NoneTwice(MergeRelays(one, two))
<1>. DEFINE both == one \o two
            n == Len(both)
            A == Seq(Url)
            IsResult(f) == f = [i \in 0 .. n |->
                                   IF i = 0 THEN <<>> ELSE AddOnce(f[i - 1], both[i])]
            result == CHOOSE f : IsResult(f)
<1>0. n \in Nat
  OBVIOUS
<1>1. both \in A /\ n \in Nat /\ \A i \in 1 .. n : both[i] \in Url
  OBVIOUS
<1>2. <<>> \in A /\ Range(<<>>) = {} /\ NoneTwice(<<>>)
  BY DEF Range, NoneTwice
<1>3. PICK g \in [0 .. n -> A] :
         g[0] = <<>> /\ \A i \in 1 .. n : g[i] = AddOnce(g[i - 1], both[i])
  <2>. HIDE DEF n, both
  <2>. QED BY <1>0, <1>1, AddingRounds
<1>6. IsResult(g)
  <2>. HIDE DEF A, n, both
  <2>. QED BY <1>0, <1>3
<1>7. IsResult(result)
  <2>. HIDE DEF IsResult
  <2>. QED BY <1>6
<1>8. MergeRelays(one, two) = result[n]
  BY DEF MergeRelays
<1>9. result[0] = <<>> /\ \A i \in 1 .. n : result[i] = AddOnce(result[i - 1], both[i])
  <2>. HIDE DEF result, n, both
  <2>. QED BY <1>1, <1>7
<1>. DEFINE Merged(k) == /\ result[k] \in A /\ NoneTwice(result[k])
                         /\ Range(result[k]) = {both[i] : i \in 1 .. k}
            S == {k \in Nat : k <= n => Merged(k)}
<1>. HIDE DEF result, n, both
<1>10. 0 \in S
  <2>1. {both[i] : i \in 1 .. 0} = {}
    OBVIOUS
  <2>2. Merged(0)
    BY <1>2, <1>9, <2>1
  <2>. QED BY <2>2
<1>11. ASSUME NEW k \in Nat, k \in S PROVE k + 1 \in S
  <2>. SUFFICES ASSUME k + 1 <= n PROVE Merged(k + 1)
    OBVIOUS
  <2>0. Merged(k)
    <3>1. k <= n
      BY <1>0
    <3>. HIDE DEF Merged
    <3>. QED BY <1>11, <3>1
  <2>1. k + 1 \in 1 .. n /\ (k + 1) - 1 = k /\ Merged(k)
    <3>. HIDE DEF Merged
    <3>. QED BY <1>0, <2>0
  <2>2. result[k + 1] = AddOnce(result[k], both[k + 1]) /\ both[k + 1] \in Url
    BY <1>1, <1>9, <2>1
  <2>3. /\ result[k + 1] \in Seq(Url) /\ NoneTwice(result[k + 1])
        /\ Range(result[k + 1]) = Range(result[k]) \cup {both[k + 1]}
    BY <2>1, <2>2, AddOnceAdds
  <2>4. {both[i] : i \in 1 .. k + 1} = {both[i] : i \in 1 .. k} \cup {both[k + 1]}
    <3>1. 1 .. k + 1 = (1 .. k) \cup {k + 1}
      OBVIOUS
    <3>. QED BY <3>1
  <2>. QED BY <2>1, <2>3, <2>4
<1>12. Merged(n)
  <2>1. \A k \in Nat : k \in S
    <3>. HIDE DEF S
    <3>. QED BY <1>10, <1>11, SetInduction
  <2>2. n \in S /\ n <= n
    <3>. HIDE DEF S
    <3>. QED BY <1>0, <2>1
  <2>. HIDE DEF Merged
  <2>. QED BY <2>2
<1>13. {both[i] : i \in 1 .. n} = Range(one) \cup Range(two)
  <2>1. /\ Len(one) \in Nat /\ Len(two) \in Nat /\ n = Len(one) + Len(two)
        /\ \A i \in 1 .. Len(one) : both[i] = one[i]
        /\ \A i \in 1 .. Len(two) : both[Len(one) + i] = two[i]
    BY DEF n, both
  <2>2. ASSUME NEW i \in 1 .. n PROVE both[i] \in Range(one) \cup Range(two)
    <3>1. CASE i <= Len(one)
      <4>1. i \in 1 .. Len(one)
        BY <2>1, <3>1
      <4>2. both[i] = one[i]
        BY <2>1, <4>1
      <4>3. one[i] \in Range(one)
        BY <4>1, RangeOfSeq
      <4>. QED BY <4>2, <4>3
    <3>2. CASE i > Len(one)
      <4>1. PICK j \in 1 .. Len(two) : i = Len(one) + j
        <5>1. i - Len(one) \in 1 .. Len(two) /\ i = Len(one) + (i - Len(one))
          BY <2>1, <3>2
        <5>. QED BY <5>1
      <4>2. both[i] = two[j]
        BY <2>1, <4>1
      <4>3. two[j] \in Range(two)
        BY RangeOfSeq
      <4>. QED BY <4>2, <4>3
    <3>. QED BY <2>1, <3>1, <3>2
  <2>3. \A u \in Range(one) : \E i \in 1 .. n : u = both[i]
    BY <2>1, RangeOfSeq
  <2>4. ASSUME NEW u \in Range(two) PROVE \E i \in 1 .. n : u = both[i]
    <3>1. PICK i \in 1 .. Len(two) : u = two[i]
      BY RangeOfSeq
    <3>2. Len(one) + i \in 1 .. n /\ both[Len(one) + i] = u
      BY <2>1, <3>1
    <3>. QED BY <3>2
  <2>. QED BY <2>2, <2>3, <2>4
<1>. QED BY <1>8, <1>12, <1>13
=============================================================================
