---------------------------- MODULE MetricsProofs ----------------------------
(***************************************************************************)
(* Lemmas about the active hours of Metrics, for any number of notes in    *)
(* each hour.                                                              *)
(***************************************************************************)
EXTENDS Metrics, FiniteSetTheorems, TLAPS

\* Of the numbers of 24 hours one is the greatest.
LEMMA PeakExists ==
  ASSUME NEW f \in [0 .. 23 -> Nat]
  PROVE  \E h \in 0 .. 23 : \A g \in 0 .. 23 : f[g] <= f[h]
<1>. DEFINE HasPeak(A) == \E h \in A : \A g \in A : f[g] <= f[h]
<1>1. ASSUME NEW A \in SUBSET (0 .. 23), NEW B \in SUBSET (0 .. 23), HasPeak(A), HasPeak(B)
      PROVE  HasPeak(A \cup B)
  <2>1. PICK a \in A : \A g \in A : f[g] <= f[a]
    BY <1>1
  <2>2. PICK b \in B : \A g \in B : f[g] <= f[b]
    BY <1>1
  <2>3. f[a] \in Nat /\ f[b] \in Nat /\ \A g \in A \cup B : f[g] \in Nat
    OBVIOUS
  <2>4. CASE f[a] <= f[b]
    <3>1. \A g \in A \cup B : f[g] <= f[b]
      BY <2>1, <2>2, <2>3, <2>4
    <3>. QED BY <3>1
  <2>5. CASE f[b] <= f[a]
    <3>1. \A g \in A \cup B : f[g] <= f[a]
      BY <2>1, <2>2, <2>3, <2>5
    <3>. QED BY <3>1
  <2>. QED BY <2>3, <2>4, <2>5
<1>2. ASSUME NEW h \in 0 .. 23 PROVE HasPeak({h})
  <2>1. f[h] <= f[h]
    OBVIOUS
  <2>. QED BY <2>1
<1>3. ASSUME NEW h \in 0 .. 21 PROVE HasPeak({h, h + 1, h + 2})
  <2>1. HasPeak({h} \cup {h + 1})
    BY <1>1, <1>2
  <2>2. HasPeak(({h} \cup {h + 1}) \cup {h + 2})
    BY <1>1, <1>2, <2>1
  <2>3. ({h} \cup {h + 1}) \cup {h + 2} = {h, h + 1, h + 2}
    OBVIOUS
  <2>. QED BY <2>2, <2>3
<1>4. ASSUME NEW h \in 0 .. 18 PROVE HasPeak(h .. h + 5)
  <2>1. HasPeak({h, h + 1, h + 2}) /\ HasPeak({h + 3, h + 3 + 1, h + 3 + 2})
    <3>1. h \in 0 .. 21 /\ h + 3 \in 0 .. 21
      OBVIOUS
    <3>. QED BY <3>1, <1>3
  <2>2. HasPeak({h, h + 1, h + 2} \cup {h + 3, h + 3 + 1, h + 3 + 2})
    <3>1. /\ {h, h + 1, h + 2} \in SUBSET (0 .. 23)
          /\ {h + 3, h + 3 + 1, h + 3 + 2} \in SUBSET (0 .. 23)
      OBVIOUS
    <3>. HIDE DEF HasPeak
    <3>. QED BY <1>1, <2>1, <3>1
  <2>3. {h, h + 1, h + 2} \cup {h + 3, h + 3 + 1, h + 3 + 2} = h .. h + 5
    OBVIOUS
  <2>. QED BY <2>2, <2>3
<1>5. HasPeak(0 .. 11) /\ HasPeak(12 .. 23)
  <2>1. HasPeak((0 .. 5) \cup (6 .. 11)) /\ HasPeak((12 .. 17) \cup (18 .. 23))
    <3>1. HasPeak(0 .. 0 + 5) /\ HasPeak(6 .. 6 + 5) /\ HasPeak(12 .. 12 + 5) /\ HasPeak(18 .. 18 + 5)
      <4>1. 0 \in 0 .. 18 /\ 6 \in 0 .. 18 /\ 12 \in 0 .. 18 /\ 18 \in 0 .. 18
        OBVIOUS
      <4>. HIDE DEF HasPeak
      <4>. QED BY <1>4, <4>1
    <3>2. 0 + 5 = 5 /\ 6 + 5 = 11 /\ 12 + 5 = 17 /\ 18 + 5 = 23
      OBVIOUS
    <3>3. HasPeak(0 .. 5) /\ HasPeak(6 .. 11) /\ HasPeak(12 .. 17) /\ HasPeak(18 .. 23)
      BY <3>1, <3>2
    <3>. HIDE DEF HasPeak
    <3>. QED BY <1>1, <3>3
  <2>2. (0 .. 5) \cup (6 .. 11) = 0 .. 11 /\ (12 .. 17) \cup (18 .. 23) = 12 .. 23
    OBVIOUS
  <2>. HIDE DEF HasPeak
  <2>. QED BY <2>1, <2>2
<1>6. HasPeak((0 .. 11) \cup (12 .. 23))
  <2>. HIDE DEF HasPeak
  <2>. QED BY <1>1, <1>5
<1>7. (0 .. 11) \cup (12 .. 23) = 0 .. 23
  OBVIOUS
<1>. QED BY <1>6, <1>7

\* The greatest and the least of some hours.
LEMMA HoursHaveMax ==
  ASSUME NEW S \in SUBSET (0 .. 23), S # {}
  PROVE  Max(S) \in S /\ \A y \in S : y <= Max(S)
<1>1. \E x \in S : \A y \in S : x >= y
  <2>. DEFINE f == [h \in 0 .. 23 |-> IF h \in S THEN h + 1 ELSE 0]
  <2>1. f \in [0 .. 23 -> Nat]
    OBVIOUS
  <2>2. PICK h \in 0 .. 23 : \A g \in 0 .. 23 : f[g] <= f[h]
    <3>. HIDE DEF f
    <3>. QED BY <2>1, PeakExists
  <2>3. PICK s \in S : TRUE
    OBVIOUS
  <2>4. f[s] = s + 1 /\ s + 1 > 0
    BY <2>3
  <2>5. h \in S
    BY <2>2, <2>4
  <2>6. \A y \in S : y <= h
    BY <2>2, <2>5
  <2>. QED BY <2>5, <2>6
<1>. QED BY <1>1 DEF Max

LEMMA HoursHaveMin ==
  ASSUME NEW S \in SUBSET (0 .. 23), S # {}
  PROVE  Min(S) \in S
<1>1. \E x \in S : \A y \in S : x <= y
  <2>. DEFINE f == [h \in 0 .. 23 |-> IF h \in S THEN 24 - h ELSE 0]
  <2>1. f \in [0 .. 23 -> Nat]
    OBVIOUS
  <2>2. PICK h \in 0 .. 23 : \A g \in 0 .. 23 : f[g] <= f[h]
    <3>. HIDE DEF f
    <3>. QED BY <2>1, PeakExists
  <2>3. PICK s \in S : TRUE
    OBVIOUS
  <2>4. f[s] = 24 - s /\ 24 - s > 0
    BY <2>3
  <2>5. h \in S
    BY <2>2, <2>4
  <2>6. \A y \in S : h <= y
    BY <2>2, <2>5
  <2>. QED BY <2>5, <2>6
<1>. QED BY <1>1 DEF Min

\* The peak hour has the peak, which no hour exceeds.
LEMMA PeakHourHasPeak ==
  ASSUME NEW counts \in [0 .. 23 -> Nat]
  PROVE  /\ PeakHour(counts) \in 0 .. 23
         /\ counts[PeakHour(counts)] = Peak(counts)
         /\ \A h \in 0 .. 23 : counts[h] <= Peak(counts)
<1>1. PICK h \in 0 .. 23 : \A g \in 0 .. 23 : counts[g] <= counts[h]
  BY PeakExists
<1>2. Range(counts) = {counts[g] : g \in 0 .. 23}
  BY DEF Range
<1>3. \E x \in Range(counts) : \A y \in Range(counts) : x >= y
  BY <1>1, <1>2
<1>4. Peak(counts) \in Range(counts) /\ \A y \in Range(counts) : Peak(counts) >= y
  BY <1>3 DEF Peak, Max
<1>5. Peak(counts) \in Nat /\ \A g \in 0 .. 23 : counts[g] <= Peak(counts)
  BY <1>2, <1>4
<1>. DEFINE S == {g \in 0 .. 23 : counts[g] = Peak(counts)}
<1>6. S \in SUBSET (0 .. 23) /\ S # {}
  BY <1>2, <1>4
<1>7. Min(S) \in S
  <2>. HIDE DEF S
  <2>. QED BY <1>6, HoursHaveMin
<1>8. PeakHour(counts) = Min(S)
  BY DEF PeakHour
<1>. QED BY <1>5, <1>7, <1>8

\* The range goes at most eleven hours far, and as far as hours reach the threshold.
LEMMA ReachGoesOn ==
  ASSUME NEW counts, NEW hour, NEW threshold, NEW direction
  PROVE  LET reach == Reach(counts, hour, threshold, direction) IN
         /\ reach \in 0 .. 11
         /\ \A k \in 0 .. 11 :
               (\A i \in 1 .. k : counts[(hour + direction * i + 24) % 24] >= threshold)
               => k <= reach
<1>. DEFINE S == {k \in 0 .. 11 : \A i \in 1 .. k :
                     counts[(hour + direction * i + 24) % 24] >= threshold}
<1>1. 1 .. 0 = {}
  OBVIOUS
<1>2. 0 \in S
  BY <1>1
<1>3. S \in SUBSET (0 .. 23)
  OBVIOUS
<1>4. Max(S) \in S /\ \A k \in S : k <= Max(S)
  <2>. HIDE DEF S
  <2>. QED BY <1>2, <1>3, HoursHaveMax
<1>. QED BY <1>4 DEF Reach

\* The range that goes a hours back and b hours on from hour p.
FirstHour(p, a) == (p - a + 24) % 24
LastHour(p, b)  == (p + b + 1) % 24

LEMMA RangeOfHours ==
  ASSUME NEW p \in 0 .. 23, NEW a \in 0 .. 11, NEW b \in 0 .. 11
  PROVE  /\ FirstHour(p, a) # LastHour(p, b)
         /\ \A k \in 0 .. a : IsActive((p + (-1) * k + 24) % 24, FirstHour(p, a), LastHour(p, b))
         /\ \A k \in 0 .. b : IsActive((p + 1 * k + 24) % 24, FirstHour(p, a), LastHour(p, b))
<1>1. (p - a + 24) % 24 = IF p >= a THEN p - a ELSE p - a + 24
  OBVIOUS
<1>2. (p + b + 1) % 24 = IF p + b + 1 < 24 THEN p + b + 1 ELSE p + b + 1 - 24
  OBVIOUS
<1>3. \A k \in 0 .. 11 : (p + (-1) * k + 24) % 24 = IF p >= k THEN p - k ELSE p - k + 24
  OBVIOUS
<1>4. \A k \in 0 .. 11 : (p + 1 * k + 24) % 24 = IF p + k < 24 THEN p + k ELSE p + k - 24
  OBVIOUS
<1>5. FirstHour(p, a) # LastHour(p, b)
  BY <1>1, <1>2 DEF FirstHour, LastHour
<1>6. ASSUME NEW k \in 0 .. a
      PROVE  IsActive((p + (-1) * k + 24) % 24, FirstHour(p, a), LastHour(p, b))
  <2>1. k \in 0 .. 11
    OBVIOUS
  <2>. QED BY <1>1, <1>2, <1>3, <2>1 DEF FirstHour, LastHour, IsActive
<1>7. ASSUME NEW k \in 0 .. b
      PROVE  IsActive((p + 1 * k + 24) % 24, FirstHour(p, a), LastHour(p, b))
  <2>1. k \in 0 .. 11
    OBVIOUS
  <2>. QED BY <1>1, <1>2, <1>4, <2>1 DEF FirstHour, LastHour, IsActive
<1>. QED BY <1>5, <1>6, <1>7

\* The numbers of the notes S in each hour, of which one is not 0.
LEMMA HourCountsType ==
  ASSUME MetricsAssumption, NEW S \in SUBSET Event, S # {}
  PROVE  /\ HourCounts(S) \in [0 .. 23 -> Nat]
         /\ Peak(HourCounts(S)) > 0
<1>1. ASSUME NEW h \in 0 .. 23
      PROVE  LET T == {e \in S : HourOf(e) = h} IN
             Cardinality(T) \in Nat /\ (Cardinality(T) = 0 <=> T = {})
  <2>. DEFINE T == {e \in S : HourOf(e) = h}
  <2>1. IsFiniteSet(T)
    BY FS_Subset DEF MetricsAssumption
  <2>. HIDE DEF T
  <2>2. Cardinality(T) \in Nat /\ (Cardinality(T) = 0 <=> T = {})
    BY <2>1, FS_CardinalityType, FS_EmptySet
  <2>. USE DEF T
  <2>. QED BY <2>2
<1>2. HourCounts(S) \in [0 .. 23 -> Nat]
  BY <1>1 DEF HourCounts
<1>3. PICK e \in S : TRUE
  OBVIOUS
<1>4. HourOf(e) \in 0 .. 23
  <2>1. Data[e].at \in Int
    BY <1>3 DEF MetricsAssumption
  <2>. QED BY <2>1 DEF HourOf, Hour
<1>5. HourCounts(S)[HourOf(e)] > 0
  <2>. DEFINE T == {f \in S : HourOf(f) = HourOf(e)}
  <2>1. Cardinality(T) \in Nat /\ (Cardinality(T) = 0 <=> T = {})
    BY <1>1, <1>4
  <2>2. e \in T
    BY <1>3
  <2>3. HourCounts(S)[HourOf(e)] = Cardinality(T)
    BY <1>4 DEF HourCounts
  <2>. HIDE DEF T
  <2>. QED BY <2>1, <2>2, <2>3
<1>6. HourCounts(S)[HourOf(e)] <= Peak(HourCounts(S)) /\ Peak(HourCounts(S)) \in Nat
  BY <1>2, <1>4, PeakHourHasPeak
<1>. QED BY <1>2, <1>4, <1>5, <1>6
=============================================================================
