---- MODULE SlidingWindowProofs ----
(***************************************************************************)
(* What the rate limiter does to a bucket, for every window and limit.     *)
(***************************************************************************)
EXTENDS SlidingWindow, FiniteSetTheorems, TLAPS

\* A non-empty set of numbers has a least element.
LEMMA LeastElement ==
    ASSUME NEW S \in SUBSET Nat, S # {}
    PROVE  \E i \in S : \A j \in S : i <= j
<1>1. PICK i \in S : \A j \in S : ~(<<j, i>> \in OpToRel(<, Nat))
  BY NatLessThanWellFounded, WFMin
<1>2. \A j \in S : ~(j < i)
  BY <1>1 DEF OpToRel
<1> QED
  BY <1>2

\* Trimming a bucket (the pop_front loop of EnforceRateLimit) leaves a bucket
\* that is not longer.
LEMMA TrimWindowType ==
    ASSUME NEW b \in Seq(Nat), NEW t \in Nat
    PROVE  TrimWindow(b, t) \in Seq(Nat) /\ Len(TrimWindow(b, t)) <= Len(b)
<1> DEFINE kept == {i \in DOMAIN b : Counts(b[i], t)}
<1>1. CASE kept = {}
  BY <1>1 DEF TrimWindow
<1>2. CASE kept # {}
  <2> DEFINE first == CHOOSE i \in kept : \A j \in kept : i <= j
  <2>1. TrimWindow(b, t) = SubSeq(b, first, Len(b))
    BY <1>2 DEF TrimWindow
  <2>2. \E i \in kept : \A j \in kept : i <= j
    <3>1. kept \in SUBSET Nat
      OBVIOUS
    <3> QED
      BY <1>2, <3>1, LeastElement
  <2>3. first \in 1 .. Len(b)
    BY <2>2
  <2> HIDE DEF first
  <2>4. SubSeq(b, first, Len(b)) \in Seq(Nat)
    BY <2>3
  <2>5. Len(SubSeq(b, first, Len(b))) <= Len(b)
    BY <2>3
  <2> QED
    BY <2>1, <2>4, <2>5
<1> QED
  BY <1>1, <1>2

\* EnforceRateLimit never lets a bucket grow past the limit.
LEMMA CheckAndRecordType ==
    ASSUME NEW limit \in Nat, NEW b \in Bucket(limit), NEW t \in Nat
    PROVE  CheckAndRecord(b, t, limit) \in Bucket(limit)
<1> DEFINE c == TrimWindow(b, t)
<1>1. c \in Seq(Nat) /\ Len(c) <= Len(b) /\ Len(b) <= limit
  BY TrimWindowType DEF Bucket
<1>2. Len(b) \in Nat
  BY DEF Bucket
<1> HIDE DEF c
<1>3. CASE Len(c) < limit
  <2>1. CheckAndRecord(b, t, limit) = Append(c, t)
    BY <1>3 DEF CheckAndRecord, HasRoom, c
  <2>2. Append(c, t) \in Seq(Nat) /\ Len(Append(c, t)) = Len(c) + 1
    BY <1>1
  <2> QED
    BY <2>1, <2>2, <1>1, <1>2, <1>3 DEF Bucket
<1>4. CASE ~(Len(c) < limit)
  <2>1. CheckAndRecord(b, t, limit) = c
    BY <1>4 DEF CheckAndRecord, HasRoom, c
  <2> QED
    BY <2>1, <1>1, <1>2 DEF Bucket
<1> QED
  BY <1>3, <1>4

\* A trimmed bucket is within the limit of the bucket.
LEMMA TrimWindowBucket ==
    ASSUME NEW limit \in Nat, NEW b \in Bucket(limit), NEW t \in Nat
    PROVE  TrimWindow(b, t) \in Bucket(limit)
<1>1. b \in Seq(Nat) /\ Len(b) \in Nat /\ Len(b) <= limit
  BY DEF Bucket
<1>2. TrimWindow(b, t) \in Seq(Nat) /\ Len(TrimWindow(b, t)) <= Len(b)
  BY <1>1, TrimWindowType
<1>3. Len(TrimWindow(b, t)) \in Nat
  BY <1>2
<1> QED
  BY <1>1, <1>2, <1>3 DEF Bucket

----------------------------------------------------------------------------
\* What a bucket knows about the attempts that were let through.

\* The attempts R, which happened at the times at, have each an entry of their
\* own in the bucket, made with a clock reading at most skew older.
Covers(bucket, R, at, skew) ==
    \E f \in [R -> DOMAIN bucket] :
        /\ \A i, j \in R : f[i] = f[j] => i = j
        /\ \A i \in R : at[i] <= bucket[f[i]] + skew

\* Covered attempts are no more than the bucket is long.
LEMMA CoversSize ==
    ASSUME NEW b \in Seq(Nat), NEW R, NEW at, NEW skew, Covers(b, R, at, skew)
    PROVE  IsFiniteSet(R) /\ Cardinality(R) \in Nat /\ Cardinality(R) <= Len(b)
<1>1. PICK f \in [R -> DOMAIN b] : \A i, j \in R : f[i] = f[j] => i = j
  BY DEF Covers
<1>2. f \in Injection(R, 1 .. Len(b))
  <2>1. DOMAIN b = 1 .. Len(b)
    OBVIOUS
  <2>2. f \in [R -> 1 .. Len(b)]
    BY <1>1, <2>1
  <2> QED
    BY <1>1, <2>2 DEF Injection, IsInjective
<1>3. Len(b) \in Nat
  OBVIOUS
<1>4. IsFiniteSet(1 .. Len(b)) /\ Cardinality(1 .. Len(b)) = Len(b)
  <2> DEFINE n == Len(b)
  <2> HIDE DEF n
  <2>1. n \in Int /\ n >= 0 /\ 1 \in Int
    BY <1>3 DEF n
  <2>2. IsFiniteSet(1 .. n) /\ Cardinality(1 .. n) = IF 1 > n THEN 0 ELSE n - 1 + 1
    BY <2>1, FS_Interval
  <2>3. (IF 1 > n THEN 0 ELSE n - 1 + 1) = n
    BY <2>1
  <2> QED
    BY <2>2, <2>3 DEF n
<1>5. IsFiniteSet(R) /\ Cardinality(R) <= Len(b)
  BY <1>2, <1>4, FS_Injection
<1> QED
  BY <1>5, FS_CardinalityType

\* Fewer attempts are covered as well.
LEMMA CoversFewer ==
    ASSUME NEW b, NEW R, NEW at, NEW skew, Covers(b, R, at, skew),
           NEW S \in SUBSET R, NEW time, \A i \in S : time[i] = at[i]
    PROVE  Covers(b, S, time, skew)
<1>1. PICK f \in [R -> DOMAIN b] : /\ \A i, j \in R : f[i] = f[j] => i = j
                                   /\ \A i \in R : at[i] <= b[f[i]] + skew
  BY DEF Covers
<1> DEFINE g == [i \in S |-> f[i]]
<1>2. g \in [S -> DOMAIN b]
  BY <1>1
<1>3. \A i, j \in S : g[i] = g[j] => i = j
  BY <1>1
<1>4. \A i \in S : time[i] <= b[g[i]] + skew
  BY <1>1
<1> HIDE DEF g
<1> QED
  BY <1>2, <1>3, <1>4 DEF Covers

\* Recording one more attempt covers the attempts from before ...
LEMMA CoversRecorded ==
    ASSUME NEW b \in Seq(Nat), NEW R, NEW at, NEW skew \in Nat, NEW t \in Nat,
           Covers(b, R, at, skew)
    PROVE  Covers(Append(b, t), R, at, skew)
<1>1. PICK f \in [R -> DOMAIN b] : /\ \A i, j \in R : f[i] = f[j] => i = j
                                   /\ \A i \in R : at[i] <= b[f[i]] + skew
  BY DEF Covers
<1>2. /\ DOMAIN b \subseteq DOMAIN Append(b, t)
      /\ \A n \in DOMAIN b : Append(b, t)[n] = b[n]
  OBVIOUS
<1>3. f \in [R -> DOMAIN Append(b, t)]
  BY <1>1, <1>2
<1>4. \A i \in R : at[i] <= Append(b, t)[f[i]] + skew
  BY <1>1, <1>2
<1> QED
  BY <1>1, <1>3, <1>4 DEF Covers

\* ... and the attempt itself, if the clock was read at most skew before it.
LEMMA CoversNew ==
    ASSUME NEW b \in Seq(Nat), NEW R, NEW at, NEW skew \in Nat, NEW t \in Nat,
           Covers(b, R, at, skew), NEW n, n \notin R, NEW time,
           \A i \in R : time[i] = at[i], time[n] <= t + skew
    PROVE  Covers(Append(b, t), R \cup {n}, time, skew)
<1>1. PICK f \in [R -> DOMAIN b] : /\ \A i, j \in R : f[i] = f[j] => i = j
                                   /\ \A i \in R : at[i] <= b[f[i]] + skew
  BY DEF Covers
<1> DEFINE c == Append(b, t)
           last == Len(b) + 1
           g == [i \in R \cup {n} |-> IF i = n THEN last ELSE f[i]]
<1>2. /\ DOMAIN b \subseteq DOMAIN c /\ last \in DOMAIN c /\ last \notin DOMAIN b
      /\ \A i \in DOMAIN b : c[i] = b[i]
      /\ c[last] = t
  OBVIOUS
<1> HIDE DEF c, last
<1>3. g \in [R \cup {n} -> DOMAIN c]
  BY <1>1, <1>2
<1>4. g[n] = last /\ \A i \in R : g[i] = f[i] /\ g[i] \in DOMAIN b
  BY <1>1
<1> HIDE DEF g
<1>5. \A i, j \in R \cup {n} : g[i] = g[j] => i = j
  BY <1>1, <1>2, <1>4
<1>6. \A i \in R \cup {n} : time[i] <= c[g[i]] + skew
  BY <1>1, <1>2, <1>4
<1> QED
  BY <1>3, <1>5, <1>6 DEF Covers, c

\* Trimming loses no attempt of the last Window - skew seconds, in whatever
\* order the entries were made.
LEMMA CoversTrimmed ==
    ASSUME NEW b \in Seq(Nat), NEW R, NEW at, NEW skew \in Nat, NEW t \in Nat, NEW now \in Nat,
           Covers(b, R, at, skew), t <= now,
           \A i \in R : at[i] \in Nat /\ now < at[i] + Window - skew
    PROVE  Covers(TrimWindow(b, t), R, at, skew)
<1>1. PICK f \in [R -> DOMAIN b] : /\ \A i, j \in R : f[i] = f[j] => i = j
                                   /\ \A i \in R : at[i] <= b[f[i]] + skew
  BY DEF Covers
<1> DEFINE kept == {i \in DOMAIN b : Counts(b[i], t)}
<1>2. \A i \in R : f[i] \in kept
  <2> SUFFICES ASSUME NEW i \in R PROVE Counts(b[f[i]], t)
    BY <1>1
  <2>1. f[i] \in DOMAIN b /\ b[f[i]] \in Nat /\ at[i] \in Nat /\ Window \in Nat
    BY <1>1, WindowAssumption
  <2>2. at[i] <= b[f[i]] + skew /\ now < at[i] + Window - skew
    BY <1>1
  <2> QED
    BY <2>1, <2>2, SMTT(30) DEF Counts
<1>3. CASE R = {}
  <2>1. f \in [R -> DOMAIN TrimWindow(b, t)]
    BY <1>1, <1>3
  <2> QED
    BY <1>3, <2>1 DEF Covers
<1>4. CASE R # {}
  <2> DEFINE first == CHOOSE i \in kept : \A j \in kept : i <= j
             c == SubSeq(b, first, Len(b))
             g == [i \in R |-> f[i] - first + 1]
  <2>1. kept # {} /\ kept \in SUBSET Nat
    BY <1>2, <1>4
  <2>2. \E i \in kept : \A j \in kept : i <= j
    BY <2>1, LeastElement
  <2>3. TrimWindow(b, t) = c
    BY <2>1 DEF TrimWindow
  <2>4. first \in 1 .. Len(b) /\ \A j \in kept : first <= j
    <3>1. kept \subseteq 1 .. Len(b)
      OBVIOUS
    <3> HIDE DEF kept
    <3>2. first \in kept /\ \A j \in kept : first <= j
      BY <2>2
    <3> QED
      BY <3>1, <3>2
  <2> HIDE DEF first
  <2>5. DOMAIN c = 1 .. Len(b) - first + 1 /\ \A n \in DOMAIN c : c[n] = b[first + n - 1]
    BY <2>4
  <2> HIDE DEF c
  <2>6. ASSUME NEW i \in R
        PROVE  /\ f[i] \in 1 .. Len(b) /\ first <= f[i]
               /\ f[i] - first + 1 \in DOMAIN c
               /\ c[f[i] - first + 1] = b[f[i]]
    <3>1. f[i] \in 1 .. Len(b) /\ first <= f[i]
      BY <1>1, <1>2, <2>4
    <3>2. f[i] - first + 1 \in DOMAIN c
      BY <2>4, <2>5, <3>1
    <3>3. first + (f[i] - first + 1) - 1 = f[i]
      BY <2>4, <3>1
    <3> QED
      BY <2>5, <3>1, <3>2, <3>3
  <2>7. g \in [R -> DOMAIN c]
    BY <2>6
  <2>8. \A i, j \in R : g[i] = g[j] => i = j
    <3> SUFFICES ASSUME NEW i \in R, NEW j \in R, g[i] = g[j] PROVE i = j
      OBVIOUS
    <3>1. f[i] - first + 1 = f[j] - first + 1
      OBVIOUS
    <3>2. f[i] = f[j]
      BY <2>4, <2>6, <3>1, SMTT(40)
    <3> QED
      BY <1>1, <3>2
  <2>9. \A i \in R : at[i] <= c[g[i]] + skew
    BY <1>1, <2>6
  <2> HIDE DEF g
  <2> QED
    BY <2>3, <2>7, <2>8, <2>9 DEF Covers
<1> QED
  BY <1>3, <1>4

\* So does an attempt, admitted or not, ...
LEMMA CoversChecked ==
    ASSUME NEW b \in Seq(Nat), NEW R, NEW at, NEW skew \in Nat, NEW t \in Nat, NEW now \in Nat,
           Covers(b, R, at, skew), t <= now,
           \A i \in R : at[i] \in Nat /\ now < at[i] + Window - skew,
           NEW limit
    PROVE  Covers(CheckAndRecord(b, t, limit), R, at, skew)
<1>1. Covers(TrimWindow(b, t), R, at, skew)
  BY CoversTrimmed
<1>2. TrimWindow(b, t) \in Seq(Nat)
  BY TrimWindowType
<1>3. Covers(Append(TrimWindow(b, t), t), R, at, skew)
  BY <1>1, <1>2, CoversRecorded
<1> QED
  BY <1>1, <1>3 DEF CheckAndRecord

\* ... and one that is admitted is covered from then on.
LEMMA CoversAdmitted ==
    ASSUME NEW b \in Seq(Nat), NEW R, NEW at, NEW skew \in Nat, NEW t \in Nat, NEW now \in Nat,
           Covers(b, R, at, skew), t <= now,
           \A i \in R : at[i] \in Nat /\ now < at[i] + Window - skew,
           NEW limit, HasRoom(b, t, limit),
           NEW n, n \notin R, NEW time, \A i \in R : time[i] = at[i], time[n] <= t + skew
    PROVE  Covers(CheckAndRecord(b, t, limit), R \cup {n}, time, skew)
<1>1. Covers(TrimWindow(b, t), R, at, skew)
  BY CoversTrimmed
<1>2. TrimWindow(b, t) \in Seq(Nat)
  BY TrimWindowType
<1>3. CheckAndRecord(b, t, limit) = Append(TrimWindow(b, t), t)
  BY DEF CheckAndRecord
<1>4. Covers(Append(TrimWindow(b, t), t), R \cup {n}, time, skew)
  BY <1>1, <1>2, CoversNew
<1> QED
  BY <1>3, <1>4
====
