------------------------ MODULE LoginThrottleProofs ------------------------
(***************************************************************************)
(* Theorems about LoginThrottle, for any number of workers and clients and *)
(* any rate and period.  Whoever is refused was let through as often as    *)
(* the rate allows, because each entry of a list is a pass of its own; and *)
(* a limit that saw all that happened lets no more through, because each   *)
(* recent pass is an entry of its own.                                     *)
(***************************************************************************)
EXTENDS LoginThrottle, FiniteSetTheorems, SequenceTheorems, TLAPS

-----------------------------------------------------------------------------
(* The invariant.  Its parts speak of a list, of the counts of a limit and *)
(* of a time; seen is when the list of the limit last lost an entry.       *)

\* Newest first.
Falling(list) ==
    \A i, j \in DOMAIN list : i <= j => list[i] >= list[j]

\* No entry is of a later time.
UpTo(list, now) == \A i \in DOMAIN list : list[i] <= now

\* Each recent entry is a pass of its own.
Numbered(list, counts, now) ==
    \E f \in [DOMAIN list -> Nat] :
        \A i \in DOMAIN list : now - Duration < list[i] =>
            /\ list[i] \in 0 .. MaxTime
            /\ f[i] \in 1 .. counts[list[i]]
            /\ \A j \in DOMAIN list : list[j] = list[i] /\ f[j] = f[i] => j = i

\* The recent passes after seen.
PassesAfter(counts, now, seen) ==
    {p \in (0 .. MaxTime) \X (Nat \ {0}) :
        /\ now - Duration < p[1]
        /\ p[1] <= now
        /\ p[2] <= counts[p[1]]
        /\ seen # None => p[1] > seen}

\* Each of them is an entry of its own.
Listed(list, counts, now, seen) ==
    \E g \in [PassesAfter(counts, now, seen) -> DOMAIN list] :
        /\ \A p \in DOMAIN g : list[g[p]] = p[1]
        /\ \A p, q \in DOMAIN g : g[p] = g[q] => p = q

\* A list in the cache, and the passes of its limit: none is of a later
\* time.  When the key expires, no entry is recent.
BucketInv(entry, counts, now, seen) ==
    /\ \A t \in 0 .. MaxTime : t > now => counts[t] = 0
    /\ Len(entry.history) <= Rate
    /\ Falling(entry.history)
    /\ UpTo(entry.history, now)
    /\ UpTo(entry.history, entry.expires - Duration)
    /\ Numbered(entry.history, counts, now)
    /\ Listed(entry.history, counts, now, seen)

\* The list a check has read, before it decides and after.
CheckInv(c, counts, now, decided) ==
    /\ c.limit = c.bucket
    /\ Falling(c.history)
    /\ UpTo(c.history, now)
    /\ Numbered(c.history, counts, now)
    /\ decided =>
          /\ c.at <= now
          /\ Len(c.history) < Rate
          /\ UpTo(c.history, c.at)

\* The inductive invariant.
ThrottleInv ==
    /\ TypeOK
    /\ \A b \in Bucket : BucketInv(cache[b], allowed[b], clock, blind[b])
    /\ \A w \in Worker :
          pc[w] # "idle" => CheckInv(check[w], allowed[check[w].limit], clock, pc[w] = "set")

-----------------------------------------------------------------------------
(* The operators.                                                          *)

\* A set of naturals that is not empty has a least element.
LEMMA LeastNatural ==
  ASSUME NEW S, S \subseteq Nat, S # {}
  PROVE  \E m \in S : \A n \in S : m <= n
<1> DEFINE R == OpToRel(<, Nat)
<1>1. IsWellFoundedOn(R, Nat)
  BY NatLessThanWellFounded
<1>2. \A x, y \in Nat : x < y => <<x, y>> \in R
  BY DEF OpToRel
<1> HIDE DEF R
<1>3. PICK x \in S : \A y \in S : ~(<<y, x>> \in R)
  BY <1>1, WFMin
<1>4. \A y \in S : ~(y < x)
  BY <1>2, <1>3
<1> QED BY <1>4

\* What is left of a list: what was popped was too old, and the entry that
\* stopped it was not.
LEMMA PrunedIs ==
  ASSUME NEW h \in Seq(Nat), NEW now \in Nat
  PROVE  \E n \in 0 .. Len(h) :
            /\ Pruned(h, now) \in Seq(Nat)
            /\ Len(Pruned(h, now)) = n
            /\ \A i \in 1 .. n : Pruned(h, now)[i] = h[i]
            /\ \A i \in n + 1 .. Len(h) : h[i] <= now - Duration
            /\ n > 0 => h[n] > now - Duration
<1> DEFINE kept == {n \in 0 .. Len(h) : \A i \in n + 1 .. Len(h) : Expired(h[i], now)}
           shortest == CHOOSE n \in kept : \A m \in kept : n <= m
<1>1. Len(h) \in Nat /\ \A i \in 1 .. Len(h) : h[i] \in Nat
  BY ElementOfSeq, LenProperties
<1>2. kept \subseteq Nat /\ Len(h) \in kept
  BY <1>1
<1>3. shortest \in kept /\ \A m \in kept : shortest <= m
  <2> HIDE DEF kept
  <2>1. \E n \in kept : \A m \in kept : n <= m
    BY <1>2, LeastNatural
  <2> QED BY <2>1
<1>4. Pruned(h, now) = SubSeq(h, 1, shortest)
  BY DEF Pruned
<1> HIDE DEF shortest
<1>5. /\ SubSeq(h, 1, shortest) \in Seq(Nat)
      /\ Len(SubSeq(h, 1, shortest)) = shortest
      /\ \A i \in 1 .. shortest : SubSeq(h, 1, shortest)[i] = h[i]
  <2>1. shortest \in Int /\ shortest \in 0 .. Len(h) /\ 1 \in Int
    BY <1>1, <1>3
  <2>2. \A i \in 1 .. shortest : h[i] \in Nat
    BY <1>1, <2>1
  <2>3. /\ SubSeq(h, 1, shortest) \in Seq(Nat)
        /\ Len(SubSeq(h, 1, shortest)) = IF 1 <= shortest THEN shortest - 1 + 1 ELSE 0
        /\ \A i \in 1 .. shortest - 1 + 1 : SubSeq(h, 1, shortest)[i] = h[1 + i - 1]
    BY <2>1, <2>2, SubSeqProperties
  <2> QED BY <2>1, <2>3
<1>6. \A i \in shortest + 1 .. Len(h) : h[i] <= now - Duration
  BY <1>1, <1>3 DEF Expired
<1>7. ASSUME shortest > 0 PROVE h[shortest] > now - Duration
  <2>1. shortest - 1 \notin kept
    <3> HIDE DEF kept
    <3>1. shortest \in Nat
      BY <1>2, <1>3
    <3> QED BY <1>3, <3>1
  <2>2. PICK i \in shortest .. Len(h) : ~Expired(h[i], now)
    BY <1>1, <1>3, <1>7, <2>1
  <2>3. i = shortest
    BY <1>1, <1>3, <1>6, <2>2, RateAssumption DEF Expired
  <2> QED BY <1>1, <1>3, <1>7, <2>2, <2>3, RateAssumption DEF Expired
<1> QED BY <1>1, <1>3, <1>4, <1>5, <1>6, <1>7

\* A list with a new entry in front.
LEMMA WithEntryIs ==
  ASSUME NEW h \in Seq(Nat), NEW t \in Nat
  PROVE  /\ WithEntry(h, t) \in Seq(Nat)
         /\ Len(WithEntry(h, t)) = Len(h) + 1
         /\ WithEntry(h, t)[1] = t
         /\ \A i \in 1 .. Len(h) : WithEntry(h, t)[i + 1] = h[i]
<1>1. <<t>> \in Seq(Nat) /\ Len(<<t>>) = 1 /\ <<t>>[1] = t
  OBVIOUS
<1>2. /\ <<t>> \o h \in Seq(Nat)
      /\ Len(<<t>> \o h) = Len(<<t>>) + Len(h)
      /\ \A i \in 1 .. Len(<<t>>) + Len(h) : (<<t>> \o h)[i] =
            IF i <= Len(<<t>>) THEN <<t>>[i] ELSE h[i - Len(<<t>>)]
  BY <1>1, ConcatProperties
<1>3. Len(h) \in Nat
  BY LenProperties
<1>4. \A i \in 1 .. Len(h) : (<<t>> \o h)[i + 1] = h[i]
  BY <1>1, <1>2, <1>3
<1>5. (<<t>> \o h)[1] = t
  BY <1>1, <1>2, <1>3
<1> QED BY <1>1, <1>2, <1>3, <1>4, <1>5 DEF WithEntry

\* The passes of a limit, as a set of numbered times.
LEMMA PassesIs ==
  ASSUME TypeOK, NEW b \in Bucket
  PROVE  /\ Passes(b) = PassesAfter(allowed[b], clock, None)
         /\ IsFiniteSet(Passes(b))
<1>1. allowed[b] \in [0 .. MaxTime -> Nat] /\ clock \in 0 .. MaxTime
  BY DEF TypeOK
<1>2. \A p : p \in Passes(b) <=> p \in PassesAfter(allowed[b], clock, None)
  <2>1. ASSUME NEW p \in Passes(b) PROVE p \in PassesAfter(allowed[b], clock, None)
    <3>1. PICK t \in InPeriod : p \in {t} \X (1 .. allowed[b][t])
      BY DEF Passes
    <3> QED BY <1>1, <3>1 DEF InPeriod, PassesAfter
  <2>2. ASSUME NEW p \in PassesAfter(allowed[b], clock, None) PROVE p \in Passes(b)
    <3>1. p[1] \in InPeriod /\ p \in {p[1]} \X (1 .. allowed[b][p[1]])
      BY <1>1 DEF InPeriod, PassesAfter
    <3> QED BY <3>1 DEF Passes
  <2> QED BY <2>1, <2>2
<1>3. IsFiniteSet(Passes(b))
  <2> DEFINE S == {{t} \X (1 .. allowed[b][t]) : t \in InPeriod}
             F == [t \in InPeriod |-> {t} \X (1 .. allowed[b][t])]
  <2>1. IsFiniteSet(InPeriod)
    <3>1. IsFiniteSet(0 .. MaxTime)
      BY FS_Interval, BoundsAssumption
    <3> QED BY <3>1, FS_Subset DEF InPeriod
  <2>2. F \in Surjection(InPeriod, S)
    BY DEF Surjection
  <2>3. IsFiniteSet(S)
    <3> HIDE DEF S, F
    <3> QED BY <2>1, <2>2, FS_Surjection
  <2>4. ASSUME NEW T \in S PROVE IsFiniteSet(T)
    <3>1. PICK t \in InPeriod : T = {t} \X (1 .. allowed[b][t])
      OBVIOUS
    <3>2. allowed[b][t] \in Int /\ 1 \in Int
      <4> HIDE DEF S, F
      <4>1. t \in 0 .. MaxTime
        BY DEF InPeriod
      <4>2. allowed[b][t] \in Nat
        BY <1>1, <4>1
      <4> QED BY <4>2
    <3>3. IsFiniteSet({t}) /\ IsFiniteSet(1 .. allowed[b][t])
      BY <3>2, FS_Singleton, FS_Interval
    <3> QED BY <3>1, <3>3, FS_Product
  <2>5. IsFiniteSet(UNION S)
    <3> HIDE DEF S
    <3> QED BY <2>3, <2>4, FS_UNION
  <2> QED BY <2>5 DEF Passes
<1> QED BY <1>2, <1>3

\* A list whose entries are all recent and numbered is no longer than there
\* are recent passes.
LEMMA EntriesArePasses ==
  ASSUME TypeOK, NEW b \in Bucket, NEW h \in Seq(Nat), NEW n \in 0 .. Len(h),
         Numbered(h, allowed[b], clock), UpTo(h, clock),
         \A i \in 1 .. n : h[i] > clock - Duration
  PROVE  n <= Recent(b)
<1>1. PICK f \in [DOMAIN h -> Nat] :
        \A i \in DOMAIN h : clock - Duration < h[i] =>
            /\ h[i] \in 0 .. MaxTime
            /\ f[i] \in 1 .. allowed[b][h[i]]
            /\ \A j \in DOMAIN h : h[j] = h[i] /\ f[j] = f[i] => j = i
  BY DEF Numbered
<1>2. DOMAIN h = 1 .. Len(h) /\ Len(h) \in Nat /\ \A i \in 1 .. Len(h) : h[i] \in Nat
  BY LenProperties, ElementOfSeq
<1>3. clock \in Nat /\ allowed[b] \in [0 .. MaxTime -> Nat]
  BY BoundsAssumption DEF TypeOK
<1> DEFINE F == [i \in 1 .. n |-> <<h[i], f[i]>>]
<1>4. ASSUME NEW i \in 1 .. n
      PROVE  <<h[i], f[i]>> \in PassesAfter(allowed[b], clock, None)
  <2>1. i \in DOMAIN h /\ clock - Duration < h[i] /\ h[i] <= clock
    <3>1. i \in 1 .. Len(h)
      BY <1>2
    <3>2. i \in DOMAIN h /\ h[i] \in Nat
      BY <1>2, <3>1
    <3>3. h[i] <= clock
      BY <3>2 DEF UpTo
    <3>4. h[i] > clock - Duration
      OBVIOUS
    <3>5. clock - Duration \in Int
      BY <1>3, RateAssumption
    <3> QED BY <3>2, <3>3, <3>4, <3>5
  <2>2. h[i] \in 0 .. MaxTime /\ f[i] \in 1 .. allowed[b][h[i]]
    BY <1>1, <2>1
  <2> QED BY <1>3, <2>1, <2>2 DEF PassesAfter
<1>5. F \in [1 .. n -> Passes(b)]
  BY <1>4, PassesIs
<1>6. ASSUME NEW i \in 1 .. n, NEW j \in 1 .. n, F[i] = F[j] PROVE i = j
  <2>1. h[i] = h[j] /\ f[i] = f[j]
    BY <1>6
  <2>2. i \in DOMAIN h /\ j \in DOMAIN h /\ clock - Duration < h[i]
    BY <1>2, <1>3
  <2> QED BY <1>1, <2>1, <2>2
<1>7. F \in Injection(1 .. n, Passes(b))
  BY <1>5, <1>6 DEF Injection, IsInjective
<1> HIDE DEF F
<1>8. Cardinality(1 .. n) <= Cardinality(Passes(b))
  BY <1>7, PassesIs, FS_Injection
<1>9. Cardinality(1 .. n) = n
  <2>1. n \in Int /\ 1 \in Int /\ n >= 0
    BY <1>2
  <2>2. Cardinality(1 .. n) = IF 1 > n THEN 0 ELSE n - 1 + 1
    BY <2>1, FS_Interval
  <2> QED BY <2>1, <2>2
<1> QED BY <1>8, <1>9 DEF Recent

\* A limit whose recent passes are all listed has let no more through than
\* its list is long.
LEMMA PassesAreEntries ==
  ASSUME TypeOK, NEW b \in Bucket, NEW h \in Seq(Nat),
         Listed(h, allowed[b], clock, None)
  PROVE  Recent(b) <= Len(h)
<1>1. PICK g \in [Passes(b) -> DOMAIN h] : \A p, q \in DOMAIN g : g[p] = g[q] => p = q
  BY PassesIs DEF Listed
<1>2. g \in Injection(Passes(b), DOMAIN h)
  BY <1>1 DEF Injection, IsInjective
<1>3. DOMAIN h = 1 .. Len(h) /\ Len(h) \in Nat
  BY LenProperties
<1>4. IsFiniteSet(1 .. Len(h)) /\ Cardinality(1 .. Len(h)) = Len(h)
  <2>1. Len(h) \in Int /\ 1 \in Int
    BY <1>3
  <2>2. /\ IsFiniteSet(1 .. Len(h))
        /\ Cardinality(1 .. Len(h)) = IF 1 > Len(h) THEN 0 ELSE Len(h) - 1 + 1
    BY <2>1, FS_Interval
  <2> QED BY <1>3, <2>2
<1> QED BY <1>2, <1>3, <1>4, FS_Injection DEF Recent

-----------------------------------------------------------------------------
(* What time and new entries do to a list.                                 *)

\* Counts of a limit.
Counts == [0 .. MaxTime -> Nat]

\* Entries stay numbered as long as no recent pass is forgotten.
LEMMA NumberedStays ==
  ASSUME NEW h \in Seq(Nat), NEW c \in Counts, NEW d \in Counts,
         NEW now \in Nat, NEW then \in Nat, now <= then,
         \A t \in 0 .. MaxTime : then - Duration < t => c[t] <= d[t],
         Numbered(h, c, now)
  PROVE  Numbered(h, d, then)
<1>1. PICK f \in [DOMAIN h -> Nat] :
        \A i \in DOMAIN h : now - Duration < h[i] =>
            /\ h[i] \in 0 .. MaxTime
            /\ f[i] \in 1 .. c[h[i]]
            /\ \A j \in DOMAIN h : h[j] = h[i] /\ f[j] = f[i] => j = i
  BY DEF Numbered
<1>2. ASSUME NEW i \in DOMAIN h, then - Duration < h[i]
      PROVE  /\ h[i] \in 0 .. MaxTime
             /\ f[i] \in 1 .. d[h[i]]
             /\ \A j \in DOMAIN h : h[j] = h[i] /\ f[j] = f[i] => j = i
  <2>1. h[i] \in Nat
    BY LenProperties, ElementOfSeq
  <2>2. now - Duration < h[i]
    BY <1>2, <2>1, RateAssumption
  <2>3. h[i] \in 0 .. MaxTime /\ c[h[i]] <= d[h[i]] /\ c[h[i]] \in Nat /\ d[h[i]] \in Nat
    BY <1>1, <1>2, <2>2 DEF Counts
  <2> QED BY <1>1, <2>2, <2>3
<1> QED BY <1>1, <1>2 DEF Numbered

\* No entry, no number.
LEMMA NumberedEmpty ==
  ASSUME NEW c, NEW now
  PROVE  Numbered(<<>>, c, now)
<1>1. DOMAIN <<>> = {}
  OBVIOUS
<1>2. [i \in DOMAIN <<>> |-> 0] \in [DOMAIN <<>> -> Nat]
  OBVIOUS
<1> QED BY <1>1, <1>2 DEF Numbered

\* A pass that is counted numbers its entry.
LEMMA NumberedInsert ==
  ASSUME NEW h \in Seq(Nat), NEW c \in Counts, NEW now \in Nat, NEW at \in 0 .. MaxTime,
         Numbered(h, c, now)
  PROVE  Numbered(WithEntry(h, at), [c EXCEPT ![at] = @ + 1], now)
<1> DEFINE l == WithEntry(h, at)
           d == [c EXCEPT ![at] = @ + 1]
<1>1. PICK f \in [DOMAIN h -> Nat] :
        \A i \in DOMAIN h : now - Duration < h[i] =>
            /\ h[i] \in 0 .. MaxTime
            /\ f[i] \in 1 .. c[h[i]]
            /\ \A j \in DOMAIN h : h[j] = h[i] /\ f[j] = f[i] => j = i
  BY DEF Numbered
<1>2. /\ l \in Seq(Nat) /\ Len(l) = Len(h) + 1 /\ l[1] = at
      /\ \A i \in 1 .. Len(h) : l[i + 1] = h[i]
  <2>1. at \in Nat
    BY BoundsAssumption
  <2> QED BY <2>1, WithEntryIs
<1>3. /\ DOMAIN h = 1 .. Len(h) /\ DOMAIN l = 1 .. Len(h) + 1 /\ Len(h) \in Nat
      /\ \A i \in 1 .. Len(h) : h[i] \in Nat
  <2> HIDE DEF l
  <2> QED BY <1>2, LenProperties, ElementOfSeq
<1>4. c[at] \in Nat /\ d[at] = c[at] + 1 /\ \A t \in (0 .. MaxTime) \ {at} : d[t] = c[t]
  BY DEF Counts
<1> HIDE DEF l, d
<1> DEFINE F == [i \in DOMAIN l |-> IF i = 1 THEN c[at] + 1 ELSE f[i - 1]]
<1>5. F \in [DOMAIN l -> Nat]
  BY <1>1, <1>3, <1>4
<1>6. F[1] = c[at] + 1 /\ \A i \in 1 .. Len(h) : F[i + 1] = f[i]
  BY <1>3
<1> HIDE DEF F
<1>7. \A i \in DOMAIN l : i = 1 \/ (\E k \in 1 .. Len(h) : i = k + 1)
  <2>1. ASSUME NEW i \in DOMAIN l, i # 1 PROVE \E k \in 1 .. Len(h) : i = k + 1
    <3>1. i - 1 \in 1 .. Len(h) /\ i = (i - 1) + 1
      BY <1>3, <2>1
    <3> QED BY <3>1
  <2> QED BY <2>1
<1>8. ASSUME NEW k \in 1 .. Len(h), now - Duration < h[k], h[k] = at
      PROVE  f[k] # c[at] + 1 /\ f[k] \in 1 .. c[at]
  <2>1. f[k] \in 1 .. c[at]
    BY <1>1, <1>3, <1>8
  <2> QED BY <1>4, <2>1
<1>9. ASSUME NEW i \in DOMAIN l, now - Duration < l[i]
      PROVE  /\ l[i] \in 0 .. MaxTime
             /\ F[i] \in 1 .. d[l[i]]
             /\ \A j \in DOMAIN l : l[j] = l[i] /\ F[j] = F[i] => j = i
  <2>1. CASE i = 1
    <3>1. l[i] = at /\ F[i] = c[at] + 1 /\ F[i] \in 1 .. d[at]
      BY <1>2, <1>4, <1>6, <2>1
    <3>2. ASSUME NEW j \in DOMAIN l, l[j] = l[i], F[j] = F[i] PROVE j = i
      <4>1. CASE \E k \in 1 .. Len(h) : j = k + 1
        <5>1. PICK k \in 1 .. Len(h) : j = k + 1
          BY <4>1
        <5>2. h[k] = at /\ f[k] = c[at] + 1
          BY <1>2, <1>6, <3>1, <3>2, <5>1
        <5> QED BY <1>8, <1>9, <3>1, <5>2
      <4> QED BY <1>7, <2>1, <4>1
    <3> QED BY <3>1, <3>2
  <2>2. CASE \E k \in 1 .. Len(h) : i = k + 1
    <3>1. PICK k \in 1 .. Len(h) : i = k + 1
      BY <2>2
    <3>2. l[i] = h[k] /\ F[i] = f[k] /\ now - Duration < h[k]
      BY <1>2, <1>6, <1>9, <3>1
    <3>3. h[k] \in 0 .. MaxTime /\ f[k] \in 1 .. c[h[k]]
      BY <1>1, <1>3, <3>2
    <3>4. f[k] \in 1 .. d[h[k]]
      BY <1>4, <3>3
    <3>5. ASSUME NEW j \in DOMAIN l, l[j] = l[i], F[j] = F[i] PROVE j = i
      <4>1. CASE j = 1
        BY <1>2, <1>6, <1>8, <3>2, <3>5, <4>1
      <4>2. CASE \E m \in 1 .. Len(h) : j = m + 1
        <5>1. PICK m \in 1 .. Len(h) : j = m + 1
          BY <4>2
        <5>2. h[m] = h[k] /\ f[m] = f[k]
          BY <1>2, <1>6, <3>2, <3>5, <5>1
        <5> QED BY <1>1, <1>3, <3>1, <3>2, <5>1, <5>2
      <4> QED BY <1>7, <4>1, <4>2
    <3> QED BY <3>2, <3>3, <3>4, <3>5
  <2> QED BY <1>7, <2>1, <2>2
<1>10. Numbered(l, d, now)
  BY <1>5, <1>9 DEF Numbered
<1> QED BY <1>10 DEF l, d

\* What holds of some passes holds of fewer.
LEMMA ListedStays ==
  ASSUME NEW h, NEW c, NEW now, NEW seen, NEW d, NEW then, NEW since,
         PassesAfter(d, then, since) \subseteq PassesAfter(c, now, seen),
         Listed(h, c, now, seen)
  PROVE  Listed(h, d, then, since)
<1> DEFINE P == PassesAfter(c, now, seen)
           Q == PassesAfter(d, then, since)
<1>1. PICK g \in [P -> DOMAIN h] :
        /\ \A p \in P : h[g[p]] = p[1]
        /\ \A p, q \in P : g[p] = g[q] => p = q
  BY DEF Listed
<1>2. Q \subseteq P
  OBVIOUS
<1> HIDE DEF P, Q
<1> DEFINE G == [p \in Q |-> g[p]]
<1>3. G \in [Q -> DOMAIN h] /\ DOMAIN G = Q
  BY <1>2
<1>4. \A p \in Q : h[G[p]] = p[1]
  BY <1>1, <1>2
<1>5. \A p, q \in Q : G[p] = G[q] => p = q
  BY <1>1, <1>2
<1> HIDE DEF G
<1>6. \E gg \in [Q -> DOMAIN h] :
         /\ \A p \in DOMAIN gg : h[gg[p]] = p[1]
         /\ \A p, q \in DOMAIN gg : gg[p] = gg[q] => p = q
  BY <1>3, <1>4, <1>5
<1> QED BY <1>6 DEF Listed, Q

\* No pass, nothing to list.
LEMMA ListedNone ==
  ASSUME NEW h, NEW c, NEW now, NEW seen, PassesAfter(c, now, seen) = {}
  PROVE  Listed(h, c, now, seen)
<1>1. [p \in {} |-> 0] \in [{} -> DOMAIN h] /\ DOMAIN [p \in {} |-> 0] = {}
  OBVIOUS
<1> QED BY <1>1 DEF Listed

\* A pass that is counted and entered in what the clock has left of its list
\* is listed, and so are those that were.
LEMMA ListedInsert ==
  ASSUME NEW h \in Seq(Nat), NEW c \in Counts, NEW now \in Nat, NEW at \in 0 .. MaxTime,
         at <= now, NEW seen \in Nat \cup {None}, Listed(h, c, now, seen)
  PROVE  Listed(WithEntry(Pruned(h, at), at), [c EXCEPT ![at] = @ + 1], now, seen)
<1> DEFINE k == Pruned(h, at)
           l == WithEntry(k, at)
           d == [c EXCEPT ![at] = @ + 1]
           P == PassesAfter(c, now, seen)
           Q == PassesAfter(d, now, seen)
           new == <<at, c[at] + 1>>
<1>1. PICK g \in [P -> DOMAIN h] :
        /\ \A p \in P : h[g[p]] = p[1]
        /\ \A p, q \in P : g[p] = g[q] => p = q
  BY DEF Listed
<1>2. at \in Nat
  BY BoundsAssumption
<1>3. PICK n \in 0 .. Len(h) :
        /\ k \in Seq(Nat) /\ Len(k) = n
        /\ \A i \in 1 .. n : k[i] = h[i]
        /\ \A i \in n + 1 .. Len(h) : h[i] <= at - Duration
  BY <1>2, PrunedIs
<1> HIDE DEF k
<1>4. /\ l \in Seq(Nat) /\ Len(l) = n + 1 /\ l[1] = at
      /\ \A i \in 1 .. n : l[i + 1] = h[i]
  BY <1>2, <1>3, WithEntryIs
<1>5. /\ DOMAIN h = 1 .. Len(h) /\ DOMAIN l = 1 .. n + 1 /\ Len(h) \in Nat
      /\ \A i \in 1 .. Len(h) : h[i] \in Nat
  <2> HIDE DEF l
  <2> QED BY <1>4, LenProperties, ElementOfSeq
<1>6. c[at] \in Nat /\ d[at] = c[at] + 1 /\ \A t \in (0 .. MaxTime) \ {at} : d[t] = c[t]
  BY DEF Counts
<1>7. ASSUME NEW p \in Q, p # new PROVE p \in P
  <2>1. /\ p \in (0 .. MaxTime) \X (Nat \ {0}) /\ p[2] <= d[p[1]]
        /\ now - Duration < p[1] /\ p[1] <= now /\ (seen # None => p[1] > seen)
    BY DEF PassesAfter
  <2>2. p[2] <= c[p[1]]
    <3>1. CASE p[1] = at
      <4>1. p = <<p[1], p[2]>> /\ p[2] \in Nat
        BY <2>1
      <4>2. p[2] # c[at] + 1
        BY <1>7, <3>1, <4>1
      <4> HIDE DEF d
      <4> QED BY <1>6, <2>1, <3>1, <4>1, <4>2
    <3>2. CASE p[1] # at
      BY <1>6, <2>1, <3>2
    <3> QED BY <3>1, <3>2
  <2> QED BY <2>1, <2>2 DEF PassesAfter
<1>8. new \notin P
  BY <1>6 DEF PassesAfter
<1>9. ASSUME NEW p \in P PROVE g[p] \in 1 .. n /\ p[1] \in Nat
  <2>1. g[p] \in 1 .. Len(h) /\ h[g[p]] = p[1]
    BY <1>1, <1>5
  <2>2. now - Duration < p[1] /\ p[1] \in Nat
    BY BoundsAssumption DEF PassesAfter
  <2>3. g[p] \notin n + 1 .. Len(h)
    BY <1>2, <1>3, <2>1, <2>2, RateAssumption
  <2> QED BY <1>5, <2>1, <2>2, <2>3
<1> HIDE DEF l, d, P, Q
<1> DEFINE G == [p \in Q |-> IF p = new THEN 1 ELSE g[p] + 1]
<1>10. G \in [Q -> DOMAIN l]
  <2>1. ASSUME NEW p \in Q PROVE G[p] \in DOMAIN l
    BY <1>3, <1>5, <1>7, <1>9
  <2> QED BY <2>1
<1>11. ASSUME NEW p \in Q PROVE l[G[p]] = p[1]
  <2>1. CASE p = new
    BY <1>4, <2>1
  <2>2. CASE p # new
    <3>1. p \in P /\ G[p] = g[p] + 1 /\ g[p] \in 1 .. n
      BY <1>7, <1>9, <2>2
    <3> QED BY <1>1, <1>4, <3>1
  <2> QED BY <2>1, <2>2
<1>12. ASSUME NEW p \in Q, NEW q \in Q, G[p] = G[q] PROVE p = q
  <2>1. CASE p = new \/ q = new
    BY <1>7, <1>9, <1>12, <2>1
  <2>2. CASE p # new /\ q # new
    <3>1. p \in P /\ q \in P /\ g[p] + 1 = g[q] + 1 /\ g[p] \in Nat /\ g[q] \in Nat
      BY <1>7, <1>9, <1>12, <2>2
    <3> QED BY <1>1, <3>1
  <2> QED BY <2>1, <2>2
<1>13. DOMAIN G = Q
  OBVIOUS
<1> HIDE DEF G
<1>14. Listed(l, d, now, seen)
  <2>1. \E gg \in [Q -> DOMAIN l] :
         /\ \A p \in DOMAIN gg : l[gg[p]] = p[1]
         /\ \A p, q \in DOMAIN gg : gg[p] = gg[q] => p = q
    BY <1>10, <1>11, <1>12, <1>13
  <2> QED BY <2>1 DEF Listed, Q
<1> QED BY <1>14 DEF l, d, k

\* The head of a list is as well numbered as the list.
LEMMA NumberedHead ==
  ASSUME NEW h \in Seq(Nat), NEW k \in Seq(Nat), Len(k) <= Len(h),
         \A i \in 1 .. Len(k) : k[i] = h[i],
         NEW c, NEW now, Numbered(h, c, now)
  PROVE  Numbered(k, c, now)
<1>1. PICK f \in [DOMAIN h -> Nat] :
        \A i \in DOMAIN h : now - Duration < h[i] =>
            /\ h[i] \in 0 .. MaxTime
            /\ f[i] \in 1 .. c[h[i]]
            /\ \A j \in DOMAIN h : h[j] = h[i] /\ f[j] = f[i] => j = i
  BY DEF Numbered
<1>2. /\ DOMAIN h = 1 .. Len(h) /\ DOMAIN k = 1 .. Len(k) /\ DOMAIN k \subseteq DOMAIN h
      /\ \A i \in DOMAIN k : k[i] = h[i]
  <2>1. DOMAIN h = 1 .. Len(h) /\ DOMAIN k = 1 .. Len(k) /\ Len(h) \in Nat /\ Len(k) \in Nat
    BY LenProperties
  <2>2. 1 .. Len(k) \subseteq 1 .. Len(h)
    BY <2>1
  <2> QED BY <2>1, <2>2
<1> DEFINE F == [i \in DOMAIN k |-> f[i]]
<1>3. F \in [DOMAIN k -> Nat] /\ \A i \in DOMAIN k : F[i] = f[i]
  BY <1>2
<1> HIDE DEF F
<1>4. ASSUME NEW i \in DOMAIN k, now - Duration < k[i]
      PROVE  /\ k[i] \in 0 .. MaxTime
             /\ F[i] \in 1 .. c[k[i]]
             /\ \A j \in DOMAIN k : k[j] = k[i] /\ F[j] = F[i] => j = i
  BY <1>1, <1>2, <1>3, <1>4
<1> QED BY <1>3, <1>4 DEF Numbered

\* An entry in front of older ones.
LEMMA FallingInsert ==
  ASSUME NEW h \in Seq(Nat), NEW at \in Nat, Falling(h), UpTo(h, at),
         NEW now \in Nat, at <= now
  PROVE  Falling(WithEntry(h, at)) /\ UpTo(WithEntry(h, at), now)
<1> DEFINE l == WithEntry(h, at)
<1>1. /\ l \in Seq(Nat) /\ Len(l) = Len(h) + 1 /\ l[1] = at
      /\ \A i \in 1 .. Len(h) : l[i + 1] = h[i]
  BY WithEntryIs
<1> HIDE DEF l
<1>2. /\ DOMAIN h = 1 .. Len(h) /\ DOMAIN l = 1 .. Len(h) + 1 /\ Len(h) \in Nat
      /\ \A i \in 1 .. Len(h) : h[i] \in Nat
  BY <1>1, LenProperties, ElementOfSeq
<1>3. ASSUME NEW i \in DOMAIN l PROVE l[i] = at \/ (i - 1 \in 1 .. Len(h) /\ l[i] = h[i - 1])
  <2>1. CASE i = 1
    BY <1>1, <2>1
  <2>2. CASE i # 1
    <3>1. i - 1 \in 1 .. Len(h) /\ (i - 1) + 1 = i
      BY <1>2, <2>2
    <3>2. l[(i - 1) + 1] = h[i - 1]
      BY <1>1, <3>1
    <3> QED BY <3>1, <3>2
  <2> QED BY <2>1, <2>2
<1>4. \A i \in 1 .. Len(h) : h[i] <= at
  BY <1>2 DEF UpTo
<1>5. \A i \in DOMAIN l : l[i] <= at /\ l[i] \in Nat
  BY <1>2, <1>3, <1>4
<1>6. ASSUME NEW i \in DOMAIN l, NEW j \in DOMAIN l, i <= j PROVE l[i] >= l[j]
  <2>1. CASE i = 1
    BY <1>1, <1>5, <2>1
  <2>2. CASE i # 1
    <3>1. /\ i - 1 \in 1 .. Len(h) /\ (i - 1) + 1 = i
          /\ j - 1 \in 1 .. Len(h) /\ (j - 1) + 1 = j /\ i - 1 <= j - 1
      BY <1>2, <1>6, <2>2
    <3>2. l[(i - 1) + 1] = h[i - 1] /\ l[(j - 1) + 1] = h[j - 1]
      BY <1>1, <3>1
    <3>3. h[i - 1] >= h[j - 1]
      BY <1>2, <3>1 DEF Falling
    <3> QED BY <3>1, <3>2, <3>3
  <2> QED BY <2>1, <2>2
<1>7. UpTo(l, now)
  BY <1>5 DEF UpTo
<1>8. Falling(l)
  BY <1>6 DEF Falling
<1> QED BY <1>7, <1>8 DEF l

\* What the invariant says of a bucket, with the types it needs.
LEMMA BucketFacts ==
  ASSUME ThrottleInv, NEW b \in Bucket
  PROVE  /\ cache[b].history \in Seq(Nat)
         /\ cache[b].expires \in Nat
         /\ allowed[b] \in Counts
         /\ blind[b] \in Nat \cup {None}
         /\ clock \in Nat /\ clock \in 0 .. MaxTime
         /\ BucketInv(cache[b], allowed[b], clock, blind[b])
<1>1. cache[b] \in Entry /\ allowed[b] \in Counts /\ blind[b] \in Nat \cup {None}
  BY DEF ThrottleInv, TypeOK, Counts
<1>2. clock \in Nat /\ clock \in 0 .. MaxTime
  BY BoundsAssumption DEF ThrottleInv, TypeOK
<1> QED BY <1>1, <1>2 DEF ThrottleInv, Entry

\* What it says of a check.
LEMMA CheckFacts ==
  ASSUME ThrottleInv, NEW w \in Worker, pc[w] # "idle"
  PROVE  /\ check[w] \in Check
         /\ check[w].limit \in Bucket /\ check[w].bucket = check[w].limit
         /\ check[w].history \in Seq(Nat) /\ check[w].at \in Nat
         /\ pc[w] \in {"timer", "set"}
         /\ CheckInv(check[w], allowed[check[w].limit], clock, pc[w] = "set")
<1>1. check[w] \in Check /\ pc[w] \in {"timer", "set"}
  BY DEF ThrottleInv, TypeOK
<1>2. CheckInv(check[w], allowed[check[w].limit], clock, pc[w] = "set")
  BY DEF ThrottleInv
<1> QED BY <1>1, <1>2 DEF Check, CheckInv

\* A key that is not there.
LEMMA AbsentInv ==
  ASSUME NEW c, NEW now, NEW seen, PassesAfter(c, now, seen) = {},
         \A t \in 0 .. MaxTime : t > now => c[t] = 0
  PROVE  BucketInv(Absent, c, now, seen) /\ Absent \in Entry
<1>1. Absent.history = <<>> /\ Absent.expires = 0 /\ Absent \in Entry
  BY DEF Absent, Entry
<1>2. DOMAIN <<>> = {} /\ Len(<<>>) = 0
  OBVIOUS
<1>3. Numbered(<<>>, c, now) /\ Listed(<<>>, c, now, seen)
  BY NumberedEmpty, ListedNone
<1>4. Falling(<<>>) /\ UpTo(<<>>, now) /\ UpTo(<<>>, 0 - Duration)
  BY <1>2 DEF Falling, UpTo
<1>5. 0 <= Rate
  BY RateAssumption
<1> HIDE DEF Absent
<1> QED BY <1>1, <1>2, <1>3, <1>4, <1>5 DEF BucketInv

-----------------------------------------------------------------------------
(* The invariant holds at first, and each step keeps it.                   *)

\* Nothing is let through before the first check.
LEMMA InitIsSound == Init => ThrottleInv
<1> SUFFICES ASSUME Init PROVE ThrottleInv
  OBVIOUS
<1>1. TypeOK
  <2>1. cache \in [Bucket -> Entry]
    BY DEF Init, Entry, Absent
  <2> QED BY <2>1, BoundsAssumption DEF Init, TypeOK
<1>2. ASSUME NEW b \in Bucket PROVE BucketInv(cache[b], allowed[b], clock, blind[b])
  <2>1. cache[b] = Absent /\ clock = 0 /\ \A t \in 0 .. MaxTime : allowed[b][t] = 0
    BY <1>2 DEF Init
  <2>2. PassesAfter(allowed[b], clock, blind[b]) = {}
    BY <2>1 DEF PassesAfter
  <2> QED BY <2>1, <2>2, AbsentInv
<1>3. \A w \in Worker : pc[w] = "idle"
  BY DEF Init
<1> QED BY <1>1, <1>2, <1>3 DEF ThrottleInv

\* A check ends and leaves no trace.
LEMMA CheckDone ==
  ASSUME ThrottleInv, NEW w \in Worker,
         pc' = [pc EXCEPT ![w] = "idle"], check' = [check EXCEPT ![w] = NoCheck],
         UNCHANGED <<clock, up, outages, cache, allowed, blind, checks>>
  PROVE  ThrottleInv'
<1>1. /\ DOMAIN check' = Worker /\ check'[w] = NoCheck /\ pc'[w] = "idle"
      /\ \A v \in Worker \ {w} : check'[v] = check[v] /\ pc'[v] = pc[v]
      /\ pc' \in [Worker -> {"idle", "timer", "set"}]
  BY DEF ThrottleInv, TypeOK
<1>2. TypeOK'
  <2>1. \A v \in Worker : IF pc'[v] = "idle" THEN check'[v] = NoCheck ELSE check'[v] \in Check
    BY <1>1 DEF ThrottleInv, TypeOK
  <2> QED BY <1>1, <2>1 DEF ThrottleInv, TypeOK
<1>3. ASSUME NEW v \in Worker, pc'[v] # "idle"
      PROVE  CheckInv(check'[v], allowed'[check'[v].limit], clock', pc'[v] = "set")
  BY <1>1, <1>3, CheckFacts
<1> QED BY <1>2, <1>3 DEF ThrottleInv

\* Every endpoint counts in the bucket of its limit.
LEMMA KeysAreLimits ==
  ASSUME NEW endpoint \in Endpoint, NEW ident \in Ident
  PROVE  CacheKey(endpoint, ident) = LimitOf(endpoint, ident) /\ CacheKey(endpoint, ident) \in Bucket
BY DEF CacheKey, LimitOf, ScopeOf, Endpoint, Bucket, Scope

\* A list is read.
LEMMA GetKeeps ==
  ASSUME ThrottleInv, NEW w \in Worker, NEW endpoint \in Endpoint, NEW ident \in Ident,
         Get(w, endpoint, ident)
  PROVE  ThrottleInv'
<1> DEFINE b == CacheKey(endpoint, ident)
           c == [limit |-> LimitOf(endpoint, ident), bucket |-> b, history |-> Cached(b), at |-> 0]
<1>1. b \in Bucket /\ LimitOf(endpoint, ident) = b
  BY KeysAreLimits
<1>2. Cached(b) \in Seq(Nat) /\ Falling(Cached(b)) /\ UpTo(Cached(b), clock)
      /\ Numbered(Cached(b), allowed[b], clock)
  <2> HIDE DEF b
  <2>1. CASE up
    <3>1. Cached(b) = cache[b].history
      BY <2>1 DEF Cached
    <3> QED BY <1>1, <3>1, BucketFacts DEF BucketInv
  <2>2. CASE ~up
    <3>1. Cached(b) = <<>> /\ DOMAIN <<>> = {} /\ <<>> \in Seq(Nat)
      BY <2>2 DEF Cached
    <3>2. Numbered(<<>>, allowed[b], clock)
      BY NumberedEmpty
    <3> QED BY <3>1, <3>2 DEF Falling, UpTo
  <2> QED BY <2>1, <2>2
<1>3. /\ pc[w] = "idle" /\ pc' = [pc EXCEPT ![w] = "timer"]
      /\ check' = [check EXCEPT ![w] = c] /\ checks' = checks + 1 /\ checks < MaxChecks
      /\ UNCHANGED <<clock, up, outages, cache, allowed, blind>>
  BY DEF Get
<1>4. c.limit = b /\ c.bucket = b /\ c.history = Cached(b) /\ c.at = 0 /\ c \in Check
  BY <1>1, <1>2 DEF Check
<1> HIDE DEF c, b
<1>5. CheckInv(c, allowed[c.limit], clock, FALSE)
  BY <1>2, <1>4 DEF CheckInv
<1>6. /\ DOMAIN check' = Worker /\ check'[w] = c /\ pc'[w] = "timer"
      /\ \A v \in Worker \ {w} : check'[v] = check[v] /\ pc'[v] = pc[v]
      /\ pc' \in [Worker -> {"idle", "timer", "set"}]
  BY <1>3 DEF ThrottleInv, TypeOK
<1>7. TypeOK'
  <2>1. \A v \in Worker : IF pc'[v] = "idle" THEN check'[v] = NoCheck ELSE check'[v] \in Check
    BY <1>4, <1>6 DEF ThrottleInv, TypeOK
  <2>2. checks' \in 0 .. MaxChecks
    BY <1>3, BoundsAssumption DEF ThrottleInv, TypeOK
  <2> QED BY <1>3, <1>6, <2>1, <2>2 DEF ThrottleInv, TypeOK
<1>8. ASSUME NEW v \in Worker, pc'[v] # "idle"
      PROVE  CheckInv(check'[v], allowed'[check'[v].limit], clock', pc'[v] = "set")
  <2>1. CASE v = w
    BY <1>3, <1>5, <1>6, <2>1
  <2>2. CASE v # w
    BY <1>3, <1>6, <1>8, <2>2, CheckFacts
  <2> QED BY <2>1, <2>2
<1> QED BY <1>3, <1>7, <1>8 DEF ThrottleInv

\* The list is pruned at the time that is read, and refused or kept.
LEMMA DecideKeeps ==
  ASSUME ThrottleInv, NEW w \in Worker, Decide(w)
  PROVE  ThrottleInv'
<1> DEFINE h == check[w].history
           k == Pruned(h, clock)
           c == [check[w] EXCEPT !.at = clock, !.history = k]
<1>1. pc[w] = "timer" /\ UNCHANGED <<clock, up, outages, cache, allowed, blind, checks>>
  BY DEF Decide
<1>2. /\ check[w] \in Check /\ h \in Seq(Nat) /\ check[w].limit \in Bucket
      /\ check[w].bucket = check[w].limit
      /\ Falling(h) /\ UpTo(h, clock) /\ Numbered(h, allowed[check[w].limit], clock)
  BY <1>1, CheckFacts DEF CheckInv
<1>3. clock \in Nat
  BY BoundsAssumption DEF ThrottleInv, TypeOK
<1>4. ASSUME ~Full(k), pc' = [pc EXCEPT ![w] = "set"], check' = [check EXCEPT ![w] = c]
      PROVE  ThrottleInv'
  <2>1. PICK n \in 0 .. Len(h) :
          k \in Seq(Nat) /\ Len(k) = n /\ \A i \in 1 .. n : k[i] = h[i]
    BY <1>2, <1>3, PrunedIs
  <2>2. Len(k) < Rate
    <3> HIDE DEF k
    <3>1. Len(k) \in Nat
      BY <2>1, LenProperties
    <3> QED BY <1>4, <3>1, RateAssumption DEF Full
  <2> HIDE DEF k
  <2>3. /\ c.limit = check[w].limit /\ c.bucket = check[w].bucket
        /\ c.history = k /\ c.at = clock /\ c \in Check
    BY <1>2, <1>3, <2>1 DEF Check
  <2> HIDE DEF c
  <2>4. Falling(k) /\ UpTo(k, clock) /\ Numbered(k, allowed[check[w].limit], clock)
    <3>1. /\ DOMAIN h = 1 .. Len(h) /\ DOMAIN k = 1 .. n /\ DOMAIN k \subseteq DOMAIN h
          /\ n <= Len(h) /\ \A i \in DOMAIN k : k[i] = h[i]
      <4> HIDE DEF h
      <4>1. DOMAIN h = 1 .. Len(h) /\ DOMAIN k = 1 .. Len(k) /\ Len(h) \in Nat
        BY <1>2, <2>1, LenProperties
      <4> QED BY <2>1, <4>1
    <3> HIDE DEF h
    <3>2. Numbered(k, allowed[check[w].limit], clock)
      BY <1>2, <2>1, <3>1, NumberedHead
    <3> QED BY <1>2, <3>1, <3>2 DEF Falling, UpTo
  <2>5. CheckInv(c, allowed[c.limit], clock, TRUE)
    BY <1>2, <1>3, <2>2, <2>3, <2>4 DEF CheckInv
  <2>6. /\ DOMAIN check' = Worker /\ check'[w] = c /\ pc'[w] = "set"
        /\ \A v \in Worker \ {w} : check'[v] = check[v] /\ pc'[v] = pc[v]
        /\ pc' \in [Worker -> {"idle", "timer", "set"}]
    BY <1>4 DEF ThrottleInv, TypeOK
  <2>7. TypeOK'
    <3>1. \A v \in Worker : IF pc'[v] = "idle" THEN check'[v] = NoCheck ELSE check'[v] \in Check
      BY <2>3, <2>6 DEF ThrottleInv, TypeOK
    <3> QED BY <1>1, <2>6, <3>1 DEF ThrottleInv, TypeOK
  <2>8. ASSUME NEW v \in Worker, pc'[v] # "idle"
        PROVE  CheckInv(check'[v], allowed'[check'[v].limit], clock', pc'[v] = "set")
    <3>1. CASE v = w
      BY <1>1, <2>5, <2>6, <3>1
    <3>2. CASE v # w
      BY <1>1, <2>6, <2>8, <3>2, CheckFacts
    <3> QED BY <3>1, <3>2
  <2> QED BY <1>1, <2>7, <2>8 DEF ThrottleInv
<1>5. ASSUME pc' = [pc EXCEPT ![w] = "idle"], check' = [check EXCEPT ![w] = NoCheck]
      PROVE  ThrottleInv'
  BY <1>1, <1>5, CheckDone
<1>6. \/ pc' = [pc EXCEPT ![w] = "idle"] /\ check' = [check EXCEPT ![w] = NoCheck]
      \/ ~Full(k) /\ pc' = [pc EXCEPT ![w] = "set"] /\ check' = [check EXCEPT ![w] = c]
  <2>1. [check EXCEPT ![w].at = clock, ![w].history = k] = [check EXCEPT ![w] = c]
    BY DEF ThrottleInv, TypeOK
  <2> QED BY <2>1 DEF Decide
<1> QED BY <1>4, <1>5, <1>6

\* The worker is lost.
LEMMA LoseKeeps ==
  ASSUME ThrottleInv, NEW w \in Worker, Lose(w)
  PROVE  ThrottleInv'
BY CheckDone DEF Lose

\* The cache goes away.
LEMMA RedisDownKeeps ==
  ASSUME ThrottleInv, RedisDown
  PROVE  ThrottleInv'
<1>1. /\ UNCHANGED <<clock, cache, pc, check, allowed, blind, checks>>
      /\ up' = FALSE /\ outages' = outages + 1 /\ outages < MaxOutages
  BY DEF RedisDown
<1>2. TypeOK'
  <2>1. outages' \in 0 .. MaxOutages
    BY <1>1, BoundsAssumption DEF ThrottleInv, TypeOK
  <2> QED BY <1>1, <2>1 DEF ThrottleInv, TypeOK
<1> QED BY <1>1, <1>2 DEF ThrottleInv

\* It comes back, with the lists or without.
LEMMA RedisUpKeeps ==
  ASSUME ThrottleInv, RedisUp
  PROVE  ThrottleInv'
<1>1. up' = TRUE /\ UNCHANGED <<clock, outages, pc, check, allowed, checks>>
  BY DEF RedisUp
<1>2. CASE UNCHANGED <<cache, blind>>
  <2>1. TypeOK'
    BY <1>1, <1>2 DEF ThrottleInv, TypeOK
  <2> QED BY <1>1, <1>2, <2>1 DEF ThrottleInv
<1>3. CASE cache' = [b \in Bucket |-> Absent] /\ blind' = [b \in Bucket |-> clock]
  <2>1. ASSUME NEW b \in Bucket
        PROVE  BucketInv(cache'[b], allowed'[b], clock', blind'[b]) /\ cache'[b] \in Entry
    <3>1. /\ allowed[b] \in Counts /\ clock \in Nat
          /\ \A t \in 0 .. MaxTime : t > clock => allowed[b][t] = 0
      BY BucketFacts DEF BucketInv
    <3>2. PassesAfter(allowed[b], clock, clock) = {}
      <4>1. clock # None
        BY <3>1, NoneAssumption
      <4> QED BY <3>1, <4>1, BoundsAssumption DEF PassesAfter
    <3>3. BucketInv(Absent, allowed[b], clock, clock) /\ Absent \in Entry
      BY <3>1, <3>2, AbsentInv
    <3> QED BY <1>1, <1>3, <3>3
  <2>2. TypeOK'
    <3>1. clock \in Nat
      BY BoundsAssumption DEF ThrottleInv, TypeOK
    <3>2. cache' \in [Bucket -> Entry]
      BY <1>3, <2>1
    <3>3. blind' \in [Bucket -> Nat \cup {None}]
      BY <1>3, <3>1
    <3> QED BY <1>1, <3>2, <3>3 DEF ThrottleInv, TypeOK
  <2> QED BY <1>1, <2>1, <2>2 DEF ThrottleInv
<1> QED BY <1>2, <1>3 DEF RedisUp

\* More passes of a limit are counted, and some are no longer listed.
LEMMA BucketKeeps ==
  ASSUME NEW e \in Entry, NEW c \in Counts, NEW d \in Counts, NEW now \in Nat,
         NEW then \in Nat, now <= then, NEW seen, NEW since,
         \A t \in 0 .. MaxTime : then - Duration < t => c[t] <= d[t],
         \A t \in 0 .. MaxTime : t > then => d[t] = 0,
         PassesAfter(d, then, since) \subseteq PassesAfter(c, now, seen),
         BucketInv(e, c, now, seen)
  PROVE  BucketInv(e, d, then, since)
<1>1. e.history \in Seq(Nat)
  BY DEF Entry
<1>2. Numbered(e.history, d, then)
  BY <1>1, NumberedStays DEF BucketInv
<1>3. Listed(e.history, d, then, since)
  BY ListedStays DEF BucketInv
<1>4. UpTo(e.history, then)
  <2>1. \A i \in DOMAIN e.history : e.history[i] \in Nat /\ e.history[i] <= now
    BY <1>1, LenProperties, ElementOfSeq DEF BucketInv, UpTo
  <2> QED BY <2>1 DEF UpTo
<1> QED BY <1>2, <1>3, <1>4 DEF BucketInv

\* So do the lists that were read.
LEMMA CheckKeeps ==
  ASSUME NEW r \in Check, NEW c \in Counts, NEW d \in Counts, NEW now \in Nat,
         NEW then \in Nat, now <= then, NEW decided,
         \A t \in 0 .. MaxTime : then - Duration < t => c[t] <= d[t],
         CheckInv(r, c, now, decided)
  PROVE  CheckInv(r, d, then, decided)
<1>1. r.history \in Seq(Nat) /\ r.at \in Nat
  BY DEF Check
<1>2. Numbered(r.history, d, then)
  BY <1>1, NumberedStays DEF CheckInv
<1>3. UpTo(r.history, then)
  <2>1. \A i \in DOMAIN r.history : r.history[i] \in Nat /\ r.history[i] <= now
    BY <1>1, LenProperties, ElementOfSeq DEF CheckInv, UpTo
  <2> QED BY <2>1 DEF UpTo
<1>4. decided => r.at <= then
  BY <1>1 DEF CheckInv
<1> QED BY <1>2, <1>3, <1>4 DEF CheckInv

\* The list is written back with the time of the check, or the write is lost.
LEMMA SetKeeps ==
  ASSUME ThrottleInv, NEW w \in Worker, Set(w)
  PROVE  ThrottleInv'
<1> DEFINE c == check[w]
           b == c.limit
           at == c.at
           d == [allowed[b] EXCEPT ![at] = @ + 1]
           lost == ~up \/ Pruned(Cached(c.bucket), at) # c.history
           e == [history |-> WithEntry(c.history, at), expires |-> clock + Duration]
<1>1. pc[w] = "set" /\ UNCHANGED <<clock, up, outages, checks>>
      /\ pc' = [pc EXCEPT ![w] = "idle"] /\ check' = [check EXCEPT ![w] = NoCheck]
  BY DEF Set
<1>2. /\ c \in Check /\ b \in Bucket /\ c.bucket = b /\ c.history \in Seq(Nat) /\ at \in Nat
      /\ Falling(c.history) /\ UpTo(c.history, clock) /\ UpTo(c.history, at)
      /\ at <= clock /\ Len(c.history) < Rate /\ Numbered(c.history, allowed[b], clock)
  BY <1>1, CheckFacts DEF CheckInv
<1>3. clock \in Nat /\ clock \in 0 .. MaxTime /\ at \in 0 .. MaxTime
  BY <1>2, BoundsAssumption DEF ThrottleInv, TypeOK
<1>4. /\ cache' = IF up THEN [cache EXCEPT ![b] = e] ELSE cache
      /\ blind' = IF lost THEN [blind EXCEPT ![b] = clock] ELSE blind
      /\ allowed' = [allowed EXCEPT ![b] = d]
  <2>1. allowed \in [Bucket -> Counts]
    BY DEF ThrottleInv, TypeOK, Counts
  <2> QED BY <1>2, <2>1 DEF Set
<1>5. /\ allowed[b] \in Counts /\ d \in Counts /\ allowed[b][at] \in Nat
      /\ d[at] = allowed[b][at] + 1
      /\ \A t \in 0 .. MaxTime : t # at => d[t] = allowed[b][t]
  <2>1. allowed[b] \in Counts
    BY <1>2 DEF ThrottleInv, TypeOK, Counts
  <2> DEFINE f == allowed[b]
  <2> HIDE DEF c, b, at, f
  <2>2. f \in [0 .. MaxTime -> Nat] /\ at \in 0 .. MaxTime
    BY <1>3, <2>1 DEF Counts, f
  <2>3. f[at] \in Nat /\ f[at] + 1 \in Nat
    BY <2>2
  <2>4. [f EXCEPT ![at] = @ + 1] \in [0 .. MaxTime -> Nat]
    BY <2>2, <2>3
  <2>5. /\ [f EXCEPT ![at] = @ + 1][at] = f[at] + 1
        /\ \A t \in 0 .. MaxTime : t # at => [f EXCEPT ![at] = @ + 1][t] = f[t]
    BY <2>2
  <2> QED BY <2>2, <2>3, <2>4, <2>5 DEF Counts, f
<1> HIDE DEF c, b, at, d, lost
<1>6. /\ \A t \in 0 .. MaxTime : allowed[b][t] <= d[t]
      /\ \A t \in 0 .. MaxTime : t > clock => d[t] = 0
  <2>1. \A t \in 0 .. MaxTime : t > clock => allowed[b][t] = 0
    BY <1>2, BucketFacts DEF BucketInv
  <2>2. \A t \in 0 .. MaxTime : allowed[b][t] \in Nat
    BY <1>5 DEF Counts
  <2> QED BY <1>2, <1>3, <1>5, <2>1, <2>2
<1>7. /\ allowed'[b] = d /\ \A x \in Bucket \ {b} : allowed'[x] = allowed[x]
      /\ allowed' \in [Bucket -> Counts]
  BY <1>2, <1>4, <1>5 DEF ThrottleInv, TypeOK, Counts
<1>8. /\ DOMAIN check' = Worker /\ check'[w] = NoCheck /\ pc'[w] = "idle"
      /\ \A v \in Worker \ {w} : check'[v] = check[v] /\ pc'[v] = pc[v]
      /\ pc' \in [Worker -> {"idle", "timer", "set"}]
  BY <1>1 DEF ThrottleInv, TypeOK
<1>9. ASSUME NEW v \in Worker, pc'[v] # "idle"
      PROVE  CheckInv(check'[v], allowed'[check'[v].limit], clock', pc'[v] = "set")
  <2>1. check'[v] = check[v] /\ pc'[v] = pc[v] /\ clock' = clock
    BY <1>1, <1>8, <1>9
  <2>2. /\ check[v] \in Check /\ check[v].limit \in Bucket
        /\ CheckInv(check[v], allowed[check[v].limit], clock, pc[v] = "set")
    BY <1>9, <2>1, CheckFacts
  <2>3. CASE check[v].limit = b
    <3>1. CheckInv(check[v], allowed[b], clock, pc[v] = "set")
      BY <2>2, <2>3
    <3>2. CheckInv(check[v], d, clock, pc[v] = "set")
      BY <1>3, <1>5, <1>6, <2>2, <3>1, CheckKeeps
    <3> QED BY <1>7, <2>1, <2>3, <3>2
  <2>4. CASE check[v].limit # b
    BY <1>7, <2>1, <2>2, <2>4
  <2> QED BY <2>3, <2>4
<1>10. e.history = WithEntry(c.history, at) /\ e.expires = clock + Duration
  OBVIOUS
<1>11. /\ WithEntry(c.history, at) \in Seq(Nat)
       /\ Len(WithEntry(c.history, at)) = Len(c.history) + 1
  BY <1>2, WithEntryIs
<1>12. e \in Entry
  BY <1>3, <1>11, RateAssumption DEF Entry
<1> HIDE DEF e
<1>13. \A x \in Bucket \ {b} : cache'[x] = cache[x] /\ blind'[x] = blind[x]
  BY <1>2, <1>4 DEF ThrottleInv, TypeOK
<1>14. lost => PassesAfter(d, clock, clock) = {}
  <2>1. clock # None
    BY <1>3, NoneAssumption
  <2> QED BY <1>3, <2>1, BoundsAssumption DEF PassesAfter
<1>15. blind'[b] = IF lost THEN clock ELSE blind[b]
  BY <1>2, <1>4 DEF ThrottleInv, TypeOK
<1>16. BucketInv(cache'[b], d, clock, blind'[b])
  <2>1. CASE ~up
    <3>1. cache'[b] = cache[b] /\ blind'[b] = clock
      BY <1>4, <1>15, <2>1 DEF lost
    <3>2. BucketInv(cache[b], allowed[b], clock, blind[b]) /\ cache[b] \in Entry
      BY <1>2, BucketFacts DEF ThrottleInv, TypeOK
    <3>3. PassesAfter(d, clock, clock) \subseteq PassesAfter(allowed[b], clock, blind[b])
      BY <1>14, <2>1 DEF lost
    <3>4. BucketInv(cache[b], d, clock, clock)
      <4>1. /\ \A t \in 0 .. MaxTime : clock - Duration < t => allowed[b][t] <= d[t]
            /\ \A t \in 0 .. MaxTime : t > clock => d[t] = 0
            /\ allowed[b] \in Counts /\ d \in Counts /\ clock \in Nat /\ clock <= clock
        BY <1>3, <1>5, <1>6
      <4> QED BY <3>2, <3>3, <4>1, BucketKeeps
    <3> QED BY <3>1, <3>4
  <2>2. CASE up
    <3> DEFINE l == WithEntry(c.history, at)
    <3>1. cache'[b] = e
      BY <1>2, <1>4, <2>2 DEF ThrottleInv, TypeOK
    <3>2. Falling(l) /\ UpTo(l, clock)
      BY <1>2, <1>3, FallingInsert
    <3>3. Numbered(l, d, clock)
      BY <1>2, <1>3, <1>5, NumberedInsert DEF d
    <3>4. Listed(l, d, clock, blind'[b])
      <4>1. CASE lost
        BY <1>14, <1>15, <4>1, ListedNone
      <4>2. CASE ~lost
        <5>1. c.history = Pruned(cache[b].history, at)
          BY <1>2, <4>2 DEF lost, Cached
        <5>2. /\ cache[b].history \in Seq(Nat) /\ blind[b] \in Nat \cup {None}
              /\ Listed(cache[b].history, allowed[b], clock, blind[b])
          BY <1>2, BucketFacts DEF BucketInv
        <5>3. Listed(WithEntry(Pruned(cache[b].history, at), at), d, clock, blind[b])
          BY <1>2, <1>3, <1>5, <5>2, ListedInsert DEF d
        <5> QED BY <1>15, <4>2, <5>1, <5>3
      <4> QED BY <4>1, <4>2
    <3>5. Len(l) <= Rate
      <4>1. Len(c.history) \in Nat
        BY <1>2, LenProperties
      <4> QED BY <1>2, <1>11, <4>1, RateAssumption
    <3> HIDE DEF l
    <3>6. e.history = l /\ e.expires - Duration = clock
      BY <1>3, <1>10, RateAssumption DEF l
    <3>7. BucketInv(e, d, clock, blind'[b])
      BY <1>6, <3>2, <3>3, <3>4, <3>5, <3>6 DEF BucketInv
    <3> QED BY <3>1, <3>7
  <2> QED BY <2>1, <2>2
<1>17. ASSUME NEW x \in Bucket PROVE BucketInv(cache'[x], allowed'[x], clock', blind'[x])
  <2>1. CASE x = b
    BY <1>1, <1>7, <1>16, <2>1
  <2>2. CASE x # b
    BY <1>1, <1>7, <1>13, <2>2, BucketFacts
  <2> QED BY <2>1, <2>2
<1>18. TypeOK'
  <2>1. \A v \in Worker : IF pc'[v] = "idle" THEN check'[v] = NoCheck ELSE check'[v] \in Check
    BY <1>8 DEF ThrottleInv, TypeOK
  <2>2. cache' \in [Bucket -> Entry]
    BY <1>2, <1>4, <1>12 DEF ThrottleInv, TypeOK
  <2>3. blind' \in [Bucket -> Nat \cup {None}]
    BY <1>2, <1>3, <1>4 DEF ThrottleInv, TypeOK
  <2> QED BY <1>1, <1>7, <1>8, <2>1, <2>2, <2>3 DEF ThrottleInv, TypeOK, Counts
<1> QED BY <1>9, <1>17, <1>18 DEF ThrottleInv

\* Time passes: what is dropped is not recent.
LEMMA TickKeeps ==
  ASSUME ThrottleInv, Tick
  PROVE  ThrottleInv'
<1> DEFINE now == clock + 1
<1>1. /\ clock < MaxTime /\ clock' = now /\ UNCHANGED <<up, outages, pc, check, checks>>
      /\ cache' = [b \in Bucket |-> IF cache[b].expires <= now THEN Absent ELSE cache[b]]
      /\ allowed' = [b \in Bucket |-> [t \in 0 .. MaxTime |->
                        IF now - Duration < t THEN allowed[b][t] ELSE 0]]
      /\ blind' = [b \in Bucket |-> IF blind[b] # None /\ now - Duration < blind[b]
                                    THEN blind[b] ELSE None]
  BY DEF Tick
<1>2. clock \in Nat /\ now \in Nat /\ now \in 0 .. MaxTime /\ clock <= now
  BY <1>1, BoundsAssumption DEF ThrottleInv, TypeOK
<1> HIDE DEF now
<1>3. ASSUME NEW b \in Bucket
      PROVE  /\ allowed'[b] \in Counts
             /\ \A t \in 0 .. MaxTime : now - Duration < t => allowed'[b][t] = allowed[b][t]
             /\ allowed[b] \in Counts /\ blind[b] \in Nat \cup {None}
             /\ \A t \in 0 .. MaxTime : allowed[b][t] \in Nat
  <2>1. allowed[b] \in [0 .. MaxTime -> Nat] /\ blind[b] \in Nat \cup {None}
    BY DEF ThrottleInv, TypeOK
  <2> QED BY <1>1, <2>1 DEF Counts
<1>4. ASSUME NEW b \in Bucket
      PROVE  /\ BucketInv(cache'[b], allowed'[b], now, blind'[b])
             /\ cache'[b] \in Entry /\ blind'[b] \in Nat \cup {None}
  <2>1. /\ cache[b].history \in Seq(Nat) /\ cache[b].expires \in Nat
        /\ BucketInv(cache[b], allowed[b], clock, blind[b]) /\ cache[b] \in Entry
    BY BucketFacts DEF ThrottleInv, TypeOK
  <2>2. blind'[b] = IF blind[b] # None /\ now - Duration < blind[b] THEN blind[b] ELSE None
    BY <1>1
  <2>3. \A t \in 0 .. MaxTime : t > now => allowed'[b][t] = 0
    <3>1. ASSUME NEW t \in 0 .. MaxTime, t > now PROVE allowed'[b][t] = 0
      <4>1. t > clock /\ now - Duration < t
        BY <1>2, <3>1, RateAssumption DEF now
      <4> QED BY <1>3, <2>1, <4>1 DEF BucketInv
    <3> QED BY <3>1
  <2>4. PassesAfter(allowed'[b], now, blind'[b]) \subseteq PassesAfter(allowed[b], clock, blind[b])
    <3> SUFFICES ASSUME NEW p \in PassesAfter(allowed'[b], now, blind'[b])
                 PROVE  p \in PassesAfter(allowed[b], clock, blind[b])
      OBVIOUS
    <3>1. /\ p \in (0 .. MaxTime) \X (Nat \ {0}) /\ now - Duration < p[1] /\ p[1] <= now
          /\ p[2] <= allowed'[b][p[1]] /\ (blind'[b] # None => p[1] > blind'[b])
      BY DEF PassesAfter
    <3>2. p[1] \in 0 .. MaxTime /\ p[1] \in Nat /\ p[2] \in Nat /\ p[2] > 0
      BY <3>1, BoundsAssumption
    <3>3. p[2] <= allowed[b][p[1]] /\ allowed[b][p[1]] \in Nat
      BY <1>3, <3>1, <3>2
    <3>4. p[1] <= clock
      <4>1. CASE p[1] > clock
        <5>1. allowed[b][p[1]] = 0
          BY <2>1, <3>2, <4>1 DEF BucketInv
        <5> QED BY <3>2, <3>3, <5>1
      <4> QED BY <1>2, <3>2, <4>1
    <3>5. clock - Duration < p[1]
      BY <1>2, <3>1, <3>2, RateAssumption DEF now
    <3>6. blind[b] # None => p[1] > blind[b]
      <4>1. blind[b] # None => blind[b] \in Nat
        BY <1>3
      <4> QED BY <1>2, <2>2, <3>1, <3>2, <4>1, RateAssumption
    <3> QED BY <3>1, <3>3, <3>4, <3>5, <3>6 DEF PassesAfter
  <2>5. CASE cache[b].expires <= now
    <3>1. PassesAfter(allowed'[b], now, blind'[b]) = {}
      <4> SUFFICES ASSUME NEW p \in PassesAfter(allowed'[b], now, blind'[b]) PROVE FALSE
        OBVIOUS
      <4>1. p \in PassesAfter(allowed[b], clock, blind[b])
        BY <2>4
      <4>2. PICK g \in [PassesAfter(allowed[b], clock, blind[b]) -> DOMAIN cache[b].history] :
              \A q \in DOMAIN g : cache[b].history[g[q]] = q[1]
        BY <2>1 DEF BucketInv, Listed
      <4>3. g[p] \in DOMAIN cache[b].history /\ cache[b].history[g[p]] = p[1]
        BY <4>1, <4>2
      <4>4. p[1] <= cache[b].expires - Duration
        BY <2>1, <4>3 DEF BucketInv, UpTo
      <4>5. p[1] \in Nat /\ now - Duration < p[1]
        BY BoundsAssumption DEF PassesAfter
      <4> QED BY <1>2, <2>1, <2>5, <4>4, <4>5, RateAssumption
    <3>2. cache'[b] = Absent
      BY <1>1, <2>5
    <3> QED BY <1>3, <2>2, <2>3, <3>1, <3>2, AbsentInv
  <2>6. CASE ~(cache[b].expires <= now)
    <3>1. cache'[b] = cache[b]
      BY <1>1, <2>6
    <3>2. \A t \in 0 .. MaxTime : now - Duration < t => allowed[b][t] <= allowed'[b][t]
      BY <1>3
    <3>3. BucketInv(cache[b], allowed'[b], now, blind'[b])
      BY <1>2, <1>3, <2>1, <2>3, <2>4, <3>2, BucketKeeps
    <3> QED BY <1>3, <2>1, <2>2, <3>1, <3>3
  <2> QED BY <2>5, <2>6
<1>5. ASSUME NEW v \in Worker, pc[v] # "idle"
      PROVE  CheckInv(check[v], allowed'[check[v].limit], now, pc[v] = "set")
  <2>1. /\ check[v] \in Check /\ check[v].limit \in Bucket
        /\ CheckInv(check[v], allowed[check[v].limit], clock, pc[v] = "set")
    BY <1>5, CheckFacts
  <2> DEFINE b == check[v].limit
  <2>2. /\ allowed[b] \in Counts /\ allowed'[b] \in Counts
        /\ \A t \in 0 .. MaxTime : now - Duration < t => allowed[b][t] <= allowed'[b][t]
    <3> HIDE DEF b
    <3>1. b \in Bucket
      BY <2>1 DEF b
    <3> QED BY <1>3, <3>1
  <2> QED BY <1>2, <2>1, <2>2, CheckKeeps
<1>6. TypeOK'
  <2>1. cache' \in [Bucket -> Entry]
    BY <1>1, <1>4
  <2>2. blind' \in [Bucket -> Nat \cup {None}]
    BY <1>1, <1>4
  <2>3. allowed' \in [Bucket -> [0 .. MaxTime -> Nat]]
    <3>1. \A b \in Bucket : allowed'[b] \in [0 .. MaxTime -> Nat]
      BY <1>3 DEF Counts
    <3> QED BY <1>1, <3>1
  <2> QED BY <1>1, <1>2, <2>1, <2>2, <2>3 DEF ThrottleInv, TypeOK
<1> QED BY <1>1, <1>4, <1>5, <1>6 DEF ThrottleInv

\* Each step keeps the invariant.
LEMMA StepKeeps == ThrottleInv /\ [Next]_vars => ThrottleInv'
<1> SUFFICES ASSUME ThrottleInv, [Next]_vars PROVE ThrottleInv'
  OBVIOUS
<1>1. ASSUME NEW w \in Worker, NEW endpoint \in Endpoint, NEW ident \in Ident,
             Get(w, endpoint, ident)
      PROVE  ThrottleInv'
  BY <1>1, GetKeeps
<1>2. ASSUME NEW w \in Worker, Decide(w) PROVE ThrottleInv'
  BY <1>2, DecideKeeps
<1>3. ASSUME NEW w \in Worker, Set(w) PROVE ThrottleInv'
  BY <1>3, SetKeeps
<1>4. ASSUME NEW w \in Worker, Lose(w) PROVE ThrottleInv'
  BY <1>4, LoseKeeps
<1>5. CASE UNCHANGED vars
  <2>1. TypeOK'
    BY <1>5 DEF ThrottleInv, TypeOK, vars
  <2> QED BY <1>5, <2>1 DEF ThrottleInv, vars
<1> QED BY <1>1, <1>2, <1>3, <1>4, <1>5, RedisDownKeeps, RedisUpKeeps, TickKeeps DEF Next

\* The invariant always holds.
LEMMA ThrottleInvariance == Spec => []ThrottleInv
BY InitIsSound, StepKeeps, PTL DEF Spec

-----------------------------------------------------------------------------
(* What follows.                                                           *)

\* The lists are lists of times, the checks and the counts what they should
\* be.
THEOREM ThrottleTypeCorrect == Spec => []TypeOK
<1>1. ThrottleInv => TypeOK
  BY DEF ThrottleInv
<1> QED BY <1>1, ThrottleInvariance, PTL

\* However the checks of the workers overlap, a list stays sorted and no
\* longer than the rate.
THEOREM ListsStaySorted == Spec => []NewestFirst
<1>1. ThrottleInv => NewestFirst
  BY DEF ThrottleInv, BucketInv, Falling, NewestFirst
<1> QED BY <1>1, ThrottleInvariance, PTL

\* A limit that has lost no entry in the period lets no more than its rate
\* through, whatever the workers do at the same time.
THEOREM OnlyBlindLimitsExceed == Spec => []ExceededOnlyIfBlind
<1>1. ASSUME ThrottleInv PROVE ExceededOnlyIfBlind
  <2> SUFFICES ASSUME NEW b \in Bucket, blind[b] = None PROVE ~(Recent(b) > Rate)
    BY DEF ExceededOnlyIfBlind
  <2>1. /\ cache[b].history \in Seq(Nat) /\ Len(cache[b].history) <= Rate
        /\ Listed(cache[b].history, allowed[b], clock, None) /\ TypeOK
    BY <1>1, BucketFacts DEF BucketInv, ThrottleInv
  <2>2. Recent(b) <= Len(cache[b].history)
    BY <2>1, PassesAreEntries
  <2>3. Len(cache[b].history) \in Nat /\ Recent(b) \in Nat
    BY <2>1, LenProperties, PassesIs, FS_CardinalityType DEF Recent
  <2> QED BY <2>1, <2>2, <2>3, RateAssumption
<1> QED BY <1>1, ThrottleInvariance, PTL

\* Whoever is refused was let through as often as the rate allows in the
\* last period: a list holds nothing but passes of its own limit, each once,
\* and what is left of it when it refuses is of the period.
THEOREM RefusalsAreDeserved == Spec => RefusedOnlyOverRate
<1>1. ASSUME ThrottleInv, [Next]_vars, NEW w \in Worker, pc[w] = "timer", pc'[w] = "idle"
      PROVE  Recent(check[w].limit) >= Rate
  <2>1. Decide(w)
    <3>1. ASSUME NEW v \in Worker, NEW endpoint \in Endpoint, NEW ident \in Ident,
                 Get(v, endpoint, ident)
          PROVE  FALSE
      BY <1>1, <3>1 DEF Get, ThrottleInv, TypeOK
    <3>2. ASSUME NEW v \in Worker, Set(v) \/ Lose(v) PROVE FALSE
      BY <1>1, <3>2 DEF Set, Lose, ThrottleInv, TypeOK
    <3>3. ASSUME NEW v \in Worker, Decide(v) PROVE v = w
      BY <1>1, <3>3 DEF Decide, ThrottleInv, TypeOK
    <3>4. CASE RedisDown \/ RedisUp \/ Tick \/ UNCHANGED vars
      BY <1>1, <3>4 DEF RedisDown, RedisUp, Tick, vars
    <3> QED BY <1>1, <3>1, <3>2, <3>3, <3>4 DEF Next
  <2> DEFINE h == check[w].history
             k == Pruned(h, clock)
             b == check[w].limit
  <2>2. /\ h \in Seq(Nat) /\ b \in Bucket /\ clock \in Nat /\ TypeOK
        /\ Falling(h) /\ UpTo(h, clock) /\ Numbered(h, allowed[b], clock)
    BY <1>1, CheckFacts, BoundsAssumption DEF CheckInv, ThrottleInv, TypeOK
  <2>3. Full(k)
    BY <1>1, <2>1 DEF Decide, ThrottleInv, TypeOK
  <2> HIDE DEF h, b
  <2>4. PICK n \in 0 .. Len(h) :
          /\ k \in Seq(Nat) /\ Len(k) = n
          /\ n > 0 => h[n] > clock - Duration
    BY <2>2, PrunedIs
  <2>5. n >= Rate
    BY <2>3, <2>4 DEF Full
  <2>6. \A i \in 1 .. n : h[i] > clock - Duration
    <3>1. /\ DOMAIN h = 1 .. Len(h) /\ Len(h) \in Nat
          /\ \A i \in 1 .. Len(h) : h[i] \in Nat
      BY <2>2, LenProperties, ElementOfSeq
    <3> SUFFICES ASSUME NEW i \in 1 .. n PROVE h[i] > clock - Duration
      OBVIOUS
    <3>2. i \in DOMAIN h /\ n \in DOMAIN h /\ i <= n /\ n > 0 /\ h[i] \in Nat /\ h[n] \in Nat
      BY <3>1
    <3>3. h[i] >= h[n]
      BY <2>2, <3>2 DEF Falling
    <3> QED BY <2>2, <2>4, <3>2, <3>3, RateAssumption
  <2>7. n <= Recent(b)
    BY <2>2, <2>6, EntriesArePasses
  <2>8. Recent(b) \in Nat /\ n \in Nat
    <3>1. Len(h) \in Nat
      BY <2>2, LenProperties
    <3> QED BY <2>2, <3>1, PassesIs, FS_CardinalityType DEF Recent
  <2>9. Recent(b) >= Rate
    BY <2>5, <2>7, <2>8, RateAssumption
  <2> QED BY <2>9 DEF b
<1>2. ThrottleInv /\ [Next]_vars =>
        [\A w \in Worker : pc[w] = "timer" /\ pc'[w] = "idle" =>
            Recent(check[w].limit) >= Rate]_vars
  BY <1>1
<1> QED BY <1>2, ThrottleInvariance, PTL DEF Spec, RefusedOnlyOverRate
=============================================================================
