---------------------------- MODULE TimingProofs ----------------------------
(***************************************************************************)
(* Proofs about Timing: for all messages, times and failures, the global   *)
(* statistics that other processes read add up and never go back, and the  *)
(* blocks that no failure fell into are read whole.                        *)
(***************************************************************************)
EXTENDS Timing, FiniteSetTheorems, SequenceTheorems, TLAPS

-----------------------------------------------------------------------------
(* Ranges.                                                                 *)

LEMMA BoundsAre ==
    /\ DOMAIN Bounds = 1 .. 8 /\ Len(Bounds) = 8
    /\ Bounds[1] = 1 /\ Bounds[2] = 10 /\ Bounds[3] = 100 /\ Bounds[4] = 1000
    /\ Bounds[5] = 10000 /\ Bounds[6] = 100000 /\ Bounds[7] = 1000000 /\ Bounds[8] = 10000000
BY DEF Bounds

LEMMA RangeOfIs ==
    ASSUME NEW t \in Nat, NEW k \in 0 .. 8, \A i \in 1 .. 8 : t >= Bounds[i] <=> i <= k
    PROVE  RangeOf(t) = k + 1
<1> DEFINE below == {i \in DOMAIN Bounds : t >= Bounds[i]}
<1>1. below = 1 .. k
  <2>1. \A i \in 1 .. k : i \in 1 .. 8
    OBVIOUS
  <2> QED
    BY <2>1, BoundsAre
<1>2. Cardinality(1 .. k) = k
  <2>1. Cardinality(1 .. k) = IF 1 > k THEN 0 ELSE k - 1 + 1
    BY FS_Interval
  <2> QED
    BY <2>1
<1>3. RangeOf(t) = 1 + Cardinality(below)
  BY DEF RangeOf
<1> HIDE DEF below
<1> QED
  BY <1>1, <1>2, <1>3

\* A time lies between the bounds of its range.
LEMMA RangeOfPlace ==
    ASSUME NEW t \in Nat
    PROVE  /\ RangeOf(t) \in 1 .. 9
           /\ RangeLow(RangeOf(t)) \in Nat /\ RangeLow(RangeOf(t)) <= t
           /\ RangeOf(t) <= Len(Bounds) => t < Bounds[RangeOf(t)]
<1> DEFINE Upto(k) == \A i \in 1 .. 8 : t >= Bounds[i] <=> i <= k
<1>1. ASSUME NEW k \in 0 .. 8, Upto(k) PROVE RangeOf(t) = k + 1
  BY <1>1, RangeOfIs
<1>2. \E k \in 0 .. 8 : Upto(k)
  <2>1. \A i \in 1 .. 8 : i \in {1, 2, 3, 4, 5, 6, 7, 8}
    OBVIOUS
  <2>2. CASE t < 1 
    <3>1. Upto(0)
      BY <2>1, <2>2, BoundsAre
    <3> QED
      BY <3>1
  <2>3. CASE 1 <= t /\ t < 10
    <3>1. Upto(1)
      BY <2>1, <2>3, BoundsAre
    <3> QED
      BY <3>1
  <2>4. CASE 10 <= t /\ t < 100
    <3>1. Upto(2)
      BY <2>1, <2>4, BoundsAre
    <3> QED
      BY <3>1
  <2>5. CASE 100 <= t /\ t < 1000
    <3>1. Upto(3)
      BY <2>1, <2>5, BoundsAre
    <3> QED
      BY <3>1
  <2>6. CASE 1000 <= t /\ t < 10000
    <3>1. Upto(4)
      BY <2>1, <2>6, BoundsAre
    <3> QED
      BY <3>1
  <2>7. CASE 10000 <= t /\ t < 100000
    <3>1. Upto(5)
      BY <2>1, <2>7, BoundsAre
    <3> QED
      BY <3>1
  <2>8. CASE 100000 <= t /\ t < 1000000
    <3>1. Upto(6)
      BY <2>1, <2>8, BoundsAre
    <3> QED
      BY <3>1
  <2>9. CASE 1000000 <= t /\ t < 10000000
    <3>1. Upto(7)
      BY <2>1, <2>9, BoundsAre
    <3> QED
      BY <3>1
  <2>10. CASE t >= 10000000
    <3>1. Upto(8)
      BY <2>1, <2>10, BoundsAre
    <3> QED
      BY <3>1
  <2> QED
    BY <2>2, <2>3, <2>4, <2>5, <2>6, <2>7, <2>8, <2>9, <2>10
<1>3. PICK k \in 0 .. 8 : Upto(k)
  BY <1>2
<1>4. RangeOf(t) = k + 1
  BY <1>1, <1>3
<1>5. /\ k >= 1 => k \in 1 .. 8 /\ t >= Bounds[k]
      /\ k + 1 <= 8 => k + 1 \in 1 .. 8 /\ t < Bounds[k + 1]
  <2>1. k >= 1 => k \in 1 .. 8 /\ t >= Bounds[k]
    BY <1>3
  <2>2. ASSUME k + 1 <= 8 PROVE k + 1 \in 1 .. 8 /\ t < Bounds[k + 1]
    <3>1. k + 1 \in 1 .. 8 /\ ~ (k + 1 <= k)
      BY <2>2
    <3>2. ~ (t >= Bounds[k + 1])
      BY <1>3, <3>1
    <3>3. \A i \in 1 .. 8 : Bounds[i] \in Nat
      BY BoundsAre
    <3> QED
      BY <3>1, <3>2, <3>3
  <2> QED
    BY <2>1, <2>2
<1>6. \A i \in 1 .. 8 : Bounds[i] \in Nat
  BY BoundsAre
<1> QED
  <2>1. CASE k = 0
    BY <1>4, <1>5, <2>1, BoundsAre DEF RangeLow
  <2>2. CASE k >= 1
    <3>1. RangeLow(k + 1) = Bounds[k]
      <4>1. k + 1 # 1 /\ (k + 1) - 1 = k
        BY <2>2
      <4> QED
        BY <4>1 DEF RangeLow
    <3> QED
      BY <1>4, <1>5, <1>6, <2>2, <3>1, BoundsAre
  <2> QED
    BY <2>1, <2>2

LEMMA ProductsGrow ==
    ASSUME NEW a \in Nat, NEW b \in Nat, NEW c \in Nat, a <= b
    PROVE  a * c <= b * c /\ a * c \in Nat /\ b * c \in Nat
<1>1. PICK d \in Nat : b = a + d
  <2>1. b - a \in Nat /\ b = a + (b - a)
    OBVIOUS
  <2> QED
    BY <2>1
<1>2. (a + d) * c = a * c + d * c /\ a * c \in Nat /\ d * c \in Nat
  OBVIOUS
<1> QED
  BY <1>1, <1>2

\* A time is counted in a range that may be empty as yet.
LEMMA RangeGrows ==
    ASSUME NEW low \in Nat, NEW c \in Nat, NEW total \in Nat, NEW m \in Nat, NEW n \in Nat, NEW t \in Nat,
           low * c <= total, total <= m * c, low <= t, m <= n, t <= n
    PROVE  low * (c + 1) <= total + t /\ total + t <= n * (c + 1)
<1>1. m * c <= n * c /\ m * c \in Nat /\ n * c \in Nat /\ low * c \in Nat
  BY ProductsGrow
<1>2. low * (c + 1) = low * c + low /\ n * (c + 1) = n * c + n
  OBVIOUS
<1> DEFINE x == low * c
           y == n * c
<1>3. x \in Nat /\ y \in Nat /\ x <= total /\ total <= y
  BY <1>1
<1> HIDE DEF x, y
<1>4. x + low <= total + t /\ total + t <= y + n
  BY <1>3
<1> QED
  BY <1>2, <1>4 DEF x, y

\* Of the counts of the ranges one is one more.
LEMMA SumGrows ==
    ASSUME NEW f, NEW g, NEW r \in 1 .. 9,
           \A q \in 1 .. 9 : RangeCount(f, q) \in Nat,
           \A q \in 1 .. 9 : RangeCount(g, q) = IF q = r THEN RangeCount(f, q) + 1 ELSE RangeCount(f, q)
    PROVE  RangeSum(g) = RangeSum(f) + 1 /\ RangeSum(f) \in Nat
<1> DEFINE c(q) == RangeCount(f, q)
           d(q) == RangeCount(g, q)
<1>1. /\ c(1) \in Nat /\ c(2) \in Nat /\ c(3) \in Nat /\ c(4) \in Nat /\ c(5) \in Nat
      /\ c(6) \in Nat /\ c(7) \in Nat /\ c(8) \in Nat /\ c(9) \in Nat
  OBVIOUS
<1>2. \A q \in 1 .. 9 : d(q) = IF q = r THEN c(q) + 1 ELSE c(q)
  OBVIOUS
<1>3. /\ RangeSum(f) = c(1) + c(2) + c(3) + c(4) + c(5) + c(6) + c(7) + c(8) + c(9)
      /\ RangeSum(g) = d(1) + d(2) + d(3) + d(4) + d(5) + d(6) + d(7) + d(8) + d(9)
  BY DEF RangeSum
<1> HIDE DEF c, d
<1>4. r \in {1, 2, 3, 4, 5, 6, 7, 8, 9}
  OBVIOUS
<1> QED
  BY <1>1, <1>2, <1>3, <1>4

LEMMA NoStatsOK == StatsOK(NoStats)
<1>1. DOMAIN NoStats = {"count", "total", "ranges"}
  BY DEF NoStats
<1>2. NoStats.count = 0 /\ NoStats.total = 0 /\ NoStats.ranges = << >> /\ DOMAIN << >> = {}
  BY DEF NoStats
<1>3. RangeSum(<< >>) = 0
  BY <1>2 DEF RangeSum, RangeCount
<1> QED
  BY <1>1, <1>2, <1>3 DEF StatsOK

LEMMA RangeRecord ==
    ASSUME NEW old \in [count : Nat, total : Nat, max : Nat, mean : Nat], NEW t \in Nat
    PROVE  LET new == [old EXCEPT !.count = @ + 1, !.total = @ + t, !.max = IF @ >= t THEN @ ELSE t]
           IN /\ new \in [count : Nat \ {0}, total : Nat, max : Nat, mean : Nat]
              /\ new.count = old.count + 1 /\ new.total = old.total + t
              /\ new.max = IF old.max >= t THEN old.max ELSE t
<1> DEFINE new == [old EXCEPT !.count = @ + 1, !.total = @ + t, !.max = IF @ >= t THEN @ ELSE t]
           top == IF old.max >= t THEN old.max ELSE t
<1>1. top \in Nat /\ old.count + 1 \in Nat \ {0} /\ old.total + t \in Nat
  OBVIOUS
<1> DEFINE x == old.count + 1
           y == old.total + t
<1>2. new = [old EXCEPT !.count = x, !.total = y, !.max = top]
  OBVIOUS
<1>3. top \in Nat /\ x \in Nat \ {0} /\ y \in Nat
  BY <1>1
<1> HIDE DEF new, top, x, y
<1>4. new.count = x /\ new.total = y /\ new.max = top
  BY <1>2
<1>5. new \in [count : Nat \ {0}, total : Nat, max : Nat, mean : Nat]
  BY <1>2, <1>3
<1> QED
  BY <1>4, <1>5 DEF new, top, x, y

LEMMA AddTimeOK ==
    ASSUME NEW s, StatsOK(s), NEW t \in Nat
    PROVE  /\ StatsOK(add_time(s, t))
           /\ add_time(s, t).count = s.count + 1 /\ add_time(s, t).total = s.total + t
<1> DEFINE r == RangeOf(t)
           old == IF r \in DOMAIN s.ranges THEN s.ranges[r] ELSE NoRange
           new == [old EXCEPT !.count = @ + 1, !.total = @ + t, !.max = IF @ >= t THEN @ ELSE t]
           nr == [q \in DOMAIN s.ranges \cup {r} |-> IF q = r THEN new ELSE s.ranges[q]]
           u == add_time(s, t)
<1>1. u = [count |-> s.count + 1, total |-> s.total + t, ranges |-> nr]
  BY DEF add_time
<1>2. /\ r \in 1 .. 9 /\ RangeLow(r) \in Nat /\ RangeLow(r) <= t
      /\ r <= Len(Bounds) => t < Bounds[r]
  BY RangeOfPlace
<1> DEFINE low == RangeLow(r)
<1>3. /\ old \in [count : Nat, total : Nat, max : Nat, mean : Nat]
      /\ low * old.count <= old.total /\ old.total <= old.max * old.count
      /\ r <= Len(Bounds) => old.max < Bounds[r]
      /\ old.count = RangeCount(s.ranges, r)
  <2>1. CASE r \in DOMAIN s.ranges
    <3>1. RangeOK(r, s.ranges[r])
      BY <2>1 DEF StatsOK
    <3> QED
      BY <2>1, <3>1 DEF RangeOK, RangeCount
  <2>2. CASE r \notin DOMAIN s.ranges
    <3>1. old = NoRange
      BY <2>2
    <3>2. NoRange \in [count : Nat, total : Nat, max : Nat, mean : Nat]
      BY DEF NoRange
    <3>3. NoRange.count = 0 /\ NoRange.total = 0 /\ NoRange.max = 0
      BY DEF NoRange
    <3>4. low * 0 <= 0 /\ 0 <= 0 * 0
      BY <1>2
    <3>5. r <= Len(Bounds) => 0 < Bounds[r]
      <4>1. \A i \in 1 .. 8 : i \in {1, 2, 3, 4, 5, 6, 7, 8}
        OBVIOUS
      <4> HIDE DEF r
      <4> QED
        BY <1>2, <4>1, BoundsAre
    <3> HIDE DEF old, r
    <3> QED
      BY <2>2, <3>1, <3>2, <3>3, <3>4, <3>5 DEF RangeCount
  <2> QED
    BY <2>1, <2>2
<1> HIDE DEF old, r
<1>4. /\ new \in [count : Nat \ {0}, total : Nat, max : Nat, mean : Nat]
      /\ new.count = old.count + 1 /\ new.total = old.total + t
      /\ new.max = IF old.max >= t THEN old.max ELSE t
  <2>1. old \in [count : Nat, total : Nat, max : Nat, mean : Nat]
    BY <1>3
  <2> QED
    BY <2>1, RangeRecord, Zenon
<1>5. RangeOK(r, new)
  <2> DEFINE c == old.count
             a == old.total
             m == old.max
             n == IF m >= t THEN m ELSE t
  <2>1. c \in Nat /\ a \in Nat /\ m \in Nat /\ n \in Nat /\ m <= n /\ t <= n
    BY <1>3
  <2>2. low * c <= a /\ a <= m * c /\ low \in Nat /\ low <= t
    BY <1>2, <1>3
  <2>3. new.count = c + 1 /\ new.total = a + t /\ new.max = n
    BY <1>4
  <2>4. r <= Len(Bounds) => n < Bounds[r]
    BY <1>2, <1>3
  <2>5. new \in [count : Nat \ {0}, total : Nat, max : Nat, mean : Nat]
    BY <1>4
  <2> HIDE DEF new, c, a, m, n, low
  <2>6. low * (c + 1) <= a + t /\ a + t <= n * (c + 1)
    BY <2>1, <2>2, RangeGrows
  <2> QED
    BY <2>3, <2>4, <2>5, <2>6 DEF RangeOK, low
<1> HIDE DEF new
<1>6. DOMAIN nr = DOMAIN s.ranges \cup {r} /\ DOMAIN nr \subseteq 1 .. 9
  BY <1>2 DEF StatsOK
<1>7. \A q \in DOMAIN nr : RangeOK(q, nr[q])
  BY <1>5 DEF StatsOK
<1>8. \A q \in 1 .. 9 : RangeCount(s.ranges, q) \in Nat
  BY DEF StatsOK, RangeOK, RangeCount
<1>9. \A q \in 1 .. 9 : RangeCount(nr, q) = IF q = r THEN RangeCount(s.ranges, q) + 1 ELSE RangeCount(s.ranges, q)
  BY <1>3, <1>4 DEF RangeCount
<1> HIDE DEF nr
<1>10. RangeSum(nr) = RangeSum(s.ranges) + 1
  BY <1>2, <1>8, <1>9, SumGrows
<1> HIDE DEF u
<1>11. /\ DOMAIN u = {"count", "total", "ranges"} /\ u.count = s.count + 1 /\ u.total = s.total + t
       /\ u.ranges = nr
  BY <1>1
<1>12. s.count \in Nat /\ s.total \in Nat /\ s.count = RangeSum(s.ranges)
  BY DEF StatsOK
<1>13. StatsOK(u)
  BY <1>6, <1>7, <1>10, <1>11, <1>12 DEF StatsOK
<1> QED
  BY <1>11, <1>13 DEF u

-----------------------------------------------------------------------------
(* Entries.                                                                *)

LEMMA StatsAreNumbers ==
    ASSUME NEW g, InMemory(g), NEW k \in DOMAIN g
    PROVE  StatsOK(g[k]) /\ g[k].count \in Nat /\ g[k].total \in Nat
BY DEF InMemory, StatsOK

LEMMA WithinItself ==
    ASSUME NEW g, InMemory(g)
    PROVE  Within(g, g)
BY StatsAreNumbers DEF Within

LEMMA WithinTransitive ==
    ASSUME NEW f, NEW g, NEW h, InMemory(f), InMemory(g), InMemory(h), Within(f, g), Within(g, h)
    PROVE  Within(f, h)
<1> SUFFICES ASSUME NEW k \in DOMAIN f
             PROVE  k \in DOMAIN h /\ f[k].count <= h[k].count /\ f[k].total <= h[k].total
  BY DEF Within
<1>1. k \in DOMAIN g /\ k \in DOMAIN h
  BY DEF Within
<1> DEFINE a == f[k].count
           b == g[k].count
           c == h[k].count
           x == f[k].total
           y == g[k].total
           z == h[k].total
<1>2. a \in Nat /\ b \in Nat /\ c \in Nat /\ x \in Nat /\ y \in Nat /\ z \in Nat
  BY <1>1, StatsAreNumbers
<1>3. a <= b /\ b <= c /\ x <= y /\ y <= z
  BY <1>1 DEF Within
<1> HIDE DEF a, b, c, x, y, z
<1>4. a <= c /\ x <= z
  BY <1>2, <1>3
<1> QED
  BY <1>1, <1>4 DEF a, c, x, z

LEMMA AddGlobalTimeOK ==
    ASSUME NEW g, InMemory(g), NEW side, NEW root, NEW kind, NEW t \in Int
    PROVE  /\ InMemory(add_global_time(g, side, root, kind, t))
           /\ Within(g, add_global_time(g, side, root, kind, t))
<1>1. CASE t < 0
  BY <1>1, WithinItself DEF add_global_time
<1>2. CASE t >= 0
  <2> DEFINE k == <<side, root, kind>>
             s == At(g, k, NoStats)
             v == add_time(s, t)
             h == add_global_time(g, side, root, kind, t)
  <2>1. h = [x \in DOMAIN g \cup {k} |-> IF x = k THEN v ELSE g[x]]
    BY <1>2 DEF add_global_time, Put
  <2>2. StatsOK(s)
    BY NoStatsOK, StatsAreNumbers DEF At
  <2>3. t \in Nat /\ s.count \in Nat /\ s.total \in Nat /\ (k \in DOMAIN g => s = g[k])
    BY <1>2, <2>2 DEF StatsOK, At
  <2> HIDE DEF s, k
  <2>4. StatsOK(v) /\ v.count = s.count + 1 /\ v.total = s.total + t
    BY <2>2, <2>3, AddTimeOK
  <2> HIDE DEF v, h
  <2>5. InMemory(h)
    BY <2>1, <2>4 DEF InMemory
  <2>6. Within(g, h)
    <3> SUFFICES ASSUME NEW x \in DOMAIN g
                 PROVE  x \in DOMAIN h /\ g[x].count <= h[x].count /\ g[x].total <= h[x].total
      BY DEF Within
    <3>1. CASE x = k
      <4>1. s = g[x] /\ h[x] = v /\ x \in DOMAIN h
        BY <2>1, <2>3, <3>1
      <4>2. s.count <= v.count /\ s.total <= v.total
        BY <2>3, <2>4
      <4> QED
        BY <4>1, <4>2
    <3>2. CASE x # k
      <4>1. h[x] = g[x] /\ x \in DOMAIN h
        BY <2>1, <3>2
      <4>2. g[x].count \in Nat /\ g[x].total \in Nat
        BY StatsAreNumbers
      <4> QED
        BY <4>1, <4>2
    <3> QED
      BY <3>1, <3>2
  <2> QED
    BY <2>5, <2>6 DEF h
<1> QED
  BY <1>1, <1>2

LEMMA AddGlobalStatsOK ==
    ASSUME NEW g, InMemory(g), NEW a, a.tezedge \in Int, a.irmin \in Int
    PROVE  InMemory(add_global_stats(g, a)) /\ Within(g, add_global_stats(g, a))
<1> DEFINE h == add_global_time(g, "tezedge", a.root, a.kind, a.tezedge)
           i == add_global_time(h, "irmin", a.root, a.kind, a.irmin)
<1>1. InMemory(h) /\ Within(g, h)
  BY AddGlobalTimeOK
<1>2. add_global_stats(g, a) = i
  BY DEF add_global_stats
<1> HIDE DEF h
<1>3. InMemory(i) /\ Within(h, i)
  BY <1>1, AddGlobalTimeOK
<1> HIDE DEF i
<1> QED
  BY <1>1, <1>2, <1>3, WithinTransitive

\* compute_mean changes nothing but the means.
LEMMA ComputeMeanOK ==
    ASSUME NEW s, StatsOK(s)
    PROVE  /\ StatsOK(compute_mean(s)) /\ MeansOK(compute_mean(s))
           /\ compute_mean(s).count = s.count /\ compute_mean(s).total = s.total
<1> DEFINE u == compute_mean(s)
           with(r) == [s.ranges[r] EXCEPT !.mean = s.ranges[r].total \div s.ranges[r].count]
<1>1. DOMAIN s = {"count", "total", "ranges"}
  BY DEF StatsOK
<1>2. /\ u.count = s.count /\ u.total = s.total /\ DOMAIN u = DOMAIN s
      /\ u.ranges = [r \in DOMAIN s.ranges |-> with(r)]
  BY <1>1, Zenon DEF compute_mean
<1>3. ASSUME NEW r \in DOMAIN s.ranges
      PROVE  /\ RangeOK(r, with(r)) /\ with(r).count = s.ranges[r].count
             /\ with(r).mean = with(r).total \div with(r).count
  <2> DEFINE x == s.ranges[r]
             mean == x.total \div x.count
  <2>1. RangeOK(r, x)
    BY DEF StatsOK
  <2>2. x \in [count : Nat \ {0}, total : Nat, max : Nat, mean : Nat]
    BY <2>1 DEF RangeOK
  <2>3. x.count \in Nat /\ x.count # 0 /\ x.total \in Nat
    BY <2>2
  <2>4. mean \in Nat
    <3> DEFINE a == x.total
               b == x.count
    <3>1. a \in Nat /\ b \in Nat /\ b > 0
      BY <2>3
    <3> HIDE DEF a, b, x
    <3>2. a \div b \in Nat
      BY <3>1
    <3> QED
      BY <3>2 DEF a, b
  <2> DEFINE w == [x EXCEPT !.mean = mean]
  <2>5. with(r) = w
    OBVIOUS
  <2> HIDE DEF x
  <2>6. mean = x.total \div x.count
    OBVIOUS
  <2> HIDE DEF mean
  <2>7. /\ w \in [count : Nat \ {0}, total : Nat, max : Nat, mean : Nat]
        /\ w.count = x.count /\ w.total = x.total /\ w.max = x.max /\ w.mean = mean
    BY <2>2, <2>4
  <2> HIDE DEF w
  <2>8. RangeOK(r, w)
    BY <2>1, <2>7 DEF RangeOK
  <2> HIDE DEF with
  <2> QED
    BY <2>5, <2>6, <2>7, <2>8 DEF x
<1> HIDE DEF with, u
<1>4. DOMAIN u.ranges = DOMAIN s.ranges /\ \A r \in DOMAIN s.ranges : u.ranges[r] = with(r)
  BY <1>2
<1>5. RangeSum(u.ranges) = RangeSum(s.ranges)
  <2>1. \A q : RangeCount(u.ranges, q) = RangeCount(s.ranges, q)
    BY <1>3, <1>4 DEF RangeCount
  <2> QED
    BY <2>1 DEF RangeSum
<1>6. StatsOK(u)
  BY <1>2, <1>3, <1>4, <1>5 DEF StatsOK
<1>7. MeansOK(u)
  BY <1>3, <1>4 DEF MeansOK
<1> QED
  BY <1>2, <1>6, <1>7 DEF u

-----------------------------------------------------------------------------
(* The database.                                                           *)

\* The statements that do not write global statistics.
LEMMA StatementsKeepGlobal ==
    ASSUME NEW d, "global" \in DOMAIN d
    PROVE  /\ \A block, fail : /\ "global" \in DOMAIN InsertBlockRow(d, block, fail)
                               /\ InsertBlockRow(d, block, fail).global = d.global
           /\ "global" \in DOMAIN EndBlock(d) /\ EndBlock(d).global = d.global
           /\ \A time : /\ "global" \in DOMAIN UpdateBlock(d, time)
                        /\ UpdateBlock(d, time).global = d.global
           /\ \A roots : /\ "global" \in DOMAIN sync_block_stats(d, roots)
                         /\ sync_block_stats(d, roots).global = d.global
<1>1. \A block, fail : /\ "global" \in DOMAIN InsertBlockRow(d, block, fail)
                       /\ InsertBlockRow(d, block, fail).global = d.global
  BY Zenon DEF InsertBlockRow
<1>2. "global" \in DOMAIN EndBlock(d) /\ EndBlock(d).global = d.global
  BY Zenon DEF EndBlock, UpdateRow
<1>3. \A time : /\ "global" \in DOMAIN UpdateBlock(d, time)
                /\ UpdateBlock(d, time).global = d.global
  BY Zenon DEF UpdateBlock, UpdateRow
<1>4. \A roots : /\ "global" \in DOMAIN sync_block_stats(d, roots)
                 /\ sync_block_stats(d, roots).global = d.global
  BY Zenon DEF sync_block_stats
<1> QED
  BY <1>1, <1>2, <1>3, <1>4

\* INSERT OR IGNORE and UPDATE of any entries of the statistics in memory.
LEMMA InsertActionStatsOK ==
    ASSUME NEW d, "global" \in DOMAIN d, OnDisk(d.global),
           NEW g, InMemory(g), Within(d.global, g), NEW entries, entries \subseteq DOMAIN g
    PROVE  LET n == insert_action_stats(d, g, entries)
           IN /\ "global" \in DOMAIN n /\ OnDisk(n.global)
              /\ Within(d.global, n.global) /\ Within(n.global, g)
<1> DEFINE n == insert_action_stats(d, g, entries)
           o == d.global
<1>1. /\ "global" \in DOMAIN n
      /\ n.global = [k \in DOMAIN o \cup entries |-> IF k \in entries THEN compute_mean(g[k]) ELSE o[k]]
  BY Zenon DEF insert_action_stats
<1>2. OnDisk(o) /\ Within(o, g)
  OBVIOUS
<1> DEFINE h == n.global
<1>3. /\ DOMAIN h = DOMAIN o \cup entries
      /\ \A k \in entries : h[k] = compute_mean(g[k])
      /\ \A k \in DOMAIN o : k \notin entries => h[k] = o[k]
  BY <1>1
<1> HIDE DEF h, o, n
<1>4. ASSUME NEW k \in entries
      PROVE  /\ StatsOK(h[k]) /\ MeansOK(h[k]) /\ k \in DOMAIN g
             /\ h[k].count = g[k].count /\ h[k].total = g[k].total
             /\ g[k].count \in Nat /\ g[k].total \in Nat
  <2>1. k \in DOMAIN g
    OBVIOUS
  <2>2. StatsOK(g[k]) /\ g[k].count \in Nat /\ g[k].total \in Nat
    BY <2>1, StatsAreNumbers
  <2> QED
    BY <1>3, <2>1, <2>2, ComputeMeanOK
<1>5. OnDisk(h)
  BY <1>2, <1>3, <1>4 DEF OnDisk
<1>6. \A k \in DOMAIN o : o[k].count \in Nat /\ o[k].total \in Nat
  BY <1>2 DEF OnDisk, StatsOK
<1>7. Within(o, h)
  <2> SUFFICES ASSUME NEW k \in DOMAIN o
               PROVE  k \in DOMAIN h /\ o[k].count <= h[k].count /\ o[k].total <= h[k].total
    BY DEF Within
  <2>1. CASE k \in entries
    BY <1>2, <1>3, <1>4, <2>1 DEF Within
  <2>2. CASE k \notin entries
    BY <1>3, <1>6, <2>2
  <2> QED
    BY <2>1, <2>2
<1>8. Within(h, g)
  <2> SUFFICES ASSUME NEW k \in DOMAIN h
               PROVE  k \in DOMAIN g /\ h[k].count <= g[k].count /\ h[k].total <= g[k].total
    BY DEF Within
  <2>1. CASE k \in entries
    BY <1>4, <2>1
  <2>2. CASE k \notin entries
    <3>1. k \in DOMAIN o /\ h[k] = o[k]
      BY <1>3, <2>2
    <3> QED
      BY <1>2, <3>1 DEF Within
  <2> QED
    BY <2>1, <2>2
<1> QED
  BY <1>1, <1>5, <1>7, <1>8 DEF h, o, n

-----------------------------------------------------------------------------
(* Messages.                                                               *)

LEMMA HeadIsMessage ==
    ASSUME channel \in Seq(Messages), channel # << >>
    PROVE  Head(channel) \in Messages /\ Tail(channel) \in Seq(Messages)
OBVIOUS

LEMMA MessageTimes ==
    ASSUME NEW m \in Messages
    PROVE  /\ m.t \in {"Checkout", "Commit"} => m.time.tezedge \in Int /\ m.time.irmin \in Int
           /\ m.t = "Action" => m.action.tezedge \in Int /\ m.action.irmin \in Int
<1>1. m.t \in {"Checkout", "Commit"} => m.time \in Commits
  BY DEF Messages
<1>2. m.t = "Action" => m.action \in Actions
  BY DEF Messages
<1> QED
  BY <1>1, <1>2, TimesAssumption

\* A hook sends, or nothing is sent.
LEMMA HookKeepsChannel ==
    ASSUME channel \in Seq(Messages), NEW m \in Messages, Hook(m)
    PROVE  channel' \in Seq(Messages)
<1>1. channel' = channel \/ channel' = Append(channel, m)
  BY Zenon DEF Hook
<1> QED
  BY <1>1

-----------------------------------------------------------------------------
(* The steps.                                                              *)

\* No global statistics are written: the database keeps its own or goes back
\* to those that were committed.
LEMMA NothingWritten ==
    ASSUME GlobalInv, channel' \in Seq(Messages),
           InMemory(global_stats'), Within(global_stats, global_stats'),
           "global" \in DOMAIN db', "global" \in DOMAIN committed',
           db'.global \in {db.global, committed.global},
           \/ committed'.global = db'.global
           \/ committed'.global = committed.global /\ db'.global = db.global
    PROVE  GlobalInv' /\ Within(committed.global, committed'.global)
<1> DEFINE c == committed.global
           d == db.global
           g == global_stats
<1>1. OnDisk(c) /\ OnDisk(d) /\ InMemory(g) /\ InMemory(g') /\ Within(c, d) /\ Within(d, g) /\ Within(g, g')
  BY DEF GlobalInv
<1>2. InMemory(c) /\ InMemory(d)
  BY <1>1 DEF OnDisk, InMemory
<1>3. Within(d, g') /\ Within(c, g')
  <2>1. Within(d, g')
    BY <1>1, <1>2, WithinTransitive
  <2>2. Within(c, g)
    BY <1>1, <1>2, WithinTransitive
  <2> QED
    BY <1>1, <1>2, <2>1, <2>2, WithinTransitive
<1>4. Within(c, c) /\ Within(d, d)
  BY <1>2, WithinItself
<1>5. OnDisk(db'.global) /\ OnDisk(committed'.global)
  BY <1>1
<1>6. Within(committed'.global, db'.global) /\ Within(db'.global, g')
  BY <1>1, <1>3, <1>4
<1>7. Within(c, committed'.global)
  BY <1>1, <1>4
<1> QED
  BY <1>5, <1>6, <1>7 DEF GlobalInv

\* A statement that does not write global statistics, in the transaction or
\* committed at once.
LEMMA WriteKeepsGlobal ==
    ASSUME GlobalInv, channel' \in Seq(Messages),
           InMemory(global_stats'), Within(global_stats, global_stats'),
           NEW d, "global" \in DOMAIN d, d.global = db.global, Write(d)
    PROVE  GlobalInv' /\ Within(committed.global, committed'.global)
<1>1. db' = d /\ (committed' = committed \/ committed' = d)
  BY DEF Write
<1>2. "global" \in DOMAIN committed
  BY DEF GlobalInv
<1> QED
  BY <1>1, <1>2, NothingWritten

LEMMA ReceiveIs ==
    ASSUME GlobalInv, NEW type, Receive(type)
    PROVE  channel' \in Seq(Messages) /\ Head(channel) \in Messages /\ Head(channel).t = type
BY HeadIsMessage DEF GlobalInv, Receive

LEMMA SameStats ==
    ASSUME GlobalInv, global_stats' = global_stats
    PROVE  InMemory(global_stats') /\ Within(global_stats, global_stats')
BY WithinItself DEF GlobalInv

\* What a step does to the global statistics.
StepOK == GlobalInv' /\ Within(committed.global, committed'.global)

\* set_current_block commits the transaction, or it is rolled back.
LEMMA SetBlockOK == ASSUME GlobalInv, set_current_block PROVE StepOK
<1>1. PICK fail \in {"no", "update", "insert", "find", "commit", "begin"} :
        LET block == Head(channel).block
            ends == block = {} /\ block_started_at
            updated == IF ends /\ fail # "update" THEN EndBlock(db) ELSE db
            inserted == InsertBlockRow(updated, block, fail)
            moved == fail \in {"no", "commit", "begin"}
            refused == transaction /\ (fail = "commit" \/ Dangling(inserted))
        IN /\ Receive("SetBlock") /\ global_stats' = global_stats
           /\ IF ~ moved THEN Write(IF fail = "update" THEN db ELSE inserted)
              ELSE IF refused THEN db' = committed /\ UNCHANGED committed
              ELSE db' = inserted /\ committed' = inserted
  BY Zenon DEF set_current_block
<1> DEFINE block == Head(channel).block
           ends == block = {} /\ block_started_at
           updated == IF ends /\ fail # "update" THEN EndBlock(db) ELSE db
           inserted == InsertBlockRow(updated, block, fail)
           moved == fail \in {"no", "commit", "begin"}
           refused == transaction /\ (fail = "commit" \/ Dangling(inserted))
<1>2. "global" \in DOMAIN db /\ "global" \in DOMAIN committed
  BY DEF GlobalInv
<1>3. "global" \in DOMAIN updated /\ updated.global = db.global
  BY <1>2, StatementsKeepGlobal, Zenon
<1>4. "global" \in DOMAIN inserted /\ inserted.global = db.global
  <2> HIDE DEF updated
  <2>1. \A b, f : /\ "global" \in DOMAIN InsertBlockRow(updated, b, f)
                  /\ InsertBlockRow(updated, b, f).global = updated.global
    BY <1>3, StatementsKeepGlobal
  <2> QED
    BY <1>3, <2>1
<1>5. channel' \in Seq(Messages) /\ InMemory(global_stats') /\ Within(global_stats, global_stats')
  BY <1>1, ReceiveIs, SameStats
<1>6. \/ Write(db) \/ Write(inserted)
      \/ db' = committed /\ committed' = committed
      \/ db' = inserted /\ committed' = inserted
  BY <1>1, Zenon
<1> HIDE DEF inserted
<1>7. CASE Write(db)
  BY <1>2, <1>5, <1>7, WriteKeepsGlobal DEF StepOK
<1>8. CASE Write(inserted)
  BY <1>4, <1>5, <1>8, WriteKeepsGlobal DEF StepOK
<1>9. CASE db' = committed /\ committed' = committed
  BY <1>2, <1>5, <1>9, NothingWritten DEF StepOK
<1>10. CASE db' = inserted /\ committed' = inserted
  BY <1>4, <1>5, <1>10, NothingWritten DEF StepOK
<1> QED
  BY <1>6, <1>7, <1>8, <1>9, <1>10

LEMMA SetOperationOK == ASSUME GlobalInv, set_current_operation PROVE StepOK
<1>1. PICK fail : /\ Receive("SetOperation") /\ global_stats' = global_stats
                  /\ Write([db EXCEPT !.operations =
                        set_current_in(@, Head(channel).operation, current_operation, fail)])
  BY Zenon DEF set_current_operation, stats
<1> DEFINE d == [db EXCEPT !.operations =
                    set_current_in(@, Head(channel).operation, current_operation, fail)]
<1>2. "global" \in DOMAIN d /\ d.global = db.global
  BY Zenon DEF GlobalInv
<1>3. Write(d)
  BY <1>1
<1> HIDE DEF d
<1>4. channel' \in Seq(Messages) /\ InMemory(global_stats') /\ Within(global_stats, global_stats')
  BY <1>1, ReceiveIs, SameStats
<1> QED
  BY <1>2, <1>3, <1>4, WriteKeepsGlobal DEF StepOK

\* insert_checkout adds to the statistics in memory only.
LEMMA CheckoutOK == ASSUME GlobalInv, insert_checkout PROVE StepOK
<1> DEFINE m == Head(channel)
           a == [root |-> "checkout", kind |-> "checkout",
                 tezedge |-> m.time.tezedge, irmin |-> m.time.irmin]
<1>1. PICK fail :
        /\ Receive("Checkout")
        /\ global_stats' = IF current_block = {} THEN global_stats ELSE add_global_stats(global_stats, a)
        /\ Write(IF current_block = {} THEN db
                 ELSE [db EXCEPT !.contexts = set_current_in(@, {m.context}, current_context, fail)])
  BY Zenon DEF insert_checkout
<1>2. m \in Messages /\ m.t = "Checkout" /\ channel' \in Seq(Messages)
  BY <1>1, ReceiveIs
<1>3. a.tezedge \in Int /\ a.irmin \in Int
  BY <1>2, MessageTimes
<1> DEFINE e == [db EXCEPT !.contexts = set_current_in(@, {m.context}, current_context, fail)]
           d == IF current_block = {} THEN db ELSE e
<1>4. "global" \in DOMAIN d /\ d.global = db.global
  <2>1. "global" \in DOMAIN e /\ e.global = db.global
    BY Zenon DEF GlobalInv
  <2> QED
    BY <2>1, Zenon DEF GlobalInv
<1>5. Write(d)
  BY <1>1, Zenon
<1> HIDE DEF a, d
<1>6. InMemory(global_stats') /\ Within(global_stats, global_stats')
  <2>1. CASE current_block = {}
    BY <1>1, <2>1, SameStats
  <2>2. CASE current_block # {}
    BY <1>1, <1>3, <2>2, AddGlobalStatsOK DEF GlobalInv
  <2> QED
    BY <2>1, <2>2
<1> QED
  BY <1>2, <1>4, <1>5, <1>6, WriteKeepsGlobal DEF StepOK

LEMMA ActionOK == ASSUME GlobalInv, insert_action PROVE StepOK
<1> DEFINE a == Head(channel).action
<1>1. PICK fail :
        /\ Receive("Action")
        /\ \/ global_stats' = add_global_stats(global_stats, a)
           \/ global_stats' = global_stats
        /\ \/ Write([db EXCEPT !.keys = @ \cup {a.root}])
           \/ Write(db)
  BY Zenon DEF insert_action
<1>2. channel' \in Seq(Messages) /\ a.tezedge \in Int /\ a.irmin \in Int
  BY <1>1, ReceiveIs, MessageTimes
<1> DEFINE d == [db EXCEPT !.keys = @ \cup {a.root}]
<1>3. "global" \in DOMAIN d /\ d.global = db.global /\ "global" \in DOMAIN db
  BY Zenon DEF GlobalInv
<1>4. Write(d) \/ Write(db)
  BY <1>1
<1> HIDE DEF a, d
<1>5. InMemory(global_stats') /\ Within(global_stats, global_stats')
  BY <1>1, <1>2, SameStats, AddGlobalStatsOK DEF GlobalInv
<1> QED
  BY <1>2, <1>3, <1>4, <1>5, WriteKeepsGlobal DEF StepOK

\* insert_commit writes entries of the statistics, the new ones included, all
\* of them or those before a failure.
LEMMA CommitOK == ASSUME GlobalInv, insert_commit PROVE StepOK
<1> DEFINE m == Head(channel)
           a == [root |-> "commit", kind |-> "commit",
                 tezedge |-> m.time.tezedge, irmin |-> m.time.irmin]
           g == add_global_stats(global_stats, a)
<1>1. PICK fail :
        /\ Receive("Commit")
        /\ global_stats' = IF current_block = {} THEN global_stats ELSE g
        /\ \/ db' = db /\ committed' = committed
           \/ /\ current_block # {}
              /\ \E e \in Written(g, fail) : \E r :
                    Write(sync_block_stats(insert_action_stats(UpdateBlock(db, m.time), g, e), r))
  BY Zenon DEF insert_commit
<1>2. m \in Messages /\ m.t = "Commit" /\ channel' \in Seq(Messages)
  BY <1>1, ReceiveIs
<1>3. a.tezedge \in Int /\ a.irmin \in Int
  BY <1>2, MessageTimes
<1> HIDE DEF a
<1>4. InMemory(g) /\ Within(global_stats, g)
  BY <1>3, AddGlobalStatsOK DEF GlobalInv
<1>5. InMemory(global_stats') /\ Within(global_stats, global_stats')
  BY <1>1, <1>4, SameStats
<1>6. "global" \in DOMAIN db /\ "global" \in DOMAIN committed
  BY DEF GlobalInv
<1> HIDE DEF g
<1>7. CASE db' = db /\ committed' = committed
  BY <1>2, <1>5, <1>6, <1>7, NothingWritten DEF StepOK
<1>8. ASSUME NEW e \in Written(g, fail), NEW r, current_block # {},
             Write(sync_block_stats(insert_action_stats(UpdateBlock(db, m.time), g, e), r))
      PROVE  StepOK
  <2>1. global_stats' = g
    BY <1>1, <1>8
  <2>2. e \subseteq DOMAIN g
    BY DEF Written
  <2> DEFINE u == UpdateBlock(db, m.time)
  <2>3. "global" \in DOMAIN u /\ u.global = db.global
    BY <1>6, StatementsKeepGlobal
  <2> HIDE DEF u
  <2>4. OnDisk(u.global) /\ Within(u.global, global_stats) /\ InMemory(u.global)
    BY <2>3 DEF GlobalInv, OnDisk, InMemory
  <2>5. Within(u.global, g)
    BY <1>4, <2>4, WithinTransitive DEF GlobalInv
  <2> DEFINE n == insert_action_stats(u, g, e)
  <2>6. /\ "global" \in DOMAIN n /\ OnDisk(n.global)
        /\ Within(u.global, n.global) /\ Within(n.global, g)
    BY <1>4, <2>2, <2>3, <2>4, <2>5, InsertActionStatsOK
  <2> HIDE DEF n
  <2> DEFINE d == sync_block_stats(n, r)
  <2>7. "global" \in DOMAIN d /\ d.global = n.global
    BY <2>6, StatementsKeepGlobal
  <2>8. db' = d /\ (committed' = committed \/ committed' = d)
    BY <1>8 DEF Write, u, n
  <2> HIDE DEF d
  <2>9. /\ OnDisk(d.global) /\ Within(db.global, d.global) /\ Within(d.global, g)
        /\ InMemory(d.global)
    BY <2>3, <2>6, <2>7 DEF OnDisk, InMemory
  <2>10. Within(committed.global, d.global)
    <3>1. InMemory(committed.global) /\ InMemory(db.global) /\ Within(committed.global, db.global)
      BY DEF GlobalInv, OnDisk, InMemory
    <3> QED
      BY <2>9, <3>1, WithinTransitive
  <2>11. Within(d.global, d.global) /\ Within(committed.global, committed.global)
    <3>1. InMemory(committed.global)
      BY DEF GlobalInv, OnDisk, InMemory
    <3> QED
      BY <2>9, <3>1, WithinItself
  <2>12. /\ "global" \in DOMAIN db' /\ "global" \in DOMAIN committed' /\ OnDisk(db'.global)
         /\ OnDisk(committed'.global)
    BY <1>6, <2>7, <2>8, <2>9 DEF GlobalInv
  <2>13. /\ Within(committed'.global, db'.global) /\ Within(db'.global, global_stats')
         /\ Within(committed.global, committed'.global)
    BY <2>1, <2>8, <2>9, <2>10, <2>11
  <2> QED
    BY <1>2, <1>5, <2>12, <2>13 DEF StepOK, GlobalInv
<1> QED
  BY <1>1, <1>7, <1>8

\* The steps that leave the database and the statistics alone.
LEMMA OtherStepsOK ==
    ASSUME GlobalInv, (\E m \in Messages : Hook(m)) \/ start_timing \/ InitAgain \/ UNCHANGED vars
    PROVE  StepOK
<1>1. db' = db /\ committed' = committed /\ global_stats' = global_stats
  BY Zenon DEF Hook, start_timing, InitAgain, vars, stats
<1>2. channel' \in Seq(Messages)
  <2>1. CASE \E m \in Messages : Hook(m)
    BY <2>1, HookKeepsChannel DEF GlobalInv
  <2>2. CASE start_timing
    <3>1. channel # << >> /\ (channel' = Tail(channel) \/ channel' = << >>)
      BY <2>2, Zenon DEF start_timing
    <3>2. channel \in Seq(Messages)
      BY DEF GlobalInv
    <3>3. Tail(channel) \in Seq(Messages)
      BY <3>1, <3>2
    <3>4. << >> \in Seq(Messages)
      OBVIOUS
    <3> QED
      BY <3>1, <3>3, <3>4
  <2>3. CASE InitAgain
    BY <2>3, ReceiveIs DEF InitAgain
  <2>4. CASE UNCHANGED vars
    BY <2>4 DEF GlobalInv, vars
  <2> QED
    BY <2>1, <2>2, <2>3, <2>4
<1>3. "global" \in DOMAIN db /\ "global" \in DOMAIN committed
  BY DEF GlobalInv
<1> QED
  BY <1>1, <1>2, <1>3, SameStats, NothingWritten DEF StepOK

LEMMA NextOK == GlobalInv /\ [Next]_vars => StepOK
BY SetBlockOK, SetOperationOK, CheckoutOK, CommitOK, ActionOK, OtherStepsOK DEF Next

LEMMA InitOK == Init => GlobalInv
<1> SUFFICES ASSUME Init PROVE GlobalInv
  OBVIOUS
<1>1. channel \in Seq(Messages)
  BY DEF Init
<1>2. /\ "global" \in DOMAIN EmptyDb /\ EmptyDb.global = << >> /\ DOMAIN << >> = {}
  BY DEF EmptyDb
<1>3. db = EmptyDb /\ committed = EmptyDb /\ global_stats = << >>
  BY DEF Init
<1>4. InMemory(<< >>) /\ OnDisk(<< >>) /\ Within(<< >>, << >>)
  BY <1>2 DEF InMemory, OnDisk, Within
<1> QED
  BY <1>1, <1>2, <1>3, <1>4 DEF GlobalInv

-----------------------------------------------------------------------------
(* The results.                                                            *)

\* Entries on disk are consistent, and those that other processes see are no
\* further than those of the connection, and these than those in memory.
THEOREM GlobalInvHolds == Spec => []GlobalInv
<1>1. Init => GlobalInv
  BY InitOK
<1>2. GlobalInv /\ [Next]_vars => GlobalInv'
  BY NextOK DEF StepOK
<1> QED
  BY <1>1, <1>2, PTL DEF Spec

\* Whatever statement, commit or begin of the timing thread fails and whatever
\* is rolled back, no reader sees a global entry go back.
THEOREM StatsNeverGoBack == Spec => GlobalStatsGrow
<1>1. GlobalInv /\ [Next]_vars =>
        [\A k \in DOMAIN committed.global :
          /\ k \in DOMAIN committed'.global
          /\ committed.global[k].count <= committed'.global[k].count
          /\ committed.global[k].total <= committed'.global[k].total]_vars
  BY NextOK DEF StepOK, Within
<1> QED
  BY <1>1, GlobalInvHolds, PTL DEF Spec, GlobalStatsGrow

\* The mean that compute_mean gives lies between the bounds of its range.
LEMMA MeanInRange ==
    ASSUME NEW low \in Nat, NEW c \in Nat \ {0}, NEW total \in Nat, NEW m \in Nat,
           low * c <= total, total <= m * c
    PROVE  low <= total \div c /\ total \div c <= m
<1> DEFINE q == total \div c
           r == total % c
<1>1. q \in Nat /\ r \in 0 .. c - 1 /\ total = c * q + r
  BY SMTT(60)
<1> HIDE DEF q, r
<1>2. low <= q
  <2> SUFFICES ASSUME q + 1 <= low PROVE FALSE
    BY <1>1
  <2>1. (q + 1) * c <= low * c /\ (q + 1) * c \in Nat /\ low * c \in Nat
    BY <1>1, ProductsGrow
  <2>2. (q + 1) * c = c * q + c
    BY <1>1
  <2> DEFINE x == c * q
             y == low * c
  <2>3. x + c <= y /\ y <= total /\ total = x + r /\ x \in Nat /\ y \in Nat /\ r < c
    BY <1>1, <2>1, <2>2
  <2> HIDE DEF x, y
  <2> QED
    BY <1>1, <2>3
<1>3. q <= m
  <2> SUFFICES ASSUME m + 1 <= q PROVE FALSE
    BY <1>1
  <2>1. (m + 1) * c <= q * c /\ (m + 1) * c \in Nat /\ q * c \in Nat
    BY <1>1, ProductsGrow
  <2>2. (m + 1) * c = m * c + c /\ q * c = c * q
    BY <1>1
  <2> DEFINE x == q * c
             y == m * c
  <2>3. y + c <= x /\ total <= y /\ total = x + r /\ x \in Nat /\ y \in Nat /\ r >= 0
    BY <1>1, <2>1, <2>2
  <2> HIDE DEF x, y
  <2> QED
    BY <1>1, <2>3
<1> QED
  BY <1>2, <1>3 DEF q

\* The sum of the counts of the nine ranges, taken one after the other.
SumOf(s) ==
    LET sum[r \in 0 .. Len(Bounds) + 1] ==
            IF r = 0 THEN 0
            ELSE sum[r - 1] + (IF r \in DOMAIN s.ranges THEN s.ranges[r].count ELSE 0)
    IN sum[Len(Bounds) + 1]

LEMMA SumUnrolls ==
    ASSUME NEW s, \A q \in 1 .. 9 : RangeCount(s.ranges, q) \in Nat
    PROVE  SumOf(s) = RangeSum(s.ranges)
<1> DEFINE f(q) == RangeCount(s.ranges, q)
           sum[r \in 0 .. Len(Bounds) + 1] ==
               IF r = 0 THEN 0
               ELSE sum[r - 1] + (IF r \in DOMAIN s.ranges THEN s.ranges[r].count ELSE 0)
           Good(h) == h = [r \in 0 .. 9 |-> IF r = 0 THEN 0 ELSE h[r - 1] + f(r)]
<1>1. Len(Bounds) + 1 = 9
  BY BoundsAre
<1>2. SumOf(s) = sum[9]
  BY <1>1 DEF SumOf
<1>3. sum = CHOOSE h : Good(h)
  BY <1>1 DEF sum, RangeCount
<1>4. /\ f(1) \in Nat /\ f(2) \in Nat /\ f(3) \in Nat /\ f(4) \in Nat /\ f(5) \in Nat
      /\ f(6) \in Nat /\ f(7) \in Nat /\ f(8) \in Nat /\ f(9) \in Nat
  OBVIOUS
<1>5. RangeSum(s.ranges) = f(1) + f(2) + f(3) + f(4) + f(5) + f(6) + f(7) + f(8) + f(9)
  BY DEF RangeSum
<1> HIDE DEF f, sum
<1>6. \E h : Good(h)
  <2> DEFINE a1 == 0 + f(1)
             a2 == a1 + f(2)
             a3 == a2 + f(3)
             a4 == a3 + f(4)
             a5 == a4 + f(5)
             a6 == a5 + f(6)
             a7 == a6 + f(7)
             a8 == a7 + f(8)
             a9 == a8 + f(9)
             w == [r \in 0 .. 9 |->
                     IF r = 0 THEN 0 ELSE IF r = 1 THEN a1 ELSE IF r = 2 THEN a2
                     ELSE IF r = 3 THEN a3 ELSE IF r = 4 THEN a4 ELSE IF r = 5 THEN a5
                     ELSE IF r = 6 THEN a6 ELSE IF r = 7 THEN a7 ELSE IF r = 8 THEN a8 ELSE a9]
  <2>1. Good(w)
    OBVIOUS
  <2> QED
    BY <2>1
<1>7. Good(sum)
  BY <1>3, <1>6
<1> QED
  BY <1>2, <1>4, <1>5, <1>7

\* The ranges that the timing thread writes for a global entry add up to it,
\* and each mean and largest time lies in its range, for all times.
THEOREM StatsAddUp == Spec => []GlobalStatsAddUp
<1>1. GlobalInv => GlobalStatsAddUp
  <2> SUFFICES ASSUME GlobalInv, NEW k \in DOMAIN committed.global
               PROVE  LET s == committed.global[k]
                      IN /\ s.count = SumOf(s)
                         /\ \A r \in DOMAIN s.ranges :
                               /\ RangeLow(r) <= s.ranges[r].mean /\ s.ranges[r].mean <= s.ranges[r].max
                               /\ r <= Len(Bounds) => s.ranges[r].max < Bounds[r]
    BY DEF GlobalStatsAddUp, SumOf
  <2> DEFINE s == committed.global[k]
  <2>1. StatsOK(s) /\ MeansOK(s)
    BY DEF GlobalInv, OnDisk
  <2> HIDE DEF s
  <2>2. \A q \in 1 .. 9 : RangeCount(s.ranges, q) \in Nat
    BY <2>1 DEF StatsOK, RangeOK, RangeCount
  <2>3. s.count = SumOf(s)
    BY <2>1, <2>2, SumUnrolls DEF StatsOK
  <2>4. ASSUME NEW r \in DOMAIN s.ranges
        PROVE  /\ RangeLow(r) <= s.ranges[r].mean /\ s.ranges[r].mean <= s.ranges[r].max
               /\ r <= Len(Bounds) => s.ranges[r].max < Bounds[r]
    <3> DEFINE x == s.ranges[r]
    <3>1. RangeOK(r, x) /\ x.mean = x.total \div x.count /\ r \in 1 .. 9
      BY <2>1 DEF StatsOK, MeansOK
    <3> HIDE DEF x
    <3> DEFINE low == RangeLow(r)
               c == x.count
               a == x.total
               m == x.max
    <3>2. /\ c \in Nat \ {0} /\ a \in Nat /\ m \in Nat /\ low * c <= a /\ a <= m * c
          /\ x.mean = a \div c
      BY <3>1 DEF RangeOK
    <3>3. low \in Nat
      <4>1. \A i \in 1 .. 9 : i = 1 \/ (i - 1 \in 1 .. 8 /\ i # 1)
        OBVIOUS
      <4>2. \A i \in 1 .. 8 : i \in {1, 2, 3, 4, 5, 6, 7, 8}
        OBVIOUS
      <4>3. \A i \in 1 .. 8 : Bounds[i] \in Nat
        BY <4>2, BoundsAre
      <4> QED
        BY <3>1, <4>1, <4>3 DEF RangeLow
    <3> HIDE DEF low, c, a, m
    <3>4. low <= a \div c /\ a \div c <= m
      BY <3>2, <3>3, MeanInRange
    <3>5. r <= Len(Bounds) => x.max < Bounds[r]
      BY <3>1 DEF RangeOK
    <3> QED
      BY <3>2, <3>4, <3>5 DEF low, m, x
  <2> QED
    BY <2>3, <2>4 DEF s
<1> QED
  BY <1>1, GlobalInvHolds, PTL

-----------------------------------------------------------------------------
(* The rows of a block, commit by commit.                                  *)

\* The row of the i-th commit for root r.
NthRow(s, i, r) ==
    [root |-> r, nth |-> Cardinality({j \in 1 .. i : r \in DOMAIN s[j].stats}),
     stats |-> s[i].stats[r]]

LEMMA InRowsOf ==
    ASSUME NEW s, NEW x
    PROVE  x \in RowsOf(s) <=> \E i \in DOMAIN s : \E r \in DOMAIN s[i].stats : x = NthRow(s, i, r)
<1> DEFINE of(i) == {NthRow(s, i, r) : r \in DOMAIN s[i].stats}
<1>1. RowsOf(s) = UNION {of(i) : i \in DOMAIN s}
  BY Zenon DEF RowsOf, NthRow
<1>2. \A i : x \in of(i) <=> \E r \in DOMAIN s[i].stats : x = NthRow(s, i, r)
  BY Zenon
<1> HIDE DEF of
<1> QED
  BY <1>1, <1>2

LEMMA NamingIsFinite ==
    ASSUME NEW s \in Seq(Reports), NEW r, NEW i \in 0 .. Len(s)
    PROVE  LET upto == {j \in 1 .. i : r \in DOMAIN s[j].stats}
           IN /\ IsFiniteSet(upto) /\ Cardinality(upto) \in Nat
              /\ IsFiniteSet(Naming(s, r)) /\ Cardinality(Naming(s, r)) \in Nat
              /\ Cardinality(upto) <= Cardinality(Naming(s, r))
              /\ i = Len(s) => upto = Naming(s, r)
<1> DEFINE upto == {j \in 1 .. i : r \in DOMAIN s[j].stats}
<1>1. IsFiniteSet(1 .. Len(s))
  BY FS_Interval
<1>2. Naming(s, r) \in SUBSET (1 .. Len(s))
  BY DEF Naming
<1>3. IsFiniteSet(Naming(s, r)) /\ Cardinality(Naming(s, r)) \in Nat
  BY <1>1, <1>2, FS_Subset, FS_CardinalityType
<1>4. upto \in SUBSET Naming(s, r)
  BY DEF Naming
<1>5. i = Len(s) => upto = Naming(s, r)
  BY DEF Naming
<1> HIDE DEF upto
<1>6. IsFiniteSet(upto) /\ Cardinality(upto) <= Cardinality(Naming(s, r)) /\ Cardinality(upto) \in Nat
  BY <1>3, <1>4, FS_Subset, FS_CardinalityType
<1> QED
  BY <1>3, <1>5, <1>6 DEF upto

LEMMA RowsOfNothing == RowsOf(<< >>) = {} /\ \A r : Naming(<< >>, r) = {}
BY InRowsOf DEF Naming

\* No row is numbered past the commits that name its root.
LEMMA NthIsBounded ==
    ASSUME NEW s \in Seq(Reports), NEW x \in RowsOf(s)
    PROVE  x.nth \in Nat /\ x.nth <= Cardinality(Naming(s, x.root))
<1>1. PICK i \in DOMAIN s : \E r \in DOMAIN s[i].stats : x = NthRow(s, i, r)
  BY InRowsOf
<1>2. PICK r \in DOMAIN s[i].stats : x = NthRow(s, i, r)
  BY <1>1
<1> DEFINE upto == {j \in 1 .. i : r \in DOMAIN s[j].stats}
<1>3. x.root = r /\ x.nth = Cardinality(upto)
  BY <1>2 DEF NthRow
<1>4. i \in 0 .. Len(s)
  OBVIOUS
<1>5. Cardinality(upto) \in Nat /\ Cardinality(upto) <= Cardinality(Naming(s, r))
  BY <1>4, NamingIsFinite
<1> QED
  BY <1>3, <1>5

\* A commit adds a row for each root it names.
LEMMA RowsOfAppend ==
    ASSUME NEW s \in Seq(Reports), NEW x \in Reports
    PROVE  LET t == Append(s, x)
               next(r) == [root |-> r, nth |-> 1 + Cardinality(Naming(s, r)), stats |-> x.stats[r]]
           IN /\ RowsOf(t) = RowsOf(s) \cup {next(r) : r \in DOMAIN x.stats}
              /\ \A r : Cardinality(Naming(t, r)) =
                            Cardinality(Naming(s, r)) + (IF r \in DOMAIN x.stats THEN 1 ELSE 0)
<1> DEFINE t == Append(s, x)
           n == Len(s) + 1
           next(r) == [root |-> r, nth |-> 1 + Cardinality(Naming(s, r)), stats |-> x.stats[r]]
<1>1. /\ t \in Seq(Reports) /\ Len(t) = n /\ t[n] = x /\ DOMAIN s = 1 .. Len(s) /\ DOMAIN t = 1 .. n
      /\ \A i \in 1 .. Len(s) : t[i] = s[i]
      /\ Len(s) \in Nat
  OBVIOUS
<1> HIDE DEF t
<1>2. ASSUME NEW r
      PROVE  /\ Naming(t, r) = IF r \in DOMAIN x.stats THEN Naming(s, r) \cup {n} ELSE Naming(s, r)
             /\ n \notin Naming(s, r)
             /\ IsFiniteSet(Naming(s, r)) /\ Cardinality(Naming(s, r)) \in Nat
  <2>1. \A j \in 1 .. n : j \in 1 .. Len(s) \/ j = n
    BY <1>1
  <2>2. n \notin 1 .. Len(s) /\ n \in 1 .. n /\ 1 .. Len(s) \subseteq 1 .. n
    BY <1>1
  <2>3. IsFiniteSet(Naming(s, r)) /\ Cardinality(Naming(s, r)) \in Nat
    <3>1. 0 \in 0 .. Len(s)
      BY <1>1
    <3> QED
      BY <3>1, NamingIsFinite
  <2> HIDE DEF n
  <2> QED
    BY <1>1, <2>1, <2>2, <2>3 DEF Naming
<1>3. ASSUME NEW r
      PROVE  Cardinality(Naming(t, r)) =
                Cardinality(Naming(s, r)) + (IF r \in DOMAIN x.stats THEN 1 ELSE 0)
  <2>1. Cardinality(Naming(s, r) \cup {n}) = Cardinality(Naming(s, r)) + 1
    BY <1>2, FS_AddElement
  <2>2. Cardinality(Naming(s, r)) \in Nat
    BY <1>2
  <2>3. CASE r \in DOMAIN x.stats
    BY <1>2, <2>1, <2>3
  <2>4. CASE r \notin DOMAIN x.stats
    BY <1>2, <2>2, <2>4
  <2> QED
    BY <2>3, <2>4
<1>4. ASSUME NEW i \in 1 .. Len(s), NEW r
      PROVE  NthRow(t, i, r) = NthRow(s, i, r)
  <2>1. {j \in 1 .. i : r \in DOMAIN t[j].stats} = {j \in 1 .. i : r \in DOMAIN s[j].stats}
    BY <1>1
  <2> QED
    BY <1>1, <2>1 DEF NthRow
<1>5. ASSUME NEW r \in DOMAIN x.stats
      PROVE  NthRow(t, n, r) = next(r)
  <2>1. n \in 0 .. Len(t)
    BY <1>1
  <2>2. {j \in 1 .. n : r \in DOMAIN t[j].stats} = Naming(t, r)
    BY <1>1, <2>1, NamingIsFinite
  <2>3. Cardinality(Naming(t, r)) = 1 + Cardinality(Naming(s, r))
    BY <1>2, <1>3
  <2> QED
    BY <1>1, <2>2, <2>3 DEF NthRow
<1>6. ASSUME NEW y
      PROVE  y \in RowsOf(t) <=> y \in RowsOf(s) \/ \E r \in DOMAIN x.stats : y = next(r)
  <2>1. y \in RowsOf(t) <=> \E i \in 1 .. n : \E r \in DOMAIN t[i].stats : y = NthRow(t, i, r)
    BY <1>1, InRowsOf
  <2>2. y \in RowsOf(s) <=> \E i \in 1 .. Len(s) : \E r \in DOMAIN s[i].stats : y = NthRow(s, i, r)
    BY <1>1, InRowsOf
  <2>3. \A j \in 1 .. n : j \in 1 .. Len(s) \/ j = n
    BY <1>1
  <2>4. n \in 1 .. n /\ 1 .. Len(s) \subseteq 1 .. n
    BY <1>1
  <2> HIDE DEF n, next
  <2> QED
    BY <1>1, <1>4, <1>5, <2>1, <2>2, <2>3, <2>4, ZenonT(60)
<1>7. RowsOf(t) = RowsOf(s) \cup {next(r) : r \in DOMAIN x.stats}
  <2> HIDE DEF next
  <2> QED
    BY <1>6, Zenon
<1> QED
  BY <1>3, <1>7 DEF t

-----------------------------------------------------------------------------
(* The statements, and what they leave alone.                              *)

\* What d shows of b, u shows too.
Leaves(d, u, b) ==
    /\ get_id_on_table(u, b) = get_id_on_table(d, b)
    /\ \A i \in get_id_on_table(d, b) :
          /\ {row \in u.rows : row.block = i} = {row \in d.rows : row.block = i}
          /\ u.blocks[i].actions_count = d.blocks[i].actions_count
          /\ u.blocks[i].checkout = d.blocks[i].checkout
          /\ u.blocks[i].commit = d.blocks[i].commit

LEMMA ShownKept ==
    ASSUME NEW d, NEW u, NEW b, NEW s, Shown(d, b, s), Leaves(d, u, b)
    PROVE  Shown(u, b, s)
<1> DEFINE ids == get_id_on_table(d, b)
           of(x) == {row \in x.rows : row.block \in ids}
<1>1. get_id_on_table(u, b) = ids
  BY DEF Leaves
<1>2. of(u) = of(d)
  <2>1. \A i \in ids : {row \in u.rows : row.block = i} = {row \in d.rows : row.block = i}
    BY DEF Leaves
  <2>2. ASSUME NEW row PROVE row \in of(u) <=> row \in of(d)
    <3>1. \A i \in ids : row \in {q \in u.rows : q.block = i} <=> row \in {q \in d.rows : q.block = i}
      BY <2>1
    <3> QED
      BY <3>1
  <2> QED
    BY <2>2
<1>3. RowsIn(u, b) = RowsIn(d, b)
  <2>1. /\ RowsIn(u, b) = {[root |-> row.root, nth |-> row.nth, stats |-> row.stats] : row \in of(u)}
        /\ RowsIn(d, b) = {[root |-> row.root, nth |-> row.nth, stats |-> row.stats] : row \in of(d)}
    BY <1>1, Zenon DEF RowsIn
  <2> HIDE DEF of
  <2> QED
    BY <1>2, <2>1
<1>4. \A report : LastIs(d, b, report) => LastIs(u, b, report)
  BY <1>1 DEF LastIs, Leaves
<1>5. ASSUME NEW i \in ids, NEW r PROVE RowsFor(u, i, r) = RowsFor(d, i, r)
  <2>1. {row \in u.rows : row.block = i} = {row \in d.rows : row.block = i}
    BY DEF Leaves
  <2>2. \A row : row \in {q \in u.rows : q.block = i} <=> row \in {q \in d.rows : q.block = i}
    BY <2>1
  <2> QED
    BY <2>2 DEF RowsFor
<1> HIDE DEF ids
<1> QED
  BY <1>1, <1>3, <1>4, <1>5 DEF Shown, ids

LEMMA LeavesItself == ASSUME NEW d, NEW b PROVE Leaves(d, d, b)
BY DEF Leaves

LEMMA LeavesTransitive ==
    ASSUME NEW d, NEW u, NEW v, NEW b, Leaves(d, u, b), Leaves(u, v, b)
    PROVE  Leaves(d, v, b)
BY DEF Leaves

LEMMA GrownTransitive ==
    ASSUME NEW d, NEW u, NEW v, BlocksOK(d), BlocksOK(u), BlocksOK(v), Grown(u, d), Grown(v, u)
    PROVE  Grown(v, d)
<1>1. d.blocks \in Seq(BlockRows) /\ u.blocks \in Seq(BlockRows) /\ v.blocks \in Seq(BlockRows)
  BY DEF BlocksOK
<1>2. \A i \in DOMAIN d.blocks : i \in DOMAIN u.blocks
  BY <1>1 DEF Grown
<1> QED
  BY <1>1, <1>2 DEF Grown

\* Statements on other tables.
LEMMA SameBlocksAndRows ==
    ASSUME NEW d, NEW u, BlocksOK(d), DOMAIN u = DOMAIN d, u.blocks = d.blocks, u.rows = d.rows
    PROVE  /\ BlocksOK(u) /\ Grown(u, d) /\ Len(u.blocks) = Len(d.blocks)
           /\ \A b : Leaves(d, u, b)
           /\ Dangling(u) <=> Dangling(d)
<1>1. d.blocks \in Seq(BlockRows)
  BY DEF BlocksOK
<1> QED
  BY <1>1 DEF BlocksOK, Grown, Leaves, get_id_on_table, Dangling

\* An UPDATE of rows of blocks.
LEMMA UpdatedBlocks ==
    ASSUME NEW d, BlocksOK(d), NEW g \in [DOMAIN d.blocks -> BlockRows],
           \A i \in DOMAIN d.blocks : g[i].hash = d.blocks[i].hash,
           NEW u, DOMAIN u = DOMAIN d, u.blocks = g \o << >>, u.rows = d.rows
    PROVE  /\ u.blocks = g /\ BlocksOK(u) /\ Grown(u, d) /\ Len(u.blocks) = Len(d.blocks)
           /\ \A b : get_id_on_table(u, b) = get_id_on_table(d, b)
           /\ Dangling(u) <=> Dangling(d)
<1>1. d.blocks \in Seq(BlockRows) /\ DOMAIN d.blocks = 1 .. Len(d.blocks) /\ Len(d.blocks) \in Nat
  BY DEF BlocksOK
<1>2. g \in Seq(BlockRows) /\ Len(g) = Len(d.blocks) /\ DOMAIN g = DOMAIN d.blocks
  BY <1>1
<1>3. u.blocks = g
  BY <1>2, ConcatEmptySeq
<1>4. \A b : get_id_on_table(u, b) = get_id_on_table(d, b)
  BY <1>2, <1>3 DEF get_id_on_table
<1>5. BlocksOK(u)
  BY <1>2, <1>3 DEF BlocksOK
<1>6. Grown(u, d)
  BY <1>1, <1>2, <1>3 DEF Grown
<1>7. Dangling(u) <=> Dangling(d)
  BY <1>2, <1>3 DEF Dangling
<1> QED
  BY <1>2, <1>3, <1>4, <1>5, <1>6, <1>7

\* The rows that the statements of a block are about.
Named(i) == \E c \in current_block : c.id = i

LEMMA EndBlockOK ==
    ASSUME NEW d, BlocksOK(d)
    PROVE  LET u == EndBlock(d)
           IN /\ BlocksOK(u) /\ Grown(u, d) /\ Len(u.blocks) = Len(d.blocks) /\ u.rows = d.rows
              /\ \A b : Leaves(d, u, b)
              /\ Dangling(u) <=> Dangling(d)
<1> DEFINE u == EndBlock(d)
           g == [i \in DOMAIN d.blocks |->
                    IF Named(i) THEN [d.blocks[i] EXCEPT !.timed = TRUE] ELSE d.blocks[i]]
<1>1. "blocks" \in DOMAIN d /\ "rows" \in DOMAIN d
  BY DEF BlocksOK, EmptyDb
<1>2. DOMAIN u = DOMAIN d /\ u.blocks = g \o << >> /\ u.rows = d.rows
  BY <1>1, Zenon DEF EndBlock, UpdateRow, Named
<1> HIDE DEF u
<1>3. ASSUME NEW i \in DOMAIN d.blocks
      PROVE  /\ g[i] \in BlockRows /\ g[i].hash = d.blocks[i].hash
             /\ g[i].actions_count = d.blocks[i].actions_count
             /\ g[i].checkout = d.blocks[i].checkout /\ g[i].commit = d.blocks[i].commit
  <2>1. d.blocks[i] \in BlockRows
    BY DEF BlocksOK
  <2> QED
    BY <2>1 DEF BlockRows
<1>4. g \in [DOMAIN d.blocks -> BlockRows]
  BY <1>3
<1> HIDE DEF g
<1>5. /\ u.blocks = g /\ BlocksOK(u) /\ Grown(u, d) /\ Len(u.blocks) = Len(d.blocks)
      /\ \A b : get_id_on_table(u, b) = get_id_on_table(d, b)
      /\ Dangling(u) <=> Dangling(d)
  BY <1>2, <1>3, <1>4, UpdatedBlocks
<1>6. ASSUME NEW b PROVE Leaves(d, u, b)
  BY <1>2, <1>3, <1>5 DEF Leaves, get_id_on_table
<1> QED
  BY <1>2, <1>5, <1>6 DEF u

LEMMA UpdateBlockOK ==
    ASSUME NEW d, BlocksOK(d), NEW time \in Commits, nactions \in Nat, checkout_time \in SUBSET Commits
    PROVE  LET u == UpdateBlock(d, time)
           IN /\ BlocksOK(u) /\ Grown(u, d) /\ Len(u.blocks) = Len(d.blocks) /\ u.rows = d.rows
              /\ \A b : get_id_on_table(u, b) = get_id_on_table(d, b)
              /\ Dangling(u) <=> Dangling(d)
              /\ \A i \in DOMAIN d.blocks :
                    IF Named(i)
                    THEN /\ u.blocks[i].actions_count = nactions
                         /\ u.blocks[i].checkout = checkout_time
                         /\ u.blocks[i].commit = {time}
                    ELSE u.blocks[i] = d.blocks[i]
<1> DEFINE u == UpdateBlock(d, time)
           g == [i \in DOMAIN d.blocks |->
                    IF Named(i) THEN [d.blocks[i] EXCEPT !.actions_count = nactions,
                                                         !.checkout = checkout_time, !.commit = {time}]
                    ELSE d.blocks[i]]
<1>1. "blocks" \in DOMAIN d /\ "rows" \in DOMAIN d
  BY DEF BlocksOK, EmptyDb
<1>2. DOMAIN u = DOMAIN d /\ u.blocks = g \o << >> /\ u.rows = d.rows
  BY <1>1, Zenon DEF UpdateBlock, UpdateRow, Named
<1> HIDE DEF u
<1>3. ASSUME NEW i \in DOMAIN d.blocks
      PROVE  /\ g[i] \in BlockRows /\ g[i].hash = d.blocks[i].hash
             /\ IF Named(i)
                THEN /\ g[i].actions_count = nactions /\ g[i].checkout = checkout_time
                     /\ g[i].commit = {time}
                ELSE g[i] = d.blocks[i]
  <2>1. d.blocks[i] \in BlockRows
    BY DEF BlocksOK
  <2> DEFINE row == d.blocks[i]
             w == [row EXCEPT !.actions_count = nactions, !.checkout = checkout_time, !.commit = {time}]
  <2>2. g[i] = IF Named(i) THEN w ELSE row
    BY Zenon
  <2>3. row \in BlockRows
    BY <2>1
  <2> HIDE DEF row, g
  <2> DEFINE w1 == [row EXCEPT !.actions_count = nactions]
             w2 == [w1 EXCEPT !.checkout = checkout_time]
             w3 == [w2 EXCEPT !.commit = {time}]
  <2>4. w = w3
    OBVIOUS
  <2>5. w1 \in BlockRows /\ w1.hash = row.hash /\ w1.actions_count = nactions
    BY <2>3 DEF BlockRows
  <2> HIDE DEF w1
  <2>6. /\ w2 \in BlockRows /\ w2.hash = row.hash /\ w2.actions_count = nactions
         /\ w2.checkout = checkout_time
    BY <2>5 DEF BlockRows
  <2> HIDE DEF w2
  <2>7. /\ w3 \in BlockRows /\ w3.hash = row.hash /\ w3.actions_count = nactions
         /\ w3.checkout = checkout_time /\ w3.commit = {time}
    BY <2>6 DEF BlockRows
  <2> HIDE DEF w3
  <2> HIDE DEF w
  <2>8. /\ w \in BlockRows /\ w.hash = row.hash /\ w.actions_count = nactions
        /\ w.checkout = checkout_time /\ w.commit = {time}
    BY <2>4, <2>7
  <2> QED
    BY <2>2, <2>3, <2>8 DEF row
<1>4. g \in [DOMAIN d.blocks -> BlockRows]
  BY <1>3, Zenon
<1> HIDE DEF g
<1>5. /\ u.blocks = g /\ BlocksOK(u) /\ Grown(u, d) /\ Len(u.blocks) = Len(d.blocks)
      /\ \A b : get_id_on_table(u, b) = get_id_on_table(d, b)
      /\ Dangling(u) <=> Dangling(d)
  BY <1>2, <1>3, <1>4, UpdatedBlocks
<1> QED
  BY <1>2, <1>3, <1>5 DEF u

\* The row of a block that was not there comes last.
LEMMA AppendedRow ==
    ASSUME NEW d, BlocksOK(d), NEW h \in Blocks, get_id_on_table(d, h) = {},
           NEW row \in BlockRows, row.hash = h,
           NEW u, DOMAIN u = DOMAIN d, u.blocks = Append(d.blocks, row), u.rows = d.rows
    PROVE  /\ BlocksOK(u) /\ Grown(u, d)
           /\ \A b : b # h => Leaves(d, u, b)
           /\ get_id_on_table(u, h) = {Len(d.blocks) + 1}
           /\ Dangling(u) => Dangling(d)
<1> DEFINE n == Len(d.blocks) + 1
<1>1. d.blocks \in Seq(BlockRows) /\ DOMAIN d.blocks = 1 .. Len(d.blocks) /\ Len(d.blocks) \in Nat
  BY DEF BlocksOK
<1>2. /\ u.blocks \in Seq(BlockRows) /\ DOMAIN u.blocks = 1 .. n /\ Len(u.blocks) = n
      /\ u.blocks[n] = row /\ \A i \in 1 .. Len(d.blocks) : u.blocks[i] = d.blocks[i]
  BY <1>1
<1>3. /\ \A i \in 1 .. n : i \in 1 .. Len(d.blocks) \/ i = n
      /\ n \notin 1 .. Len(d.blocks) /\ n \in 1 .. n /\ 1 .. Len(d.blocks) \subseteq 1 .. n
      /\ Len(d.blocks) <= n
  BY <1>1
<1> HIDE DEF n
<1>4. \A i \in DOMAIN d.blocks : d.blocks[i].hash # h
  BY DEF get_id_on_table
<1>5. BlocksOK(u)
  <2>1. \A i, j \in DOMAIN u.blocks : u.blocks[i].hash = u.blocks[j].hash => i = j
    BY <1>1, <1>2, <1>3, <1>4 DEF BlocksOK
  <2> QED
    BY <1>2, <2>1 DEF BlocksOK
<1>6. Grown(u, d)
  BY <1>1, <1>2, <1>3 DEF Grown
<1>7. ASSUME NEW b, b # h PROVE Leaves(d, u, b)
  BY <1>1, <1>2, <1>3, <1>7 DEF Leaves, get_id_on_table
<1>8. get_id_on_table(u, h) = {n}
  BY <1>1, <1>2, <1>3, <1>4 DEF get_id_on_table
<1>9. Dangling(u) => Dangling(d)
  BY <1>1, <1>2, <1>3 DEF Dangling
<1> QED
  BY <1>5, <1>6, <1>7, <1>8, <1>9 DEF n

LEMMA InsertBlockRowOK ==
    ASSUME NEW d, BlocksOK(d), NEW block \in BlockSets, NEW fail
    PROVE  LET u == InsertBlockRow(d, block, fail)
           IN /\ BlocksOK(u) /\ Grown(u, d) /\ u.rows = d.rows
              /\ \A b : b \notin block => Leaves(d, u, b)
              /\ \A h \in block :
                    \/ u = d
                    \/ /\ get_id_on_table(d, h) = {} /\ get_id_on_table(u, h) = {Len(d.blocks) + 1}
              /\ Dangling(u) => Dangling(d)
              /\ fail # "insert" /\ Looks(block, current_hash) =>
                    \A h \in block : get_id_on_table(u, h) # {}
<1> DEFINE u == InsertBlockRow(d, block, fail)
           new(h) == [hash |-> h, actions_count |-> Null, checkout |-> {}, commit |-> {}, timed |-> FALSE]
<1>1. "blocks" \in DOMAIN d /\ "rows" \in DOMAIN d /\ d.blocks \in Seq(BlockRows)
  BY DEF BlocksOK, EmptyDb
<1>2. CASE fail = "insert" \/ ~Looks(block, current_hash) \/ \E h \in block : get_id_on_table(d, h) # {}
  <2>1. u = d
    BY <1>2 DEF InsertBlockRow
  <2>2. Grown(d, d)
    BY <1>1 DEF Grown
  <2>3. ASSUME fail # "insert", Looks(block, current_hash), NEW h \in block
        PROVE  get_id_on_table(u, h) # {}
    BY <1>2, <2>1, <2>3 DEF BlockSets
  <2> HIDE DEF u
  <2> QED
    BY <2>1, <2>2, <2>3, LeavesItself DEF u
<1>3. CASE ~(fail = "insert" \/ ~Looks(block, current_hash) \/ \E h \in block : get_id_on_table(d, h) # {})
  <2>1. PICK h \in Blocks : block = {h}
    BY <1>3 DEF Looks, BlockSets
  <2>2. (CHOOSE x \in block : TRUE) = h
    BY <2>1
  <2>3. u = [d EXCEPT !.blocks = Append(@, new(h))]
    BY <1>3, <2>2, Zenon DEF InsertBlockRow
  <2>4. DOMAIN u = DOMAIN d /\ u.blocks = Append(d.blocks, new(h)) /\ u.rows = d.rows
    BY <1>1, <2>3, Zenon
  <2>5. new(h) \in BlockRows /\ new(h).hash = h
    BY DEF BlockRows, Null
  <2>6. get_id_on_table(d, h) = {}
    BY <1>3, <2>1
  <2> HIDE DEF u, new
  <2>7. /\ BlocksOK(u) /\ Grown(u, d)
        /\ \A b : b # h => Leaves(d, u, b)
        /\ get_id_on_table(u, h) = {Len(d.blocks) + 1}
        /\ Dangling(u) => Dangling(d)
    BY <2>4, <2>5, <2>6, AppendedRow
  <2> QED
    BY <2>1, <2>4, <2>6, <2>7 DEF u
<1> QED
  BY <1>2, <1>3

\* A block set for the first time has no rows, unless some were left behind.
LEMMA ShownInserted ==
    ASSUME NEW d, BlocksOK(d), ~Dangling(d), NEW block \in BlockSets, NEW fail,
           NEW b, NEW s \in Seq(Reports), Shown(d, b, s)
    PROVE  Shown(InsertBlockRow(d, block, fail), b, s)
<1> DEFINE u == InsertBlockRow(d, block, fail)
           n == Len(d.blocks) + 1
<1>1. /\ u.rows = d.rows
      /\ b \notin block => Leaves(d, u, b)
      /\ b \in block => u = d \/ (get_id_on_table(d, b) = {} /\ get_id_on_table(u, b) = {n})
  BY InsertBlockRowOK
<1> HIDE DEF u
<1>2. CASE b \notin block \/ u = d
  BY <1>1, <1>2, ShownKept, LeavesItself DEF u
<1>3. CASE get_id_on_table(d, b) = {} /\ get_id_on_table(u, b) = {n}
  <2>1. d.blocks \in Seq(BlockRows)
    BY DEF BlocksOK
  <2>2. n \notin DOMAIN d.blocks
    BY <2>1
  <2>3. \A row \in u.rows : row.block # n
    BY <1>1, <2>2 DEF Dangling
  <2> HIDE DEF n
  <2>4. s = << >>
    BY <1>3 DEF Shown, LastIs
  <2>5. RowsIn(u, b) = {}
    BY <1>3, <2>3 DEF RowsIn
  <2>6. \A r : RowsFor(u, n, r) = {} /\ Naming(s, r) = {}
    BY <2>3, <2>4, RowsOfNothing DEF RowsFor
  <2>7. RowsOf(s) = {}
    BY <2>4, RowsOfNothing
  <2>8. \A i \in get_id_on_table(u, b), r \in Roots :
          /\ IsFiniteSet(RowsFor(u, i, r))
          /\ Cardinality(RowsFor(u, i, r)) = Cardinality(Naming(s, r))
    BY <1>3, <2>6, FS_EmptySet
  <2> QED
    BY <2>4, <2>5, <2>7, <2>8 DEF Shown, u
<1> QED
  BY <1>1, <1>2, <1>3

-----------------------------------------------------------------------------
(* What a commit writes.                                                   *)

\* The statements of insert_commit, up to a failure.
CommitTo(d, time, g, e, roots) ==
    sync_block_stats(insert_action_stats(UpdateBlock(d, time), g, e), roots)

LEMMA CommitToIs ==
    ASSUME NEW d, BlocksOK(d), NEW time \in Commits, nactions \in Nat, checkout_time \in SUBSET Commits,
           NEW g, NEW e, NEW roots
    PROVE  LET v == CommitTo(d, time, g, e, roots)
           IN /\ BlocksOK(v) /\ Grown(v, d) /\ Len(v.blocks) = Len(d.blocks)
              /\ v.rows = d.rows \cup {BlockRow(d, r) : r \in roots}
              /\ \A b : get_id_on_table(v, b) = get_id_on_table(d, b)
              /\ \A i \in DOMAIN d.blocks :
                    IF Named(i)
                    THEN /\ v.blocks[i].actions_count = nactions
                         /\ v.blocks[i].checkout = checkout_time
                         /\ v.blocks[i].commit = {time}
                    ELSE v.blocks[i] = d.blocks[i]
<1> DEFINE u == UpdateBlock(d, time)
           w == insert_action_stats(u, g, e)
           v == sync_block_stats(w, roots)
<1>1. /\ BlocksOK(u) /\ Grown(u, d) /\ Len(u.blocks) = Len(d.blocks) /\ u.rows = d.rows
      /\ \A b : get_id_on_table(u, b) = get_id_on_table(d, b)
      /\ \A i \in DOMAIN d.blocks :
            IF Named(i)
            THEN /\ u.blocks[i].actions_count = nactions
                 /\ u.blocks[i].checkout = checkout_time
                 /\ u.blocks[i].commit = {time}
            ELSE u.blocks[i] = d.blocks[i]
  BY UpdateBlockOK
<1> HIDE DEF u
<1>2. "blocks" \in DOMAIN u /\ "rows" \in DOMAIN u /\ "global" \in DOMAIN u
  BY <1>1 DEF BlocksOK, EmptyDb
<1>3. DOMAIN w = DOMAIN u /\ w.blocks = u.blocks /\ w.rows = u.rows
  BY <1>2, Zenon DEF insert_action_stats
<1> HIDE DEF w
<1>4. DOMAIN v = DOMAIN w /\ v.blocks = w.blocks /\ v.rows = w.rows \cup {BlockRow(w, r) : r \in roots}
  BY <1>2, <1>3, Zenon DEF sync_block_stats
<1> HIDE DEF v
<1>5. \A r : BlockRow(w, r) = BlockRow(d, r)
  BY <1>1, <1>3 DEF BlockRow
<1>6. v.rows = d.rows \cup {BlockRow(d, r) : r \in roots}
  BY <1>1, <1>3, <1>4, <1>5
<1>7. v.blocks = u.blocks /\ DOMAIN v = DOMAIN u
  BY <1>3, <1>4
<1>8. BlocksOK(v) /\ Grown(v, d) /\ \A b : get_id_on_table(v, b) = get_id_on_table(d, b)
  BY <1>1, <1>7 DEF BlocksOK, Grown, get_id_on_table
<1> QED
  BY <1>1, <1>6, <1>7, <1>8 DEF v, w, u, CommitTo

LEMMA BlockRowIs ==
    ASSUME NEW d, NEW r, current_block # {}
    PROVE  \E c \in current_block :
              BlockRow(d, r) = [root |-> r, block |-> c.id,
                                nth |-> 1 + Cardinality(RowsFor(d, c.id, r)), stats |-> block_stats[r]]
<1> DEFINE c == CHOOSE x \in current_block : TRUE
<1>1. c \in current_block
  OBVIOUS
<1>2. BlockRow(d, r) = [root |-> r, block |-> c.id,
                        nth |-> 1 + Cardinality(RowsFor(d, c.id, r)), stats |-> block_stats[r]]
  BY DEF BlockRow, RowsFor
<1> HIDE DEF c
<1> QED
  BY <1>1, <1>2

\* A commit is about the blocks that current_block names.
LEMMA CommitLeaves ==
    ASSUME NEW d, BlocksOK(d), NEW time \in Commits, nactions \in Nat, checkout_time \in SUBSET Commits,
           NEW g, NEW e, NEW roots, current_block # {}, NEW b,
           \A c \in current_block : c.id \in DOMAIN d.blocks => d.blocks[c.id].hash # b
    PROVE  Leaves(d, CommitTo(d, time, g, e, roots), b)
<1> DEFINE v == CommitTo(d, time, g, e, roots)
           ids == get_id_on_table(d, b)
<1>1. /\ v.rows = d.rows \cup {BlockRow(d, r) : r \in roots}
      /\ get_id_on_table(v, b) = ids
      /\ \A i \in DOMAIN d.blocks : ~Named(i) => v.blocks[i] = d.blocks[i]
  BY CommitToIs
<1> HIDE DEF v
<1>2. \A i \in ids : i \in DOMAIN d.blocks /\ ~Named(i)
  BY DEF get_id_on_table, Named
<1>3. ASSUME NEW r PROVE Named(BlockRow(d, r).block)
  <2>1. \E c \in current_block : BlockRow(d, r).block = c.id
    BY BlockRowIs
  <2> QED
    BY <2>1 DEF Named
<1>4. ASSUME NEW i \in ids
      PROVE  {row \in v.rows : row.block = i} = {row \in d.rows : row.block = i}
  BY <1>1, <1>2, <1>3
<1> QED
  BY <1>1, <1>2, <1>4 DEF Leaves, v

\* A commit of the block that the messages are about adds what it says.
LEMMA CommitShown ==
    ASSUME NEW d, BlocksOK(d), NEW time \in Commits, nactions \in Nat, checkout_time \in SUBSET Commits,
           block_stats \in BlockStats, NEW g, NEW e,
           NEW i, NEW b, i \in DOMAIN d.blocks, d.blocks[i].hash = b,
           current_block # {}, \A c \in current_block : c.id = i,
           NEW s \in Seq(Reports), Shown(d, b, s)
    PROVE  LET x == [n |-> nactions, checkout |-> checkout_time, time |-> time, stats |-> block_stats]
           IN Shown(CommitTo(d, time, g, e, DOMAIN block_stats), b, Append(s, x))
<1> DEFINE x == [n |-> nactions, checkout |-> checkout_time, time |-> time, stats |-> block_stats]
           t == Append(s, x)
           roots == DOMAIN block_stats
           v == CommitTo(d, time, g, e, roots)
           row(r) == [root |-> r, block |-> i,
                      nth |-> 1 + Cardinality(RowsFor(d, i, r)), stats |-> block_stats[r]]
           view(y) == [root |-> y.root, nth |-> y.nth, stats |-> y.stats]
           next(r) == [root |-> r, nth |-> 1 + Cardinality(Naming(s, r)), stats |-> block_stats[r]]
<1>1. x \in Reports /\ x.stats = block_stats /\ x.n = nactions /\ x.checkout = checkout_time /\ x.time = time
  BY DEF Reports
<1>2. roots \subseteq Roots
  BY DEF BlockStats
<1>3. get_id_on_table(d, b) = {i}
  BY DEF get_id_on_table, BlocksOK
<1>4. \A r : BlockRow(d, r) = row(r)
  BY BlockRowIs
<1>5. /\ v.rows = d.rows \cup {BlockRow(d, r) : r \in roots}
      /\ get_id_on_table(v, b) = {i}
      /\ v.blocks[i].actions_count = nactions /\ v.blocks[i].checkout = checkout_time
      /\ v.blocks[i].commit = {time}
  <2>1. Named(i)
    BY DEF Named
  <2> QED
    BY <1>3, <2>1, CommitToIs
<1> HIDE DEF v
<1>6. ASSUME NEW r \in Roots
      PROVE  /\ IsFiniteSet(RowsFor(d, i, r)) /\ Cardinality(RowsFor(d, i, r)) = Cardinality(Naming(s, r))
             /\ Cardinality(Naming(s, r)) \in Nat
  <2>1. 0 \in 0 .. Len(s)
    OBVIOUS
  <2> QED
    BY <1>3, <2>1, NamingIsFinite DEF Shown
<1>7. /\ RowsOf(t) = RowsOf(s) \cup {next(r) : r \in roots}
      /\ \A r : Cardinality(Naming(t, r)) = Cardinality(Naming(s, r)) + (IF r \in roots THEN 1 ELSE 0)
  BY <1>1, RowsOfAppend
<1>8. t \in Seq(Reports) /\ t # << >> /\ t[Len(t)] = x
  BY <1>1
<1>9. LastIs(v, b, x)
  BY <1>1, <1>5 DEF LastIs
<1> HIDE DEF x, t
<1>10. RowsIn(v, b) = RowsIn(d, b) \cup {next(r) : r \in roots}
  <2> DEFINE of(y) == {q \in y.rows : q.block = i}
  <2>1. RowsIn(v, b) = {view(q) : q \in of(v)} /\ RowsIn(d, b) = {view(q) : q \in of(d)}
    <3>1. {q \in v.rows : q.block \in {i}} = of(v) /\ {q \in d.rows : q.block \in {i}} = of(d)
      OBVIOUS
    <3> HIDE DEF of
    <3> QED
      BY <1>3, <1>5, <3>1 DEF RowsIn
  <2>2. \A r : row(r).block = i /\ view(row(r)) = [root |-> r, nth |-> 1 + Cardinality(RowsFor(d, i, r)),
                                                   stats |-> block_stats[r]]
    OBVIOUS
  <2>3. \A r \in roots : view(row(r)) = next(r)
    BY <1>2, <1>6, <2>2
  <2> HIDE DEF row, view, next
  <2>4. of(v) = of(d) \cup {row(r) : r \in roots}
    BY <1>4, <1>5, <2>2
  <2> HIDE DEF of
  <2>5. {view(q) : q \in of(v)} = {view(q) : q \in of(d)} \cup {view(row(r)) : r \in roots}
    BY <2>4
  <2>6. {view(row(r)) : r \in roots} = {next(r) : r \in roots}
    BY <2>3
  <2> QED
    BY <2>1, <2>5, <2>6
<1>11. ASSUME NEW r \in Roots
       PROVE  /\ IsFiniteSet(RowsFor(v, i, r))
              /\ Cardinality(RowsFor(v, i, r)) = Cardinality(Naming(t, r))
  <2>1. \A q : row(q).root = q /\ row(q).block = i /\ row(q).nth = 1 + Cardinality(RowsFor(d, i, q))
    OBVIOUS
  <2> HIDE DEF row
  <2>2. CASE r \notin roots
    <3>1. RowsFor(v, i, r) = RowsFor(d, i, r)
      BY <1>4, <1>5, <2>1, <2>2 DEF RowsFor
    <3> QED
      BY <1>6, <1>7, <2>2, <3>1
  <2>3. CASE r \in roots
    <3>1. RowsFor(v, i, r) = RowsFor(d, i, r) \cup {row(r)}
      BY <1>4, <1>5, <2>1, <2>3 DEF RowsFor
    <3>2. row(r) \notin RowsFor(d, i, r)
      <4> SUFFICES ASSUME row(r) \in RowsFor(d, i, r) PROVE FALSE
        OBVIOUS
      <4>1. view(row(r)) \in RowsOf(s)
        <5>1. row(r) \in {q \in d.rows : q.block \in get_id_on_table(d, b)}
          BY <1>3 DEF RowsFor
        <5>2. view(row(r)) \in RowsIn(d, b)
          BY <5>1, Zenon DEF RowsIn
        <5> QED
          BY <5>2 DEF Shown
      <4>2. view(row(r)).nth = row(r).nth /\ view(row(r)).root = r
        BY <2>1
      <4> HIDE DEF view
      <4>3. row(r).nth <= Cardinality(Naming(s, r))
        BY <4>1, <4>2, NthIsBounded
      <4> QED
        BY <1>6, <2>1, <4>3
    <3>3. /\ IsFiniteSet(RowsFor(d, i, r) \cup {row(r)})
          /\ Cardinality(RowsFor(d, i, r) \cup {row(r)}) = Cardinality(RowsFor(d, i, r)) + 1
      BY <1>6, <3>2, FS_AddElement
    <3> QED
      BY <1>6, <1>7, <2>3, <3>1, <3>3
  <2> QED
    BY <2>2, <2>3
<1>12. RowsIn(v, b) = RowsOf(t)
  BY <1>7, <1>10 DEF Shown
<1>13. \A k \in get_id_on_table(v, b), r \in Roots :
          /\ IsFiniteSet(RowsFor(v, k, r))
          /\ Cardinality(RowsFor(v, k, r)) = Cardinality(Naming(t, r))
  BY <1>5, <1>11
<1> HIDE DEF next, row, view
<1>14. Shown(v, b, t)
  BY <1>8, <1>9, <1>12, <1>13 DEF Shown
<1> QED
  BY <1>14 DEF v, t, x

-----------------------------------------------------------------------------
(* The steps that write in the open transaction, or commit at once.        *)

LEMMA AwaitedIs ==
    ASSUME NEW said \in Ideals, NEW b \in Blocks
    PROVE  /\ said.published[b] \in Seq(Reports) /\ said.pending \in Seq(Reports)
           /\ Awaited(said, b) \in Seq(Reports)
           /\ b \notin said.block => Awaited(said, b) = said.published[b]
           /\ b \in said.block => Awaited(said, b) = said.published[b] \o said.pending
<1>1. said.published[b] \in Seq(Reports) /\ said.pending \in Seq(Reports)
  BY DEF Ideals
<1>2. b \notin said.block => Awaited(said, b) = said.published[b]
  BY <1>1, ConcatEmptySeq DEF Awaited
<1>3. b \in said.block => Awaited(said, b) = said.published[b] \o said.pending
  BY DEF Awaited
<1> QED
  BY <1>1, <1>2, <1>3, ConcatProperties

\* Outside of a transaction no block waits for the next SetBlock.
LEMMA NothingWaits ==
    ASSUME WholeInv, ~transaction, NEW b \in Blocks \ spoilt
    PROVE  b \notin ideal.block
BY DEF WholeInv, CurrentOK

LEMMA SameBlock == current_block' = current_block => current_hash' = current_hash
BY DEF current_hash

\* A failure spoils what current_block and the messages are about.
LEMMA SpoilOK ==
    ASSUME WholeInv, NEW fail, Spoil(fail), current_block' = current_block, ideal'.block = ideal.block,
           BlocksOK(db'), Grown(db', db), Len(db'.blocks) = Len(db.blocks), ~clean'
    PROVE  CurrentOK' /\ clean' \in BOOLEAN /\ spoilt \subseteq spoilt'
<1>1. spoilt' = spoilt \cup ideal.block /\ clean' \in BOOLEAN
  BY DEF Spoil
<1>2. current_hash' = current_hash
  BY SameBlock
<1>3. ideal.block \cup current_hash \subseteq spoilt'
  BY <1>1 DEF WholeInv, CurrentOK
<1>4. DOMAIN db'.blocks = DOMAIN db.blocks
  BY DEF WholeInv, StatesOK, BlocksOK
<1>5. ASSUME NEW c \in current_block, c.id \in DOMAIN db.blocks
      PROVE  db'.blocks[c.id].hash \in spoilt'
  <2>1. db'.blocks[c.id].hash = db.blocks[c.id].hash
    BY <1>5 DEF Grown
  <2>2. CASE clean
    <3>1. db.blocks[c.id].hash = c.hash /\ c.hash \in current_hash
      BY <2>2 DEF WholeInv, CurrentOK, current_hash
    <3> QED
      BY <1>3, <2>1, <3>1
  <2>3. CASE ~clean
    BY <1>1, <1>5, <2>1, <2>3 DEF WholeInv, CurrentOK
  <2> QED
    BY <2>2, <2>3
<1> QED
  BY <1>1, <1>2, <1>3, <1>4, <1>5 DEF CurrentOK

\* Nothing failed: what the block counts is what the messages said.
LEMMA CleanOK ==
    ASSUME WholeInv, NEW fail, Spoil(fail), current_block' = current_block, ideal'.block = ideal.block,
           BlocksOK(db'), Grown(db', db), Len(db'.blocks) = Len(db.blocks), clean',
           transaction' = transaction, ~Dangling(db'),
           nactions' = ideal'.n, checkout_time' = ideal'.checkout, block_stats' = ideal'.stats
    PROVE  CurrentOK' /\ clean' \in BOOLEAN /\ spoilt' = spoilt
<1>1. spoilt' = spoilt /\ clean' \in BOOLEAN /\ clean
  BY DEF Spoil
<1>2. current_hash' = current_hash
  BY SameBlock
<1>3. DOMAIN db'.blocks = DOMAIN db.blocks
  BY DEF WholeInv, StatesOK, BlocksOK
<1>4. \A c \in current_block : c.id \in DOMAIN db.blocks /\ db'.blocks[c.id].hash = c.hash
  BY <1>1 DEF WholeInv, CurrentOK, Grown
<1> QED
  BY <1>1, <1>2, <1>3, <1>4 DEF WholeInv, CurrentOK

LEMMA WriteStep ==
    ASSUME WholeInv, NEW d, Write(d), BlocksOK(d), Grown(d, db), Len(d.blocks) = Len(db.blocks),
           ~transaction => ~Dangling(d), transaction' = transaction, current_block' = current_block,
           ideal' \in Ideals, ideal'.block = ideal.block, ideal'.published = ideal.published,
           nactions' \in Nat, checkout_time' \in SUBSET Commits, block_stats' \in BlockStats,
           NEW fail, Spoil(fail),
           clean' => /\ nactions' = ideal'.n /\ checkout_time' = ideal'.checkout
                     /\ block_stats' = ideal'.stats /\ ~Dangling(d),
           \A b \in Blocks \ spoilt' : Shown(d, b, Awaited(ideal', b))
    PROVE  WholeInv'
<1>1. db' = d /\ committed' = IF transaction THEN committed ELSE d
  BY DEF Write
<1>2. CurrentOK' /\ clean' \in BOOLEAN /\ spoilt \subseteq spoilt'
  <2>1. CASE clean'
    BY <1>1, <2>1, CleanOK
  <2>2. CASE ~clean'
    BY <1>1, <2>2, SpoilOK
  <2> QED
    BY <2>1, <2>2
<1>3. StatesOK'
  BY <1>1, <1>2 DEF WholeInv, StatesOK
<1>4. ~Dangling(committed')
  BY <1>1 DEF WholeInv
<1>5. Grown(db', committed') /\ (~transaction' => db' = committed')
  <2>1. CASE transaction
    BY <1>1, <2>1, GrownTransitive DEF WholeInv, StatesOK
  <2>2. CASE ~transaction
    BY <1>1, <2>2 DEF Grown, BlocksOK
  <2> QED
    BY <2>1, <2>2
<1>6. ASSUME NEW b \in Blocks \ spoilt'
      PROVE  Shown(committed', b, ideal'.published[b])
  <2>1. b \in Blocks \ spoilt
    BY <1>2
  <2>2. CASE transaction
    BY <1>1, <2>1, <2>2 DEF WholeInv
  <2>3. CASE ~transaction
    <3>1. b \notin ideal'.block
      BY <2>1, <2>3, NothingWaits
    <3>2. Awaited(ideal', b) = ideal'.published[b]
      BY <3>1, AwaitedIs
    <3> QED
      BY <1>1, <2>3, <3>2
  <2> QED
    BY <2>2, <2>3
<1> QED
  BY <1>1, <1>2, <1>3, <1>4, <1>5, <1>6 DEF WholeInv

\* A statement on another table than blocks and block_action_stats.
LEMMA OtherTables ==
    ASSUME WholeInv, NEW d, Write(d), DOMAIN d = DOMAIN db, d.blocks = db.blocks, d.rows = db.rows,
           transaction' = transaction, current_block' = current_block,
           ideal' \in Ideals, ideal'.block = ideal.block, ideal'.published = ideal.published,
           ideal'.pending = ideal.pending,
           nactions' \in Nat, checkout_time' \in SUBSET Commits, block_stats' \in BlockStats,
           NEW fail, Spoil(fail),
           clean' => nactions' = ideal'.n /\ checkout_time' = ideal'.checkout /\ block_stats' = ideal'.stats
    PROVE  WholeInv'
<1>1. BlocksOK(db)
  BY DEF WholeInv, StatesOK
<1>2. /\ BlocksOK(d) /\ Grown(d, db) /\ Len(d.blocks) = Len(db.blocks)
      /\ \A b : Leaves(db, d, b)
      /\ Dangling(d) <=> Dangling(db)
  BY <1>1, SameBlocksAndRows
<1>3. (clean' => clean) /\ spoilt \subseteq spoilt'
  BY DEF Spoil
<1>4. (~transaction => ~Dangling(d)) /\ (clean' => ~Dangling(d))
  BY <1>2, <1>3 DEF WholeInv, CurrentOK
<1>5. ASSUME NEW b \in Blocks \ spoilt' PROVE Shown(d, b, Awaited(ideal', b))
  <2>1. Shown(db, b, Awaited(ideal, b))
    BY <1>3 DEF WholeInv
  <2>2. Awaited(ideal', b) = Awaited(ideal, b)
    BY DEF Awaited
  <2> QED
    BY <1>2, <2>1, <2>2, ShownKept
<1> QED
  BY <1>2, <1>4, <1>5, WriteStep

LEMMA IdealIs ==
    ASSUME StatesOK
    PROVE  /\ ideal \in Ideals /\ ideal.block \in BlockSets /\ ideal.n \in Nat
           /\ ideal.checkout \in SUBSET Commits /\ ideal.stats \in BlockStats
           /\ ideal.pending \in Seq(Reports) /\ ideal.published \in [Blocks -> Seq(Reports)]
BY DEF StatesOK, Ideals

\* While nothing failed, the thread is in a block when the messages are.
LEMMA InBlock ==
    ASSUME WholeInv, clean
    PROVE  current_block = {} <=> ideal.block = {}
BY DEF WholeInv, CurrentOK, current_hash

LEMMA AddBlockStatsOK ==
    ASSUME NEW s \in BlockStats, NEW a \in Actions
    PROVE  add_block_stats(s, a) \in BlockStats
<1> DEFINE Counts == [tezedge : Nat, irmin : Nat]
           old == At(s, a.root, [tezedge |-> 0, irmin |-> 0])
           new == [tezedge |-> old.tezedge + One(a.tezedge), irmin |-> old.irmin + One(a.irmin)]
<1>1. PICK D \in SUBSET Roots : s \in [D -> Counts]
  BY DEF BlockStats
<1>2. old \in Counts
  BY <1>1 DEF At
<1>3. One(a.tezedge) \in Nat /\ One(a.irmin) \in Nat
  BY DEF One
<1>4. new \in Counts
  <2> HIDE DEF old
  <2> QED
    BY <1>2, <1>3
<1>5. a.root \in Roots
  BY DEF Roots
<1>6. add_block_stats(s, a) = [x \in DOMAIN s \cup {a.root} |-> IF x = a.root THEN new ELSE s[x]]
  BY Zenon DEF add_block_stats, Put
<1> HIDE DEF new, Counts
<1>7. add_block_stats(s, a) \in [D \cup {a.root} -> Counts]
  BY <1>1, <1>4, <1>6
<1> QED
  BY <1>5, <1>7 DEF BlockStats, Counts

LEMMA SetOperationWhole == ASSUME WholeInv, set_current_operation PROVE WholeInv'
<1>1. PICK fail \in {"no", "insert", "find"} :
        /\ Write([db EXCEPT !.operations =
                    set_current_in(@, Head(channel).operation, current_operation, fail)])
        /\ UNCHANGED <<current_block, stats, transaction, ideal>> /\ Spoil(fail)
  BY Zenon DEF set_current_operation
<1> DEFINE d == [db EXCEPT !.operations =
                    set_current_in(@, Head(channel).operation, current_operation, fail)]
<1>2. "blocks" \in DOMAIN db /\ "rows" \in DOMAIN db
  BY DEF WholeInv, StatesOK, BlocksOK, EmptyDb
<1>3. DOMAIN d = DOMAIN db /\ d.blocks = db.blocks /\ d.rows = db.rows
  BY <1>2, Zenon
<1>4. Write(d)
  BY <1>1
<1> HIDE DEF d
<1>5. /\ ideal' = ideal /\ nactions' = nactions /\ checkout_time' = checkout_time
      /\ block_stats' = block_stats /\ transaction' = transaction /\ current_block' = current_block
  BY <1>1 DEF stats
<1>6. /\ ideal \in Ideals /\ nactions \in Nat /\ checkout_time \in SUBSET Commits
      /\ block_stats \in BlockStats
  BY DEF WholeInv, StatesOK
<1>7. clean' => clean
  BY <1>1 DEF Spoil
<1>8. clean' => nactions = ideal.n /\ checkout_time = ideal.checkout /\ block_stats = ideal.stats
  BY <1>7 DEF WholeInv, CurrentOK
<1> QED
  BY <1>1, <1>3, <1>4, <1>5, <1>6, <1>8, OtherTables

LEMMA CheckoutWhole == ASSUME GlobalInv, WholeInv, insert_checkout PROVE WholeInv'
<1> DEFINE m == Head(channel)
<1>1. PICK fail \in {"no", "insert", "find"} :
        /\ Receive("Checkout") /\ (fail # "no" => current_block # {})
        /\ Write(IF current_block = {} THEN db
                 ELSE [db EXCEPT !.contexts = set_current_in(@, {m.context}, current_context, fail)])
        /\ checkout_time' = IF current_block # {} /\ fail = "no" THEN {m.time} ELSE checkout_time
        /\ UNCHANGED <<current_block, nactions, block_stats, transaction>>
        /\ ideal' = IF ideal.block = {} THEN ideal ELSE [ideal EXCEPT !.checkout = {m.time}]
        /\ Spoil(fail)
  BY Zenon DEF insert_checkout
<1>2. m \in Messages /\ m.t = "Checkout"
  BY <1>1, ReceiveIs
<1>3. m.time \in Commits
  BY <1>2 DEF Messages
<1> DEFINE e == [db EXCEPT !.contexts = set_current_in(@, {m.context}, current_context, fail)]
           d == IF current_block = {} THEN db ELSE e
<1>4. "blocks" \in DOMAIN db /\ "rows" \in DOMAIN db
  BY DEF WholeInv, StatesOK, BlocksOK, EmptyDb
<1>5. DOMAIN d = DOMAIN db /\ d.blocks = db.blocks /\ d.rows = db.rows
  <2>1. DOMAIN e = DOMAIN db /\ e.blocks = db.blocks /\ e.rows = db.rows
    BY <1>4, Zenon
  <2> HIDE DEF e
  <2> QED
    BY <2>1
<1>6. Write(d)
  BY <1>1, Zenon
<1> HIDE DEF d, m
<1>7. StatesOK
  BY DEF WholeInv
<1>8. nactions \in Nat /\ checkout_time' \in SUBSET Commits /\ block_stats \in BlockStats
  BY <1>1, <1>3, <1>7 DEF StatesOK
<1>9. /\ ideal' \in Ideals /\ ideal'.block = ideal.block /\ ideal'.published = ideal.published
      /\ ideal'.pending = ideal.pending /\ ideal'.n = ideal.n /\ ideal'.stats = ideal.stats
      /\ ideal'.checkout = IF ideal.block = {} THEN ideal.checkout ELSE {m.time}
  <2>1. CASE ideal.block = {}
    BY <1>1, <1>7, <2>1, IdealIs
  <2>2. CASE ideal.block # {}
    <3> DEFINE k == {m.time}
    <3>1. ideal' = [ideal EXCEPT !.checkout = k] /\ k \in SUBSET Commits
      BY <1>1, <1>3, <2>2
    <3> HIDE DEF k
    <3>2. /\ ideal' \in Ideals /\ ideal'.block = ideal.block /\ ideal'.published = ideal.published
          /\ ideal'.pending = ideal.pending /\ ideal'.n = ideal.n /\ ideal'.stats = ideal.stats
          /\ ideal'.checkout = k
      BY <1>7, <3>1, IdealIs DEF Ideals
    <3> QED
      BY <2>2, <3>2 DEF k
  <2> QED
    BY <2>1, <2>2
<1>10. ASSUME clean'
       PROVE  nactions' = ideal'.n /\ checkout_time' = ideal'.checkout /\ block_stats' = ideal'.stats
  <2>1. clean /\ fail = "no"
    BY <1>1, <1>10 DEF Spoil
  <2>2. nactions = ideal.n /\ checkout_time = ideal.checkout /\ block_stats = ideal.stats
    BY <2>1 DEF WholeInv, CurrentOK
  <2> QED
    BY <1>1, <1>9, <2>1, <2>2, InBlock
<1> QED
  BY <1>1, <1>5, <1>6, <1>8, <1>9, <1>10, OtherTables

LEMMA ActionWhole == ASSUME GlobalInv, WholeInv, insert_action PROVE WholeInv'
<1> DEFINE a == Head(channel).action
           keyless == a.root = ""
           said == [ideal EXCEPT !.n = @ + 1,
                                 !.stats = IF a.root = "" THEN @ ELSE add_block_stats(@, a)]
           e == [db EXCEPT !.keys = @ \cup {a.root}]
<1>1. PICK fail \in {"no", "insert", "find"} :
        /\ Receive("Action") /\ (fail # "no" => current_block # {} /\ ~keyless)
        /\ nactions' = IF current_block # {} /\ fail = "no" THEN nactions + 1 ELSE nactions
        /\ block_stats' = IF current_block # {} /\ ~keyless /\ fail = "no"
                          THEN add_block_stats(block_stats, a) ELSE block_stats
        /\ (Write(e) \/ Write(db))
        /\ UNCHANGED <<current, checkout_time, transaction>>
        /\ ideal' = IF ideal.block = {} THEN ideal ELSE said
        /\ Spoil(fail)
  BY Zenon DEF insert_action
<1> DEFINE counted == IF keyless THEN ideal.stats ELSE add_block_stats(ideal.stats, a)
<1> HIDE DEF said, keyless
<1>2. a \in Actions
  <2>1. Head(channel) \in Messages /\ Head(channel).t = "Action"
    BY <1>1, ReceiveIs
  <2> QED
    BY <2>1 DEF Messages
<1>3. "blocks" \in DOMAIN db /\ "rows" \in DOMAIN db
  BY DEF WholeInv, StatesOK, BlocksOK, EmptyDb
<1>4. DOMAIN e = DOMAIN db /\ e.blocks = db.blocks /\ e.rows = db.rows
  BY <1>3, Zenon
<1>5. Write(e) \/ Write(db)
  BY <1>1
<1> HIDE DEF e, a
<1>6. StatesOK
  BY DEF WholeInv
<1>7. nactions' \in Nat /\ checkout_time' \in SUBSET Commits /\ block_stats' \in BlockStats
  BY <1>1, <1>2, <1>6, AddBlockStatsOK DEF StatesOK
<1>8. /\ ideal' \in Ideals /\ ideal'.block = ideal.block /\ ideal'.published = ideal.published
      /\ ideal'.pending = ideal.pending /\ ideal'.checkout = ideal.checkout
      /\ ideal'.n = (IF ideal.block = {} THEN ideal.n ELSE ideal.n + 1)
      /\ ideal'.stats = (IF ideal.block = {} THEN ideal.stats ELSE counted)
  <2>1. CASE ideal.block = {}
    BY <1>1, <1>6, <2>1, IdealIs
  <2>2. CASE ideal.block # {}
    <3> DEFINE k == ideal.n + 1
    <3>1. k \in Nat /\ counted \in BlockStats
      BY <1>2, <1>6, IdealIs, AddBlockStatsOK
    <3>2. ideal' = [[ideal EXCEPT !.n = k] EXCEPT !.stats = counted]
      <4>1. ideal' = said
        BY <1>1, <2>2
      <4>2. "n" # "stats"
        OBVIOUS
      <4> QED
        BY <4>1, <4>2, Zenon DEF said, keyless
    <3> HIDE DEF k, counted
    <3> DEFINE i1 == [ideal EXCEPT !.n = k]
    <3>3. /\ i1 \in Ideals /\ i1.block = ideal.block /\ i1.published = ideal.published
          /\ i1.pending = ideal.pending /\ i1.checkout = ideal.checkout /\ i1.n = k
      BY <1>6, <3>1, IdealIs DEF Ideals
    <3>4. ideal' = [i1 EXCEPT !.stats = counted]
      BY <3>2
    <3> HIDE DEF i1
    <3>5. /\ ideal' \in Ideals /\ ideal'.block = ideal.block /\ ideal'.published = ideal.published
          /\ ideal'.pending = ideal.pending /\ ideal'.checkout = ideal.checkout
          /\ ideal'.n = k /\ ideal'.stats = counted
      BY <3>1, <3>3, <3>4 DEF Ideals
    <3> QED
      BY <2>2, <3>5 DEF k
  <2> QED
    BY <2>1, <2>2
<1>9. ASSUME clean'
      PROVE  nactions' = ideal'.n /\ checkout_time' = ideal'.checkout /\ block_stats' = ideal'.stats
  <2>1. clean /\ fail = "no"
    BY <1>1, <1>9 DEF Spoil
  <2>2. nactions = ideal.n /\ checkout_time = ideal.checkout /\ block_stats = ideal.stats
    BY <2>1 DEF WholeInv, CurrentOK
  <2> QED
    BY <1>1, <1>8, <2>1, <2>2, InBlock
<1>10. transaction' = transaction /\ current_block' = current_block
  BY <1>1 DEF current
<1> QED
  BY <1>1, <1>4, <1>5, <1>7, <1>8, <1>9, <1>10, OtherTables

\* A commit may not leave rows without their block.
LEMMA CommitNotDangling ==
    ASSUME NEW d, BlocksOK(d), NEW time \in Commits, nactions \in Nat, checkout_time \in SUBSET Commits,
           NEW g, NEW e, NEW roots, ~Dangling(d),
           \A r \in roots : BlockRow(d, r).block \in DOMAIN d.blocks
    PROVE  ~Dangling(CommitTo(d, time, g, e, roots))
<1> DEFINE v == CommitTo(d, time, g, e, roots)
<1>1. /\ BlocksOK(v) /\ Len(v.blocks) = Len(d.blocks)
      /\ v.rows = d.rows \cup {BlockRow(d, r) : r \in roots}
  BY CommitToIs
<1> HIDE DEF v
<1>2. DOMAIN v.blocks = DOMAIN d.blocks
  BY <1>1 DEF BlocksOK
<1>3. ~Dangling(v)
  BY <1>1, <1>2 DEF Dangling
<1> QED
  BY <1>3 DEF v

\* What insert_commit does, but for the global statistics.
CommitStep(fail) ==
    LET m == Head(channel)
        roots == DOMAIN block_stats
        refused == ~transaction /\ Dangling(sync_block_stats(db, roots))
    IN /\ Receive("Commit")
       /\ \/ (current_block = {} \/ fail = "update") /\ db' = db /\ committed' = committed
          \/ /\ current_block # {}
             /\ \E g, e : \E r \in SUBSET roots :
                   /\ refused => r = {}
                   /\ fail = "no" /\ ~refused => r = roots
                   /\ Write(CommitTo(db, m.time, g, e, r))
       /\ fail # "no" => current_block # {}
       /\ UNCHANGED <<current_block, nactions, checkout_time, block_stats, transaction>>
       /\ ideal' = IF ideal.block = {} THEN ideal
                   ELSE [ideal EXCEPT !.pending = Append(ideal.pending,
                            [n |-> ideal.n, checkout |-> ideal.checkout, time |-> m.time,
                             stats |-> ideal.stats])]
       /\ Spoil(fail)

LEMMA InsertCommitIs == ASSUME insert_commit PROVE \E fail : CommitStep(fail)
<1> DEFINE m == Head(channel)
           roots == DOMAIN block_stats
           g == add_global_stats(global_stats,
                    [root |-> "commit", kind |-> "commit",
                     tezedge |-> m.time.tezedge, irmin |-> m.time.irmin])
           refused == ~transaction /\ current_block # {} /\ Dangling(sync_block_stats(db, roots))
           written(fail) == IF refused \/ fail = "global" THEN {{}}
                            ELSE IF fail = "rows" THEN SUBSET roots \ {roots} ELSE {roots}
<1>1. PICK fail \in {"no", "update", "global", "rows"} :
        /\ Receive("Commit")
        /\ fail # "no" => current_block # {}
        /\ IF current_block = {} \/ fail = "update" THEN UNCHANGED <<db, committed>>
           ELSE \E e \in Written(g, fail) : \E r \in written(fail) : Write(CommitTo(db, m.time, g, e, r))
        /\ UNCHANGED <<current, block_started_at, nactions, checkout_time, block_stats, transaction>>
        /\ ideal' = IF ideal.block = {} THEN ideal
                    ELSE [ideal EXCEPT !.pending = Append(ideal.pending,
                             [n |-> ideal.n, checkout |-> ideal.checkout, time |-> m.time,
                              stats |-> ideal.stats])]
        /\ Spoil(fail)
  BY Zenon DEF insert_commit, CommitTo
<1>2. ASSUME NEW r \in written(fail), current_block # {}, fail # "update"
      PROVE  /\ r \in SUBSET roots /\ (refused => r = {}) /\ (fail = "no" /\ ~refused => r = roots)
  BY <1>2
<1> HIDE DEF g, written
<1>3. CommitStep(fail)
  BY <1>1, <1>2 DEF CommitStep, current
<1> QED
  BY <1>3

\* The rows that a commit writes are about the current block.
LEMMA CurrentRows ==
    ASSUME WholeInv
    PROVE  /\ \A b \in Blocks \ spoilt : b \notin ideal.block =>
                  \A c \in current_block : c.id \in DOMAIN db.blocks => db.blocks[c.id].hash # b
           /\ clean /\ current_block # {} => \A r : BlockRow(db, r).block \in DOMAIN db.blocks
<1>1. ASSUME NEW b \in Blocks \ spoilt, b \notin ideal.block, NEW c \in current_block,
             c.id \in DOMAIN db.blocks
      PROVE  db.blocks[c.id].hash # b
  <2>1. CASE clean
    <3>1. db.blocks[c.id].hash = c.hash /\ c.hash \in ideal.block
      BY <2>1 DEF WholeInv, CurrentOK, current_hash
    <3> QED
      BY <1>1, <3>1
  <2>2. CASE ~clean
    BY <1>1, <2>2 DEF WholeInv, CurrentOK
  <2> QED
    BY <2>1, <2>2
<1>2. ASSUME clean, current_block # {}, NEW r PROVE BlockRow(db, r).block \in DOMAIN db.blocks
  <2>1. \E c \in current_block : BlockRow(db, r).block = c.id
    BY <1>2, BlockRowIs
  <2> QED
    BY <1>2, <2>1 DEF WholeInv, CurrentOK
<1> QED
  BY <1>1, <1>2

LEMMA CommitWhole == ASSUME GlobalInv, WholeInv, insert_commit PROVE WholeInv'
<1>1. PICK fail : CommitStep(fail)
  BY InsertCommitIs
<1> DEFINE m == Head(channel)
           roots == DOMAIN block_stats
           refused == ~transaction /\ Dangling(sync_block_stats(db, roots))
           x == [n |-> ideal.n, checkout |-> ideal.checkout, time |-> m.time, stats |-> ideal.stats]
<1>2. m.time \in Commits
  <2>1. m \in Messages /\ m.t = "Commit"
    BY <1>1, ReceiveIs DEF CommitStep
  <2> QED
    BY <2>1 DEF Messages
<1>3. /\ StatesOK /\ BlocksOK(db) /\ nactions \in Nat /\ checkout_time \in SUBSET Commits
      /\ block_stats \in BlockStats
  BY DEF WholeInv, StatesOK
<1>4. /\ current_block' = current_block /\ nactions' = nactions /\ checkout_time' = checkout_time
      /\ block_stats' = block_stats /\ transaction' = transaction /\ Spoil(fail)
      /\ fail # "no" => current_block # {}
  BY <1>1 DEF CommitStep
<1>5. x \in Reports
  BY <1>2, <1>3, IdealIs DEF Reports
<1>6. /\ ideal' \in Ideals /\ ideal'.block = ideal.block /\ ideal'.published = ideal.published
      /\ ideal'.n = ideal.n /\ ideal'.checkout = ideal.checkout /\ ideal'.stats = ideal.stats
      /\ ideal'.pending = IF ideal.block = {} THEN ideal.pending ELSE Append(ideal.pending, x)
  <2>1. CASE ideal.block = {}
    BY <1>1, <1>3, <2>1, IdealIs DEF CommitStep
  <2>2. CASE ideal.block # {}
    <3> DEFINE p == Append(ideal.pending, x)
    <3>1. p \in Seq(Reports)
      BY <1>3, <1>5, IdealIs
    <3>2. ideal' = [ideal EXCEPT !.pending = p]
      BY <1>1, <2>2 DEF CommitStep
    <3> HIDE DEF p
    <3>3. /\ ideal' \in Ideals /\ ideal'.block = ideal.block /\ ideal'.published = ideal.published
          /\ ideal'.n = ideal.n /\ ideal'.checkout = ideal.checkout /\ ideal'.stats = ideal.stats
          /\ ideal'.pending = p
      BY <1>3, <3>1, <3>2, IdealIs DEF Ideals
    <3> QED
      BY <2>2, <3>3 DEF p
  <2> QED
    BY <2>1, <2>2
<1> HIDE DEF x
<1>7. /\ clean' => clean /\ fail = "no" /\ spoilt' = spoilt
      /\ ~clean' => ideal.block \subseteq spoilt'
      /\ spoilt \subseteq spoilt'
  BY <1>4 DEF Spoil
<1>8. clean' => nactions = ideal.n /\ checkout_time = ideal.checkout /\ block_stats = ideal.stats
  BY <1>7 DEF WholeInv, CurrentOK
<1>9. ASSUME NEW b \in Blocks \ spoilt', b \notin ideal.block
      PROVE  Awaited(ideal', b) = Awaited(ideal, b) /\ b \in Blocks \ spoilt
  <2>1. ideal \in Ideals /\ ideal' \in Ideals /\ b \notin ideal'.block
    BY <1>3, <1>6, <1>9, IdealIs
  <2>2. Awaited(ideal', b) = ideal'.published[b]
    BY <2>1, AwaitedIs
  <2>3. Awaited(ideal, b) = ideal.published[b]
    BY <1>9, <2>1, AwaitedIs
  <2> QED
    BY <1>6, <1>7, <2>2, <2>3
<1>10. ASSUME NEW b \in Blocks \ spoilt', b \in ideal.block
       PROVE  /\ clean' /\ clean /\ fail = "no" /\ transaction /\ current_block # {}
              /\ b \in Blocks \ spoilt
              /\ Awaited(ideal', b) = Append(Awaited(ideal, b), x)
  <2>1. clean' /\ clean /\ fail = "no" /\ b \in Blocks \ spoilt
    BY <1>7, <1>10
  <2>2. transaction /\ current_block # {}
    BY <1>10, <2>1, InBlock DEF WholeInv, CurrentOK
  <2>3. /\ ideal.published[b] \in Seq(Reports) /\ ideal.pending \in Seq(Reports)
        /\ Awaited(ideal, b) = ideal.published[b] \o ideal.pending
        /\ Awaited(ideal', b) = ideal.published[b] \o Append(ideal.pending, x)
    BY <1>3, <1>6, <1>10, AwaitedIs, IdealIs
  <2>4. \A s, t \in Seq(Reports) : s \o Append(t, x) = Append(s \o t, x)
    BY <1>5
  <2> QED
    BY <2>1, <2>2, <2>3, <2>4
<1>11. CASE (current_block = {} \/ fail = "update") /\ db' = db /\ committed' = committed
  <2>1. Write(db)
    BY <1>11 DEF Write, WholeInv
  <2>2. \A b \in Blocks \ spoilt' : b \notin ideal.block
    BY <1>10, <1>11
  <2>3. \A b \in Blocks \ spoilt' : Shown(db, b, Awaited(ideal', b))
    BY <1>9, <2>2 DEF WholeInv
  <2>4. Grown(db, db)
    BY <1>3 DEF Grown, BlocksOK
  <2>5. (~transaction => ~Dangling(db)) /\ (clean' => ~Dangling(db))
    BY <1>7 DEF WholeInv, CurrentOK
  <2> QED
    BY <1>3, <1>4, <1>6, <1>8, <2>1, <2>3, <2>4, <2>5, WriteStep
<1>12. ASSUME NEW g, NEW e, NEW r \in SUBSET roots, current_block # {}, refused => r = {},
              fail = "no" /\ ~refused => r = roots, Write(CommitTo(db, m.time, g, e, r))
       PROVE  WholeInv'
  <2> DEFINE d == CommitTo(db, m.time, g, e, r)
  <2>1. BlocksOK(d) /\ Grown(d, db) /\ Len(d.blocks) = Len(db.blocks)
    BY <1>2, <1>3, CommitToIs
  <2>2. ~transaction => ~Dangling(d)
    <3> SUFFICES ASSUME ~transaction PROVE ~Dangling(d)
      OBVIOUS
    <3>1. ~Dangling(db)
      BY DEF WholeInv
    <3>2. CASE refused
      <4>1. r = {}
        BY <1>12, <3>2
      <4> QED
        BY <1>2, <1>3, <3>1, <4>1, CommitNotDangling
    <3>3. CASE ~refused
      <4>1. ~Dangling(sync_block_stats(db, roots))
        BY <3>3
      <4> DEFINE v == sync_block_stats(db, roots)
      <4>2. "blocks" \in DOMAIN db /\ "rows" \in DOMAIN db
        BY <1>3 DEF BlocksOK, EmptyDb
      <4>3. v.blocks = db.blocks /\ v.rows = db.rows \cup {BlockRow(db, q) : q \in roots}
        BY <4>2, Zenon DEF sync_block_stats
      <4> HIDE DEF v
      <4>4. \A q \in roots : BlockRow(db, q).block \in DOMAIN db.blocks
        BY <4>1, <4>3 DEF Dangling, v
      <4>5. \A q \in r : BlockRow(db, q).block \in DOMAIN db.blocks
        BY <4>4
      <4> QED
        BY <1>2, <1>3, <3>1, <4>5, CommitNotDangling
    <3> QED
      BY <3>2, <3>3
  <2>3. clean' => ~Dangling(d)
    <3> SUFFICES ASSUME clean' PROVE ~Dangling(d)
      OBVIOUS
    <3>1. clean /\ ~Dangling(db)
      BY <1>7 DEF WholeInv, CurrentOK
    <3>2. \A q \in r : BlockRow(db, q).block \in DOMAIN db.blocks
      BY <1>12, <3>1, CurrentRows
    <3> QED
      BY <1>2, <1>3, <3>1, <3>2, CommitNotDangling
  <2>4. ASSUME NEW b \in Blocks \ spoilt' PROVE Shown(d, b, Awaited(ideal', b))
    <3>1. CASE b \notin ideal.block
      <4>1. Shown(db, b, Awaited(ideal', b)) /\ b \in Blocks \ spoilt
        BY <1>9, <3>1 DEF WholeInv
      <4>2. \A c \in current_block : c.id \in DOMAIN db.blocks => db.blocks[c.id].hash # b
        BY <3>1, <4>1, CurrentRows
      <4>3. Leaves(db, d, b)
        BY <1>2, <1>3, <1>12, <4>2, CommitLeaves
      <4> QED
        BY <4>1, <4>3, ShownKept
    <3>2. CASE b \in ideal.block
      <4>1. /\ clean' /\ clean /\ fail = "no" /\ transaction /\ b \in Blocks \ spoilt
            /\ Awaited(ideal', b) = Append(Awaited(ideal, b), x)
        BY <1>10, <3>2
      <4>2. r = roots
        BY <1>12, <4>1
      <4>3. Shown(db, b, Awaited(ideal, b)) /\ Awaited(ideal, b) \in Seq(Reports)
        BY <1>3, <4>1, AwaitedIs, IdealIs DEF WholeInv
      <4>4. x = [n |-> nactions, checkout |-> checkout_time, time |-> m.time, stats |-> block_stats]
        BY <1>8, <4>1 DEF x
      <4>5. ideal.block = {b}
        BY <1>3, <3>2, IdealIs DEF BlockSets
      <4>6. \A c \in current_block : c.id \in DOMAIN db.blocks /\ db.blocks[c.id].hash = b
        <5>1. \A c \in current_block : c.hash \in current_hash
          BY DEF current_hash
        <5>2. current_hash = {b}
          BY <4>1, <4>5 DEF WholeInv, CurrentOK
        <5>3. \A c \in current_block : c.id \in DOMAIN db.blocks /\ db.blocks[c.id].hash = c.hash
          BY <4>1 DEF WholeInv, CurrentOK
        <5> QED
          BY <5>1, <5>2, <5>3
      <4>7. PICK i \in DOMAIN db.blocks : db.blocks[i].hash = b
        BY <1>12, <4>6
      <4>8. \A c \in current_block : c.id = i
        BY <1>3, <4>6, <4>7 DEF BlocksOK
      <4> DEFINE s == Awaited(ideal, b)
                 y == [n |-> nactions, checkout |-> checkout_time, time |-> m.time, stats |-> block_stats]
      <4>9. Shown(CommitTo(db, m.time, g, e, DOMAIN block_stats), b, Append(s, y))
        <5> HIDE DEF s, m
        <5> QED
          BY <1>2, <1>3, <1>12, <4>3, <4>7, <4>8, CommitShown DEF s
      <4> QED
        BY <4>1, <4>2, <4>4, <4>9
    <3> QED
      BY <3>1, <3>2
  <2>5. Write(d)
    BY <1>12
  <2> HIDE DEF d
  <2> QED
    BY <1>3, <1>4, <1>6, <1>8, <2>1, <2>2, <2>3, <2>4, <2>5, WriteStep
<1> QED
  BY <1>1, <1>11, <1>12 DEF CommitStep

-----------------------------------------------------------------------------
(* The steps that set the block.                                           *)

LEMMA NoBlockStats == << >> \in BlockStats
<1>1. << >> \in [{} -> [tezedge : Nat, irmin : Nat]]
  OBVIOUS
<1> QED
  BY <1>1 DEF BlockStats

LEMMA NextBlockIs ==
    ASSUME StatesOK, NEW block \in BlockSets, ideal' = NextBlock(block)
    PROVE  /\ ideal' \in Ideals /\ ideal'.block = block /\ ideal'.n = 0 /\ ideal'.checkout = {}
           /\ ideal'.stats = << >>
           /\ \A b \in Blocks : /\ ideal'.published[b] = Awaited(ideal, b)
                                /\ Awaited(ideal', b) = Awaited(ideal, b)
<1> DEFINE p == [b \in Blocks |-> IF b \in ideal.block THEN ideal.published[b] \o ideal.pending
                                  ELSE ideal.published[b]]
<1>1. /\ ideal \in Ideals
      /\ DOMAIN ideal = {"block", "n", "checkout", "stats", "pending", "published"}
  BY IdealIs DEF Ideals
<1>2. ideal' = [ideal EXCEPT !.block = block, !.n = 0, !.checkout = {}, !.stats = << >>,
                             !.pending = << >>, !.published = p]
  BY Zenon DEF NextBlock
<1>3. p \in [Blocks -> Seq(Reports)] /\ \A b \in Blocks : p[b] = Awaited(ideal, b)
  <2>1. ASSUME NEW b \in Blocks PROVE p[b] = Awaited(ideal, b) /\ Awaited(ideal, b) \in Seq(Reports)
    BY <1>1, AwaitedIs
  <2> QED
    BY <2>1
<1> HIDE DEF p
<1>4. /\ ideal'.block = block /\ ideal'.n = 0 /\ ideal'.checkout = {} /\ ideal'.stats = << >>
      /\ ideal'.pending = << >> /\ ideal'.published = p
      /\ ideal' = [block |-> ideal'.block, n |-> ideal'.n, checkout |-> ideal'.checkout,
                   stats |-> ideal'.stats, pending |-> ideal'.pending, published |-> ideal'.published]
  <2>1. /\ ideal'.block = block /\ ideal'.n = 0 /\ ideal'.checkout = {} /\ ideal'.stats = << >>
        /\ ideal'.pending = << >> /\ ideal'.published = p /\ DOMAIN ideal' = DOMAIN ideal
    BY <1>1, <1>2, Zenon
  <2>2. ideal' = [k \in DOMAIN ideal |-> ideal'[k]]
    BY <1>2, <2>1, Zenon
  <2> QED
    BY <1>1, <2>1, <2>2
<1>5. ideal' \in Ideals
  <2>1. << >> \in Seq(Reports) /\ {} \in SUBSET Commits /\ 0 \in Nat
    OBVIOUS
  <2> QED
    BY <1>3, <1>4, <2>1, NoBlockStats DEF Ideals
<1>6. ASSUME NEW b \in Blocks PROVE Awaited(ideal', b) = Awaited(ideal, b)
  <2>1. Awaited(ideal, b) \in Seq(Reports)
    BY <1>1, AwaitedIs
  <2>2. Awaited(ideal', b) = Awaited(ideal, b) \o << >>
    BY <1>3, <1>4 DEF Awaited
  <2> QED
    BY <2>1, <2>2, ConcatEmptySeq
<1> QED
  BY <1>3, <1>4, <1>5, <1>6

LEMMA SetCurrentIs ==
    ASSUME NEW d, NEW block \in BlockSets
    PROVE  LET new == set_current_block_to(d, block)
           IN /\ block = {} => new = {}
              /\ block # {} /\ block = current_hash => new = current_block
              /\ Looks(block, current_hash) =>
                    /\ \A c \in new : c.hash \in block /\ c.id \in get_id_on_table(d, c.hash)
                    /\ \A h \in block : get_id_on_table(d, h) # {} => \E c \in new : c.hash = h
<1> DEFINE new == set_current_block_to(d, block)
           of(h) == [id : get_id_on_table(d, h), hash : {h}]
<1>1. block # {} /\ block = current_hash => new = current_block
  BY DEF set_current_block_to
<1>2. ~(block # {} /\ block = current_hash) => new = UNION {of(h) : h \in block}
  BY DEF set_current_block_to
<1>3. ASSUME NEW h, NEW c \in of(h) PROVE c.hash = h /\ c.id \in get_id_on_table(d, h)
  OBVIOUS
<1>4. ASSUME NEW h, NEW i \in get_id_on_table(d, h)
      PROVE  [id |-> i, hash |-> h] \in of(h) /\ [id |-> i, hash |-> h].hash = h
  OBVIOUS
<1> HIDE DEF of, new
<1>5. block = {} => new = {}
  BY <1>2
<1>6. ASSUME Looks(block, current_hash), NEW c \in new
      PROVE  c.hash \in block /\ c.id \in get_id_on_table(d, c.hash)
  <2>1. PICK h \in block : c \in of(h)
    BY <1>2, <1>6 DEF Looks
  <2> QED
    BY <1>3, <2>1
<1>7. ASSUME Looks(block, current_hash), NEW h \in block, get_id_on_table(d, h) # {}
      PROVE  \E c \in new : c.hash = h
  <2>1. PICK i : i \in get_id_on_table(d, h)
    BY <1>7
  <2>2. [id |-> i, hash |-> h] \in new
    BY <1>2, <1>4, <1>7, <2>1 DEF Looks
  <2> QED
    BY <1>4, <2>1, <2>2
<1> QED
  BY <1>1, <1>5, <1>6, <1>7 DEF new

\* The database with the row of the block, before the commit.
Inserted(fail) ==
    InsertBlockRow(IF Head(channel).block = {} /\ block_started_at /\ fail # "update"
                   THEN EndBlock(db) ELSE db, Head(channel).block, fail)

LEMMA InsertedOK ==
    ASSUME WholeInv, NEW fail, Head(channel).block \in BlockSets
    PROVE  LET d == Inserted(fail)
               block == Head(channel).block
           IN /\ BlocksOK(d) /\ Grown(d, db)
              /\ \A b : b \notin block => Leaves(db, d, b)
              /\ \A b, s : ~Dangling(db) /\ s \in Seq(Reports) /\ Shown(db, b, s) => Shown(d, b, s)
              /\ Dangling(d) => Dangling(db)
              /\ fail # "insert" /\ Looks(block, current_hash) =>
                    \A h \in block : get_id_on_table(d, h) # {}
<1> DEFINE block == Head(channel).block
           u == IF block = {} /\ block_started_at /\ fail # "update" THEN EndBlock(db) ELSE db
           d == InsertBlockRow(u, block, fail)
<1>1. BlocksOK(db)
  BY DEF WholeInv, StatesOK
<1>2. BlocksOK(u) /\ Grown(u, db) /\ (\A b : Leaves(db, u, b)) /\ (Dangling(u) <=> Dangling(db))
  <2>1. Grown(db, db)
    BY <1>1 DEF Grown, BlocksOK
  <2> QED
    BY <1>1, <2>1, EndBlockOK, LeavesItself
<1> HIDE DEF u
<1>3. /\ BlocksOK(d) /\ Grown(d, u) /\ (\A b : b \notin block => Leaves(u, d, b))
      /\ (Dangling(d) => Dangling(u))
      /\ fail # "insert" /\ Looks(block, current_hash) => \A h \in block : get_id_on_table(d, h) # {}
  BY <1>2, InsertBlockRowOK
<1>4. ASSUME NEW b, NEW s \in Seq(Reports), ~Dangling(db), Shown(db, b, s) PROVE Shown(d, b, s)
  <2>1. Shown(u, b, s)
    BY <1>2, <1>4, ShownKept
  <2> QED
    BY <1>2, <1>4, <2>1, ShownInserted
<1> HIDE DEF d
<1>5. Grown(d, db)
  BY <1>1, <1>2, <1>3, GrownTransitive
<1>6. \A b : b \notin block => Leaves(db, d, b)
  BY <1>2, <1>3, LeavesTransitive
<1> QED
  BY <1>2, <1>3, <1>4, <1>5, <1>6 DEF Inserted, d, u

\* The rows that current_block may name from now on are spoilt, if the step is.
LEMMA CurrentIsSpoilt ==
    ASSUME WholeInv, NEW d, NEW block \in BlockSets, BlocksOK(d), Grown(d, db),
           \A b : b \notin block => Leaves(db, d, b),
           NEW now, now = current_block \/ now = set_current_block_to(d, block)
    PROVE  \A c \in now : /\ c.hash \in spoilt \cup block \cup ideal.block
                          /\ c.id \in DOMAIN d.blocks => d.blocks[c.id].hash \in spoilt \cup block \cup ideal.block
<1> DEFINE bad == spoilt \cup block \cup ideal.block
<1>1. ASSUME NEW c \in current_block
      PROVE  c.hash \in bad /\ (c.id \in DOMAIN d.blocks => d.blocks[c.id].hash \in bad)
  <2>1. c.hash \in current_hash
    BY DEF current_hash
  <2>2. c.hash \in bad
    BY <2>1 DEF WholeInv, CurrentOK
  <2>3. c.id \in DOMAIN db.blocks => db.blocks[c.id].hash \in bad
    BY <2>2 DEF WholeInv, CurrentOK
  <2>4. ASSUME c.id \in DOMAIN d.blocks, d.blocks[c.id].hash \notin block
        PROVE  c.id \in DOMAIN db.blocks /\ d.blocks[c.id].hash = db.blocks[c.id].hash
    <3> DEFINE b == d.blocks[c.id].hash
    <3>1. get_id_on_table(d, b) = get_id_on_table(db, b)
      BY <2>4 DEF Leaves
    <3>2. c.id \in get_id_on_table(d, b)
      BY <2>4 DEF get_id_on_table
    <3> QED
      BY <3>1, <3>2 DEF get_id_on_table
  <2> QED
    BY <2>2, <2>3, <2>4
<1>2. ASSUME Looks(block, current_hash), NEW c \in set_current_block_to(d, block)
      PROVE  c.hash \in bad /\ (c.id \in DOMAIN d.blocks => d.blocks[c.id].hash \in bad)
  <2>1. c.hash \in block /\ c.id \in get_id_on_table(d, c.hash)
    BY <1>2, SetCurrentIs
  <2> QED
    BY <2>1 DEF get_id_on_table
<1>3. ~Looks(block, current_hash) => set_current_block_to(d, block) \in {{}, current_block}
  BY SetCurrentIs DEF Looks
<1> QED
  BY <1>1, <1>2, <1>3

\* Nothing failed: current_block names the block.
LEMMA CurrentIsSet ==
    ASSUME WholeInv, NEW d, NEW block \in BlockSets, BlocksOK(d), Grown(d, db),
           Looks(block, current_hash) => \A h \in block : get_id_on_table(d, h) # {},
           clean \/ block = {}
    PROVE  LET now == set_current_block_to(d, block)
           IN /\ {c.hash : c \in now} = block
              /\ \A c \in now : c.id \in DOMAIN d.blocks /\ d.blocks[c.id].hash = c.hash
<1> DEFINE now == set_current_block_to(d, block)
<1>1. CASE block = {}
  BY <1>1, SetCurrentIs
<1>2. CASE block # {} /\ block = current_hash
  <2>1. now = current_block
    BY <1>2, SetCurrentIs
  <2>2. \A c \in current_block : c.id \in DOMAIN db.blocks /\ db.blocks[c.id].hash = c.hash
    BY <1>2 DEF WholeInv, CurrentOK
  <2>3. DOMAIN db.blocks \subseteq DOMAIN d.blocks
    BY DEF Grown, WholeInv, StatesOK, BlocksOK
  <2>4. \A c \in current_block : c.id \in DOMAIN d.blocks /\ d.blocks[c.id].hash = c.hash
    BY <2>2, <2>3 DEF Grown
  <2> QED
    BY <1>2, <2>1, <2>4 DEF current_hash
<1>3. CASE Looks(block, current_hash)
  <2>1. /\ \A c \in now : c.hash \in block /\ c.id \in get_id_on_table(d, c.hash)
        /\ \A h \in block : \E c \in now : c.hash = h
    BY <1>3, SetCurrentIs
  <2> HIDE DEF now
  <2>2. {c.hash : c \in now} = block
    BY <2>1
  <2>3. \A c \in now : c.id \in DOMAIN d.blocks /\ d.blocks[c.id].hash = c.hash
    BY <2>1 DEF get_id_on_table
  <2> QED
    BY <2>2, <2>3 DEF now
<1> QED
  BY <1>1, <1>2, <1>3 DEF Looks

LEMMA SetBlockWhole == ASSUME GlobalInv, WholeInv, set_current_block PROVE WholeInv'
<1> DEFINE block == Head(channel).block
<1>1. PICK fail \in {"no", "update", "insert", "find", "commit", "begin"} :
        LET ends == block = {} /\ block_started_at
            updated == IF ends /\ fail # "update" THEN EndBlock(db) ELSE db
            inserted == InsertBlockRow(updated, block, fail)
            moved == fail \in {"no", "commit", "begin"}
            refused == transaction /\ (fail = "commit" \/ Dangling(inserted))
            done == fail = "no" /\ ~refused
        IN /\ Receive("SetBlock")
           /\ current_block' = IF moved THEN set_current_block_to(inserted, block)
                               ELSE current_block
           /\ transaction' = IF moved THEN done ELSE transaction
           /\ IF ~moved THEN Write(IF fail = "update" THEN db ELSE inserted)
              ELSE IF refused THEN db' = committed /\ UNCHANGED committed
              ELSE db' = inserted /\ committed' = inserted
           /\ IF done
              THEN /\ current_operation' = {} /\ current_context' = {}
                   /\ nactions' = 0 /\ checkout_time' = {} /\ block_stats' = << >>
              ELSE UNCHANGED <<current_operation, current_context, nactions, checkout_time,
                               block_stats>>
           /\ ideal' = NextBlock(block)
           /\ clean' = (done /\ (clean \/ block = {}))
           /\ spoilt' = IF clean /\ done THEN spoilt ELSE spoilt \cup block \cup ideal.block
  BY Zenon DEF set_current_block
<1> DEFINE ends == block = {} /\ block_started_at
           updated == IF ends /\ fail # "update" THEN EndBlock(db) ELSE db
           inserted == InsertBlockRow(updated, block, fail)
           moved == fail \in {"no", "commit", "begin"}
           refused == transaction /\ (fail = "commit" \/ Dangling(inserted))
           done == fail = "no" /\ ~refused
           now == set_current_block_to(inserted, block)
<1>2. block \in BlockSets
  <2>1. Head(channel) \in Messages /\ Head(channel).t = "SetBlock"
    BY <1>1, ReceiveIs
  <2> QED
    BY <2>1 DEF Messages, BlockSets
<1>3. StatesOK /\ BlocksOK(db) /\ BlocksOK(committed) /\ Grown(db, committed)
  BY DEF WholeInv, StatesOK
<1>4. /\ BlocksOK(inserted) /\ Grown(inserted, db)
      /\ \A b : b \notin block => Leaves(db, inserted, b)
      /\ \A b, s : ~Dangling(db) /\ s \in Seq(Reports) /\ Shown(db, b, s) => Shown(inserted, b, s)
      /\ Dangling(inserted) => Dangling(db)
      /\ fail # "insert" /\ Looks(block, current_hash) =>
            \A h \in block : get_id_on_table(inserted, h) # {}
  BY <1>2, InsertedOK DEF Inserted
<1>5. /\ ideal' \in Ideals /\ ideal'.block = block /\ ideal'.n = 0 /\ ideal'.checkout = {}
      /\ ideal'.stats = << >>
      /\ \A b \in Blocks : /\ ideal'.published[b] = Awaited(ideal, b)
                           /\ Awaited(ideal', b) = Awaited(ideal, b)
  BY <1>1, <1>2, <1>3, NextBlockIs
<1> HIDE DEF inserted
<1>6. Grown(inserted, inserted) /\ Grown(inserted, committed)
  <2>1. Grown(inserted, inserted)
    BY <1>4 DEF Grown, BlocksOK
  <2> QED
    BY <1>3, <1>4, <2>1, GrownTransitive
<1> HIDE DEF block
\* What the databases are after the step.
<1>7. /\ db' \in {db, inserted, committed} /\ committed' \in {db, inserted, committed}
      /\ Grown(db', committed') /\ (~transaction' => db' = committed')
      /\ done => db' = inserted /\ committed' = inserted /\ transaction'
  <2>1. CASE ~moved
    <3>1. /\ db' \in {db, inserted} /\ committed' = IF transaction THEN committed ELSE db'
          /\ transaction' = transaction
      BY <1>1, <2>1 DEF Write, inserted, block
    <3>2. Grown(db', committed')
      BY <1>3, <1>4, <1>6, <3>1, GrownTransitive DEF Grown, BlocksOK
    <3> QED
      BY <2>1, <3>1, <3>2
  <2>2. CASE moved /\ refused
    <3>1. db' = committed /\ committed' = committed
      BY <1>1, <2>2 DEF inserted, block
    <3>2. Grown(committed, committed)
      BY <1>3 DEF Grown, BlocksOK
    <3> QED
      BY <2>2, <3>1, <3>2
  <2>3. CASE moved /\ ~refused
    <3>1. db' = inserted /\ committed' = inserted /\ (done => transaction')
      BY <1>1, <2>3 DEF inserted, block
    <3> QED
      BY <1>6, <3>1
  <2> QED
    BY <2>1, <2>2, <2>3
<1>8. ~Dangling(committed')
  <2>1. CASE ~moved
    <3>1. /\ committed' = committed \/ (~transaction /\ committed' \in {db, inserted})
      BY <1>1, <2>1 DEF Write, inserted, block
    <3> QED
      BY <1>4, <3>1 DEF WholeInv
  <2>2. CASE moved /\ refused
    BY <1>1, <2>2 DEF inserted, block, WholeInv
  <2>3. CASE moved /\ ~refused
    <3>1. committed' = inserted
      BY <1>1, <2>3 DEF inserted, block
    <3> QED
      BY <1>4, <2>3, <3>1 DEF WholeInv
  <2> QED
    BY <2>1, <2>2, <2>3
<1>9. /\ clean' = (done /\ (clean \/ block = {}))
      /\ spoilt' = IF clean /\ done THEN spoilt ELSE spoilt \cup block \cup ideal.block
      /\ current_block' \in {now, current_block} /\ (done => current_block' = now)
      /\ clean' \in BOOLEAN /\ transaction' \in BOOLEAN
  <2>1. transaction \in BOOLEAN
    BY <1>3 DEF StatesOK
  <2> QED
    BY <1>1, <2>1 DEF inserted, block
<1>10. /\ done => nactions' = 0 /\ checkout_time' = {} /\ block_stats' = << >>
       /\ nactions' \in Nat /\ checkout_time' \in SUBSET Commits /\ block_stats' \in BlockStats
  <2>1. /\ done => nactions' = 0 /\ checkout_time' = {} /\ block_stats' = << >>
        /\ ~done => nactions' = nactions /\ checkout_time' = checkout_time /\ block_stats' = block_stats
    BY <1>1 DEF inserted, block
  <2> QED
    BY <1>3, <2>1, NoBlockStats DEF StatesOK
<1> HIDE DEF done
<1>11. StatesOK'
  BY <1>3, <1>4, <1>5, <1>7, <1>9, <1>10 DEF StatesOK
<1>12. CurrentOK'
  <2>1. CASE clean'
    <3>1. done /\ (clean \/ block = {}) /\ fail # "insert"
      BY <1>9, <2>1 DEF done
    <3>2. /\ {c.hash : c \in now} = block
          /\ \A c \in now : c.id \in DOMAIN inserted.blocks /\ inserted.blocks[c.id].hash = c.hash
      BY <1>2, <1>4, <3>1, CurrentIsSet
    <3>3. db' = inserted /\ committed' = inserted /\ transaction' /\ current_block' = now
      BY <1>7, <1>9, <3>1
    <3> HIDE DEF now
    <3>4. current_hash' = block
      BY <3>2, <3>3 DEF current_hash
    <3> QED
      BY <1>5, <1>8, <1>10, <2>1, <3>1, <3>2, <3>3, <3>4 DEF CurrentOK
  <2>2. CASE ~clean'
    <3>1. \A c \in current_block' :
             /\ c.hash \in spoilt \cup block \cup ideal.block
             /\ c.id \in DOMAIN inserted.blocks =>
                   inserted.blocks[c.id].hash \in spoilt \cup block \cup ideal.block
      BY <1>2, <1>4, <1>9, CurrentIsSpoilt
    <3>2. spoilt' = spoilt \cup block \cup ideal.block
      BY <1>9, <2>2
    <3>3. Grown(inserted, db') /\ BlocksOK(db')
      BY <1>3, <1>4, <1>6, <1>7
    <3>4. \A i \in DOMAIN db'.blocks :
             i \in DOMAIN inserted.blocks /\ inserted.blocks[i].hash = db'.blocks[i].hash
      BY <1>4, <3>3 DEF Grown, BlocksOK
    <3>5. current_hash' \subseteq spoilt'
      BY <3>1, <3>2 DEF current_hash
    <3> QED
      BY <1>5, <2>2, <3>1, <3>2, <3>4, <3>5 DEF CurrentOK
  <2> QED
    BY <2>1, <2>2
<1>13. ASSUME NEW b \in Blocks \ spoilt'
       PROVE  Shown(db', b, Awaited(ideal', b)) /\ Shown(committed', b, ideal'.published[b])
  <2>1. /\ b \in Blocks \ spoilt /\ Awaited(ideal, b) \in Seq(Reports)
        /\ Shown(db, b, Awaited(ideal, b)) /\ Shown(committed, b, ideal.published[b])
    BY <1>3, <1>9, AwaitedIs, IdealIs DEF WholeInv
  <2>2. CASE clean /\ done
    <3>1. ~Dangling(db)
      BY <2>2 DEF WholeInv, CurrentOK
    <3>2. Shown(inserted, b, Awaited(ideal, b))
      BY <1>4, <2>1, <3>1
    <3> QED
      BY <1>5, <1>7, <2>2, <3>2
  <2>3. CASE ~(clean /\ done)
    <3>1. b \notin block /\ b \notin ideal.block
      BY <1>9, <2>3
    <3>2. Awaited(ideal, b) = ideal.published[b]
      BY <1>3, <3>1, AwaitedIs, IdealIs
    <3>3. Shown(inserted, b, Awaited(ideal, b))
      BY <1>4, <2>1, <3>1, ShownKept
    <3> QED
      BY <1>5, <1>7, <2>1, <3>2, <3>3
  <2> QED
    BY <2>2, <2>3
<1> QED
  BY <1>7, <1>8, <1>11, <1>12, <1>13 DEF WholeInv

LEMMA OthersWhole ==
    ASSUME WholeInv, (\E m \in Messages : Hook(m)) \/ start_timing \/ InitAgain \/ UNCHANGED vars
    PROVE  WholeInv'
<1>1. UNCHANGED <<current_block, nactions, checkout_time, block_stats, transaction, db, committed,
                  ideal, clean, spoilt>>
  BY Zenon DEF Hook, start_timing, InitAgain, vars, current, stats, ghost
<1>2. StatesOK' /\ CurrentOK'
  BY <1>1 DEF WholeInv, StatesOK, CurrentOK, current_hash
<1> QED
  BY <1>1, <1>2 DEF WholeInv

LEMMA InitWhole == Init => WholeInv
<1> SUFFICES ASSUME Init PROVE WholeInv
  OBVIOUS
<1>1. /\ db = EmptyDb /\ committed = EmptyDb /\ current_block = {} /\ nactions = 0
      /\ checkout_time = {} /\ block_stats = << >> /\ clean = TRUE /\ transaction = FALSE /\ spoilt = {}
      /\ ideal = [block |-> {}, n |-> 0, checkout |-> {}, stats |-> << >>,
                  pending |-> << >>, published |-> [b \in Blocks |-> << >>]]
  BY DEF Init
<1>2. /\ EmptyDb.blocks = << >> /\ EmptyDb.rows = {} /\ << >> \in Seq(BlockRows)
      /\ DOMAIN << >> = {}
  BY DEF EmptyDb
<1>3. BlocksOK(EmptyDb) /\ ~Dangling(EmptyDb) /\ Grown(EmptyDb, EmptyDb)
  BY <1>2 DEF BlocksOK, Dangling, Grown
<1>4. /\ ideal \in Ideals /\ ideal.block = {} /\ ideal.n = 0 /\ ideal.checkout = {}
      /\ ideal.stats = << >> /\ \A b \in Blocks : ideal.published[b] = << >>
  <2> DEFINE none == [b \in Blocks |-> << >>]
             stat == << >>
  <2>1. << >> \in Seq(Reports) /\ {} \in BlockSets
    BY DEF BlockSets
  <2>2. none \in [Blocks -> Seq(Reports)] /\ \A b \in Blocks : none[b] = << >>
    BY <2>1
  <2>3. stat \in BlockStats
    BY NoBlockStats
  <2>4. ideal = [block |-> {}, n |-> 0, checkout |-> {}, stats |-> stat,
                 pending |-> << >>, published |-> none]
    BY <1>1
  <2> HIDE DEF none, stat
  <2>5. /\ ideal \in Ideals /\ ideal.block = {} /\ ideal.n = 0 /\ ideal.checkout = {}
        /\ ideal.stats = stat /\ ideal.published = none
    BY <2>1, <2>2, <2>3, <2>4 DEF Ideals
  <2> QED
    BY <2>2, <2>5 DEF stat
<1>5. current_hash = {}
  BY <1>1 DEF current_hash
<1>6. StatesOK
  BY <1>1, <1>3, <1>4, NoBlockStats DEF StatesOK
<1>7. CurrentOK
  BY <1>1, <1>3, <1>4, <1>5 DEF CurrentOK
<1>8. ASSUME NEW b \in Blocks
      PROVE  Shown(EmptyDb, b, << >>) /\ Awaited(ideal, b) = << >> /\ ideal.published[b] = << >>
  <2>1. get_id_on_table(EmptyDb, b) = {}
    BY <1>2 DEF get_id_on_table
  <2>2. RowsIn(EmptyDb, b) = {}
    BY <1>2, <2>1 DEF RowsIn
  <2>3. Awaited(ideal, b) = ideal.published[b] /\ ideal.published[b] = << >>
    BY <1>4, AwaitedIs
  <2> QED
    BY <2>1, <2>2, <2>3, RowsOfNothing DEF Shown
<1> QED
  BY <1>1, <1>3, <1>6, <1>7, <1>8 DEF WholeInv

\* The inductive invariant of blocks and their rows: of a block that no failure
\* spoilt, the connection sees what its commits said and other processes what
\* those before the last SetBlock did; current_block and the counts of the
\* thread are those of the messages while nothing failed, and afterwards name
\* spoilt blocks only.
THEOREM WholeInvHolds == Spec => []WholeInv
<1>1. Init => WholeInv
  BY InitWhole
<1>2. GlobalInv /\ WholeInv /\ [Next]_vars => WholeInv'
  BY SetBlockWhole, SetOperationWhole, CheckoutWhole, CommitWhole, ActionWhole, OthersWhole DEF Next
<1> QED
  BY <1>1, <1>2, GlobalInvHolds, PTL DEF Spec

\* Whatever statements, COMMITs and BEGINs of the timing thread fail, other
\* processes see of every block that no failure fell into the rows of exactly
\* its commits, whole and from the next SetBlock on.
THEOREM BlocksAreWhole == Spec => []WholeBlocks
<1>1. WholeInv => WholeBlocks
  <2> SUFFICES ASSUME WholeInv, NEW b \in Blocks \ spoilt
               PROVE  /\ RowsIn(committed, b) = RowsOf(ideal.published[b])
                      /\ ideal.published[b] # << >> =>
                            LastIs(committed, b, ideal.published[b][Len(ideal.published[b])])
    BY Zenon DEF WholeBlocks, RowsIn, LastIs, get_id_on_table
  <2> QED
    BY DEF WholeInv, Shown
<1> QED
  BY <1>1, WholeInvHolds, PTL
=============================================================================
