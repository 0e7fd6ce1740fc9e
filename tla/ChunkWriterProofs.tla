------------------------- MODULE ChunkWriterProofs -------------------------
(***************************************************************************)
(* Proofs about ChunkWriter for messages of any length, contents and       *)
(* chunks of any size, and any options.                                    *)
(***************************************************************************)
EXTENDS ChunkWriter, SequenceTheorems, WellFoundedInduction, TLAPS

-----------------------------------------------------------------------------
(* Induction: a set of numbers that holds zero and what follows each of    *)
(* its members is all of them, since there is no least number outside.     *)

LEMMA SetInduction ==
    ASSUME NEW T \in SUBSET Nat, 0 \in T, \A n \in T : n + 1 \in T
    PROVE  T = Nat
<1> SUFFICES ASSUME T # Nat PROVE FALSE
  OBVIOUS
<1> DEFINE R == OpToRel(<, Nat)
           U == Nat \ T
<1>1. \A x, y \in Nat : x < y => <<x, y>> \in R
  BY DEF OpToRel
<1>2. IsWellFoundedOn(R, Nat)
  BY NatLessThanWellFounded
<1>3. U \in SUBSET Nat /\ U # {}
  OBVIOUS
<1> HIDE DEF R, U
<1>4. PICK x \in U : \A y \in U : ~ (<<y, x>> \in R)
  BY <1>2, <1>3, WFMin
<1>5. x \in Nat /\ x \notin T /\ x # 0 /\ x - 1 \in Nat /\ x - 1 < x /\ (x - 1) + 1 = x
  BY DEF U
<1>6. x - 1 \in T
  BY <1>1, <1>4, <1>5 DEF U
<1>7. (x - 1) + 1 \in T
  BY <1>6
<1> QED
  BY <1>5, <1>7

\* A function defined step by step from a first value.
StepsIn(N, V) == [1 .. N -> [V -> V]]
Follows(h, N, V, base, step) ==
    /\ h \in [0 .. N -> V]
    /\ h[0] = base /\ \A i \in 1 .. N : h[i] = step[i][h[i - 1]]

LEMMA Recursion ==
    ASSUME NEW N \in Nat, NEW V, NEW base \in V, NEW step \in StepsIn(N, V)
    PROVE  \E h : Follows(h, N, V, base, step)
<1> USE DEF StepsIn, Follows
<1> DEFINE Steps(h, n) == h[0] = base /\ \A i \in 1 .. n : h[i] = step[i][h[i - 1]]
           T == {n \in Nat : n <= N => \E h \in [0 .. n -> V] : Steps(h, n)}
<1>1. 0 \in T
  <2>1. [i \in 0 .. 0 |-> base] \in [0 .. 0 -> V] /\ Steps([i \in 0 .. 0 |-> base], 0)
    OBVIOUS
  <2> QED
    BY <2>1
<1>2. ASSUME NEW n \in T PROVE n + 1 \in T
  <2>1. n \in Nat /\ n + 1 \in Nat
    OBVIOUS
  <2> SUFFICES ASSUME n + 1 <= N PROVE \E h \in [0 .. n + 1 -> V] : Steps(h, n + 1)
    BY <2>1, Zenon
  <2>2. n <= N /\ n + 1 \in 1 .. N
    BY <2>1
  <2>3. PICK h \in [0 .. n -> V] : Steps(h, n)
    BY <2>2
  <2> DEFINE next == step[n + 1][h[n]]
             w == [i \in 0 .. n + 1 |-> IF i <= n THEN h[i] ELSE next]
  <2>4. next \in V
    <3>1. h[n] \in V /\ step[n + 1] \in [V -> V]
      BY <2>1, <2>2, <2>3
    <3> QED
      BY <3>1
  <2>5. w \in [0 .. n + 1 -> V] /\ w[0] = base
    <3> HIDE DEF next
    <3> QED
      BY <2>1, <2>3, <2>4
  <2>6. \A i \in 1 .. n + 1 : w[i] = step[i][w[i - 1]]
    <3> SUFFICES ASSUME NEW i \in 1 .. n + 1 PROVE w[i] = step[i][w[i - 1]]
      OBVIOUS
    <3>1. CASE i = n + 1
      <4>1. w[i] = next /\ i - 1 = n /\ w[n] = h[n]
        BY <2>1, <3>1
      <4> QED
        BY <3>1, <4>1
    <3>2. CASE i \in 1 .. n
      <4>1. w[i] = h[i] /\ w[i - 1] = h[i - 1]
        BY <2>1, <3>2
      <4>2. h[i] = step[i][h[i - 1]]
        BY <2>3, <3>2
      <4> QED
        BY <4>1, <4>2
    <3> QED
      BY <2>1, <3>1, <3>2
  <2> HIDE DEF w
  <2> QED
    BY <2>5, <2>6
<1>3. T = Nat
  <2>1. T \in SUBSET Nat
    OBVIOUS
  <2> HIDE DEF T
  <2> QED
    BY <1>1, <1>2, <2>1, SetInduction
<1>4. N \in T
  BY <1>3
<1> QED
  BY <1>4

LEMMA SeqIntro ==
    ASSUME NEW S, NEW n \in Nat, NEW s \in [1 .. n -> S]
    PROVE  s \in Seq(S) /\ Len(s) = n
OBVIOUS

LEMMA SeqWider ==
    ASSUME NEW T, NEW S \in SUBSET T, NEW s \in Seq(S)
    PROVE  s \in Seq(T)
<1>1. Len(s) \in Nat /\ s \in [1 .. Len(s) -> S]
  OBVIOUS
<1>2. s \in [1 .. Len(s) -> T]
  <2>1. \A i \in 1 .. Len(s) : s[i] \in T
    BY <1>1
  <2> QED
    BY <1>1, <2>1
<1> QED
  BY <1>1, <1>2

LEMMA SeqOfNat ==
    ASSUME NEW S \in SUBSET Nat, NEW s \in Seq(S)
    PROVE  s \in Seq(Nat)
BY SeqWider

-----------------------------------------------------------------------------
(* Sums of sizes.                                                          *)

LEMMA TotalIs ==
    ASSUME NEW s \in Seq(Nat)
    PROVE  /\ Total(s, 0) = 0
           /\ \A i \in 0 .. Len(s) : Total(s, i) \in Nat
           /\ \A i \in 1 .. Len(s) : Total(s, i) = Total(s, i - 1) + s[i]
<1> DEFINE N == Len(s)
           total[k \in 0 .. Len(s)] == IF k = 0 THEN 0 ELSE total[k - 1] + s[k]
           Good(h) == h = [k \in 0 .. N |-> IF k = 0 THEN 0 ELSE h[k - 1] + s[k]]
           step == [i \in 1 .. N |-> [v \in Nat |-> v + s[i]]]
<1>1. N \in Nat /\ \A i \in 1 .. N : s[i] \in Nat
  OBVIOUS
<1>2. \A i : Total(s, i) = total[i]
  BY DEF Total
<1>3. total = CHOOSE h : Good(h)
  BY DEF total
<1> HIDE DEF N, total
<1>4. \A i \in 1 .. N : \A v \in Nat : step[i][v] = v + s[i]
  OBVIOUS
<1>0. step \in [1 .. N -> [Nat -> Nat]]
  BY <1>1
<1> HIDE DEF step
<1>5. PICK h : h \in [0 .. N -> Nat] /\ h[0] = 0 /\ \A i \in 1 .. N : h[i] = step[i][h[i - 1]]
  <2>1. 0 \in Nat /\ N \in Nat /\ step \in StepsIn(N, Nat)
    BY <1>0, <1>1 DEF StepsIn
  <2>2. \E h : Follows(h, N, Nat, 0, step)
    BY <2>1, Recursion
  <2> QED
    BY <2>2 DEF Follows
<1>6. \A i \in 1 .. N : h[i] = h[i - 1] + s[i]
  <2> SUFFICES ASSUME NEW i \in 1 .. N PROVE h[i] = h[i - 1] + s[i]
    OBVIOUS
  <2>1. i - 1 \in 0 .. N
    BY <1>1
  <2>2. h[i - 1] \in Nat
    BY <1>5, <2>1
  <2> QED
    BY <1>4, <1>5, <2>2
<1>7. Good(h)
  <2> DEFINE w == [k \in 0 .. N |-> IF k = 0 THEN 0 ELSE h[k - 1] + s[k]]
  <2>1. \A i \in 0 .. N : h[i] = w[i]
    BY <1>1, <1>5, <1>6
  <2>2. h = [i \in 0 .. N |-> h[i]] /\ w = [i \in 0 .. N |-> w[i]]
    BY <1>5
  <2> HIDE DEF w
  <2>3. h = w
    BY <2>1, <2>2
  <2> QED
    BY <2>3 DEF w
<1>8. Good(total)
  BY <1>3, <1>7
<1>9. total[0] = 0 /\ \A i \in 1 .. N : total[i] = total[i - 1] + s[i]
  <2>1. \A i \in 0 .. N : total[i] = IF i = 0 THEN 0 ELSE total[i - 1] + s[i]
    BY <1>8
  <2> QED
    BY <1>1, <2>1
<1>10. \A i \in 0 .. N : total[i] \in Nat
  <2> DEFINE T == {n \in Nat : n <= N => total[n] \in Nat}
  <2>1. 0 \in T
    BY <1>9
  <2>2. ASSUME NEW n \in T PROVE n + 1 \in T
    <3> SUFFICES ASSUME n + 1 <= N PROVE total[n + 1] \in Nat
      OBVIOUS
    <3>1. n \in Nat /\ n <= N /\ n + 1 \in 1 .. N /\ (n + 1) - 1 = n
      BY <1>1
    <3>2. total[n] \in Nat /\ s[n + 1] \in Nat /\ total[n + 1] = total[n] + s[n + 1]
      BY <1>1, <1>9, <3>1
    <3> QED
      BY <3>2
  <2>3. T = Nat
    <3>1. T \in SUBSET Nat
      OBVIOUS
    <3> HIDE DEF T
    <3> QED
      BY <2>1, <2>2, <3>1, SetInduction
  <2> SUFFICES ASSUME NEW i \in 0 .. N PROVE total[i] \in Nat
    OBVIOUS
  <2>4. i \in Nat /\ i <= N
    BY <1>1
  <2>5. i \in T
    BY <2>3, <2>4
  <2> QED
    BY <2>4, <2>5
<1> QED
  BY <1>2, <1>9, <1>10 DEF N

\* Two lists that differ at one place.
LEMMA TotalUpdate ==
    ASSUME NEW s \in Seq(Nat), NEW t \in Seq(Nat), NEW N \in Nat, N <= Len(s), N <= Len(t),
           NEW k \in Nat \ {0}, \A i \in 1 .. N : i # k => s[i] = t[i]
    PROVE  \A n \in 0 .. N :
              /\ n < k => Total(t, n) = Total(s, n)
              /\ n >= k => Total(t, n) + s[k] = Total(s, n) + t[k]
<1> DEFINE a(n) == Total(s, n)
           b(n) == Total(t, n)
           P(n) == (n < k => b(n) = a(n)) /\ (n >= k => b(n) + s[k] = a(n) + t[k])
           T == {n \in Nat : n <= N => P(n)}
<1>1. Len(s) \in Nat /\ Len(t) \in Nat
  OBVIOUS
<1>2. a(0) = 0 /\ b(0) = 0
  BY TotalIs
<1>3. \A n \in 0 .. N : a(n) \in Nat /\ b(n) \in Nat
  BY <1>1, TotalIs
<1>4. \A n \in 1 .. N : a(n) = a(n - 1) + s[n] /\ b(n) = b(n - 1) + t[n]
  BY <1>1, TotalIs
<1>5. \A n \in 1 .. N : s[n] \in Nat /\ t[n] \in Nat
  BY <1>1, SMTT(30)
<1> HIDE DEF a, b
<1>6. 0 \in T
  BY <1>2
<1>7. ASSUME NEW n \in T PROVE n + 1 \in T
  <2> SUFFICES ASSUME n + 1 <= N PROVE P(n + 1)
    OBVIOUS
  <2>1. n \in Nat /\ n <= N /\ n + 1 \in 1 .. N /\ n \in 0 .. N /\ n + 1 \in 0 .. N /\ (n + 1) - 1 = n
    OBVIOUS
  <2>2. a(n + 1) = a(n) + s[n + 1] /\ b(n + 1) = b(n) + t[n + 1]
    BY <1>4, <2>1
  <2>3. /\ a(n) \in Nat /\ b(n) \in Nat /\ s[n + 1] \in Nat /\ t[n + 1] \in Nat
    BY <1>3, <1>5, <2>1
  <2>4. P(n)
    BY <2>1
  <2>5. CASE n + 1 < k
    BY <2>1, <2>2, <2>4, <2>5
  <2>6. CASE n + 1 = k
    <3>1. b(n) = a(n)
      BY <2>1, <2>4, <2>6
    <3>4. b(n + 1) + s[k] = a(n + 1) + t[k]
      <4> DEFINE p == a(n)
                 u == s[n + 1]
                 v == t[n + 1]
      <4>1. p \in Nat /\ u \in Nat /\ v \in Nat
        BY <2>3
      <4>4. u = s[k] /\ v = t[k]
        BY <2>6
      <4>2. a(n + 1) = p + u /\ b(n + 1) = p + v
        BY <2>2, <3>1
      <4> HIDE DEF p, u, v, T, P
      <4>3. (p + v) + u = (p + u) + v
        BY <4>1
      <4> QED
        BY <4>2, <4>3, <4>4
    <3> QED
      BY <2>1, <2>6, <3>4
  <2>7. CASE n + 1 > k
    <3>1. s[n + 1] = t[n + 1] /\ b(n) + s[k] = a(n) + t[k] /\ s[k] \in Nat /\ t[k] \in Nat
      BY <1>5, <2>1, <2>4, <2>7
    <3>2. \A p, q, u, v, w \in Nat : p + u = q + v => (p + w) + u = (q + w) + v
      OBVIOUS
    <3>3. b(n + 1) + s[k] = a(n + 1) + t[k]
      <4> DEFINE p == b(n)
                 q == a(n)
                 u == s[k]
                 v == t[k]
                 w == s[n + 1]
      <4>1. p \in Nat /\ q \in Nat /\ u \in Nat /\ v \in Nat /\ w \in Nat /\ p + u = q + v
        BY <2>3, <3>1
      <4>2. a(n + 1) = q + w /\ b(n + 1) = p + w
        BY <2>2, <3>1
      <4> HIDE DEF p, q, u, v, w, T, P
      <4>3. (p + w) + u = (q + w) + v
        BY <3>2, <4>1
      <4> QED
        BY <4>2, <4>3 DEF u, v
    <3> QED
      BY <2>1, <2>7, <3>3
  <2> QED
    BY <2>1, <2>5, <2>6, <2>7
<1>8. T = Nat
  <2>1. T \in SUBSET Nat
    OBVIOUS
  <2> HIDE DEF T
  <2> QED
    BY <1>6, <1>7, <2>1, SetInduction
<1>9. ASSUME NEW n \in 0 .. N PROVE P(n)
  <2>1. n \in Nat /\ n <= N
    OBVIOUS
  <2>2. n \in T
    <3> HIDE DEF T
    <3> QED
      BY <1>8, <2>1
  <2> HIDE DEF P
  <2> QED
    BY <2>1, <2>2
<1> QED
  BY <1>9 DEF a, b

\* Two lists with the same beginning.
LEMMA TotalSame ==
    ASSUME NEW s \in Seq(Nat), NEW t \in Seq(Nat), NEW N \in Nat, N <= Len(s), N <= Len(t),
           \A i \in 1 .. N : s[i] = t[i]
    PROVE  Total(t, N) = Total(s, N)
<1>1. N + 1 \in Nat \ {0} /\ N \in 0 .. N /\ N < N + 1
  OBVIOUS
<1> QED
  BY <1>1, TotalUpdate, ZenonT(60)

LEMMA TotalAppend ==
    ASSUME NEW s \in Seq(Nat), NEW x \in Nat
    PROVE  /\ Append(s, x) \in Seq(Nat) /\ Len(Append(s, x)) = Len(s) + 1
           /\ Total(Append(s, x), Len(s) + 1) = Total(s, Len(s)) + x
<1> DEFINE t == Append(s, x)
           N == Len(s)
<1>1. t \in Seq(Nat) /\ Len(t) = N + 1 /\ N \in Nat /\ t[N + 1] = x /\ \A i \in 1 .. N : t[i] = s[i]
  OBVIOUS
<1> HIDE DEF t, N
<1>2. Total(t, N) = Total(s, N)
  <2>1. N <= Len(s) /\ N <= Len(t)
    BY <1>1 DEF N
  <2> QED
    BY <1>1, <2>1, TotalSame
<1>3. Total(t, N + 1) = Total(t, N) + t[N + 1]
  <2>1. N + 1 \in 1 .. Len(t) /\ (N + 1) - 1 = N
    BY <1>1
  <2> QED
    BY <1>1, <2>1, TotalIs
<1> QED
  BY <1>1, <1>2, <1>3 DEF t, N

LEMMA TotalTail ==
    ASSUME NEW s \in Seq(Nat), s # << >>
    PROVE  /\ Head(s) \in Nat /\ Tail(s) \in Seq(Nat)
           /\ Total(s, Len(s)) = Head(s) + Total(Tail(s), Len(Tail(s)))
<1> DEFINE t == Tail(s)
           x == Head(s)
           M == Len(t)
           T == {n \in Nat : n <= M => Total(s, n + 1) = x + Total(t, n)}
<1>1. /\ t \in Seq(Nat) /\ x \in Nat /\ M \in Nat /\ Len(s) = M + 1 /\ s[1] = x
      /\ \A i \in 1 .. M : t[i] = s[i + 1]
  OBVIOUS
<1> HIDE DEF t, x
<1>2. /\ Total(s, 0) = 0
      /\ \A i \in 0 .. Len(s) : Total(s, i) \in Nat
      /\ \A i \in 1 .. Len(s) : Total(s, i) = Total(s, i - 1) + s[i]
  BY TotalIs
<1>3. /\ Total(t, 0) = 0
      /\ \A i \in 0 .. M : Total(t, i) \in Nat
      /\ \A i \in 1 .. M : Total(t, i) = Total(t, i - 1) + t[i]
  BY <1>1, TotalIs
<1> HIDE DEF M
<1>4. 0 \in T
  <2>1. 1 \in 1 .. Len(s) /\ 1 - 1 = 0 /\ 0 + 1 = 1
    BY <1>1
  <2>2. Total(s, 1) = 0 + x
    BY <1>1, <1>2, <2>1
  <2> QED
    BY <1>1, <1>3, <2>1, <2>2
<1>5. ASSUME NEW n \in T PROVE n + 1 \in T
  <2> SUFFICES ASSUME n + 1 <= M PROVE Total(s, (n + 1) + 1) = x + Total(t, n + 1)
    OBVIOUS
  <2>1. /\ n \in Nat /\ n <= M /\ n + 1 \in 1 .. M /\ (n + 1) - 1 = n /\ (n + 1) + 1 \in 1 .. Len(s)
        /\ ((n + 1) + 1) - 1 = n + 1 /\ n \in 0 .. M
    BY <1>1
  <2>2. Total(s, (n + 1) + 1) = Total(s, n + 1) + s[(n + 1) + 1]
    BY <1>2, <2>1
  <2>3. Total(t, n + 1) = Total(t, n) + t[n + 1] /\ t[n + 1] = s[(n + 1) + 1]
    BY <1>1, <1>3, <2>1
  <2>4. Total(s, n + 1) = x + Total(t, n) /\ Total(t, n) \in Nat /\ t[n + 1] \in Nat
    <3>1. t[n + 1] \in Nat
      BY <1>1, <2>1, SMTT(30) DEF M
    <3> QED
      BY <1>3, <2>1, <3>1
  <2> QED
    BY <1>1, <2>2, <2>3, <2>4
<1>6. T = Nat
  <2>1. T \in SUBSET Nat
    OBVIOUS
  <2> HIDE DEF T
  <2> QED
    BY <1>4, <1>5, <2>1, SetInduction
<1>7. Total(s, M + 1) = x + Total(t, M)
  <2>1. M \in T
    BY <1>1, <1>6
  <2> QED
    BY <1>1, <2>1
<1> QED
  BY <1>1, <1>7 DEF M, t, x

LEMMA TotalGrows ==
    ASSUME NEW s \in Seq(Nat), NEW i \in 0 .. Len(s), NEW j \in 0 .. Len(s), i <= j
    PROVE  Total(s, i) <= Total(s, j)
<1> DEFINE a(n) == Total(s, n)
           T == {n \in Nat : i + n <= Len(s) => a(i) <= a(i + n)}
<1>1. Len(s) \in Nat /\ i \in Nat /\ j \in Nat /\ j <= Len(s)
  OBVIOUS
<1>2. \A n \in 0 .. Len(s) : a(n) \in Nat
  BY TotalIs
<1>3. \A n \in 1 .. Len(s) : a(n) = a(n - 1) + s[n] /\ s[n] \in Nat
  BY TotalIs
<1> HIDE DEF a
<1>4. 0 \in T
  BY <1>1, <1>2
<1>5. ASSUME NEW n \in T PROVE n + 1 \in T
  <2>1. n \in Nat /\ n + 1 \in Nat
    OBVIOUS
  <2> SUFFICES ASSUME i + (n + 1) <= Len(s) PROVE a(i) <= a(i + (n + 1))
    BY <2>1, Zenon
  <2>2. i + n <= Len(s) /\ i + (n + 1) \in 1 .. Len(s) /\ (i + (n + 1)) - 1 = i + n /\ i + n \in 0 .. Len(s)
    BY <1>1, <2>1
  <2>3. a(i + (n + 1)) = a(i + n) + s[i + (n + 1)] /\ s[i + (n + 1)] \in Nat
    BY <1>3, <2>2
  <2>4. a(i) <= a(i + n) /\ a(i) \in Nat /\ a(i + n) \in Nat
    BY <1>2, <2>1, <2>2
  <2> QED
    BY <2>3, <2>4
<1>6. T = Nat
  <2>1. T \in SUBSET Nat
    OBVIOUS
  <2> HIDE DEF T
  <2> QED
    BY <1>4, <1>5, <2>1, SetInduction
<1>7. j - i \in Nat /\ i + (j - i) = j
  BY <1>1
<1>8. j - i \in T
  <2> HIDE DEF T
  <2> QED
    BY <1>6, <1>7
<1>9. a(i) <= a(i + (j - i))
  BY <1>1, <1>7, <1>8
<1> QED
  BY <1>7, <1>9 DEF a

\* Two functions that take the same steps.
InStep(N, g, h) == \A i \in 1 .. N : g[i - 1] = h[i - 1] => g[i] = h[i]

LEMMA SameSteps ==
    ASSUME NEW N \in Nat, NEW g, NEW h, g[0] = h[0], InStep(N, g, h)
    PROVE  \A i \in 0 .. N : g[i] = h[i]
<1> DEFINE T == {n \in Nat : n <= N => g[n] = h[n]}
<1>1. 0 \in T
  OBVIOUS
<1>2. ASSUME NEW n \in T PROVE n + 1 \in T
  <2> SUFFICES ASSUME n + 1 <= N PROVE g[n + 1] = h[n + 1]
    OBVIOUS
  <2>1. n \in Nat /\ n <= N /\ n + 1 \in 1 .. N /\ (n + 1) - 1 = n
    OBVIOUS
  <2>2. g[n] = h[n]
    BY <2>1
  <2> QED
    BY <2>1, <2>2 DEF InStep
<1>3. T = Nat
  <2>1. T \in SUBSET Nat
    OBVIOUS
  <2> HIDE DEF T
  <2> QED
    BY <1>1, <1>2, <2>1, SetInduction
<1> SUFFICES ASSUME NEW i \in 0 .. N PROVE g[i] = h[i]
  OBVIOUS
<1>4. i \in Nat /\ i <= N
  OBVIOUS
<1>5. i \in T
  <2> HIDE DEF T
  <2> QED
    BY <1>3, <1>4
<1> QED
  BY <1>4, <1>5

-----------------------------------------------------------------------------
(* Shuffles.                                                               *)

\* The lists as long as one of sizes in S, with its sum.
Alike(S, list) == {s \in Seq(S) : Len(s) = Len(list) /\ Total(s, Len(s)) = Total(list, Len(list))}

LEMMA SwapAlike ==
    ASSUME NEW S \in SUBSET Nat, NEW list \in Seq(S), NEW l \in Alike(S, list),
           NEW i \in 1 .. Len(list), NEW j \in 1 .. Len(list)
    PROVE  Swap(l, i, j) \in Alike(S, list)
<1> DEFINE N == Len(list)
           u == Swap(l, i, j)
           t == [k \in 1 .. N |-> IF k = i THEN l[j] ELSE l[k]]
<1>1. N \in Nat /\ l \in Seq(S) /\ Len(l) = N /\ Total(l, N) = Total(list, N) /\ i \in 1 .. N /\ j \in 1 .. N
  BY DEF Alike
<1>2. l \in [1 .. N -> S] /\ DOMAIN l = 1 .. N
  BY <1>1
<1>3. u = [k \in 1 .. N |-> IF k = i THEN l[j] ELSE IF k = j THEN l[i] ELSE l[k]]
  BY <1>2 DEF Swap
<1>4. u \in [1 .. N -> S] /\ t \in [1 .. N -> S]
  BY <1>1, <1>2, <1>3
<1>5. u \in Seq(S) /\ Len(u) = N /\ t \in Seq(S) /\ Len(t) = N
  <2> HIDE DEF u, t, N
  <2> QED
    BY <1>1, <1>4
<1>6. u \in Seq(Nat) /\ t \in Seq(Nat) /\ l \in Seq(Nat)
  <2> HIDE DEF u, t, N
  <2> QED
    BY <1>1, <1>5, SeqOfNat
<1>7. /\ u[j] = l[i] /\ t[i] = l[j]
      /\ \A k \in 1 .. N : k # i => l[k] = t[k]
      /\ \A k \in 1 .. N : k # j => t[k] = u[k]
      /\ i # j => t[j] = l[j]
      /\ i = j => \A k \in 1 .. N : l[k] = u[k]
  BY <1>1, <1>2, <1>3
<1> HIDE DEF u, t
<1>8. /\ N \in 0 .. N /\ N >= i /\ N >= j /\ i \in Nat \ {0} /\ j \in Nat \ {0}
      /\ N <= Len(l) /\ N <= Len(t) /\ N <= Len(u)
  BY <1>1, <1>5
<1> HIDE DEF N
<1>9. Total(u, N) = Total(l, N)
  <2>1. CASE i = j
    BY <1>1, <1>5, <1>6, <1>7, <1>8, <2>1, TotalSame
  <2>2. CASE i # j
    <3>1. Total(t, N) + l[i] = Total(l, N) + t[i]
      <4>1. \A n \in 0 .. N :
               /\ n < i => Total(t, n) = Total(l, n)
               /\ n >= i => Total(t, n) + l[i] = Total(l, n) + t[i]
        <5>1. \A k \in 1 .. N : k # i => l[k] = t[k]
          BY <1>7
        <5> QED
          BY <1>1, <1>6, <1>8, <5>1, TotalUpdate, ZenonT(60)
      <4> QED
        BY <1>8, <4>1
    <3>2. Total(u, N) + t[j] = Total(t, N) + u[j]
      <4>1. \A n \in 0 .. N :
               /\ n < j => Total(u, n) = Total(t, n)
               /\ n >= j => Total(u, n) + t[j] = Total(t, n) + u[j]
        <5>1. \A k \in 1 .. N : k # j => t[k] = u[k]
          BY <1>7
        <5> QED
          BY <1>1, <1>6, <1>8, <5>1, TotalUpdate, ZenonT(60)
      <4> QED
        BY <1>8, <4>1
    <3>3. Total(u, N) \in Nat /\ Total(t, N) \in Nat /\ Total(l, N) \in Nat
      BY <1>1, <1>5, <1>6, <1>8, TotalIs
    <3>4. l[i] \in Nat /\ l[j] \in Nat
      BY <1>1, <1>2
    <3> DEFINE a == Total(l, N)
               b == Total(t, N)
               c == Total(u, N)
               x == l[i]
               y == l[j]
    <3>5. b + x = a + y /\ c + y = b + x /\ a \in Nat /\ b \in Nat /\ c \in Nat /\ x \in Nat /\ y \in Nat
      BY <1>7, <2>2, <3>1, <3>2, <3>3, <3>4
    <3> HIDE DEF a, b, c, x, y
    <3>6. c = a
      BY <3>5
    <3> QED
      BY <3>6 DEF a, c
  <2> QED
    BY <2>1, <2>2
<1> QED
  BY <1>1, <1>5, <1>9 DEF Alike, u, N

LEMMA ShufflesAlike ==
    ASSUME NEW S \in SUBSET Nat, NEW list \in Seq(S)
    PROVE  Shuffles(list) \subseteq Alike(S, list)
<1> DEFINE N == Len(list)
           V == SUBSET Alike(S, list)
           Swaps(k, D) == UNION {{Swap(l, k, j) : j \in 1 .. k} : l \in D}
           shuffled[k \in 0 .. Len(list)] ==
               IF k = 0 THEN {list}
               ELSE UNION {{Swap(l, k, j) : j \in 1 .. k} : l \in shuffled[k - 1]}
           Good(h) == h = [k \in 0 .. N |-> IF k = 0 THEN {list} ELSE Swaps(k, h[k - 1])]
           step == [k \in 1 .. N |-> [D \in V |-> Swaps(k, D)]]
<1>1. N \in Nat
  OBVIOUS
<1>2. Shuffles(list) = shuffled[N]
  BY DEF Shuffles
<1>3. shuffled = CHOOSE h : Good(h)
  BY DEF shuffled
<1>4. {list} \in V
  BY DEF Alike
<1>5. ASSUME NEW k \in 1 .. N, NEW D \in V PROVE Swaps(k, D) \in V
  <2> SUFFICES ASSUME NEW l \in D, NEW j \in 1 .. k PROVE Swap(l, k, j) \in Alike(S, list)
    OBVIOUS
  <2>1. k \in 1 .. Len(list) /\ j \in 1 .. Len(list) /\ l \in Alike(S, list)
    BY <1>1
  <2> QED
    BY <2>1, SwapAlike
<1> HIDE DEF N, V, Swaps, shuffled
<1>6. step \in StepsIn(N, V)
  BY <1>5 DEF StepsIn
<1>7. \A k \in 1 .. N : \A D \in V : step[k][D] = Swaps(k, D)
  OBVIOUS
<1> HIDE DEF step
<1>8. PICK h : Follows(h, N, V, {list}, step)
  BY <1>1, <1>4, <1>6, Recursion
<1>9. h \in [0 .. N -> V] /\ h[0] = {list} /\ \A k \in 1 .. N : h[k] = Swaps(k, h[k - 1])
  <2>1. h \in [0 .. N -> V] /\ h[0] = {list} /\ \A k \in 1 .. N : h[k] = step[k][h[k - 1]]
    BY <1>8 DEF Follows
  <2>2. ASSUME NEW k \in 1 .. N PROVE h[k - 1] \in V
    <3>1. k - 1 \in 0 .. N
      BY <1>1
    <3> QED
      BY <2>1, <3>1
  <2> QED
    BY <1>7, <2>1, <2>2
<1>10. Good(h)
  <2> DEFINE w == [k \in 0 .. N |-> IF k = 0 THEN {list} ELSE Swaps(k, h[k - 1])]
  <2>1. \A k \in 0 .. N : h[k] = w[k]
    BY <1>1, <1>9
  <2>2. h = [k \in 0 .. N |-> h[k]] /\ w = [k \in 0 .. N |-> w[k]]
    BY <1>9
  <2> HIDE DEF w
  <2>3. h = w
    BY <2>1, <2>2
  <2> QED
    BY <2>3 DEF w
<1>11. Good(shuffled)
  BY <1>3, <1>10
<1>12. shuffled[0] = h[0] /\ \A k \in 1 .. N : shuffled[k] = Swaps(k, shuffled[k - 1])
  <2>1. \A k \in 0 .. N : shuffled[k] = IF k = 0 THEN {list} ELSE Swaps(k, shuffled[k - 1])
    BY <1>11
  <2> QED
    BY <1>1, <1>9, <2>1
<1>13. \A k \in 0 .. N : shuffled[k] = h[k]
  <2>1. InStep(N, shuffled, h)
    BY <1>9, <1>12 DEF InStep
  <2>2. N \in Nat /\ shuffled[0] = h[0]
    BY <1>1, <1>12
  <2> HIDE DEF shuffled, N
  <2> QED
    BY <2>1, <2>2, SameSteps, Zenon
<1>14. shuffled[N] \in V
  BY <1>1, <1>9, <1>13
<1> QED
  BY <1>2, <1>14 DEF V

-----------------------------------------------------------------------------
(* The sizes that are drawn.                                               *)

\* Lists of sizes up to max for n bytes at most.
Drawable(n, max) == {l \in Seq(1 .. max) : Total(l, Len(l)) <= n}

LEMMA DrawableIs ==
    ASSUME NEW n \in Nat, NEW max \in Nat, NEW l \in Drawable(n, max)
    PROVE  l \in Seq(Nat) /\ Total(l, Len(l)) \in Nat /\ Total(l, Len(l)) <= n
<1>1. l \in Seq(1 .. max) /\ Total(l, Len(l)) <= n
  BY DEF Drawable
<1>2. 1 .. max \in SUBSET Nat
  OBVIOUS
<1>3. l \in Seq(Nat)
  BY <1>1, <1>2, SeqOfNat
<1>4. Len(l) \in 0 .. Len(l)
  BY <1>3
<1> QED
  BY <1>1, <1>3, <1>4, TotalIs

LEMMA DrawOne ==
    ASSUME NEW n \in Nat, NEW max \in Nat, NEW l \in Drawable(n, max), NEW x \in 1 .. max,
           x <= n - Total(l, Len(l))
    PROVE  /\ Append(l, x) \in Drawable(n, max)
           /\ Total(Append(l, x), Len(Append(l, x))) = Total(l, Len(l)) + x
<1> DEFINE a == Total(l, Len(l))
<1>1. l \in Seq(Nat) /\ a \in Nat /\ x \in Nat
  BY DrawableIs
<1>2. Append(l, x) \in Seq(1 .. max)
  BY DEF Drawable
<1>3. Total(Append(l, x), Len(Append(l, x))) = a + x
  BY <1>1, TotalAppend
<1>4. a + x <= n
  <2> HIDE DEF a
  <2> QED
    BY <1>1 DEF a
<1> QED
  BY <1>2, <1>3, <1>4 DEF Drawable

LEMMA SizeListsIs ==
    ASSUME NEW n \in Nat, NEW max \in Nat \ {0}, NEW sizes \in SizeLists(n, max)
    PROVE  sizes \in Seq(1 .. max) /\ Total(sizes, Len(sizes)) = n
<1> DEFINE remaining(l) == n - Total(l, Len(l))
           picks(l) == IF max = 1 THEN {1} ELSE 1 .. MinOf(remaining(l), max) - 1
           more(lists) == UNION {{Append(l, s) : s \in picks(l)} :
                                 l \in {d \in lists : remaining(d) > 1}}
           drawn[k \in 0 .. n] == IF k = 0 THEN {<< >>} ELSE more(drawn[k - 1])
           done(lists) == {IF remaining(l) = 1 THEN Append(l, 1) ELSE l :
                           l \in {d \in lists : remaining(d) <= 1}}
           V == SUBSET Drawable(n, max)
           Good(h) == h = [k \in 0 .. n |-> IF k = 0 THEN {<< >>} ELSE more(h[k - 1])]
           step == [k \in 1 .. n |-> [D \in V |-> more(D)]]
<1>1. PICK k \in 0 .. n : sizes \in done(drawn[k])
  BY DEF SizeLists
<1>2. drawn = CHOOSE h : Good(h)
  BY DEF drawn
<1> HIDE DEF drawn
<1>3. {<< >>} \in V
  <2>1. << >> \in Seq(1 .. max) /\ Len(<< >>) = 0 /\ << >> \in Seq(Nat)
    OBVIOUS
  <2>2. Total(<< >>, 0) = 0
    BY <2>1, TotalIs
  <2> QED
    BY <2>1, <2>2 DEF Drawable
<1>4. ASSUME NEW l \in Drawable(n, max)
      PROVE  remaining(l) \in Nat
  <2> DEFINE a == Total(l, Len(l))
  <2>1. a \in Nat /\ a <= n
    BY DrawableIs
  <2> HIDE DEF a
  <2>2. n - a \in Nat
    BY <2>1
  <2> QED
    BY <2>2 DEF a
<1>5. ASSUME NEW D \in V PROVE more(D) \in V
  <2>1. ASSUME NEW l \in D, remaining(l) > 1, NEW s \in picks(l)
        PROVE  Append(l, s) \in Drawable(n, max)
    <3>1. l \in Drawable(n, max)
      OBVIOUS
    <3>2. remaining(l) \in Nat
      BY <1>4, <3>1
    <3>3. s \in 1 .. max /\ s <= remaining(l)
      <4> HIDE DEF remaining
      <4> QED
        BY <2>1, <3>2 DEF MinOf
    <3> QED
      BY <3>1, <3>3, DrawOne
  <2> HIDE DEF remaining, picks
  <2>2. \A x \in more(D) : \E l \in D : remaining(l) > 1 /\ \E s \in picks(l) : x = Append(l, s)
    OBVIOUS
  <2> HIDE DEF more
  <2>3. ASSUME NEW x \in more(D) PROVE x \in Drawable(n, max)
    <3>1. PICK l \in D : remaining(l) > 1 /\ \E s \in picks(l) : x = Append(l, s)
      BY <2>2
    <3>2. PICK s \in picks(l) : x = Append(l, s)
      BY <3>1
    <3>3. Append(l, s) \in Drawable(n, max)
      BY <2>1, <3>1
    <3> QED
      BY <3>2, <3>3
  <2> QED
    BY <2>3
<1> HIDE DEF V, more
<1>6. step \in StepsIn(n, V)
  BY <1>5 DEF StepsIn
<1>7. \A i \in 1 .. n : \A D \in V : step[i][D] = more(D)
  OBVIOUS
<1> HIDE DEF step
<1>8. PICK h : Follows(h, n, V, {<< >>}, step)
  BY <1>3, <1>6, Recursion
<1>9. h \in [0 .. n -> V] /\ h[0] = {<< >>} /\ \A i \in 1 .. n : h[i] = more(h[i - 1])
  <2>1. h \in [0 .. n -> V] /\ h[0] = {<< >>} /\ \A i \in 1 .. n : h[i] = step[i][h[i - 1]]
    BY <1>8 DEF Follows
  <2>2. ASSUME NEW i \in 1 .. n PROVE h[i - 1] \in V
    <3>1. i - 1 \in 0 .. n
      OBVIOUS
    <3> QED
      BY <2>1, <3>1
  <2> QED
    BY <1>7, <2>1, <2>2
<1>10. Good(h)
  <2> DEFINE w == [i \in 0 .. n |-> IF i = 0 THEN {<< >>} ELSE more(h[i - 1])]
  <2>1. \A i \in 0 .. n : h[i] = w[i]
    BY <1>9
  <2>2. h = [i \in 0 .. n |-> h[i]] /\ w = [i \in 0 .. n |-> w[i]]
    BY <1>9
  <2> HIDE DEF w
  <2>3. h = w
    BY <2>1, <2>2
  <2> QED
    BY <2>3 DEF w
<1>11. Good(drawn)
  BY <1>2, <1>10
<1>12. drawn[0] = h[0] /\ \A i \in 1 .. n : drawn[i] = more(drawn[i - 1])
  <2>1. \A i \in 0 .. n : drawn[i] = IF i = 0 THEN {<< >>} ELSE more(drawn[i - 1])
    BY <1>11
  <2> QED
    BY <1>9, <2>1
<1>13. \A i \in 0 .. n : drawn[i] = h[i]
  <2>1. InStep(n, drawn, h)
    BY <1>9, <1>12 DEF InStep
  <2>2. n \in Nat /\ drawn[0] = h[0]
    BY <1>12
  <2> HIDE DEF drawn
  <2> QED
    BY <2>1, <2>2, SameSteps
<1>14. drawn[k] \in V
  BY <1>9, <1>13
<1>15. PICK l \in drawn[k] : /\ remaining(l) <= 1
                             /\ sizes = IF remaining(l) = 1 THEN Append(l, 1) ELSE l
  BY <1>1
<1>16. l \in Drawable(n, max)
  BY <1>14, <1>15 DEF V
<1>17. l \in Seq(1 .. max) /\ remaining(l) \in Nat /\ Total(l, Len(l)) \in Nat
  BY <1>4, <1>16, DrawableIs DEF Drawable
<1>18. CASE remaining(l) = 1
  <2>1. 1 \in 1 .. max /\ 1 <= n - Total(l, Len(l))
    BY <1>18
  <2>2. sizes = Append(l, 1)
    BY <1>15, <1>18
  <2>3. sizes \in Drawable(n, max) /\ Total(sizes, Len(sizes)) = Total(l, Len(l)) + 1
    BY <1>16, <2>1, <2>2, DrawOne
  <2>4. Total(l, Len(l)) + 1 = n
    BY <1>17, <1>18
  <2> QED
    BY <2>3, <2>4 DEF Drawable
<1>19. CASE remaining(l) # 1
  <2>1. sizes = l /\ remaining(l) = 0
    <3> HIDE DEF remaining
    <3> QED
      BY <1>15, <1>17, <1>19
  <2>2. Total(l, Len(l)) = n
    BY <1>17, <2>1
  <2> QED
    BY <1>17, <2>1, <2>2
<1> QED
  BY <1>18, <1>19

LEMMA DrawnSizes ==
    ASSUME NEW n \in Nat, NEW max \in Nat \ {0},
           NEW sizes \in UNION {Shuffles(l) : l \in SizeLists(n, max)}
    PROVE  sizes \in Seq(1 .. max) /\ Total(sizes, Len(sizes)) = n
<1>1. PICK l \in SizeLists(n, max) : sizes \in Shuffles(l)
  OBVIOUS
<1>2. l \in Seq(1 .. max) /\ Total(l, Len(l)) = n
  BY SizeListsIs
<1>3. 1 .. max \in SUBSET Nat
  OBVIOUS
<1>4. sizes \in Alike(1 .. max, l)
  BY <1>1, <1>2, <1>3, ShufflesAlike
<1> QED
  BY <1>2, <1>4 DEF Alike

LEMMA PlainMaxIs == PlainMax \in Nat \ {0}
BY SizesAssumption DEF PlainMax

\* chunks() cuts n bytes into full chunks and one for the rest.
LEMMA PlainSizes ==
    ASSUME NEW n \in Nat
    PROVE  /\ PlainChunkSizes(n) \in Seq(1 .. PlainMax)
           /\ Total(PlainChunkSizes(n), Len(PlainChunkSizes(n))) = n
<1> DEFINE P == PlainMax
           K == (n + P - 1) \div P
           s == PlainChunkSizes(n)
<1>1. P \in Nat \ {0}
  BY PlainMaxIs
<1> HIDE DEF P
<1>2. K \in Nat /\ K * P >= n /\ K * P <= n + P - 1
  <2> DEFINE m == n + P - 1
             r == m % P
  <2>1. m \in Nat /\ m = n + P - 1
    BY <1>1
  <2> HIDE DEF m
  <2>2. (m \div P) \in Nat /\ r \in 0 .. P - 1 /\ m = P * (m \div P) + r
    BY <1>1, <2>1, SMTT(60)
  <2>3. P * (m \div P) = (m \div P) * P
    BY <1>1, <2>2
  <2> DEFINE q == (m \div P) * P
  <2>4. q \in Int
    BY <1>1, <2>2
  <2>5. m = q + r /\ r \in Int /\ 0 <= r /\ r <= P - 1
    BY <1>1, <2>2, <2>3
  <2> HIDE DEF q, r
  <2>6. q >= n /\ q <= n + P - 1
    BY <1>1, <2>1, <2>4, <2>5
  <2> QED
    BY <2>2, <2>6 DEF q, m
<1>3. s = [i \in 1 .. K |-> MinOf(P, n - (i - 1) * P)]
  BY DEF PlainChunkSizes, P
<1> HIDE DEF K, s
<1>4. ASSUME NEW i \in Nat, i + 1 <= K PROVE i * P \in Nat /\ i * P < n
  <2>1. K - (i + 1) \in Nat
    BY <1>2, <1>4
  <2> DEFINE d == K - (i + 1)
  <2>2. K * P = i * P + P + d * P
    <3>1. K = i + 1 + d /\ d \in Nat
      BY <1>2, <2>1
    <3> HIDE DEF d
    <3> QED
      BY <1>1, <3>1
  <2>3. d * P \in Nat /\ i * P \in Nat /\ K * P \in Nat
    BY <1>1, <1>2, <2>1
  <2> DEFINE a == i * P
             b == d * P
             c == K * P
  <2>4. c = a + P + b /\ a \in Nat /\ b \in Nat /\ c \in Nat /\ c <= n + P - 1
    BY <1>2, <2>2, <2>3
  <2> HIDE DEF a, b, c
  <2>5. a < n
    BY <1>1, <2>4
  <2> QED
    BY <2>3, <2>5 DEF a
<1>5. ASSUME NEW i \in 1 .. K PROVE s[i] = MinOf(P, n - (i - 1) * P) /\ s[i] \in 1 .. P
  <2>1. s[i] = MinOf(P, n - (i - 1) * P)
    BY <1>3
  <2>2. i - 1 \in Nat /\ (i - 1) + 1 <= K
    BY <1>2
  <2> DEFINE a == (i - 1) * P
  <2>3. a \in Nat /\ a < n
    BY <1>4, <2>2
  <2> HIDE DEF a
  <2>4. MinOf(P, n - a) \in 1 .. P
    BY <1>1, <2>3 DEF MinOf
  <2> QED
    BY <2>1, <2>4 DEF a
<1>6. s \in Seq(1 .. P) /\ Len(s) = K
  <2>1. s \in [1 .. K -> 1 .. P]
    BY <1>3, <1>5
  <2> QED
    BY <1>2, <2>1, SeqIntro
<1>7. s \in Seq(Nat)
  <2>1. 1 .. P \in SUBSET Nat
    BY <1>1
  <2> QED
    BY <1>6, <2>1, SeqOfNat
<1> DEFINE T == {k \in Nat : k <= K => Total(s, k) = MinOf(k * P, n)}
<1>8. 0 \in T
  BY <1>1, <1>7, TotalIs DEF MinOf
<1>9. ASSUME NEW k \in T PROVE k + 1 \in T
  <2>1. k \in Nat /\ k + 1 \in Nat
    OBVIOUS
  <2> SUFFICES ASSUME k + 1 <= K PROVE Total(s, k + 1) = MinOf((k + 1) * P, n)
    BY <2>1, Zenon
  <2>2. k <= K /\ k + 1 \in 1 .. K /\ (k + 1) - 1 = k
    BY <1>2, <2>1
  <2> DEFINE a == k * P
  <2>3. a \in Nat /\ a < n
    BY <1>4, <2>1
  <2>4. Total(s, k) = MinOf(a, n)
    BY <2>1, <2>2
  <2>5. Total(s, k + 1) = Total(s, k) + s[k + 1]
    BY <1>6, <1>7, <2>2, TotalIs
  <2>6. s[k + 1] = MinOf(P, n - a)
    BY <1>5, <2>2
  <2>7. (k + 1) * P = a + P
    BY <1>1, <2>1
  <2> HIDE DEF a
  <2>8. MinOf(a, n) + MinOf(P, n - a) = MinOf(a + P, n)
    BY <1>1, <2>3 DEF MinOf
  <2> QED
    BY <2>4, <2>5, <2>6, <2>7, <2>8
<1>10. T = Nat
  <2>1. T \in SUBSET Nat
    OBVIOUS
  <2> HIDE DEF T
  <2> QED
    BY <1>8, <1>9, <2>1, SetInduction
<1>11. Total(s, K) = MinOf(K * P, n)
  <2>1. K \in T
    <3> HIDE DEF T
    <3> QED
      BY <1>2, <1>10
  <2> QED
    BY <1>2, <2>1
<1>12. MinOf(K * P, n) = n
  <2> DEFINE a == K * P
  <2>1. a \in Int /\ a >= n
    BY <1>1, <1>2
  <2> HIDE DEF a
  <2>2. MinOf(a, n) = n
    BY <2>1 DEF MinOf
  <2> QED
    BY <2>2 DEF a
<1> QED
  BY <1>6, <1>11, <1>12 DEF s, P

\* However a message is cut, its chunks have room and their sizes add up.
LEMMA Cuts ==
    ASSUME NEW n \in Nat, NEW sizes \in GenChunkSizes(n) \cup {PlainChunkSizes(n)}
    PROVE  sizes \in Seq(1 .. PlainMax) /\ Total(sizes, Len(sizes)) = n
<1>1. CASE sizes = PlainChunkSizes(n)
  BY <1>1, PlainSizes
<1>2. CASE sizes \in GenChunkSizes(n)
  <2> DEFINE max == MinOf(MaxChunkSize, PlainMax)
  <2>1. max \in Nat \ {0} /\ max <= PlainMax
    BY SizesAssumption, PlainMaxIs DEF MinOf
  <2>2. sizes \in UNION {Shuffles(l) : l \in SizeLists(n, max)}
    BY <1>2 DEF GenChunkSizes
  <2> HIDE DEF max
  <2>3. sizes \in Seq(1 .. max) /\ Total(sizes, Len(sizes)) = n
    BY <2>1, <2>2, DrawnSizes
  <2>4. 1 .. max \in SUBSET (1 .. PlainMax)
    BY <2>1, PlainMaxIs
  <2> QED
    BY <2>3, <2>4, SeqWider
<1> QED
  BY <1>1, <1>2

-----------------------------------------------------------------------------
(* The pieces of a message put together again.                             *)

LEMMA CutFlattens ==
    ASSUME NEW bytes \in Seq(Int), NEW sizes \in Seq(Nat), Total(sizes, Len(sizes)) = Len(bytes),
           NEW plains,
           plains = [i \in 1 .. Len(sizes) |->
                        SubSeq(bytes, Total(sizes, i - 1) + 1, Total(sizes, i))]
    PROVE  FlattenSeq(plains) = bytes
<1> DEFINE N == Len(sizes)
           a(i) == Total(sizes, i)
           w(i) == SubSeq(bytes, 1, a(i))
<1>1. /\ N \in Nat /\ a(0) = 0 /\ a(N) = Len(bytes) /\ Len(bytes) \in Nat
      /\ \A i \in 0 .. N : a(i) \in Nat
  BY TotalIs
<1>2. ASSUME NEW i \in 1 .. N
      PROVE  i - 1 \in 0 .. N /\ a(i - 1) \in 0 .. Len(bytes) /\ a(i) \in a(i - 1) .. Len(bytes)
  <2>1. i - 1 \in 0 .. N /\ i \in 0 .. N /\ N \in 0 .. N /\ i - 1 <= i /\ i <= N
    BY <1>1
  <2>2. a(i - 1) <= a(i) /\ a(i) <= a(N)
    BY <2>1, TotalGrows
  <2>3. a(i - 1) \in Nat /\ a(i) \in Nat
    BY <1>1, <2>1
  <2> HIDE DEF a
  <2> QED
    BY <1>1, <2>1, <2>2, <2>3
<1>3. \A i \in 1 .. N : plains[i] = SubSeq(bytes, a(i - 1) + 1, a(i))
  OBVIOUS
<1>4. Len(plains) = N
  BY <1>1
<1>5. w(N) = bytes
  BY <1>1, SubSeqFull
<1> HIDE DEF N, a
<1>6. ASSUME NEW i \in 1 .. N PROVE w(i) = w(i - 1) \o plains[i]
  <2> DEFINE k == a(i - 1)
             n == a(i)
  <2>1. k \in 0 .. Len(bytes) /\ n \in k .. Len(bytes)
    BY <1>2
  <2> HIDE DEF k, n
  <2>2. 1 \in 1 .. Len(bytes) + 1 /\ k \in 1 - 1 .. Len(bytes)
    BY <1>1, <2>1
  <2>3. SubSeq(bytes, 1, k) \o SubSeq(bytes, k + 1, n) = SubSeq(bytes, 1, n)
    BY <2>1, <2>2, ConcatAdjacentSubSeq
  <2> QED
    BY <1>3, <2>3 DEF k, n
<1>7. 1 \in 1 .. N => w(1) = plains[1]
  <2> SUFFICES ASSUME 1 \in 1 .. N PROVE w(1) = plains[1]
    OBVIOUS
  <2>1. plains[1] = SubSeq(bytes, a(1 - 1) + 1, a(1))
    BY <1>3
  <2>2. a(1 - 1) + 1 = 1
    BY <1>1
  <2> QED
    BY <2>1, <2>2
<1> HIDE DEF w
<1>8. CASE N = 0
  <2>1. FlattenSeq(plains) = plains
    BY <1>4, <1>8 DEF FlattenSeq
  <2>2. plains = << >>
    BY <1>1, <1>8 DEF N
  <2>3. bytes = << >>
    BY <1>1, <1>8
  <2> QED
    BY <2>1, <2>2, <2>3
<1>9. CASE N # 0
  <2> DEFINE flatten[i \in 1 .. Len(plains)] ==
                 IF i = 1 THEN plains[i] ELSE flatten[i - 1] \o plains[i]
             Good(h) == h = [i \in 1 .. N |-> IF i = 1 THEN plains[i] ELSE h[i - 1] \o plains[i]]
  <2>1. FlattenSeq(plains) = flatten[N]
    BY <1>4, <1>9 DEF FlattenSeq
  <2>2. flatten = CHOOSE h : Good(h)
    BY <1>4 DEF flatten
  <2> HIDE DEF flatten
  <2> DEFINE h == [i \in 1 .. N |-> w(i)]
             v == [i \in 1 .. N |-> IF i = 1 THEN plains[i] ELSE h[i - 1] \o plains[i]]
  <2>3. \A i \in 1 .. N : h[i] = v[i]
    <3> SUFFICES ASSUME NEW i \in 1 .. N PROVE h[i] = v[i]
      OBVIOUS
    <3>1. CASE i = 1
      BY <1>7, <3>1
    <3>2. CASE i # 1
      <4>1. i - 1 \in 1 .. N
        BY <1>1, <3>2
      <4>2. h[i - 1] = w(i - 1) /\ h[i] = w(i) /\ v[i] = h[i - 1] \o plains[i]
        BY <3>2, <4>1
      <4> QED
        BY <1>6, <4>2
    <3> QED
      BY <3>1, <3>2
  <2>4. h = v
    <3>1. h = [i \in 1 .. N |-> h[i]] /\ v = [i \in 1 .. N |-> v[i]]
      OBVIOUS
    <3> HIDE DEF h, v
    <3> QED
      BY <2>3, <3>1
  <2>5. Good(h)
    BY <2>4
  <2>6. Good(flatten)
    BY <2>2, <2>5
  <2>7. \A i \in 1 .. N : flatten[i] = IF i = 1 THEN plains[i] ELSE flatten[i - 1] \o plains[i]
    BY <2>6
  <2> DEFINE f == [i \in 0 .. N |-> IF i = 0 THEN << >> ELSE flatten[i]]
             g == [i \in 0 .. N |-> IF i = 0 THEN << >> ELSE w(i)]
  <2>8. ASSUME NEW i \in 1 .. N, f[i - 1] = g[i - 1] PROVE f[i] = g[i]
    <3>1. f[i] = flatten[i] /\ g[i] = w(i)
      BY <1>1
    <3>2. CASE i = 1
      BY <1>7, <2>7, <3>1, <3>2
    <3>3. CASE i # 1
      <4>1. i - 1 \in 1 .. N
        BY <1>1, <3>3
      <4>2. flatten[i - 1] = w(i - 1)
        BY <1>1, <2>8, <4>1
      <4>3. flatten[i] = flatten[i - 1] \o plains[i]
        BY <2>7, <3>3
      <4> QED
        BY <1>6, <3>1, <4>2, <4>3
    <3> QED
      BY <3>2, <3>3
  <2>9. f[0] = g[0]
    BY <1>1
  <2>10. f[N] = flatten[N] /\ g[N] = w(N) /\ N \in 0 .. N
    BY <1>1, <1>9
  <2> HIDE DEF f, g
  <2>11. \A i \in 0 .. N : f[i] = g[i]
    <3>1. InStep(N, f, g)
      BY <2>8 DEF InStep
    <3>2. N \in Nat
      BY <1>1
    <3> QED
      BY <2>9, <3>1, <3>2, SameSteps, Zenon
  <2> QED
    BY <1>5, <2>1, <2>10, <2>11
<1> QED
  BY <1>8, <1>9

-----------------------------------------------------------------------------
(* Chunks of the message, written or not.                                  *)

Entry == [chunk : Chunk, short : BOOLEAN, cut : BOOLEAN]

Joined(w, q) == [i \in DOMAIN w |-> w[i].chunk] \o q

LEMMA JoinedIs ==
    ASSUME NEW w \in Seq(Entry), NEW q \in Seq(Chunk)
    PROVE  /\ Joined(w, q) \in Seq(Chunk) /\ Len(Joined(w, q)) = Len(w) + Len(q)
           /\ DOMAIN Joined(w, q) = 1 .. Len(w) + Len(q)
           /\ \A i \in 1 .. Len(w) + Len(q) :
                 Joined(w, q)[i] = IF i <= Len(w) THEN w[i].chunk ELSE q[i - Len(w)]
<1> DEFINE W == [i \in DOMAIN w |-> w[i].chunk]
           L == Len(w)
           M == Len(q)
<1>2. L \in Nat /\ M \in Nat /\ DOMAIN w = 1 .. L /\ \A i \in 1 .. L : w[i] \in Entry
  OBVIOUS
<1>3. W \in [1 .. L -> Chunk]
  BY <1>2 DEF Entry
<1>4. W \in Seq(Chunk) /\ Len(W) = L
  BY <1>2, <1>3, SeqIntro
<1>5. \A i \in 1 .. L : W[i] = w[i].chunk
  BY <1>2
<1>6. Joined(w, q) = W \o q
  BY DEF Joined
<1> HIDE DEF W, L, M
<1>7. /\ W \o q \in Seq(Chunk) /\ Len(W \o q) = L + M
      /\ \A i \in 1 .. L + M : (W \o q)[i] = IF i <= L THEN W[i] ELSE q[i - L]
  BY <1>4, ConcatProperties DEF M
<1>8. DOMAIN Joined(w, q) = 1 .. L + M
  BY <1>6, <1>7
<1>9. \A i \in 1 .. L + M : Joined(w, q)[i] = IF i <= L THEN w[i].chunk ELSE q[i - L]
  <2> SUFFICES ASSUME NEW i \in 1 .. L + M
               PROVE  Joined(w, q)[i] = IF i <= L THEN w[i].chunk ELSE q[i - L]
    OBVIOUS
  <2>1. i <= L => W[i] = w[i].chunk
    BY <1>2, <1>5
  <2> QED
    BY <1>6, <1>7, <2>1
<1> QED
  BY <1>6, <1>7, <1>8, <1>9 DEF L, M

LEMMA AllChunksAre ==
    ASSUME Shape
    PROVE  /\ AllChunks \in Seq(Chunk) /\ Len(AllChunks) = Len(wire) + Len(queue)
           /\ DOMAIN AllChunks = 1 .. Len(wire) + Len(queue)
           /\ \A i \in 1 .. Len(wire) + Len(queue) :
                 AllChunks[i] = IF i <= Len(wire) THEN wire[i].chunk ELSE queue[i - Len(wire)]
<1>1. wire \in Seq(Entry) /\ queue \in Seq(Chunk)
  BY DEF Shape, Entry
<1>2. AllChunks = Joined(wire, queue)
  BY DEF AllChunks, Joined
<1> QED
  BY <1>1, <1>2, JoinedIs

\* The same, of the next state.
LEMMA AllChunksNext ==
    ASSUME Shape'
    PROVE  /\ AllChunks' \in Seq(Chunk) /\ Len(AllChunks') = Len(wire') + Len(queue')
           /\ DOMAIN AllChunks' = 1 .. Len(wire') + Len(queue')
           /\ \A i \in 1 .. Len(wire') + Len(queue') :
                 AllChunks'[i] = IF i <= Len(wire') THEN wire'[i].chunk ELSE queue'[i - Len(wire')]
<1>1. wire' \in Seq(Entry) /\ queue' \in Seq(Chunk)
  BY DEF Shape, Entry
<1>2. AllChunks' = Joined(wire', queue')
  BY DEF AllChunks, Joined
<1> QED
  BY <1>1, <1>2, JoinedIs

LEMMA SameChunks ==
    ASSUME Shape, Shape', Len(wire') + Len(queue') = Len(wire) + Len(queue),
           \A i \in 1 .. Len(wire) + Len(queue) :
              (IF i <= Len(wire') THEN wire'[i].chunk ELSE queue'[i - Len(wire')])
                = IF i <= Len(wire) THEN wire[i].chunk ELSE queue[i - Len(wire)]
    PROVE  AllChunks' = AllChunks
<1> DEFINE N == Len(wire) + Len(queue)
           A == AllChunks
           B == AllChunks'
<1>1. A \in Seq(Chunk) /\ Len(A) = N
  BY AllChunksAre
<1>2. B \in Seq(Chunk) /\ Len(B) = N
  BY AllChunksNext
<1>3. \A i \in 1 .. N : A[i] = B[i]
  BY AllChunksAre, AllChunksNext
<1> HIDE DEF A, B, N
<1>4. A = B
  BY <1>1, <1>2, <1>3
<1> QED
  BY <1>4 DEF A, B

LEMMA PayloadStays ==
    ASSUME PayloadPreserved, ChunksFit, AllChunks' = AllChunks, UNCHANGED <<before, nonce, message>>
    PROVE  PayloadPreserved' /\ ChunksFit'
BY DEF PayloadPreserved, ChunksFit, ContentSize

-----------------------------------------------------------------------------
(* The steps.                                                              *)

LEMMA FlippedIs ==
    ASSUME NEW n \in Nat, NEW F
    PROVE  Flipped(n, F) \in Seq(Int) /\ Len(Flipped(n, F)) = n
<1>1. Flipped(n, F) \in [1 .. n -> Int]
  BY DEF Flipped
<1> QED
  BY <1>1, SeqIntro

\* The chunks of a message: consecutive nonces, fitting contents, and the
\* bytes of the message.
LEMMA EncryptedIs ==
    ASSUME nonce \in Nat, NEW bytes \in Seq(Int), NEW sizes \in Seq(1 .. PlainMax),
           Total(sizes, Len(sizes)) = Len(bytes)
    PROVE  /\ Encrypted(bytes, sizes) \in Seq(Chunk)
           /\ Len(Encrypted(bytes, sizes)) = Len(sizes)
           /\ \A i \in 1 .. Len(sizes) :
                 /\ Encrypted(bytes, sizes)[i].nonce = nonce + i - 1
                 /\ Len(Encrypted(bytes, sizes)[i].plain) \in 1 .. PlainMax
           /\ FlattenSeq([i \in 1 .. Len(sizes) |-> Encrypted(bytes, sizes)[i].plain]) = bytes
<1> DEFINE N == Len(sizes)
           a(i) == Total(sizes, i)
           e == Encrypted(bytes, sizes)
           piece(i) == SubSeq(bytes, a(i - 1) + 1, a(i))
           plains == [i \in 1 .. N |-> e[i].plain]
<1>1. N \in Nat /\ DOMAIN sizes = 1 .. N /\ \A i \in 1 .. N : sizes[i] \in 1 .. PlainMax
  <2> DEFINE S == 1 .. PlainMax
  <2> HIDE DEF S
  <2>1. sizes \in Seq(S)
    BY DEF S
  <2>2. N \in Nat /\ DOMAIN sizes = 1 .. N /\ \A i \in 1 .. N : sizes[i] \in S
    BY <2>1
  <2> QED
    BY <2>2 DEF S
<1>2. sizes \in Seq(Nat)
  <2>1. 1 .. PlainMax \in SUBSET Nat
    BY PlainMaxIs
  <2> QED
    BY <2>1, SeqOfNat
<1>3. /\ \A i \in 0 .. N : a(i) \in Nat
      /\ \A i \in 1 .. N : a(i) = a(i - 1) + sizes[i]
  BY <1>2, TotalIs
<1>4. \A i \in 1 .. N : a(i) <= Len(bytes)
  <2> SUFFICES ASSUME NEW i \in 1 .. N
               PROVE  a(i) <= Len(bytes)
    OBVIOUS
  <2>1. i \in 0 .. N /\ N \in 0 .. N /\ i <= N
    BY <1>1
  <2> QED
    BY <1>2, <2>1, TotalGrows
<1>5. \A i \in 1 .. N : /\ piece(i) \in Seq(Int)
                        /\ Len(piece(i)) = sizes[i]
  <2> SUFFICES ASSUME NEW i \in 1 .. N
               PROVE  piece(i) \in Seq(Int) /\ Len(piece(i)) = sizes[i]
    OBVIOUS
  <2>1. i - 1 \in 0 .. N /\ i \in 0 .. N
    BY <1>1
  <2>2. /\ a(i - 1) \in Nat /\ a(i) \in Nat /\ a(i) = a(i - 1) + sizes[i] /\ sizes[i] \in 1 .. PlainMax
        /\ a(i) <= Len(bytes) /\ Len(bytes) \in Nat
    BY <1>1, <1>3, <1>4, <2>1
  <2> DEFINE b == a(i - 1)
             c == a(i)
  <2> HIDE DEF b, c, a
  <2>3. b \in Nat /\ c \in Nat /\ c = b + sizes[i] /\ sizes[i] \in Nat /\ sizes[i] >= 1 /\ c <= Len(bytes)
    BY <2>2, PlainMaxIs DEF b, c
  <2>4. \A k, l, m, d \in Nat : k = l + d /\ d >= 1 /\ k <= m =>
            l + 1 \in 1 .. m /\ k \in l + 1 .. m
    OBVIOUS
  <2>5. b + 1 \in 1 .. Len(bytes) /\ c \in b + 1 .. Len(bytes)
    BY <2>2, <2>3, <2>4
  <2>6. SubSeq(bytes, b + 1, c) \in Seq(Int) /\ Len(SubSeq(bytes, b + 1, c)) = c - b
    BY <2>3, <2>5
  <2> QED
    <3>1. \A k, l, d \in Nat : k = l + d => k - l = d
      OBVIOUS
    <3>2. c - b = sizes[i]
      BY <2>3, <3>1
    <3>3. SubSeq(bytes, b + 1, c) \in Seq(Int) /\ Len(SubSeq(bytes, b + 1, c)) = sizes[i]
      BY <2>6, <3>2
    <3> QED
      BY <3>3 DEF b, c
<1>6. e = [i \in 1 .. N |-> [nonce |-> nonce + i - 1, plain |-> piece(i)]]
  BY <1>1 DEF Encrypted
<1> HIDE DEF e, piece, a, N
<1>7. \A i \in 1 .. N : e[i] = [nonce |-> nonce + i - 1, plain |-> piece(i)]
  BY <1>6
<1>8. \A i \in 1 .. N : e[i] \in Chunk
  <2> SUFFICES ASSUME NEW i \in 1 .. N
               PROVE  e[i] \in Chunk
    OBVIOUS
  <2>1. nonce + i - 1 \in Nat
    BY <1>1
  <2> DEFINE p == piece(i)
  <2>2. p \in Seq(Int) /\ e[i] = [nonce |-> nonce + i - 1, plain |-> p]
    BY <1>5, <1>7
  <2> HIDE DEF p
  <2> QED
    BY <2>1, <2>2 DEF Chunk
<1>9. e \in [1 .. N -> Chunk]
  BY <1>6, <1>8
<1>10. e \in Seq(Chunk) /\ Len(e) = N
  BY <1>1, <1>9, SeqIntro
<1>11. \A i \in 1 .. N : e[i].nonce = nonce + i - 1 /\ Len(e[i].plain) \in 1 .. PlainMax
  <2> SUFFICES ASSUME NEW i \in 1 .. N
               PROVE  e[i].nonce = nonce + i - 1 /\ Len(e[i].plain) \in 1 .. PlainMax
    OBVIOUS
  <2> DEFINE p == piece(i)
  <2>1. Len(p) = sizes[i] /\ e[i] = [nonce |-> nonce + i - 1, plain |-> p]
    BY <1>5, <1>7
  <2>2. sizes[i] \in 1 .. PlainMax
    BY <1>1
  <2> HIDE DEF p
  <2>3. e[i].nonce = nonce + i - 1 /\ e[i].plain = p
    BY <2>1
  <2> QED
    BY <2>1, <2>2, <2>3
<1>12. plains = [i \in 1 .. Len(sizes) |->
                    SubSeq(bytes, Total(sizes, i - 1) + 1, Total(sizes, i))]
  <2>1. ASSUME NEW i \in 1 .. N
        PROVE  e[i].plain = piece(i)
    <3> DEFINE p == piece(i)
    <3>1. e[i] = [nonce |-> nonce + i - 1, plain |-> p]
      BY <1>7
    <3> HIDE DEF p
    <3>2. e[i].plain = p
      BY <3>1
    <3> QED
      BY <3>2 DEF p
  <2>2. plains = [i \in 1 .. N |-> piece(i)]
    BY <2>1
  <2> QED
    BY <2>2 DEF piece, a, N
<1> HIDE DEF plains
<1>13. FlattenSeq(plains) = bytes
  BY <1>2, <1>12, CutFlattens
<1> QED
  BY <1>10, <1>11, <1>13 DEF plains, e, N

LEMMA InitInv == Init => IndInv
<1> SUFFICES ASSUME Init
             PROVE  IndInv
  OBVIOUS
<1>1. Shape
  <2>1. \A S : << >> \in Seq(S)
    OBVIOUS
  <2>2. queue \in Seq(Chunk)
    BY <2>1, Zenon DEF Init
  <2>3. wire \in Seq([chunk : Chunk, short : BOOLEAN, cut : BOOLEAN])
    BY <2>1, Zenon DEF Init
  <2>4. slices \in Seq(Nat \ {0})
    BY <2>1, Zenon DEF Init
  <2>5. /\ pc \in {"idle", "chunk", "slice", "failed"}
        /\ nonce \in Nat /\ before \in Nat /\ upto \in Nat /\ stop \in BOOLEAN
        /\ pc = "idle" => queue = << >>
    BY DEF Init
  <2> QED
    BY <2>2, <2>3, <2>4, <2>5, Zenon DEF Shape
<1>2. Len(AllChunks) = 0 /\ DOMAIN AllChunks = {}
  <2>1. Len(wire) = 0 /\ Len(queue) = 0
    BY DEF Init
  <2> QED
    BY <1>1, <2>1, AllChunksAre
<1>3. FlattenSeq([i \in DOMAIN AllChunks |-> AllChunks[i].plain]) = message
  <2> DEFINE none == << >>
             plains == [i \in DOMAIN AllChunks |-> AllChunks[i].plain]
  <2>1. none \in Seq(Int) /\ none \in Seq(Nat) /\ Len(none) = 0
    OBVIOUS
  <2>2. Total(none, Len(none)) = Len(none)
    BY <2>1, TotalIs
  <2>3. plains = [i \in 1 .. Len(none) |-> SubSeq(none, Total(none, i - 1) + 1, Total(none, i))]
    BY <1>2, <2>1
  <2> HIDE DEF plains, none
  <2>4. FlattenSeq(plains) = none
    BY <2>1, <2>2, <2>3, CutFlattens
  <2> QED
    BY <2>4 DEF plains, none, Init
<1>4. PayloadPreserved /\ ChunksFit
  BY <1>2, <1>3 DEF PayloadPreserved, ChunksFit, Init
<1>5. SlicesAddUp /\ ChunksWhole
  BY DEF Init, SlicesAddUp, ChunksWhole
<1> QED
  BY <1>1, <1>4, <1>5 DEF IndInv

LEMMA WriteMsgInv ==
    ASSUME IndInv, NEW n \in 0 .. MaxLen, WriteMsg(n)
    PROVE  IndInv'
<1>1. Shape /\ SlicesAddUp /\ PayloadPreserved
  BY DEF IndInv
<1>2. n \in Nat
  BY SizesAssumption
<1>31. PICK F : \E sizes \in GenChunkSizes(n) \cup {PlainChunkSizes(n)} :
          /\ queue' = Encrypted(Flipped(n, F), sizes)
          /\ nonce' = nonce + Len(sizes)
          /\ message' = Flipped(n, F)
  <2>1. PICK flip \in Options.flip_bits, split \in Options.split_chunks :
            \E F \in FlipSets(n, flip) :
            \E sizes \in IF split THEN GenChunkSizes(n) ELSE {PlainChunkSizes(n)} :
                /\ queue' = Encrypted(Flipped(n, F), sizes)
                /\ nonce' = nonce + Len(sizes)
                /\ message' = Flipped(n, F)
    BY Zenon DEF WriteMsg
  <2>2. PICK F \in FlipSets(n, flip) :
            \E sizes \in IF split THEN GenChunkSizes(n) ELSE {PlainChunkSizes(n)} :
                /\ queue' = Encrypted(Flipped(n, F), sizes)
                /\ nonce' = nonce + Len(sizes)
                /\ message' = Flipped(n, F)
    BY <2>1, Zenon
  <2>3. PICK sizes \in IF split THEN GenChunkSizes(n) ELSE {PlainChunkSizes(n)} :
                /\ queue' = Encrypted(Flipped(n, F), sizes)
                /\ nonce' = nonce + Len(sizes)
                /\ message' = Flipped(n, F)
    BY <2>2, Zenon
  <2>4. sizes \in GenChunkSizes(n) \cup {PlainChunkSizes(n)}
    OBVIOUS
  <2> QED
    BY <2>3, <2>4, Zenon
<1>3. PICK sizes \in GenChunkSizes(n) \cup {PlainChunkSizes(n)} :
          /\ queue' = Encrypted(Flipped(n, F), sizes)
          /\ nonce' = nonce + Len(sizes)
          /\ message' = Flipped(n, F)
  BY <1>31, Zenon
<1> DEFINE bytes == Flipped(n, F)
           e == Encrypted(bytes, sizes)
<1>4. bytes \in Seq(Int) /\ Len(bytes) = n
  BY <1>2, FlippedIs
<1>5. sizes \in Seq(1 .. PlainMax) /\ Total(sizes, Len(sizes)) = n
  BY <1>2, <1>3, Cuts
<1>6. nonce \in Nat /\ before \in Nat
  BY <1>1 DEF Shape
<1> HIDE DEF bytes
<1>7. /\ e \in Seq(Chunk)
      /\ Len(e) = Len(sizes)
      /\ \A i \in 1 .. Len(sizes) : e[i].nonce = nonce + i - 1 /\ Len(e[i].plain) \in 1 .. PlainMax
      /\ FlattenSeq([i \in 1 .. Len(sizes) |-> e[i].plain]) = bytes
  BY <1>4, <1>5, <1>6, EncryptedIs
<1>8. Len(sizes) \in Nat
  BY <1>5
<1>9. queue' = e /\ message' = bytes /\ wire' = << >> /\ nonce' = nonce + Len(sizes)
  BY <1>3 DEF bytes, WriteMsg
<1> HIDE DEF e
<1>10. before' = nonce
  <2>1. pc = "idle" /\ queue = << >> /\ before' = before + Len(wire)
    BY <1>1 DEF WriteMsg, Shape
  <2>2. nonce = before + Len(AllChunks) /\ Len(AllChunks) = Len(wire) + Len(queue)
    BY <1>1, AllChunksAre DEF PayloadPreserved
  <2>3. Len(queue) = 0 /\ Len(wire) \in Nat
    BY <1>1, <2>1 DEF Shape
  <2> QED
    BY <1>6, <2>1, <2>2, <2>3
<1>11. Shape'
  BY <1>1, <1>6, <1>7, <1>8, <1>9, <1>10 DEF Shape, WriteMsg
<1>12. /\ Len(AllChunks') = Len(sizes) /\ DOMAIN AllChunks' = 1 .. Len(sizes)
       /\ \A i \in 1 .. Len(sizes) : AllChunks'[i] = e[i]
  <2>1. Len(wire') = 0 /\ Len(queue') = Len(sizes)
    BY <1>7, <1>9
  <2> QED
    BY <1>8, <1>9, <1>11, <2>1, AllChunksNext
<1> DEFINE A == AllChunks'
<1> HIDE DEF A
<1>13. FlattenSeq([i \in DOMAIN A |-> A[i].plain]) = message'
  <2>1. [i \in DOMAIN A |-> A[i].plain] = [i \in 1 .. Len(sizes) |-> e[i].plain]
    BY <1>12 DEF A
  <2> QED
    BY <1>7, <1>9, <2>1
<1>14. \A i \in DOMAIN A : A[i].nonce = before' + i - 1
  BY <1>7, <1>10, <1>12 DEF A
<1>15. PayloadPreserved'
  BY <1>9, <1>10, <1>12, <1>13, <1>14 DEF PayloadPreserved, A
<1>16. ChunksFit'
  <2> SUFFICES ASSUME NEW i \in DOMAIN A
               PROVE  Len(A[i].plain) + MACBYTES \in MACBYTES + 1 .. CONTENT_LENGTH_MAX
    BY DEF ChunksFit, ContentSize, A
  <2>1. Len(A[i].plain) \in 1 .. PlainMax
    BY <1>7, <1>12 DEF A
  <2> QED
    BY <2>1, SizesAssumption DEF PlainMax
<1>17. SlicesAddUp' /\ ChunksWhole'
  <2>1. pc = "idle" /\ pc' = "chunk" /\ upto' = upto
    BY DEF WriteMsg
  <2> QED
    BY <1>1, <1>9, <2>1 DEF SlicesAddUp, ChunksWhole
<1> QED
  BY <1>11, <1>15, <1>16, <1>17 DEF IndInv

LEMMA WriteMsgDoneInv ==
    ASSUME IndInv, WriteMsgDone
    PROVE  IndInv'
<1>1. Shape /\ SlicesAddUp /\ PayloadPreserved /\ ChunksFit /\ ChunksWhole
  BY DEF IndInv
<1>2. /\ pc = "chunk" /\ pc' = "idle" /\ queue = << >>
      /\ UNCHANGED <<nonce, queue, slices, stop, upto, wire, message, before>>
  BY DEF WriteMsgDone
<1>3. Shape' /\ SlicesAddUp' /\ ChunksWhole'
  BY <1>1, <1>2 DEF Shape, SlicesAddUp, ChunksWhole
<1>4. AllChunks' = AllChunks
  BY <1>2 DEF AllChunks
<1> QED
  BY <1>1, <1>2, <1>3, <1>4, PayloadStays DEF IndInv

LEMMA WriteFailsInv ==
    ASSUME IndInv, WriteFails
    PROVE  IndInv'
<1>1. Shape /\ SlicesAddUp /\ PayloadPreserved /\ ChunksFit /\ ChunksWhole
  BY DEF IndInv
<1>2. /\ pc = "slice" /\ pc' = "failed"
      /\ UNCHANGED <<nonce, queue, slices, stop, upto, wire, message, before>>
  BY DEF WriteFails
<1>3. Shape' /\ SlicesAddUp' /\ ChunksWhole'
  BY <1>1, <1>2 DEF Shape, SlicesAddUp, ChunksWhole
<1>4. AllChunks' = AllChunks
  BY <1>2 DEF AllChunks
<1> QED
  BY <1>1, <1>2, <1>3, <1>4, PayloadStays DEF IndInv

LEMMA StutterInv ==
    ASSUME IndInv, UNCHANGED vars
    PROVE  IndInv'
<1>1. Shape /\ SlicesAddUp /\ PayloadPreserved /\ ChunksFit /\ ChunksWhole
  BY DEF IndInv
<1>2. UNCHANGED <<pc, nonce, queue, slices, stop, upto, wire, message, before>>
  BY DEF vars
<1>3. Shape' /\ SlicesAddUp' /\ ChunksWhole'
  BY <1>1, <1>2 DEF Shape, SlicesAddUp, ChunksWhole
<1>4. AllChunks' = AllChunks
  BY <1>2 DEF AllChunks
<1> QED
  BY <1>1, <1>2, <1>3, <1>4, PayloadStays DEF IndInv

LEMMA RawSizeIs ==
    ASSUME NEW c \in Chunk
    PROVE  RawSize(c) \in Nat \ {0}
<1>1. Len(c.plain) \in Nat
  BY DEF Chunk
<1> QED
  BY <1>1, SizesAssumption DEF RawSize, ContentSize, HeaderBytes

\* However a chunk is cut into slices, the slices are not empty and make up
\* the chunk.
LEMMA SlicesAre ==
    ASSUME NEW raw \in Nat \ {0}, NEW split,
           NEW sizes \in IF split THEN GenSliceSizes(raw) ELSE {<<raw>>}
    PROVE  sizes \in Seq(Nat \ {0}) /\ Total(sizes, Len(sizes)) = raw
<1> DEFINE max == raw + 1
<1>0. max \in Nat \ {0} /\ 1 .. max \in SUBSET (Nat \ {0})
  OBVIOUS
<1>1. CASE sizes \in GenSliceSizes(raw)
  <2>1. sizes \in UNION {Shuffles(l) : l \in SizeLists(raw, max)}
    BY <1>1 DEF GenSliceSizes
  <2> HIDE DEF max
  <2>2. sizes \in Seq(1 .. max) /\ Total(sizes, Len(sizes)) = raw
    BY <1>0, <2>1, DrawnSizes
  <2> QED
    BY <1>0, <2>2, SeqWider
<1>2. CASE sizes = <<raw>>
  <2>1. sizes \in Seq(Nat \ {0}) /\ sizes \in Seq(Nat) /\ Len(sizes) = 1 /\ sizes[1] = raw
    BY <1>2
  <2>2. Total(sizes, 0) = 0 /\ \A i \in 1 .. Len(sizes) : Total(sizes, i) = Total(sizes, i - 1) + sizes[i]
    BY <2>1, TotalIs
  <2>3. Total(sizes, 1) = Total(sizes, 1 - 1) + sizes[1]
    BY <2>1, <2>2
  <2> QED
    BY <2>1, <2>2, <2>3
<1> QED
  BY <1>1, <1>2

LEMMA WriteBytesInv ==
    ASSUME IndInv, WriteBytes
    PROVE  IndInv'
<1>1. Shape /\ SlicesAddUp /\ PayloadPreserved /\ ChunksFit /\ ChunksWhole
  BY DEF IndInv
<1> DEFINE c == Head(queue)
           x == [chunk |-> c, short |-> TRUE, cut |-> stop']
           L == Len(wire)
<1>2. /\ pc = "chunk" /\ pc' = "slice" /\ queue # << >> /\ upto' = 0
      /\ wire' = Append(wire, x) /\ queue' = Tail(queue)
      /\ UNCHANGED <<nonce, message, before>>
  BY DEF WriteBytes
<1>3. wire \in Seq(Entry) /\ queue \in Seq(Chunk)
  BY <1>1 DEF Shape, Entry
<1>4. c \in Chunk /\ Tail(queue) \in Seq(Chunk) /\ Len(Tail(queue)) = Len(queue) - 1
      /\ (\A i \in 1 .. Len(queue) - 1 : Tail(queue)[i] = queue[i + 1]) /\ c = queue[1]
      /\ Len(queue) \in Nat \ {0}
  BY <1>2, <1>3
<1>5. stop' \in BOOLEAN
  <2>1. PICK incomplete \in Options.incomplete_send : stop' = incomplete
    BY DEF WriteBytes
  <2>2. Options.incomplete_send \in SUBSET BOOLEAN
    BY OptionsAssumption
  <2> QED
    BY <2>1, <2>2
<1>6. slices' \in Seq(Nat \ {0}) /\ Total(slices', Len(slices')) = RawSize(c)
  <2> DEFINE raw == RawSize(c)
  <2>1. raw \in Nat \ {0}
    BY <1>4, RawSizeIs
  <2>2. PICK split \in Options.split_bytes :
            \E sizes \in IF split THEN GenSliceSizes(raw) ELSE {<<raw>>} : slices' = sizes
    BY Zenon DEF WriteBytes
  <2>3. slices' \in IF split THEN GenSliceSizes(raw) ELSE {<<raw>>}
    BY <2>2, Zenon
  <2> HIDE DEF raw
  <2>4. slices' \in Seq(Nat \ {0}) /\ Total(slices', Len(slices')) = raw
    BY <2>1, <2>3, SlicesAre
  <2> QED
    BY <2>4 DEF raw
<1> HIDE DEF c
<1>7. x \in Entry
  BY <1>4, <1>5 DEF Entry
<1>8. x.chunk = c /\ x.cut = stop'
  OBVIOUS
<1> HIDE DEF x
<1>9. /\ wire' \in Seq(Entry) /\ Len(wire') = L + 1 /\ L \in Nat
      /\ (\A i \in 1 .. L : wire'[i] = wire[i]) /\ wire'[L + 1] = x
      /\ DOMAIN wire' = 1 .. L + 1 /\ DOMAIN wire = 1 .. L
  BY <1>2, <1>3, <1>7
<1>10. Shape'
  <2>1. nonce' \in Nat /\ before' \in Nat /\ upto' \in Nat
    BY <1>1, <1>2 DEF Shape
  <2> QED
    BY <1>2, <1>4, <1>5, <1>6, <1>9, <2>1 DEF Shape, Entry
<1> HIDE DEF L
<1>11. AllChunks' = AllChunks
  <2>1. Len(wire) = L /\ Len(wire') = L + 1 /\ Len(queue') = Len(queue) - 1
    BY <1>2, <1>4, <1>9 DEF L
  <2>2. Len(wire') + Len(queue') = Len(wire) + Len(queue)
    BY <1>4, <1>9, <2>1
  <2>3. ASSUME NEW i \in 1 .. Len(wire) + Len(queue)
        PROVE  (IF i <= Len(wire') THEN wire'[i].chunk ELSE queue'[i - Len(wire')])
                 = IF i <= Len(wire) THEN wire[i].chunk ELSE queue[i - Len(wire)]
    <3>1. CASE i <= L
      BY <1>9, <2>1, <3>1
    <3>2. CASE i = L + 1
      <4>1. i - L = 1 /\ ~ (i <= L) /\ i <= L + 1
        BY <1>9, <3>2
      <4>2. wire'[i].chunk = c
        BY <1>8, <1>9, <3>2
      <4> QED
        BY <1>4, <2>1, <4>1, <4>2
    <3>3. CASE i > L + 1
      <4>1. /\ ~ (i <= L) /\ ~ (i <= L + 1) /\ i - (L + 1) \in 1 .. Len(queue) - 1
            /\ (i - (L + 1)) + 1 = i - L
        BY <1>4, <1>9, <2>1, <3>3
      <4>2. Tail(queue)[i - (L + 1)] = queue[i - L]
        BY <1>4, <4>1
      <4> QED
        BY <1>2, <2>1, <4>1, <4>2
    <3>4. i \in Int
      OBVIOUS
    <3> QED
      BY <1>9, <3>1, <3>2, <3>3, <3>4
  <2> QED
    BY <1>1, <1>10, <2>2, <2>3, SameChunks
<1>12. SlicesAddUp'
  <2> DEFINE t == Total(slices', Len(slices'))
  <2>1. wire' # << >> /\ wire'[Len(wire')] = x
    BY <1>9
  <2>2. RawSize(c) \in Nat
    BY <1>4, RawSizeIs
  <2>3. t = RawSize(c)
    BY <1>6
  <2> HIDE DEF t
  <2>4. upto' + t <= RawSize(c) /\ upto' + t = RawSize(c)
    BY <1>2, <2>2, <2>3
  <2> QED
    BY <1>2, <1>8, <2>1, <2>4 DEF SlicesAddUp, t
<1>13. ChunksWhole'
  <2> SUFFICES ASSUME NEW i \in 1 .. L + 1, wire'[i].short, i < Len(wire')
               PROVE  wire'[i].cut
    BY <1>2, <1>9 DEF ChunksWhole
  <2>1. i \in 1 .. L /\ wire'[i] = wire[i] /\ i \in DOMAIN wire
    BY <1>9
  <2> QED
    BY <1>1, <1>2, <2>1 DEF ChunksWhole
<1> QED
  BY <1>1, <1>2, <1>10, <1>11, <1>12, <1>13, PayloadStays DEF IndInv

LEMMA WriteSliceInv ==
    ASSUME IndInv, WriteSlice
    PROVE  IndInv'
<1>1. Shape /\ SlicesAddUp /\ PayloadPreserved /\ ChunksFit /\ ChunksWhole
  BY DEF IndInv
<1>2. /\ pc = "slice" /\ slices # << >> /\ upto' = upto + Head(slices)
      /\ slices' = (IF stop THEN << >> ELSE Tail(slices))
      /\ UNCHANGED <<pc, nonce, queue, stop, wire, message, before>>
  BY DEF WriteSlice
<1>3. slices \in Seq(Nat \ {0}) /\ upto \in Nat
  BY <1>1 DEF Shape
<1>4. slices \in Seq(Nat)
  <2>1. Nat \ {0} \in SUBSET Nat
    OBVIOUS
  <2> QED
    BY <1>3, <2>1, SeqOfNat
<1> DEFINE s == Total(slices, Len(slices))
           t == Total(Tail(slices), Len(Tail(slices)))
           h == Head(slices)
<1>5. h \in Nat /\ Tail(slices) \in Seq(Nat) /\ s = h + t
  BY <1>2, <1>4, TotalTail
<1>6. t \in Nat
  <2>1. Len(Tail(slices)) \in 0 .. Len(Tail(slices))
    BY <1>5
  <2> QED
    BY <1>5, <2>1, TotalIs
<1>7. Tail(slices) \in Seq(Nat \ {0}) /\ << >> \in Seq(Nat \ {0})
  BY <1>2, <1>3
<1>8. Total(<< >>, Len(<< >>)) = 0
  <2>1. << >> \in Seq(Nat) /\ Len(<< >>) = 0
    OBVIOUS
  <2> QED
    BY <2>1, TotalIs
<1>9. Shape'
  <2>1. slices' \in Seq(Nat \ {0})
    BY <1>2, <1>7
  <2>2. upto' \in Nat
    BY <1>2, <1>3, <1>5
  <2> QED
    BY <1>1, <1>2, <2>1, <2>2 DEF Shape
<1>10. SlicesAddUp'
  <2> DEFINE last == wire[Len(wire)]
             raw == RawSize(last.chunk)
             u == Total(slices', Len(slices'))
  <2>1. wire # << >> /\ last.cut = stop /\ upto + s <= raw /\ (~ stop => upto + s = raw)
    BY <1>1, <1>2 DEF SlicesAddUp
  <2>2. stop => u = 0
    BY <1>2, <1>8
  <2>3. ~ stop => u = t
    BY <1>2
  <2>4. raw \in Int
    <3>1. wire \in Seq(Entry)
      BY <1>1 DEF Shape, Entry
    <3>2. last \in Entry
      BY <2>1, <3>1
    <3>3. last.chunk \in Chunk
      BY <3>2 DEF Entry
    <3> QED
      BY <3>3, RawSizeIs
  <2> HIDE DEF last, raw, u, s, t, h
  <2>5. (upto + h) + u <= raw /\ (~ stop => (upto + h) + u = raw)
    <3>1. \A a, b, d, e \in Int : /\ (b + (d + e) <= a /\ e >= 0 => (b + d) + 0 <= a)
                                  /\ (b + d) + e = b + (d + e)
      OBVIOUS
    <3>2. t >= 0
      BY <1>6
    <3> QED
      BY <1>3, <1>5, <1>6, <2>1, <2>2, <2>3, <2>4, <3>1, <3>2
  <2> QED
    BY <1>2, <2>1, <2>5 DEF SlicesAddUp, last, raw, u, h
<1>11. AllChunks' = AllChunks
  BY <1>2 DEF AllChunks
<1>12. ChunksWhole'
  BY <1>1, <1>2 DEF ChunksWhole
<1> QED
  BY <1>1, <1>2, <1>9, <1>10, <1>11, <1>12, PayloadStays DEF IndInv

LEMMA WriteBytesDoneInv ==
    ASSUME IndInv, WriteBytesDone
    PROVE  IndInv'
<1>1. Shape /\ SlicesAddUp /\ PayloadPreserved /\ ChunksFit /\ ChunksWhole
  BY DEF IndInv
<1> DEFINE L == Len(wire)
           raw == RawSize(wire[L].chunk)
           y == [wire[L] EXCEPT !.short = upto < raw]
<1>2. /\ pc = "slice" /\ pc' = "chunk" /\ slices = << >> /\ upto' = 0 /\ stop' = FALSE
      /\ wire' = [wire EXCEPT ![L] = y]
      /\ UNCHANGED <<nonce, queue, slices, message, before>>
  BY DEF WriteBytesDone
<1>3. wire \in Seq(Entry) /\ upto \in Nat
  BY <1>1 DEF Shape, Entry
<1>4. Total(slices, Len(slices)) = 0
  <2>1. << >> \in Seq(Nat) /\ Len(<< >>) = 0
    OBVIOUS
  <2> QED
    BY <1>2, <2>1, TotalIs
<1>5. /\ wire # << >> /\ wire[L].cut = stop /\ (~ stop => upto + 0 = raw)
  BY <1>1, <1>2, <1>4 DEF SlicesAddUp
<1>6. L \in Nat \ {0} /\ DOMAIN wire = 1 .. L /\ L \in 1 .. L /\ wire[L] \in Entry
  BY <1>3, <1>5
<1>7. upto < raw => wire[L].cut
  <2>1. raw \in Nat
    BY <1>6, RawSizeIs DEF Entry
  <2>2. upto + 0 = upto
    BY <1>3
  <2>3. stop \in BOOLEAN
    BY <1>1 DEF Shape
  <2> HIDE DEF raw
  <2>4. upto < raw => stop
    BY <1>3, <1>5, <2>1, <2>2
  <2> QED
    BY <1>5, <2>4, Zenon
<1>8. y \in Entry /\ y.chunk = wire[L].chunk /\ y.cut = wire[L].cut /\ (y.short <=> upto < raw)
  <2> DEFINE b == upto < raw
  <2>1. b \in BOOLEAN
    OBVIOUS
  <2> HIDE DEF b
  <2>2. [wire[L] EXCEPT !.short = b] \in Entry
    BY <1>6, <2>1 DEF Entry
  <2>3. /\ [wire[L] EXCEPT !.short = b].chunk = wire[L].chunk
        /\ [wire[L] EXCEPT !.short = b].cut = wire[L].cut
        /\ [wire[L] EXCEPT !.short = b].short = b
    BY <1>6 DEF Entry
  <2> QED
    BY <2>2, <2>3 DEF b
<1> HIDE DEF y
<1>9. /\ wire' \in Seq(Entry) /\ Len(wire') = L /\ DOMAIN wire' = 1 .. L
      /\ \A i \in 1 .. L : wire'[i] = IF i = L THEN y ELSE wire[i]
  BY <1>2, <1>3, <1>6, <1>8
<1>10. Shape'
  <2>1. wire' \in Seq([chunk : Chunk, short : BOOLEAN, cut : BOOLEAN])
    BY <1>9 DEF Entry
  <2>2. upto' \in Nat /\ stop' \in BOOLEAN /\ pc' \in {"idle", "chunk", "slice", "failed"}
    BY <1>2
  <2> QED
    BY <1>1, <1>2, <2>1, <2>2 DEF Shape
<1>11. AllChunks' = AllChunks
  <2>1. \A i \in 1 .. L : wire'[i].chunk = wire[i].chunk
    BY <1>8, <1>9
  <2>2. [i \in DOMAIN wire' |-> wire'[i].chunk] = [i \in DOMAIN wire |-> wire[i].chunk]
    BY <1>6, <1>9, <2>1
  <2> QED
    BY <1>2, <2>2 DEF AllChunks
<1>12. ChunksWhole'
  <2> SUFFICES ASSUME NEW i \in 1 .. L, wire'[i].short
               PROVE  wire'[i].cut
    BY <1>2, <1>9 DEF ChunksWhole
  <2>1. CASE i = L
    BY <1>7, <1>8, <1>9, <2>1
  <2>2. CASE i # L
    <3>1. wire'[i] = wire[i] /\ i \in DOMAIN wire
      BY <1>6, <1>9, <2>2
    <3>2. i < L
      <4> HIDE DEF L
      <4> QED
        BY <1>6, <2>2
    <3> QED
      BY <1>1, <3>1, <3>2 DEF ChunksWhole
  <2> QED
    BY <2>1, <2>2
<1>13. SlicesAddUp'
  BY <1>2 DEF SlicesAddUp
<1> QED
  BY <1>1, <1>2, <1>10, <1>11, <1>12, <1>13, PayloadStays DEF IndInv

-----------------------------------------------------------------------------
(* The theorems.                                                           *)

LEMMA NextInv == IndInv /\ [Next]_vars => IndInv'
<1> SUFFICES ASSUME IndInv, [Next]_vars
             PROVE  IndInv'
  OBVIOUS
<1>1. ASSUME NEW n \in 0 .. MaxLen, WriteMsg(n)
      PROVE  IndInv'
  BY <1>1, WriteMsgInv
<1>2. CASE WriteMsgDone
  BY <1>2, WriteMsgDoneInv
<1>3. CASE WriteBytes
  BY <1>3, WriteBytesInv
<1>4. CASE WriteSlice
  BY <1>4, WriteSliceInv
<1>5. CASE WriteBytesDone
  BY <1>5, WriteBytesDoneInv
<1>6. CASE WriteFails
  BY <1>6, WriteFailsInv
<1>7. CASE UNCHANGED vars
  BY <1>7, StutterInv
<1> QED
  BY <1>1, <1>2, <1>3, <1>4, <1>5, <1>6, <1>7, Zenon DEF Next, Step

\* The invariant behind the properties of write_bytes_encrypted and
\* write_bytes holds, for every message length, chunk limit and set of
\* options.
THEOREM IndInvHolds == Spec => []IndInv
BY InitInv, NextInv, PTL DEF Spec

\* No chunk is written beyond its end, and no slice is empty.
THEOREM NoChunkOverrun == Spec => []TypeOK
<1>1. ASSUME IndInv
      PROVE  TypeOK
  <2>1. Shape /\ SlicesAddUp
    BY <1>1 DEF IndInv
  <2>2. \A i \in DOMAIN slices : slices[i] \in Nat \ {0}
    BY <2>1 DEF Shape
  <2> DEFINE t == Total(slices, Len(slices))
             raw == RawSize(wire[Len(wire)].chunk)
  <2>3. t \in Nat
    <3>1. Nat \ {0} \in SUBSET Nat
      OBVIOUS
    <3>2. slices \in Seq(Nat)
      BY <2>1, <3>1, SeqOfNat DEF Shape
    <3>3. Len(slices) \in 0 .. Len(slices)
      BY <3>2
    <3> QED
      BY <3>2, <3>3, TotalIs
  <2>4. wire # << >> => raw \in Nat
    <3>1. wire \in Seq(Entry)
      BY <2>1 DEF Shape, Entry
    <3>2. wire # << >> => wire[Len(wire)] \in Entry
      BY <3>1
    <3> QED
      BY <3>2, RawSizeIs DEF Entry
  <2>5. upto \in Nat /\ pc \in {"idle", "chunk", "slice", "failed"}
    BY <2>1 DEF Shape
  <2>6. upto # 0 => wire # << >> /\ upto + t <= raw
    BY <2>1, <2>5 DEF SlicesAddUp
  <2> HIDE DEF t, raw
  <2>7. upto \in 0 .. IF wire = << >> THEN 0 ELSE raw
    BY <2>3, <2>4, <2>5, <2>6
  <2> QED
    BY <2>1, <2>2, <2>7 DEF TypeOK, Shape, raw
<1>2. IndInv => TypeOK
  BY <1>1
<1> QED
  BY <1>2, IndInvHolds, PTL

\* Cutting a message by gen_chunks or by chunks(), with the sizes in any
\* order, and encrypting the pieces one nonce after another loses, repeats
\* and reorders no byte, across any number of messages.
THEOREM MessagesArriveWhole == Spec => []PayloadPreserved
<1>1. IndInv => PayloadPreserved
  BY DEF IndInv
<1> QED
  BY <1>1, IndInvHolds, PTL

\* from_content is never given an empty or an oversized content: its
\* unwrap() does not panic.
THEOREM ChunksAlwaysFit == Spec => []ChunksFit
<1>1. IndInv => ChunksFit
  BY DEF IndInv
<1> QED
  BY <1>1, IndInvHolds, PTL

\* Only incomplete_send leaves a chunk short: the slices of gen_byte_chunks
\* make up the chunk.
THEOREM OnlyCutChunksAreShort == Spec => []ChunksWhole
<1>1. IndInv => ChunksWhole
  BY DEF IndInv
<1> QED
  BY <1>1, IndInvHolds, PTL
=============================================================================
