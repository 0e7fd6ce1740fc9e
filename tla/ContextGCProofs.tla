-------------------------- MODULE ContextGCProofs --------------------------
(***************************************************************************)
(* Proofs about ContextGC for any number of cycles, ids, commands and      *)
(* levels, and a queue of any size, with a shell that keeps to the          *)
(* conditions of LeavingSpec or CarefulSpec.  The code does not see to      *)
(* them, and ContextGC names them.                                         *)
(***************************************************************************)
EXTENDS ContextGC, FiniteSetTheorems, SequenceTheorems, WellFoundedInduction, TLAPS

P == PRESERVE_CYCLE_COUNT

-----------------------------------------------------------------------------
(* The invariant, first part: who owns an id.                              *)

Values == {None} \cup SUBSET Ids
Cycle == UNION {[ids -> Values] : ids \in SUBSET Ids}
CycleList == [1..P -> Cycle]
Commands == [reused : SUBSET Ids] \cup [values_in_cycle : Cycle, new_ids : SUBSET Ids]
Nodes == [id : 0..MaxId, commited : BOOLEAN]
CommitRecords == [id : Ids, path : Seq(Ids)]

\* The ids that a command brings to the collector.
IsCycle(command) == "new_ids" \in DOMAIN command
New(command) == IF IsCycle(command) THEN command.new_ids ELSE {}
Held(list) == UNION {DOMAIN list[i] : i \in 1..P}

Pcs == {"idle", "poisoned"} \cup Operations

MainTypes ==
    /\ pc \in Pcs /\ started \in 0..MaxCycles
    /\ hashes \in 0..MaxId /\ values \in Seq(Values) /\ Len(values) <= hashes
    /\ new_ids \in SUBSET Ids /\ current_cycle \in Cycle /\ DOMAIN current_cycle \subseteq new_ids
    /\ context_hashes \in [1..P -> SUBSET CommitRecords]
    /\ prepared \in Seq(Ids) /\ Len(prepared) <= 2

CollectorTypes ==
    /\ channel \in Seq(Commands) /\ Len(channel) <= MaxCommands
    /\ \A j \in DOMAIN channel : IsCycle(channel[j]) =>
          DOMAIN channel[j].values_in_cycle \subseteq channel[j].new_ids
    /\ cycles \in CycleList
    /\ free_ids \in Seq(Ids) /\ pending \in Seq(Ids)
    /\ Len(free_ids) <= QueueSize
    /\ \/ sending = <<>>
       \/ /\ sending \in Seq(Ids) \X Seq(Ids)
          /\ Len(free_ids) + Len(sending[1]) <= QueueSize

\* The nodes that are not committed come first.
Shape(context) ==
    /\ context \in Seq(Nodes) /\ Len(context) <= Levels
    /\ \A l, m \in DOMAIN context : l < m /\ ~context[m].commited => ~context[l].commited
    /\ \A l \in DOMAIN context : context[l].commited => context[l].id # 0

\* The ids handed out to what is or was hashed: new, distinct and without an entry.
Val(vals, x) == IF x \in DOMAIN vals THEN vals[x] ELSE None

Hashing(context, fresh, vals, ids) ==
    /\ \A l \in DOMAIN context : ~context[l].commited /\ context[l].id # 0 =>
          /\ context[l].id \in fresh /\ Val(vals, context[l].id) = None
          /\ context[l].id \notin Range(ids)
          /\ \A m \in DOMAIN context : ~context[m].commited /\ context[m].id = context[l].id => m = l
    /\ \A n \in DOMAIN ids :
          /\ ids[n] \in fresh /\ Val(vals, ids[n]) = None
          /\ \A m \in DOMAIN ids : ids[m] = ids[n] => m = n
    /\ ids # <<>> => \A l \in DOMAIN context : context[l].id # 0

ContextOK ==
    /\ pc = "idle" => prepared = <<>>
    /\ \/ ctx = None /\ pc \notin Operations
       \/ Shape(ctx) /\ (pc # "poisoned" => Hashing(ctx, new_ids, values, prepared))

\* No id is in two places.
Unique(list) == \A i, j \in 1..P : i # j => DOMAIN list[i] \cap DOMAIN list[j] = {}
Distinct(s) == \A i, j \in DOMAIN s : s[i] = s[j] => i = j

Apart ==
    /\ Unique(cycles) /\ Distinct(Released)
    /\ \A i, j \in DOMAIN channel : i # j => New(channel[i]) \cap New(channel[j]) = {}
    /\ \A j \in DOMAIN channel : /\ New(channel[j]) \cap Held(cycles) = {}
                                 /\ New(channel[j]) \cap new_ids = {}
                                 /\ New(channel[j]) \cap Range(Released) = {}
    /\ new_ids \cap Held(cycles) = {} /\ new_ids \cap Range(Released) = {}
    /\ Held(cycles) \cap Range(Released) = {}

Counted ==
    /\ new_ids \subseteq 1..hashes /\ Held(cycles) \subseteq 1..hashes
    /\ Range(Released) \subseteq 1..hashes
    /\ \A j \in DOMAIN channel : New(channel[j]) \subseteq 1..hashes

Ownership == MainTypes /\ CollectorTypes /\ ContextOK /\ Apart /\ Counted

-----------------------------------------------------------------------------
(* The invariant, second part: what the collector will hold once it has    *)
(* taken every command of the channel, and where in it the entries are.    *)

\* The cycle that a command brings.
CycleOf(command) == InsertAll([id \in command.new_ids |-> None], command.values_in_cycle)

Apply(list, command) ==
    IF IsCycle(command) THEN Append(Tail(list), CycleOf(command))
    ELSE MoveToLastCycle(list, Visited(list, command.reused))

\* vs[k] are the cycles after the first k commands.
Ahead(vs, list, commands) ==
    /\ vs \in [0..Len(commands) -> CycleList] /\ vs[0] = list
    /\ \A k \in 1..Len(commands) : vs[k] = Apply(vs[k - 1], commands[k])

\* No id is dropped when the ids are moved: each that is found has an entry.
NoLoss(list, ids) == \A n \in 1..(P - 1) : \A x \in ids \cap DOMAIN list[n] : list[n][x] # None

AheadOK(vs, commands) ==
    /\ \A k \in 0..Len(commands) : Unique(vs[k])
    /\ \A k \in 0..Len(commands) : \A i \in 0..k : \A x \in Held(vs[k]) :
          x \in Held(vs[i]) \/ \E j \in (i + 1)..k : x \in New(commands[j])
    /\ \A k \in 1..Len(commands) : ~IsCycle(commands[k]) =>
          NoLoss(vs[k - 1], Visited(vs[k - 1], commands[k].reused))

\* The cycles hold what the main thread reads.
Contents(list, vals, fresh, current) ==
    /\ \A n \in 1..P : \A x \in DOMAIN list[n] : list[n][x] = Val(vals, x)
    /\ \A x \in fresh : Val(vals, x) = IF x \in DOMAIN current THEN current[x] ELSE None

\* The places of an id: the cycles, and after them the running one.
Places(list, fresh) == [n \in 1..(P + 1) |-> IF n <= P THEN DOMAIN list[n] ELSE fresh]

\* x is in place n or a later one, with the entry v.
Kept(D, vals, x, n, v) ==
    v # None /\ \E m \in 1..(P + 1) : m >= n /\ x \in D[m] /\ Val(vals, x) = v

\* What an entry refers to is at most one place behind it.
Lag(D, vals) ==
    \A n \in 2..(P + 1) : \A x \in D[n] : Val(vals, x) # None =>
        \A y \in Val(vals, x) : \E m \in 1..(P + 1) : m >= n - 1 /\ y \in D[m] /\ Val(vals, y) # None

Child(path, l) == IF l < Len(path) THEN {path[l + 1]} ELSE {}
BelowOf(context, l) == IF l < Len(context) THEN {context[l + 1].id} ELSE {}

CommitKept(D, vals, i, commit) ==
    /\ Len(commit.path) \in 1..(Levels + 1)
    /\ Kept(D, vals, commit.id, i + 1, {commit.path[1]})
    /\ \A l \in DOMAIN commit.path : l - 1 <= i =>
          Kept(D, vals, commit.path[l], i + 2 - l, Child(commit.path, l))

KnownKept(D, vals, known) == \A i \in 1..P : \A commit \in known[i] : CommitKept(D, vals, i, commit)

\* A committed node is stored, except that nothing is ever written for one
\* that was only hashed; such a context is not committed.
Stored(D, vals, context, l) ==
    Kept(D, vals, context[l].id, 1, BelowOf(context, l))

ContextKept(D, vals, fresh, context, at) ==
    \/ context = None /\ at \notin Operations
    \/ \A l \in DOMAIN context : context[l].commited =>
          \/ Stored(D, vals, context, l)
          \/ at # "commit" /\ context[l].id \in fresh /\ Val(vals, context[l].id) = None

Keeps(list) ==
    /\ Contents(list, values, new_ids, current_cycle)
    /\ Lag(Places(list, new_ids), values)
    /\ KnownKept(Places(list, new_ids), values, context_hashes)
    /\ ContextKept(Places(list, new_ids), values, new_ids, ctx, pc)

Covered ==
    pc # "poisoned" => \A x \in 1..hashes :
        \/ x \in new_ids \/ x \in Held(cycles) \/ x \in Range(Released)
        \/ \E j \in DOMAIN channel : x \in New(channel[j])

Retention ==
    /\ Covered
    /\ \E vs : Ahead(vs, cycles, channel) /\ AheadOK(vs, channel) /\ Keeps(vs[Len(channel)])

-----------------------------------------------------------------------------
(* Induction: a set of numbers that holds zero and what follows each of    *)
(* its members is all of them, since there is no least number outside.     *)

LEMMA SetInduction ==
    ASSUME NEW T \in SUBSET Nat, 0 \in T, \A n \in T : n + 1 \in T
    PROVE  T = Nat
<1> SUFFICES ASSUME T # Nat PROVE FALSE
  OBVIOUS
<1> DEFINE R == OpToRel(<, Nat)
           U == Nat \ T
<1>1. \A x, y \in Nat : x < y => <<x, y>> \in R
  BY DEF OpToRel
<1>2. IsWellFoundedOn(R, Nat)
  BY NatLessThanWellFounded
<1>3. U \in SUBSET Nat /\ U # {}
  OBVIOUS
<1> HIDE DEF R, U
<1>4. PICK x \in U : \A y \in U : ~ (<<y, x>> \in R)
  BY <1>2, <1>3, WFMin
<1>5. x \in Nat /\ x \notin T /\ x # 0 /\ x - 1 \in Nat /\ x - 1 < x /\ (x - 1) + 1 = x
  BY DEF U
<1>6. x - 1 \in T
  BY <1>1, <1>4, <1>5 DEF U
<1>7. (x - 1) + 1 \in T
  BY <1>6
<1> QED
  BY <1>5, <1>7

\* The same up to a bound.
LEMMA InductionUpTo ==
    ASSUME NEW N \in Nat, NEW T \in SUBSET Nat, 0 \in T, \A n \in T : n < N => n + 1 \in T
    PROVE  0..N \subseteq T
<1> DEFINE S == {n \in Nat : n <= N => n \in T}
<1>1. S \in SUBSET Nat /\ 0 \in S
  OBVIOUS
<1>2. ASSUME NEW n \in S PROVE n + 1 \in S
  OBVIOUS
<1> HIDE DEF S
<1>3. S = Nat
  BY <1>1, <1>2, SetInduction
<1> QED
  BY <1>3 DEF S

\* A function defined step by step from a first value.
Follows(h, N, V, base, step) ==
    /\ h \in [0..N -> V]
    /\ h[0] = base /\ \A i \in 1..N : h[i] = step[h[i - 1]]

LEMMA Recursion ==
    ASSUME NEW N \in Nat, NEW V, NEW base \in V, NEW step \in [V -> V]
    PROVE  \E h : Follows(h, N, V, base, step)
<1> DEFINE T == {n \in Nat : \E h : Follows(h, n, V, base, step)}
<1>1. 0 \in T
  <2> DEFINE h == [i \in 0..0 |-> base]
  <2>1. Follows(h, 0, V, base, step)
    BY DEF Follows
  <2> QED
    BY <2>1
<1>2. ASSUME NEW n \in T PROVE n + 1 \in T
  <2>1. n \in Nat
    OBVIOUS
  <2>2. PICK h : Follows(h, n, V, base, step)
    OBVIOUS
  <2> DEFINE next == step[h[n]]
             w == [i \in 0..(n + 1) |-> IF i <= n THEN h[i] ELSE next]
  <2>3. h \in [0..n -> V] /\ h[0] = base /\ \A i \in 1..n : h[i] = step[h[i - 1]]
    BY <2>2 DEF Follows
  <2>4. next \in V
    BY <2>1, <2>3
  <2>5. w \in [0..(n + 1) -> V] /\ w[0] = base
    <3> HIDE DEF next
    <3> QED
      BY <2>1, <2>3, <2>4
  <2>6. ASSUME NEW i \in 1..(n + 1) PROVE w[i] = step[w[i - 1]]
    <3>1. CASE i = n + 1
      <4>1. w[i] = next /\ i - 1 = n /\ w[n] = h[n]
        BY <2>1, <3>1
      <4> QED
        BY <3>1, <4>1
    <3>2. CASE i \in 1..n
      <4>1. w[i] = h[i] /\ w[i - 1] = h[i - 1]
        BY <2>1, <3>2
      <4> QED
        BY <2>3, <3>2, <4>1
    <3> QED
      BY <2>1, <3>1, <3>2
  <2> HIDE DEF w
  <2>7. Follows(w, n + 1, V, base, step)
    BY <2>1, <2>5, <2>6 DEF Follows
  <2> QED
    BY <2>1, <2>7
<1>3. T = Nat
  <2>1. T \in SUBSET Nat
    OBVIOUS
  <2> HIDE DEF T
  <2> QED
    BY <1>1, <1>2, <2>1, SetInduction
<1> QED
  BY <1>3

\* A bounded set of numbers has a greatest one.
LEMMA MaxIs ==
    ASSUME NEW N \in Nat, NEW S \in SUBSET (0..N), S # {}
    PROVE  Max(S) \in S /\ \A y \in S : y <= Max(S)
<1> DEFINE T == {n \in Nat : \A z \in S : z <= N - n}
<1>1. \E x \in S : \A y \in S : x >= y
  <2> SUFFICES ASSUME \A x \in S : \E y \in S : y > x PROVE FALSE
    BY SMT
  <2>1. T \in SUBSET Nat /\ 0 \in T
    OBVIOUS
  <2>2. ASSUME NEW n \in T PROVE n + 1 \in T
    <3> SUFFICES ASSUME NEW y \in S PROVE y <= N - (n + 1)
      OBVIOUS
    <3>1. PICK z \in S : z > y
      OBVIOUS
    <3>2. z <= N - n
      OBVIOUS
    <3> QED
      BY <3>1, <3>2
  <2> HIDE DEF T
  <2>3. T = Nat
    BY <2>1, <2>2, SetInduction
  <2>4. N + 1 \in T
    BY <2>3
  <2>5. PICK y \in S : TRUE
    OBVIOUS
  <2>6. y \in 0..N /\ y <= N - (N + 1)
    BY <2>4, <2>5 DEF T
  <2> QED
    BY <2>6
<1> QED
  BY <1>1 DEF Max

LEMMA MinOfTwo ==
    ASSUME NEW a \in Nat, NEW b \in Nat
    PROVE  Min({a, b}) \in {a, b} /\ Min({a, b}) <= a /\ Min({a, b}) <= b
<1>1. \E x \in {a, b} : \A y \in {a, b} : x =< y
  <2>1. CASE a <= b
    BY <2>1
  <2>2. CASE b <= a
    BY <2>2
  <2> QED
    BY <2>1, <2>2
<1> QED
  BY <1>1 DEF Min

-----------------------------------------------------------------------------
(* Sequences without repetition, and the keys of a cycle.                  *)

LEMMA Sizes ==
    /\ P \in Nat \ {0} /\ P - 1 \in Nat /\ QueueSize \in Nat \ {0} /\ Levels \in Nat
    /\ MaxId \in Nat /\ MaxHashed \in Nat /\ MaxCommands \in Nat /\ MaxCycles \in Nat
BY SizesAssumption DEF P

LEMMA SeqIntro ==
    ASSUME NEW S, NEW n \in Nat, NEW s \in [1..n -> S]
    PROVE  s \in Seq(S) /\ Len(s) = n
OBVIOUS

LEMMA InRange ==
    ASSUME NEW S, NEW s \in Seq(S)
    PROVE  /\ \A x : x \in Range(s) <=> \E i \in 1..Len(s) : s[i] = x
           /\ DOMAIN s = 1..Len(s) /\ Len(s) \in Nat
BY DEF Range

LEMMA ConcatDistinct ==
    ASSUME NEW S, NEW s \in Seq(S), NEW t \in Seq(S)
    PROVE  /\ Distinct(s \o t) <=> Distinct(s) /\ Distinct(t) /\ Range(s) \cap Range(t) = {}
           /\ Range(s \o t) = Range(s) \cup Range(t)
           /\ s \o t \in Seq(S) /\ Len(s \o t) = Len(s) + Len(t)
<1> DEFINE w == s \o t
           a == Len(s)
           b == Len(t)
<1>1. /\ w \in Seq(S) /\ Len(w) = a + b /\ a \in Nat /\ b \in Nat
      /\ DOMAIN s = 1..a /\ DOMAIN t = 1..b /\ DOMAIN w = 1..(a + b)
      /\ \A i \in 1..(a + b) : w[i] = IF i <= a THEN s[i] ELSE t[i - a]
  BY ConcatProperties, LenProperties
<1>2. Range(w) = Range(s) \cup Range(t)
  BY RangeConcatenation
<1> HIDE DEF w, a, b
<1>3. \A i \in 1..a : i \in 1..(a + b) /\ w[i] = s[i]
  BY <1>1
<1>4. \A i \in 1..b : a + i \in 1..(a + b) /\ w[a + i] = t[i]
  <2> SUFFICES ASSUME NEW i \in 1..b PROVE a + i \in 1..(a + b) /\ w[a + i] = t[i]
    OBVIOUS
  <2>1. a + i \in 1..(a + b) /\ ~(a + i <= a) /\ (a + i) - a = i
    BY <1>1
  <2>2. w[a + i] = t[(a + i) - a]
    BY <1>1, <2>1
  <2> QED
    BY <2>1, <2>2
<1>5. ASSUME Distinct(w) PROVE Distinct(s) /\ Distinct(t) /\ Range(s) \cap Range(t) = {}
  <2>1. \A i, j \in 1..(a + b) : w[i] = w[j] => i = j
    BY <1>1, <1>5 DEF Distinct
  <2>2. ASSUME NEW i \in 1..a, NEW j \in 1..a, s[i] = s[j] PROVE i = j
    BY <1>3, <2>1, <2>2
  <2>3. ASSUME NEW i \in 1..b, NEW j \in 1..b, t[i] = t[j] PROVE i = j
    <3>1. a + i = a + j
      BY <1>4, <2>1, <2>3
    <3> QED
      BY <1>1, <3>1
  <2>4. ASSUME NEW i \in 1..a, NEW j \in 1..b, s[i] = t[j] PROVE FALSE
    <3>1. i = a + j
      BY <1>3, <1>4, <2>1, <2>4
    <3> QED
      BY <1>1, <3>1
  <2> QED
    BY <1>1, <2>2, <2>3, <2>4 DEF Distinct, Range
<1>6. ASSUME Distinct(s), Distinct(t), Range(s) \cap Range(t) = {} PROVE Distinct(w)
  <2>1. \A i, j \in 1..a : s[i] = s[j] => i = j
    BY <1>1, <1>6 DEF Distinct
  <2>2. \A i, j \in 1..b : t[i] = t[j] => i = j
    BY <1>1, <1>6 DEF Distinct
  <2>3. \A i \in 1..a : \A j \in 1..b : s[i] # t[j]
    BY <1>1, <1>6 DEF Range
  <2>4. ASSUME NEW i \in 1..(a + b), NEW j \in 1..(a + b), w[i] = w[j] PROVE i = j
    <3>1. \A k \in 1..(a + b) : /\ k <= a => k \in 1..a /\ w[k] = s[k]
                                /\ k > a => k - a \in 1..b /\ w[k] = t[k - a]
      <4> SUFFICES ASSUME NEW k \in 1..(a + b)
                   PROVE  /\ k <= a => k \in 1..a /\ w[k] = s[k]
                          /\ k > a => k - a \in 1..b /\ w[k] = t[k - a]
        OBVIOUS
      <4>1. w[k] = IF k <= a THEN s[k] ELSE t[k - a]
        BY <1>1
      <4> QED
        BY <1>1, <4>1
    <3>2. CASE i <= a /\ j <= a
      BY <2>1, <2>4, <3>1, <3>2
    <3>3. CASE i > a /\ j > a
      <4>1. i - a \in 1..b /\ j - a \in 1..b /\ t[i - a] = t[j - a]
        BY <2>4, <3>1, <3>3
      <4>2. i - a = j - a
        BY <2>2, <4>1
      <4> QED
        BY <1>1, <4>2
    <3>4. CASE i <= a /\ j > a
      <4>1. i \in 1..a /\ j - a \in 1..b /\ s[i] = t[j - a]
        BY <2>4, <3>1, <3>4
      <4> QED
        BY <2>3, <4>1
    <3>5. CASE i > a /\ j <= a
      <4>1. j \in 1..a /\ i - a \in 1..b /\ s[j] = t[i - a]
        BY <2>4, <3>1, <3>5
      <4> QED
        BY <2>3, <4>1
    <3> QED
      BY <1>1, <3>2, <3>3, <3>4, <3>5
  <2> QED
    BY <1>1, <2>4 DEF Distinct
<1> QED
  BY <1>1, <1>2, <1>5, <1>6 DEF w, a, b

LEMMA SplitDistinct ==
    ASSUME NEW S, NEW u \in Seq(S), NEW n \in 0..Len(u)
    PROVE  /\ SubSeq(u, 1, n) \in Seq(S) /\ SubSeq(u, n + 1, Len(u)) \in Seq(S)
           /\ Len(SubSeq(u, 1, n)) = n
           /\ Range(u) = Range(SubSeq(u, 1, n)) \cup Range(SubSeq(u, n + 1, Len(u)))
           /\ Distinct(u) => /\ Distinct(SubSeq(u, 1, n)) /\ Distinct(SubSeq(u, n + 1, Len(u)))
                             /\ Range(SubSeq(u, 1, n)) \cap Range(SubSeq(u, n + 1, Len(u))) = {}
<1> DEFINE a == SubSeq(u, 1, n)
           b == SubSeq(u, n + 1, Len(u))
<1>1. a \in Seq(S) /\ b \in Seq(S) /\ Len(a) = n
  OBVIOUS
<1>2. a \o b = u
  <2>1. 1 \in 1..(Len(u) + 1) /\ n \in (1 - 1)..Len(u) /\ Len(u) \in n..Len(u)
    OBVIOUS
  <2>2. a \o b = SubSeq(u, 1, Len(u))
    BY <2>1, ConcatAdjacentSubSeq
  <2> QED
    BY <2>2, SubSeqFull
<1> HIDE DEF a, b
<1>3. Distinct(a \o b) <=> Distinct(a) /\ Distinct(b) /\ Range(a) \cap Range(b) = {}
  BY <1>1, ConcatDistinct
<1>4. Range(a \o b) = Range(a) \cup Range(b)
  BY <1>1, ConcatDistinct
<1> QED
  BY <1>1, <1>2, <1>3, <1>4 DEF a, b

LEMMA CycleIs ==
    ASSUME NEW c
    PROVE  c \in Cycle <=> /\ DOMAIN c \in SUBSET Ids /\ c \in [DOMAIN c -> Values]
BY DEF Cycle

LEMMA KeysIs ==
    ASSUME NEW c \in Cycle
    PROVE  Keys(c) \in Seq(Ids) /\ Range(Keys(c)) = DOMAIN c /\ Distinct(Keys(c))
<1> DEFINE D == DOMAIN c
           Upto(x) == {y \in D : y <= x}
           n == Cardinality(D)
           rank == [x \in D |-> Cardinality(Upto(x))]
           keys == [k \in 1..n |-> CHOOSE x \in D : Cardinality(Upto(x)) = k]
<1>1. D \in SUBSET Ids /\ Ids \in SUBSET Nat
  BY CycleIs, Sizes DEF Ids
<1>2. IsFiniteSet(D) /\ n \in Nat
  <2>1. IsFiniteSet(Ids)
    BY Sizes, FS_Interval DEF Ids
  <2>2. IsFiniteSet(D)
    BY <1>1, <2>1, FS_Subset
  <2> QED
    BY <2>2, FS_CardinalityType
<1>3. Keys(c) = keys
  BY DEF Keys
<1> HIDE DEF D
<1>4. ASSUME NEW x \in D PROVE IsFiniteSet(Upto(x)) /\ rank[x] \in 1..n
  <2>1. Upto(x) \in SUBSET D /\ x \in Upto(x)
    BY <1>1
  <2>2. IsFiniteSet(Upto(x)) /\ Cardinality(Upto(x)) <= n
    BY <1>2, <2>1, FS_Subset
  <2>3. Cardinality(Upto(x)) \in Nat /\ Cardinality(Upto(x)) # 0
    BY <2>1, <2>2, FS_CardinalityType, FS_EmptySet
  <2>4. rank[x] = Cardinality(Upto(x))
    OBVIOUS
  <2> QED
    BY <1>2, <2>2, <2>3, <2>4
<1>5. ASSUME NEW x \in D, NEW y \in D, rank[x] = rank[y] PROVE x = y
  <2>1. ASSUME NEW u \in D, NEW v \in D, u < v, rank[u] = rank[v] PROVE FALSE
    <3>1. Upto(u) \in SUBSET Upto(v) /\ v \in Upto(v) /\ v \notin Upto(u)
      <4>1. \A z \in D : z \in Nat
        BY <1>1
      <4>2. \A z \in D : z <= u => z <= v
        BY <2>1, <4>1
      <4>3. v <= v /\ ~(v <= u)
        BY <2>1, <4>1
      <4> QED
        BY <4>2, <4>3
    <3>2. Cardinality(Upto(v)) = Cardinality(Upto(u))
      BY <2>1
    <3>3. Upto(v) = Upto(u)
      BY <1>4, <3>1, <3>2, FS_Subset
    <3> QED
      BY <3>1, <3>3
  <2>2. x \in Nat /\ y \in Nat
    BY <1>1
  <2> HIDE DEF rank
  <2> QED
    BY <1>5, <2>1, <2>2
<1>6. \A k \in 1..n : \E x \in D : rank[x] = k
  <2>1. rank \in Injection(D, 1..n)
    <3>1. rank \in [D -> 1..n]
      BY <1>4
    <3> HIDE DEF rank
    <3> QED
      BY <1>5, <3>1 DEF Injection, IsInjective
  <2>2. IsFiniteSet(1..n) /\ Cardinality(1..n) = n
    BY <1>2, FS_Interval
  <2> HIDE DEF rank
  <2>3. rank \in Surjection(D, 1..n)
    <3> HIDE DEF n
    <3>1. Cardinality(D) = Cardinality(1..n) <=> rank \in Surjection(D, 1..n)
      BY <2>1, <2>2, FS_Injection
    <3> QED
      BY <2>2, <3>1 DEF n
  <2> QED
    BY <2>3 DEF Surjection
<1>7. ASSUME NEW k \in 1..n PROVE keys[k] \in D /\ rank[keys[k]] = k
  <2>1. PICK x \in D : rank[x] = k
    BY <1>6
  <2>2. Cardinality(Upto(x)) = k
    BY <2>1
  <2>3. keys[k] \in D /\ Cardinality(Upto(keys[k])) = k
    <3>1. keys[k] = CHOOSE z \in D : Cardinality(Upto(z)) = k
      OBVIOUS
    <3> QED
      BY <2>2, <3>1
  <2> QED
    BY <2>3
<1>8. keys \in Seq(Ids) /\ Len(keys) = n /\ DOMAIN keys = 1..n
  <2>1. keys \in [1..n -> Ids]
    <3>1. \A k \in 1..n : keys[k] \in Ids
      BY <1>1, <1>7
    <3> HIDE DEF Upto
    <3> QED
      BY <3>1, Zenon
  <2> HIDE DEF keys
  <2> QED
    BY <1>2, <2>1
<1> HIDE DEF keys, rank, n
<1>9. Distinct(keys)
  BY <1>7, <1>8 DEF Distinct
<1>10. Range(keys) = D
  <2>1. ASSUME NEW x \in D PROVE x \in Range(keys)
    <3>1. rank[x] \in 1..n /\ keys[rank[x]] \in D /\ rank[keys[rank[x]]] = rank[x]
      BY <1>4, <1>7
    <3>2. keys[rank[x]] = x
      BY <1>5, <3>1
    <3> QED
      BY <1>8, <3>1, <3>2 DEF Range
  <2> QED
    BY <1>7, <1>8, <2>1 DEF Range
<1> QED
  BY <1>3, <1>8, <1>9, <1>10 DEF D

-----------------------------------------------------------------------------
(* Cycles and lists of cycles.                                             *)

LEMMA CycleFacts ==
    ASSUME NEW c \in Cycle
    PROVE  /\ DOMAIN c \in SUBSET Ids
           /\ \A x \in DOMAIN c : c[x] \in Values
BY CycleIs

LEMMA IsCycleOf ==
    ASSUME NEW ids \in SUBSET Ids, NEW c \in [ids -> Values]
    PROVE  c \in Cycle /\ DOMAIN c = ids
BY CycleIs

LEMMA InsertAllIs ==
    ASSUME NEW c \in Cycle, NEW b \in Cycle
    PROVE  /\ InsertAll(c, b) \in Cycle
           /\ DOMAIN InsertAll(c, b) = DOMAIN c \cup DOMAIN b
           /\ \A x \in DOMAIN c \cup DOMAIN b :
                 InsertAll(c, b)[x] = IF x \in DOMAIN b THEN b[x] ELSE c[x]
<1>1. DOMAIN c \cup DOMAIN b \in SUBSET Ids
  BY CycleFacts
<1>2. InsertAll(c, b) \in [DOMAIN c \cup DOMAIN b -> Values]
  BY CycleFacts DEF InsertAll
<1> QED
  BY <1>1, <1>2, IsCycleOf DEF InsertAll

LEMMA EmptyValues ==
    ASSUME NEW ids \in SUBSET Ids
    PROVE  /\ [id \in ids |-> None] \in Cycle /\ DOMAIN [id \in ids |-> None] = ids
           /\ \A x \in ids : [id \in ids |-> None][x] = None
<1>1. [id \in ids |-> None] \in [ids -> Values]
  BY DEF Values
<1> QED
  BY <1>1, IsCycleOf

LEMMA InHeld ==
    ASSUME NEW list, NEW x
    PROVE  x \in Held(list) <=> \E n \in 1..P : x \in DOMAIN list[n]
BY DEF Held

LEMMA ListFacts ==
    ASSUME NEW list \in CycleList
    PROVE  /\ DOMAIN list = 1..P /\ list \in Seq(Cycle) /\ Len(list) = P /\ list # <<>>
           /\ \A n \in 1..P : list[n] \in Cycle /\ DOMAIN list[n] \in SUBSET Ids
           /\ Held(list) \in SUBSET Ids
           /\ Head(list) = list[1]
<1>1. P \in Nat \ {0} /\ DOMAIN list = 1..P /\ \A n \in 1..P : list[n] \in Cycle
  BY Sizes DEF CycleList
<1>2. list \in Seq(Cycle) /\ Len(list) = P /\ list # <<>> /\ Head(list) = list[1]
  BY <1>1 DEF CycleList
<1>3. \A n \in 1..P : DOMAIN list[n] \in SUBSET Ids
  BY <1>1, CycleFacts
<1> QED
  BY <1>1, <1>2, <1>3 DEF Held

LEMMA RollIs ==
    ASSUME NEW list \in CycleList, NEW c \in Cycle
    PROVE  /\ Append(Tail(list), c) \in CycleList
           /\ Append(Tail(list), c)[P] = c
           /\ \A n \in 1..(P - 1) : n + 1 \in 1..P /\ Append(Tail(list), c)[n] = list[n + 1]
<1> DEFINE r == Append(Tail(list), c)
<1>1. P \in Nat \ {0} /\ list \in Seq(Cycle) /\ Len(list) = P /\ list # <<>>
  BY Sizes, ListFacts
<1>2. Tail(list) \in Seq(Cycle) /\ Len(Tail(list)) = P - 1 /\ \A i \in 1..(P - 1) : Tail(list)[i] = list[i + 1]
  BY <1>1, HeadTailProperties
<1>3. r \in Seq(Cycle) /\ Len(r) = P /\ r[P] = c
  BY <1>1, <1>2, AppendProperties
<1>4. \A n \in 1..(P - 1) : n + 1 \in 1..P /\ r[n] = list[n + 1]
  BY <1>1, <1>2, AppendProperties
<1>5. r \in CycleList
  <2> HIDE DEF r
  <2> QED
    BY <1>3 DEF CycleList
<1> QED
  BY <1>3, <1>4, <1>5

\* A new last cycle with new ids, and without the ids of the first.
LEMMA RollUnique ==
    ASSUME NEW list \in CycleList, NEW c \in Cycle, Unique(list), Held(list) \cap DOMAIN c = {}
    PROVE  /\ Unique(Append(Tail(list), c))
           /\ \A x : x \in Held(Append(Tail(list), c)) <=>
                 x \in DOMAIN c \/ (x \in Held(list) /\ x \notin DOMAIN list[1])
<1> DEFINE r == Append(Tail(list), c)
<1>1. P \in Nat \ {0} /\ r[P] = c /\ \A n \in 1..(P - 1) : n + 1 \in 1..P /\ r[n] = list[n + 1]
  BY Sizes, RollIs
<1> HIDE DEF r
<1>2. \A i, j \in 1..P : i # j => DOMAIN list[i] \cap DOMAIN list[j] = {}
  BY DEF Unique
<1>3. \A n \in 1..P : DOMAIN list[n] \cap DOMAIN c = {}
  BY InHeld
<1>4. ASSUME NEW i \in 1..P, NEW j \in 1..P, i # j PROVE DOMAIN r[i] \cap DOMAIN r[j] = {}
  <2>1. CASE i = P
    <3>1. j \in 1..(P - 1)
      BY <1>1, <1>4, <2>1
    <3> QED
      BY <1>1, <1>3, <2>1, <3>1
  <2>2. CASE j = P
    <3>1. i \in 1..(P - 1)
      BY <1>1, <1>4, <2>2
    <3> QED
      BY <1>1, <1>3, <2>2, <3>1
  <2>3. CASE i # P /\ j # P
    <3>1. i \in 1..(P - 1) /\ j \in 1..(P - 1) /\ i + 1 # j + 1
      BY <1>1, <1>4, <2>3
    <3> QED
      BY <1>1, <1>2, <3>1
  <2> QED
    BY <2>1, <2>2, <2>3
<1>5. ASSUME NEW x, x \in Held(r) PROVE x \in DOMAIN c \/ (x \in Held(list) /\ x \notin DOMAIN list[1])
  <2>1. PICK n \in 1..P : x \in DOMAIN r[n]
    BY <1>5, InHeld
  <2>2. CASE n = P
    BY <1>1, <2>1, <2>2
  <2>3. CASE n # P
    <3>1. n \in 1..(P - 1) /\ n + 1 \in 1..P /\ n + 1 # 1 /\ 1 \in 1..P
      BY <1>1, <2>3
    <3>2. x \in DOMAIN list[n + 1]
      BY <1>1, <2>1, <3>1
    <3> QED
      BY <1>2, <3>1, <3>2, InHeld
  <2> QED
    BY <2>2, <2>3
<1>6. ASSUME NEW x, x \in DOMAIN c PROVE x \in Held(r)
  <2>1. P \in 1..P
    BY <1>1
  <2> QED
    BY <1>1, <1>6, <2>1, InHeld
<1>7. ASSUME NEW x, x \in Held(list), x \notin DOMAIN list[1] PROVE x \in Held(r)
  <2>1. PICK n \in 1..P : x \in DOMAIN list[n]
    BY <1>7, InHeld
  <2>2. n - 1 \in 1..(P - 1) /\ (n - 1) + 1 = n /\ n - 1 \in 1..P
    BY <1>1, <1>7, <2>1
  <2>3. x \in DOMAIN r[n - 1]
    <3>1. r[n - 1] = list[(n - 1) + 1]
      BY <1>1, <2>2
    <3> QED
      BY <2>1, <2>2, <3>1
  <2> QED
    BY <2>2, <2>3, InHeld
<1> QED
  BY <1>4, <1>5, <1>6, <1>7 DEF Unique, r

-----------------------------------------------------------------------------
(* What mark_reused visits and moves.                                      *)

LEMMA NoneIsNoSet ==
    \A v \in Values : v # None <=> v \in SUBSET Ids
BY NoneAssumption DEF Values

LEMMA ItemIs ==
    ASSUME NEW list \in CycleList, NEW x, Earlier(list, x) # {}
    PROVE  /\ Item(list, x) \in SUBSET Ids /\ x \in Ids /\ Item(list, x) # None
           /\ \E n \in 1..(P - 1) : x \in DOMAIN list[n] /\ list[n][x] = Item(list, x)
<1> DEFINE E == Earlier(list, x)
<1>1. E \in SUBSET (0..(P - 1)) /\ \A n \in E : n \in 1..(P - 1) /\ n \in 1..P
  BY Sizes DEF Earlier, P
<1>2. \A n \in E : x \in DOMAIN list[n] /\ list[n][x] # None
  BY DEF Earlier
<1>3. Item(list, x) = list[Max(E)][x]
  BY DEF Item
<1>4. E # {} /\ P - 1 \in Nat
  BY Sizes
<1> HIDE DEF E
<1>5. Max(E) \in E
  BY <1>1, <1>4, MaxIs
<1> DEFINE n == Max(E)
<1> HIDE DEF n
<1>6. n \in 1..(P - 1) /\ n \in 1..P /\ x \in DOMAIN list[n] /\ list[n][x] # None /\ Item(list, x) = list[n][x]
  BY <1>1, <1>2, <1>3, <1>5 DEF n
<1>7. list[n][x] \in Values /\ x \in Ids
  BY <1>6, ListFacts, CycleFacts
<1> QED
  BY <1>6, <1>7, NoneIsNoSet

\* Where an id is, it is found.
LEMMA EarlierIs ==
    ASSUME NEW list \in CycleList, Unique(list), NEW x, NEW n \in 1..(P - 1), x \in DOMAIN list[n]
    PROVE  /\ list[n][x] # None => Earlier(list, x) = {n} /\ Item(list, x) = list[n][x]
           /\ list[n][x] = None => Earlier(list, x) = {}
<1>1. \A i \in Earlier(list, x) : i \in 1..(P - 1) /\ x \in DOMAIN list[i] /\ list[i][x] # None
  BY DEF Earlier, P
<1>2. \A i \in 1..(P - 1) : i \in 1..P
  BY Sizes
<1>3. \A i \in Earlier(list, x) : i = n
  BY <1>1, <1>2 DEF Unique
<1>4. ASSUME list[n][x] # None PROVE Earlier(list, x) = {n} /\ Item(list, x) = list[n][x]
  <2>1. n \in Earlier(list, x)
    BY <1>4 DEF Earlier, P
  <2>2. Earlier(list, x) = {n}
    BY <1>3, <2>1
  <2>3. Max({n}) = n
    <3>1. n >= n
      BY Sizes
    <3> QED
      BY <3>1 DEF Max
  <2> QED
    BY <2>2, <2>3 DEF Item
<1> QED
  BY <1>1, <1>3, <1>4

\* One round of mark_reused.
Round(list, ids) == ids \cup UNION {Item(list, id) : id \in {i \in ids : Earlier(list, i) # {}}}

LEMMA RoundIs ==
    ASSUME NEW list \in CycleList, NEW ids \in SUBSET Ids
    PROVE  /\ Round(list, ids) \in SUBSET Ids
           /\ \A x : x \in Round(list, ids) <=>
                 x \in ids \/ \E i \in ids : Earlier(list, i) # {} /\ x \in Item(list, i)
<1>1. \A x : x \in Round(list, ids) <=>
          x \in ids \/ \E i \in ids : Earlier(list, i) # {} /\ x \in Item(list, i)
  BY DEF Round
<1>2. \A i : Earlier(list, i) # {} => Item(list, i) \in SUBSET Ids
  BY ItemIs
<1> QED
  BY <1>1, <1>2

Rounds(list, reused, f) ==
    /\ f \in [0..MaxId -> SUBSET Ids] /\ f[0] = reused
    /\ \A n \in 1..MaxId : f[n] = Round(list, f[n - 1])

LEMMA VisitedIs ==
    ASSUME NEW list \in CycleList, NEW reused \in SUBSET Ids
    PROVE  \E f : Rounds(list, reused, f) /\ Visited(list, reused) = f[MaxId]
<1> DEFINE N == MaxId
           V == SUBSET Ids
           visited[n \in 0..MaxId] ==
               IF n = 0 THEN reused
               ELSE LET ids == visited[n - 1]
                    IN  ids \cup UNION {Item(list, id) : id \in {i \in ids : Earlier(list, i) # {}}}
           Good(h) == h = [n \in 0..N |-> IF n = 0 THEN reused ELSE Round(list, h[n - 1])]
           step == [ids \in V |-> Round(list, ids)]
<1>1. N \in Nat
  BY Sizes
<1>2. Visited(list, reused) = visited[N]
  BY DEF Visited
<1>3. visited = CHOOSE h : Good(h)
  BY DEF visited, Round
<1>4. step \in [V -> V]
  BY RoundIs
<1> HIDE DEF N, V, visited
<1>5. \A ids \in V : step[ids] = Round(list, ids)
  OBVIOUS
<1> HIDE DEF step
<1>6. PICK h : Follows(h, N, V, reused, step)
  <2>1. reused \in V
    BY DEF V
  <2> QED
    BY <1>1, <1>4, <2>1, Recursion
<1>7. h \in [0..N -> V] /\ h[0] = reused /\ \A n \in 1..N : h[n] = Round(list, h[n - 1])
  <2>1. h \in [0..N -> V] /\ h[0] = reused /\ \A n \in 1..N : h[n] = step[h[n - 1]]
    BY <1>6 DEF Follows
  <2>2. ASSUME NEW n \in 1..N PROVE h[n - 1] \in V
    BY <1>1, <2>1
  <2> QED
    BY <1>5, <2>1, <2>2
<1>8. Good(h)
  <2> DEFINE w == [n \in 0..N |-> IF n = 0 THEN reused ELSE Round(list, h[n - 1])]
  <2>1. \A n \in 0..N : h[n] = w[n]
    BY <1>1, <1>7
  <2>2. h = [n \in 0..N |-> h[n]] /\ w = [n \in 0..N |-> w[n]]
    BY <1>7
  <2> HIDE DEF w
  <2>3. h = w
    BY <2>1, <2>2
  <2> QED
    BY <2>3 DEF w
<1>9. Good(visited)
  BY <1>3, <1>8
<1>10. DOMAIN visited = 0..N /\ \A n \in 0..N : visited[n] = IF n = 0 THEN reused ELSE Round(list, visited[n - 1])
  BY <1>9
<1>11. visited[0] = reused /\ \A n \in 1..N : visited[n] = Round(list, visited[n - 1])
  BY <1>1, <1>10
<1> DEFINE T == {n \in Nat : n <= N => visited[n] = h[n]}
<1>12. 0..N \subseteq T
  <2>1. T \in SUBSET Nat /\ 0 \in T
    BY <1>7, <1>11
  <2>2. ASSUME NEW n \in T, n < N PROVE n + 1 \in T
    <3>1. n + 1 \in 1..N /\ (n + 1) - 1 = n /\ n \in Nat
      BY <1>1, <2>2
    <3>2. visited[n] = h[n]
      BY <1>1, <2>2, <3>1
    <3>3. visited[n + 1] = Round(list, visited[n]) /\ h[n + 1] = Round(list, h[n])
      BY <1>7, <1>11, <3>1
    <3> QED
      BY <3>1, <3>2, <3>3
  <2> HIDE DEF T
  <2> QED
    BY <1>1, <2>1, <2>2, InductionUpTo
<1>13. visited[N] = h[N]
  BY <1>1, <1>12
<1>14. Rounds(list, reused, h)
  BY <1>7 DEF Rounds, N, V
<1> QED
  BY <1>2, <1>13, <1>14 DEF N

LEMMA VisitedType ==
    ASSUME NEW list \in CycleList, NEW reused \in SUBSET Ids
    PROVE  Visited(list, reused) \in SUBSET Ids
<1>1. PICK f : Rounds(list, reused, f) /\ Visited(list, reused) = f[MaxId]
  BY VisitedIs
<1> QED
  BY <1>1, Sizes DEF Rounds

LEMMA MoveIs ==
    ASSUME NEW list \in CycleList, NEW ids \in SUBSET Ids
    PROVE  LET m == MoveToLastCycle(list, ids)
               moved == {x \in ids : Earlier(list, x) # {}}
           IN  /\ m \in CycleList
               /\ \A n \in 1..(P - 1) : /\ DOMAIN m[n] = DOMAIN list[n] \ ids
                                        /\ \A x \in DOMAIN m[n] : m[n][x] = list[n][x]
               /\ DOMAIN m[P] = DOMAIN list[P] \cup moved
               /\ \A x \in moved : m[P][x] = Item(list, x)
               /\ \A x \in DOMAIN list[P] : x \notin moved => m[P][x] = list[P][x]
<1> DEFINE m == MoveToLastCycle(list, ids)
           moved == {x \in ids : Earlier(list, x) # {}}
           items == [x \in moved |-> Item(list, x)]
           last == InsertAll(list[P], items)
           Rest(n) == Restrict(list[n], DOMAIN list[n] \ ids)
<1>1. P \in Nat \ {0} /\ DOMAIN list = 1..P
  BY Sizes, ListFacts
<1>2. m = [n \in 1..P |-> IF n < P THEN Rest(n) ELSE last]
  BY <1>1 DEF MoveToLastCycle, P
<1>3. items \in Cycle /\ DOMAIN items = moved /\ \A x \in moved : items[x] = Item(list, x)
  <2>1. moved \in SUBSET Ids /\ \A x \in moved : Item(list, x) \in Values
    BY ItemIs DEF Values
  <2>2. items \in [moved -> Values]
    BY <2>1
  <2> QED
    BY <2>1, <2>2, IsCycleOf
<1>4. list[P] \in Cycle
  BY <1>1, ListFacts
<1>5. last \in Cycle /\ DOMAIN last = DOMAIN list[P] \cup moved
      /\ \A x \in DOMAIN list[P] \cup moved : last[x] = IF x \in moved THEN items[x] ELSE list[P][x]
  <2> DEFINE c == list[P]
  <2> HIDE DEF items, moved, c
  <2>1. c \in Cycle
    BY <1>4 DEF c
  <2>2. InsertAll(c, items) \in Cycle /\ DOMAIN InsertAll(c, items) = DOMAIN c \cup DOMAIN items
        /\ \A x \in DOMAIN c \cup DOMAIN items :
              InsertAll(c, items)[x] = IF x \in DOMAIN items THEN items[x] ELSE c[x]
    BY <1>3, <2>1, InsertAllIs
  <2> QED
    BY <1>3, <2>2 DEF c
<1>6. ASSUME NEW n \in 1..(P - 1)
      PROVE  /\ Rest(n) \in Cycle /\ DOMAIN Rest(n) = DOMAIN list[n] \ ids
             /\ \A x \in DOMAIN Rest(n) : Rest(n)[x] = list[n][x]
  <2>1. n \in 1..P
    BY <1>1
  <2>2. list[n] \in Cycle
    BY <2>1, ListFacts
  <2>3. DOMAIN list[n] \ ids \in SUBSET Ids /\ \A x \in DOMAIN list[n] \ ids : list[n][x] \in Values
    BY <2>2, CycleFacts
  <2>4. Rest(n) \in [DOMAIN list[n] \ ids -> Values]
    BY <2>3 DEF Restrict
  <2> QED
    BY <2>3, <2>4, IsCycleOf DEF Restrict
<1> HIDE DEF last, Rest, items, moved, m
<1>7. m[P] = last /\ \A n \in 1..(P - 1) : m[n] = Rest(n)
  BY <1>1, <1>2
<1>8. m \in CycleList
  <2>1. ASSUME NEW n \in 1..P PROVE (IF n < P THEN Rest(n) ELSE last) \in Cycle
    <3>1. n < P => n \in 1..(P - 1)
      BY <1>1
    <3> QED
      BY <1>5, <1>6, <3>1
  <2> QED
    BY <1>2, <2>1 DEF CycleList
<1>9. \A n \in 1..(P - 1) : /\ DOMAIN m[n] = DOMAIN list[n] \ ids
                            /\ \A x \in DOMAIN m[n] : m[n][x] = list[n][x]
  BY <1>6, <1>7
<1>10. DOMAIN m[P] = DOMAIN list[P] \cup moved
  BY <1>5, <1>7
<1>11. \A x \in moved : m[P][x] = Item(list, x)
  BY <1>3, <1>5, <1>7
<1>12. \A x \in DOMAIN list[P] : x \notin moved => m[P][x] = list[P][x]
  BY <1>5, <1>7
<1> QED
  BY <1>8, <1>9, <1>10, <1>11, <1>12 DEF m, moved

\* An id stays where it is or goes to the last cycle.
LEMMA MoveUnique ==
    ASSUME NEW list \in CycleList, NEW ids \in SUBSET Ids, Unique(list)
    PROVE  /\ Unique(MoveToLastCycle(list, ids))
           /\ Held(MoveToLastCycle(list, ids)) \subseteq Held(list)
           /\ NoLoss(list, ids) => Held(MoveToLastCycle(list, ids)) = Held(list)
<1> DEFINE m == MoveToLastCycle(list, ids)
           moved == {x \in ids : Earlier(list, x) # {}}
<1>1. /\ \A n \in 1..(P - 1) : DOMAIN m[n] = DOMAIN list[n] \ ids
      /\ DOMAIN m[P] = DOMAIN list[P] \cup moved
  BY MoveIs
<1>2. P \in Nat \ {0} /\ \A n \in 1..P : n = P \/ n \in 1..(P - 1)
  BY Sizes
<1>3. \A x \in moved : x \in ids /\ \E n \in 1..(P - 1) : x \in DOMAIN list[n]
  BY ItemIs
<1>4. \A n \in 1..(P - 1) : n \in 1..P /\ n # P
  BY <1>2
<1>5. ASSUME NEW x, NEW n \in 1..(P - 1), x \in DOMAIN list[n], list[n][x] # None, x \in ids PROVE x \in moved
  BY <1>5, EarlierIs
<1> HIDE DEF m, moved
<1>6. \A i, j \in 1..P : i # j => DOMAIN list[i] \cap DOMAIN list[j] = {}
  BY DEF Unique
<1>7. ASSUME NEW i \in 1..(P - 1), NEW j \in 1..P, i # j PROVE DOMAIN m[i] \cap DOMAIN m[j] = {}
  <2>1. CASE j = P
    BY <1>1, <1>3, <1>4, <1>6, <1>7, <2>1
  <2>2. CASE j \in 1..(P - 1)
    BY <1>1, <1>4, <1>6, <1>7, <2>2
  <2> QED
    BY <1>2, <2>1, <2>2
<1>8. Unique(m)
  <2> SUFFICES ASSUME NEW i \in 1..P, NEW j \in 1..P, i # j PROVE DOMAIN m[i] \cap DOMAIN m[j] = {}
    BY DEF Unique
  <2>1. i \in 1..(P - 1) \/ j \in 1..(P - 1)
    BY <1>2
  <2> QED
    BY <1>7, <2>1
<1>9. ASSUME NEW x, x \in Held(m) PROVE x \in Held(list)
  <2>1. PICK n \in 1..P : x \in DOMAIN m[n]
    BY <1>9, InHeld
  <2> QED
    BY <1>1, <1>2, <1>3, <1>4, <2>1, InHeld
<1>10. ASSUME NoLoss(list, ids), NEW x, x \in Held(list) PROVE x \in Held(m)
  <2>1. PICK n \in 1..P : x \in DOMAIN list[n]
    BY <1>10, InHeld
  <2>2. CASE n = P
    BY <1>1, <2>1, <2>2, InHeld
  <2>3. CASE n \in 1..(P - 1) /\ x \notin ids
    BY <1>1, <2>1, <2>3, InHeld
  <2>4. CASE n \in 1..(P - 1) /\ x \in ids
    <3>1. x \in moved
      BY <1>5, <1>10, <2>1, <2>4 DEF NoLoss
    <3>2. P \in 1..P
      BY <1>2
    <3> QED
      BY <1>1, <3>1, <3>2, InHeld
  <2> QED
    BY <1>2, <2>2, <2>3, <2>4
<1> QED
  BY <1>8, <1>9, <1>10 DEF m

-----------------------------------------------------------------------------
(* The released ids: in the queue, on their way to it, or pending.         *)

Rel(free, waiting, out) == free \o (IF out = <<>> THEN waiting ELSE out[1] \o out[2])

LEMMA ReleasedIs ==
    /\ Released = Rel(free_ids, pending, sending)
    /\ Released' = Rel(free_ids', pending', sending')
BY DEF Released, Rel

LEMMA RelIdle ==
    ASSUME NEW f \in Seq(Ids), NEW p \in Seq(Ids)
    PROVE  /\ Rel(f, p, <<>>) \in Seq(Ids)
           /\ Range(Rel(f, p, <<>>)) = Range(f) \cup Range(p)
           /\ Distinct(Rel(f, p, <<>>)) <=> Distinct(f) /\ Distinct(p) /\ Range(f) \cap Range(p) = {}
<1>1. Rel(f, p, <<>>) = f \o p
  BY DEF Rel
<1>2. /\ f \o p \in Seq(Ids) /\ Range(f \o p) = Range(f) \cup Range(p)
      /\ Distinct(f \o p) <=> Distinct(f) /\ Distinct(p) /\ Range(f) \cap Range(p) = {}
  BY ConcatDistinct
<1> QED
  BY <1>1, <1>2

AllApart(f, a, b) ==
    /\ Distinct(f) /\ Distinct(a) /\ Distinct(b)
    /\ Range(f) \cap Range(a) = {} /\ Range(f) \cap Range(b) = {} /\ Range(a) \cap Range(b) = {}

LEMMA RelBusy ==
    ASSUME NEW f \in Seq(Ids), NEW p, NEW a \in Seq(Ids), NEW b \in Seq(Ids)
    PROVE  /\ Rel(f, p, <<a, b>>) \in Seq(Ids)
           /\ Range(Rel(f, p, <<a, b>>)) = Range(f) \cup Range(a) \cup Range(b)
           /\ Distinct(Rel(f, p, <<a, b>>)) <=> AllApart(f, a, b)
<1> USE DEF AllApart
<1> DEFINE w == a \o b
<1>1. Rel(f, p, <<a, b>>) = f \o w
  BY DEF Rel
<1>2. /\ w \in Seq(Ids) /\ Range(w) = Range(a) \cup Range(b)
      /\ Distinct(w) <=> Distinct(a) /\ Distinct(b) /\ Range(a) \cap Range(b) = {}
  BY ConcatDistinct
<1> HIDE DEF w
<1>3. /\ f \o w \in Seq(Ids) /\ Range(f \o w) = Range(f) \cup Range(w)
      /\ Distinct(f \o w) <=> Distinct(f) /\ Distinct(w) /\ Range(f) \cap Range(w) = {}
  BY <1>2, ConcatDistinct
<1>4. Range(f) \cap Range(w) = {} <=> Range(f) \cap Range(a) = {} /\ Range(f) \cap Range(b) = {}
  BY <1>2
<1> QED
  BY <1>1, <1>2, <1>3, <1>4

\* What send_unused does with the ids of a cycle.
LEMMA SendUnusedIs ==
    ASSUME CollectorTypes, sending = <<>>, NEW u \in Seq(Ids), SendUnused(u),
           Distinct(Released), Distinct(u), Range(Released) \cap Range(u) = {},
           UNCHANGED <<free_ids, pending>>
    PROVE  /\ sending' \in Seq(Ids) \X Seq(Ids)
           /\ Len(free_ids') + Len(sending'[1]) <= QueueSize
           /\ Range(Released') = Range(Released) \cup Range(u)
           /\ Distinct(Released')
<1> DEFINE room == QueueSize - Len(free_ids)
           n == Min({room, Len(u)})
           a == SubSeq(u, 1, n)
           b == SubSeq(u, n + 1, Len(u))
           rest == pending \o b
<1>1. free_ids \in Seq(Ids) /\ pending \in Seq(Ids) /\ Len(free_ids) <= QueueSize
  BY DEF CollectorTypes
<1>2. room \in Nat /\ Len(u) \in Nat /\ Len(free_ids) \in Nat
  BY <1>1, Sizes
<1>3. sending' = <<a, rest>>
  BY DEF SendUnused, Send, Available
<1>4. n \in 0..Len(u) /\ n <= room
  <2> HIDE DEF room
  <2>1. n \in {room, Len(u)} /\ n <= room /\ n <= Len(u)
    BY <1>2, MinOfTwo
  <2> HIDE DEF n
  <2> QED
    BY <1>2, <2>1
<1> HIDE DEF n
<1>5. /\ a \in Seq(Ids) /\ b \in Seq(Ids) /\ Len(a) = n
      /\ Range(u) = Range(a) \cup Range(b)
      /\ Distinct(a) /\ Distinct(b) /\ Range(a) \cap Range(b) = {}
  BY <1>4, SplitDistinct
<1>6. Len(free_ids) + Len(a) <= QueueSize
  <2> HIDE DEF a
  <2> QED
    BY <1>2, <1>4, <1>5, Sizes DEF room
<1> HIDE DEF a, b
<1>7. /\ Range(Released) = Range(free_ids) \cup Range(pending)
      /\ Distinct(free_ids) /\ Distinct(pending) /\ Range(free_ids) \cap Range(pending) = {}
  BY <1>1, ReleasedIs, RelIdle
<1>8. /\ rest \in Seq(Ids) /\ Range(rest) = Range(pending) \cup Range(b) /\ Distinct(rest)
  <2>1. Range(pending) \cap Range(b) = {}
    BY <1>5, <1>7
  <2> QED
    BY <1>1, <1>5, <1>7, <2>1, ConcatDistinct
<1> HIDE DEF rest
<1>9. Released' = Rel(free_ids, pending, <<a, rest>>)
  BY <1>3, ReleasedIs
<1>10. Range(free_ids) \cap Range(a) = {} /\ Range(free_ids) \cap Range(rest) = {} /\ Range(a) \cap Range(rest) = {}
  BY <1>5, <1>7, <1>8
<1>11. Distinct(Released') /\ Range(Released') = Range(free_ids) \cup Range(a) \cup Range(rest)
  <2> DEFINE r == Rel(free_ids, pending, <<a, rest>>)
  <2>1. /\ Range(r) = Range(free_ids) \cup Range(a) \cup Range(rest)
        /\ AllApart(free_ids, a, rest) => Distinct(r)
    BY <1>1, <1>5, <1>8, RelBusy
  <2> HIDE DEF r
  <2>2. Released' = r
    BY <1>9 DEF r
  <2> QED
    BY <1>5, <1>7, <1>8, <1>10, <2>1, <2>2 DEF AllApart
<1>12. Range(Released') = Range(Released) \cup Range(u)
  BY <1>5, <1>7, <1>8, <1>11
<1>13. sending' \in Seq(Ids) \X Seq(Ids) /\ sending'[1] = a
  BY <1>3, <1>5, <1>8
<1> QED
  BY <1>6, <1>11, <1>12, <1>13

\* What send_pending does.
LEMMA SendPendingIs ==
    ASSUME CollectorTypes, sending = <<>>, SendPending, Distinct(Released),
           UNCHANGED <<free_ids, pending>>
    PROVE  /\ sending' = <<>> \/ (/\ sending' \in Seq(Ids) \X Seq(Ids)
                                  /\ Len(free_ids') + Len(sending'[1]) <= QueueSize)
           /\ Range(Released') = Range(Released) /\ Distinct(Released')
<1> DEFINE room == QueueSize - Len(free_ids)
           m == Min({room, Len(pending)})
           n == Len(pending) - m
           a == SubSeq(pending, n + 1, Len(pending))
           b == SubSeq(pending, 1, n)
<1>1. free_ids \in Seq(Ids) /\ pending \in Seq(Ids) /\ Len(free_ids) <= QueueSize
  BY DEF CollectorTypes
<1>2. room \in Nat /\ Len(pending) \in Nat /\ Len(free_ids) \in Nat
  BY <1>1, Sizes
<1>3. CASE sending' = sending
  BY <1>3, ReleasedIs
<1>4. CASE sending' = <<a, b>>
  <2>1. m \in Nat /\ m <= room /\ n \in 0..Len(pending) /\ n + m = Len(pending)
    <3> HIDE DEF room
    <3>1. m \in {room, Len(pending)} /\ m <= room /\ m <= Len(pending)
      BY <1>2, MinOfTwo
    <3> HIDE DEF m
    <3> QED
      BY <1>2, <3>1
  <2> HIDE DEF n, m
  <2>2. /\ a \in Seq(Ids) /\ b \in Seq(Ids) /\ Range(pending) = Range(a) \cup Range(b)
        /\ Distinct(pending) => Distinct(a) /\ Distinct(b) /\ Range(a) \cap Range(b) = {}
    BY <1>1, <2>1, SplitDistinct
  <2>3. Len(a) = m
    <3>1. Len(a) = IF n + 1 <= Len(pending) THEN Len(pending) - (n + 1) + 1 ELSE 0
      <4>1. \A i \in (n + 1)..Len(pending) : pending[i] \in Ids
        BY <1>1, <2>1
      <4> QED
        BY <1>2, <2>1, <4>1, SubSeqProperties
    <3> HIDE DEF a
    <3> QED
      BY <1>2, <2>1, <3>1
  <2>4. Len(free_ids) + Len(a) <= QueueSize
    <3> HIDE DEF a
    <3> QED
      BY <1>2, <2>1, <2>3, Sizes DEF room
  <2> HIDE DEF a, b
  <2>5. /\ Range(Released) = Range(free_ids) \cup Range(pending)
        /\ Distinct(free_ids) /\ Distinct(pending) /\ Range(free_ids) \cap Range(pending) = {}
    BY <1>1, ReleasedIs, RelIdle
  <2>6. Released' = Rel(free_ids, pending, <<a, b>>)
    BY <1>4, ReleasedIs
  <2>7. Range(free_ids) \cap Range(a) = {} /\ Range(free_ids) \cap Range(b) = {}
    BY <2>2, <2>5
  <2>8. Distinct(Released') /\ Range(Released') = Range(free_ids) \cup Range(a) \cup Range(b)
    <3> DEFINE r == Rel(free_ids, pending, <<a, b>>)
    <3>1. /\ Range(r) = Range(free_ids) \cup Range(a) \cup Range(b)
          /\ AllApart(free_ids, a, b) => Distinct(r)
      BY <1>1, <2>2, RelBusy
    <3> HIDE DEF r
    <3>2. Released' = r
      BY <2>6 DEF r
    <3> QED
      BY <2>2, <2>5, <2>7, <3>1, <3>2 DEF AllApart
  <2>9. Range(Released') = Range(Released)
    BY <2>2, <2>5, <2>8
  <2>10. sending' \in Seq(Ids) \X Seq(Ids) /\ sending'[1] = a
    BY <1>4, <2>2
  <2> QED
    BY <2>4, <2>8, <2>9, <2>10
<1> QED
  BY <1>3, <1>4 DEF SendPending, Send, Available

LEMMA PushSliceIs ==
    ASSUME CollectorTypes, PushSlice
    PROVE  /\ sending' = <<>> /\ free_ids' \in Seq(Ids) /\ pending' \in Seq(Ids)
           /\ Len(free_ids') <= QueueSize
           /\ Range(Released') = Range(Released)
           /\ Distinct(Released) => Distinct(Released')
<1> DEFINE a == sending[1]
           b == sending[2]
<1>1. /\ free_ids \in Seq(Ids) /\ a \in Seq(Ids) /\ b \in Seq(Ids) /\ sending = <<a, b>>
      /\ Len(free_ids) + Len(a) <= QueueSize
      /\ sending' = <<>> /\ free_ids' = free_ids \o a /\ pending' = b
  BY DEF CollectorTypes, PushSlice
<1> HIDE DEF a, b
<1>2. /\ free_ids' \in Seq(Ids) /\ Len(free_ids') = Len(free_ids) + Len(a)
      /\ Range(free_ids') = Range(free_ids) \cup Range(a)
      /\ Distinct(free_ids') <=> Distinct(free_ids) /\ Distinct(a) /\ Range(free_ids) \cap Range(a) = {}
  BY <1>1, ConcatDistinct
<1>3. /\ Range(Released) = Range(free_ids) \cup Range(a) \cup Range(b)
      /\ Distinct(Released) => /\ Distinct(free_ids) /\ Distinct(a) /\ Distinct(b)
                               /\ Range(free_ids) \cap Range(a) = {} /\ Range(free_ids) \cap Range(b) = {}
                               /\ Range(a) \cap Range(b) = {}
  <2> DEFINE r == Rel(free_ids, pending, <<a, b>>)
  <2>1. /\ Range(r) = Range(free_ids) \cup Range(a) \cup Range(b)
        /\ Distinct(r) => AllApart(free_ids, a, b)
    BY <1>1, RelBusy
  <2> HIDE DEF r
  <2>2. Released = r
    BY <1>1, ReleasedIs DEF r
  <2> QED
    BY <2>1, <2>2 DEF AllApart
<1>4. /\ Range(Released') = Range(free_ids') \cup Range(b)
      /\ Distinct(Released') <=> Distinct(free_ids') /\ Distinct(b) /\ Range(free_ids') \cap Range(b) = {}
  <2>1. PICK f : f = free_ids'
    OBVIOUS
  <2> DEFINE r == Rel(f, b, <<>>)
  <2>2. /\ Range(r) = Range(f) \cup Range(b)
        /\ Distinct(r) <=> Distinct(f) /\ Distinct(b) /\ Range(f) \cap Range(b) = {}
    BY <1>1, <1>2, <2>1, RelIdle
  <2>3. Released' = r
    BY <1>1, <2>1, ReleasedIs
  <2> HIDE DEF r
  <2> QED
    BY <2>1, <2>2, <2>3
<1>5. Range(Released') = Range(Released)
  BY <1>2, <1>3, <1>4
<1>6. Distinct(Released) => Distinct(Released')
  BY <1>2, <1>3, <1>4
<1> QED
  BY <1>1, <1>2, <1>5, <1>6

-----------------------------------------------------------------------------
(* No id has two owners: the steps of the main thread.                     *)

LEMMA ValueAtIs ==
    ASSUME NEW x
    PROVE  ValueAt(x) = Val(values, x) /\ ValueAt(x)' = Val(values', x)
BY DEF ValueAt, Val

LEMMA ValType ==
    ASSUME NEW vals \in Seq(Values), NEW x
    PROVE  Val(vals, x) \in Values
BY DEF Val, Values

Owners == <<hashes, values, new_ids, current_cycle, channel, free_ids, gc>>

LEMMA SameOwners ==
    ASSUME Ownership, UNCHANGED <<Owners, context_hashes, started>>,
           prepared' \in Seq(Ids) /\ Len(prepared') <= 2,
           pc' \in Pcs, ContextOK'
    PROVE  Ownership'
<1>1. Released' = Released
  BY DEF Owners, gc, Released
<1>2. MainTypes'
  BY DEF Ownership, MainTypes, Owners
<1>3. CollectorTypes'
  BY DEF Ownership, CollectorTypes, Owners, gc
<1>4. Apart' /\ Counted'
  BY <1>1 DEF Ownership, Apart, Counted, Owners, gc
<1> QED
  BY <1>2, <1>3, <1>4 DEF Ownership

LEMMA NothingHashed ==
    ASSUME NEW context, \A l \in DOMAIN context : context[l].commited, NEW fresh, NEW vals
    PROVE  Hashing(context, fresh, vals, <<>>)
BY DEF Hashing

\* A context in which every node is a committed one, and the main thread at rest.
LEMMA AtRest ==
    ASSUME pc' = "idle", prepared' = <<>>, Shape(ctx'), \A l \in DOMAIN ctx' : ctx'[l].commited
    PROVE  ContextOK'
<1>1. Hashing(ctx', new_ids', values', <<>>)
  BY NothingHashed
<1> QED
  BY <1>1 DEF ContextOK, Shape

LEMMA OwnedNewContext ==
    ASSUME Ownership, NewContext
    PROVE  Ownership'
<1>1. ctx' = <<>> /\ pc = "idle" /\ UNCHANGED <<Owners, context_hashes, started, prepared, pc>>
  BY DEF NewContext, Owners
<1>2. Shape(<<>>) /\ prepared = <<>> /\ Hashing(<<>>, new_ids, values, <<>>)
  BY <1>1, Sizes DEF Shape, Hashing, Ownership, ContextOK
<1>3. ContextOK'
  BY <1>1, <1>2 DEF Ownership, ContextOK, Owners
<1> QED
  BY <1>1, <1>3, SameOwners DEF Ownership, MainTypes

LEMMA OwnedDropContext ==
    ASSUME Ownership, DropContext
    PROVE  Ownership'
<1>1. ctx' = None /\ pc = "idle" /\ UNCHANGED <<Owners, context_hashes, started, prepared, pc>>
  BY DEF DropContext, Owners
<1>2. ContextOK'
  BY <1>1 DEF Ownership, ContextOK, Operations
<1> QED
  BY <1>1, <1>2, SameOwners DEF Ownership, MainTypes

LEMMA OwnedPrepareCommit ==
    ASSUME Ownership, NEW op \in Operations, PrepareCommit(op)
    PROVE  Ownership'
<1>1. /\ ctx # None /\ pc = "idle" /\ pc' = op
      /\ UNCHANGED <<Owners, context_hashes, started, prepared, ctx>>
  BY DEF PrepareCommit, Owners
<1>2. Shape(ctx) /\ Hashing(ctx, new_ids, values, prepared)
  BY <1>1 DEF Ownership, ContextOK
<1>3. ContextOK'
  BY <1>1, <1>2 DEF ContextOK, Owners, Operations
<1>4. pc' \in Pcs
  BY <1>1 DEF Pcs
<1> QED
  BY <1>1, <1>3, <1>4, SameOwners DEF Ownership, MainTypes

LEMMA NodeIs ==
    ASSUME NEW id, NEW b
    PROVE  Node(id, b).id = id /\ Node(id, b).commited = b
BY DEF Node

LEMMA FreshIs == Fresh \in Nodes /\ Fresh.id = 0 /\ Fresh.commited = FALSE
BY Sizes DEF Fresh, Node, Nodes

\* A changed context: new nodes down to level n, and below them the old ones or nothing.
Changed(old, new, n) ==
    /\ new \in Seq(Nodes) /\ \A l \in DOMAIN new : l <= n => new[l] = Fresh
    /\ \/ Len(new) = n
       \/ Len(new) = Len(old) /\ \A l \in DOMAIN new : l > n => new[l] = old[l]

LEMMA ChangeIs ==
    ASSUME Shape(ctx), Change
    PROVE  \E n \in 0..Levels : Changed(ctx, ctx', n)
<1>1. PICK n \in 0..Levels : \E below \in {<<>>, SubSeq(ctx, n + 1, Len(ctx))} :
                ctx' = [l \in 1..n |-> Fresh] \o below
  BY DEF Change
<1>2. PICK below \in {<<>>, SubSeq(ctx, n + 1, Len(ctx))} : ctx' = [l \in 1..n |-> Fresh] \o below
  BY <1>1
<1> DEFINE top == [l \in 1..n |-> Fresh]
           k == Len(ctx)
<1>3. n \in Nat /\ k \in Nat /\ ctx \in Seq(Nodes)
  BY Sizes DEF Shape
<1>4. top \in Seq(Nodes) /\ Len(top) = n /\ \A l \in 1..n : top[l] = Fresh
  BY <1>3, FreshIs
<1>5. CASE below = <<>>
  <2>1. ctx' = top
    <3> HIDE DEF top
    <3> QED
      BY <1>2, <1>4, <1>5, ConcatEmptySeq
  <2> HIDE DEF top
  <2> QED
    BY <1>3, <1>4, <2>1 DEF Changed
<1>6. CASE below # <<>>
  <2>1. below = SubSeq(ctx, n + 1, k)
    BY <1>2, <1>6
  <2>2. /\ below \in Seq(Nodes) /\ Len(below) = (IF n + 1 <= k THEN k - (n + 1) + 1 ELSE 0)
        /\ \A i \in 1..(k - (n + 1) + 1) : below[i] = ctx[(n + 1) + i - 1]
    <3>1. \A i \in (n + 1)..k : ctx[i] \in Nodes
      BY <1>3
    <3>2. n + 1 \in Int /\ k \in Int
      BY <1>3
    <3> HIDE DEF k
    <3> QED
      BY <2>1, <3>1, <3>2, SubSeqProperties
  <2>3. n + 1 <= k
    BY <1>3, <1>6, <2>2
  <2>4. Len(below) = k - n /\ \A i \in 1..(k - n) : below[i] = ctx[n + i]
    <3>1. k - (n + 1) + 1 = k - n /\ \A i \in 1..(k - n) : (n + 1) + i - 1 = n + i
      BY <1>3, <2>3
    <3> HIDE DEF k
    <3> QED
      BY <2>2, <2>3, <3>1
  <2> HIDE DEF top, k
  <2>5. ctx' \in Seq(Nodes) /\ Len(ctx') = k
        /\ \A l \in 1..k : ctx'[l] = IF l <= n THEN top[l] ELSE below[l - n]
    <3>1. ctx' = top \o below
      BY <1>2 DEF top
    <3>2. /\ top \o below \in Seq(Nodes) /\ Len(top \o below) = Len(top) + Len(below)
          /\ \A i \in 1..(Len(top) + Len(below)) :
                (top \o below)[i] = IF i <= Len(top) THEN top[i] ELSE below[i - Len(top)]
      BY <1>4, <2>2, ConcatProperties
    <3>3. Len(top) = n /\ Len(top) + Len(below) = k
      BY <1>3, <1>4, <2>3, <2>4
    <3> QED
      BY <3>1, <3>2, <3>3
  <2>6. ASSUME NEW l \in 1..k, l > n PROVE ctx'[l] = ctx[l]
    <3>1. l - n \in 1..(k - n) /\ n + (l - n) = l
      BY <1>3, <2>3, <2>6
    <3>2. ctx'[l] = below[l - n]
      BY <1>3, <2>5, <2>6
    <3> QED
      BY <2>4, <3>1, <3>2
  <2>7. ASSUME NEW l \in 1..k, l <= n PROVE ctx'[l] = Fresh
    BY <1>3, <1>4, <2>5, <2>7
  <2>8. DOMAIN ctx' = 1..k
    BY <2>5
  <2> QED
    BY <2>5, <2>6, <2>7, <2>8 DEF Changed, k
<1> QED
  BY <1>5, <1>6

LEMMA OwnedChange ==
    ASSUME Ownership, Change
    PROVE  Ownership'
<1>1. ctx # None /\ pc = "idle" /\ UNCHANGED <<Owners, context_hashes, started, prepared, pc>>
  BY DEF Change, Owners
<1>2. prepared = <<>> /\ Shape(ctx) /\ Hashing(ctx, new_ids, values, prepared)
  BY <1>1 DEF Ownership, ContextOK
<1>3. PICK n \in 0..Levels : Changed(ctx, ctx', n)
  BY <1>2, ChangeIs
<1> DEFINE a == Len(ctx')
           b == Len(ctx)
<1>4. ctx' \in Seq(Nodes) /\ DOMAIN ctx' = 1..a /\ DOMAIN ctx = 1..b
  BY <1>2, <1>3 DEF Changed, Shape
<1>5. a \in Nat /\ b \in Nat /\ b <= Levels /\ n \in Nat /\ Levels \in Nat /\ n <= Levels
  BY <1>2, <1>3, Sizes DEF Changed, Shape
<1>6. /\ \A l \in 1..a : l <= n => ctx'[l] = Fresh
      /\ a = n \/ (a = b /\ \A l \in 1..a : l > n => ctx'[l] = ctx[l])
  BY <1>3, <1>4 DEF Changed
<1> HIDE DEF a, b
<1>7. a <= Levels
  BY <1>5, <1>6
<1>8. \A l \in 1..a : ctx'[l] = Fresh \/ (a = b /\ l > n /\ ctx'[l] = ctx[l])
  BY <1>5, <1>6
<1>9. ASSUME NEW l \in 1..a, NEW m \in 1..a, l < m, ~ctx'[m].commited
      PROVE  ~ctx'[l].commited
  <2>1. CASE ctx'[l] = Fresh
    BY <2>1, FreshIs
  <2>2. CASE a = b /\ l > n /\ ctx'[l] = ctx[l]
    <3>1. m > n /\ a # n
      BY <1>5, <1>9, <2>2
    <3>2. ctx'[m] = ctx[m] /\ l \in 1..b /\ m \in 1..b
      BY <1>6, <2>2, <3>1
    <3> QED
      BY <1>2, <1>4, <1>9, <2>2, <3>2 DEF Shape
  <2> QED
    BY <1>8, <2>1, <2>2
<1>10. \A l \in DOMAIN ctx' : ctx'[l].commited => ctx'[l].id # 0
  BY <1>2, <1>4, <1>8, FreshIs DEF Shape
<1>11. Shape(ctx')
  <2>1. Len(ctx') <= Levels
    BY <1>7 DEF a
  <2>2. \A l, m \in DOMAIN ctx' : l < m /\ ~ctx'[m].commited => ~ctx'[l].commited
    BY <1>4, <1>9
  <2>3. \A l \in DOMAIN ctx' : ctx'[l].commited => ctx'[l].id # 0
    BY <1>10
  <2> QED
    BY <1>4, <2>1, <2>2, <2>3 DEF Shape
<1>12. Hashing(ctx', new_ids, values, <<>>)
  <2>1. ASSUME NEW l \in 1..a, ctx'[l].id # 0 PROVE l \in 1..b /\ ctx'[l] = ctx[l]
    BY <1>8, <2>1, FreshIs
  <2>2. ASSUME NEW l \in 1..a, ~ctx'[l].commited, ctx'[l].id # 0
        PROVE  /\ ctx'[l].id \in new_ids /\ Val(values, ctx'[l].id) = None
               /\ ctx'[l].id \notin Range(<<>>)
               /\ \A m \in 1..a : ~ctx'[m].commited /\ ctx'[m].id = ctx'[l].id => m = l
    <3>1. l \in 1..b /\ ctx'[l] = ctx[l]
      BY <2>1, <2>2
    <3>2. /\ ctx[l].id \in new_ids /\ Val(values, ctx[l].id) = None
          /\ ctx[l].id \notin Range(<<>>)
          /\ \A m \in 1..b : ~ctx[m].commited /\ ctx[m].id = ctx[l].id => m = l
      BY <1>2, <1>4, <2>2, <3>1 DEF Hashing
    <3>3. ASSUME NEW m \in 1..a, ~ctx'[m].commited, ctx'[m].id = ctx'[l].id PROVE m = l
      <4>1. m \in 1..b /\ ctx'[m] = ctx[m]
        BY <2>1, <2>2, <3>3
      <4> QED
        BY <3>1, <3>2, <3>3, <4>1
    <3> QED
      BY <3>1, <3>2, <3>3
  <2> QED
    BY <1>4, <2>2 DEF Hashing
<1>13. ContextOK'
  <2>1. new_ids' = new_ids /\ values' = values /\ prepared' = <<>> /\ pc' = "idle"
    BY <1>1, <1>2 DEF Owners
  <2>2. Shape(ctx)' /\ Hashing(ctx, new_ids, values, prepared)'
    BY <1>11, <1>12, <2>1 DEF Shape
  <2> QED
    BY <2>1, <2>2 DEF ContextOK
<1> QED
  BY <1>1, <1>13, SameOwners DEF Ownership, MainTypes

\* The path that checkout follows, one entry after the other.
Longer(path) ==
    LET last == ValueAt(Last(path))
    IN  IF last \in {None, {}} THEN path ELSE Append(path, CHOOSE child \in last : TRUE)

Paths == Seq(Ids) \ {<<>>}
Walk(root, h) ==
    /\ h \in [0..Levels -> Paths] /\ h[0] = <<root>>
    /\ \A n \in 1..Levels : h[n] = Longer(h[n - 1])

LEMMA LongerIs ==
    ASSUME values \in Seq(Values), NEW path \in Paths
    PROVE  /\ Longer(path) \in Paths
           /\ Len(Longer(path)) \in {Len(path), Len(path) + 1}
<1> DEFINE last == ValueAt(Last(path))
           child == CHOOSE c \in last : TRUE
<1>1. path \in Seq(Ids) /\ Len(path) \in Nat
  BY DEF Paths
<1>2. last \in Values
  BY ValType, ValueAtIs
<1>3. CASE last \in {None, {}}
  <2>1. Longer(path) = path
    BY <1>3 DEF Longer
  <2> QED
    BY <2>1
<1>4. CASE last \notin {None, {}}
  <2>1. last \in SUBSET Ids /\ last # {}
    BY <1>2, <1>4 DEF Values
  <2>2. child \in Ids
    <3> HIDE DEF last
    <3> QED
      BY <2>1
  <2>3. Longer(path) = Append(path, child)
    BY <1>4 DEF Longer
  <2> HIDE DEF child
  <2>4. Append(path, child) \in Seq(Ids) /\ Append(path, child) # <<>> /\ Len(Append(path, child)) = Len(path) + 1
    BY <1>1, <2>2, AppendProperties
  <2> QED
    BY <2>3, <2>4 DEF Paths
<1> QED
  BY <1>3, <1>4

LEMMA PathIs ==
    ASSUME values \in Seq(Values), NEW root \in Ids
    PROVE  \E h : Walk(root, h) /\ PathFrom(root) = h[Levels]
<1> DEFINE N == Levels
           V == Paths
           path[n \in 0..Levels] ==
               IF n = 0 THEN <<root>>
               ELSE LET last == ValueAt(Last(path[n - 1]))
                    IN  IF last \in {None, {}} THEN path[n - 1]
                        ELSE Append(path[n - 1], CHOOSE child \in last : TRUE)
           Good(h) == h = [n \in 0..N |-> IF n = 0 THEN <<root>> ELSE Longer(h[n - 1])]
           step == [p \in V |-> Longer(p)]
<1>1. N \in Nat
  BY Sizes
<1>2. PathFrom(root) = path[N]
  BY DEF PathFrom
<1>3. path = CHOOSE h : Good(h)
  BY DEF path, Longer
<1>4. step \in [V -> V]
  BY LongerIs
<1>5. <<root>> \in V
  BY DEF Paths
<1> HIDE DEF N, V, path
<1>6. \A p \in V : step[p] = Longer(p)
  OBVIOUS
<1> HIDE DEF step
<1>7. PICK h : Follows(h, N, V, <<root>>, step)
  BY <1>1, <1>4, <1>5, Recursion
<1>8. h \in [0..N -> V] /\ h[0] = <<root>> /\ \A n \in 1..N : h[n] = Longer(h[n - 1])
  <2>1. h \in [0..N -> V] /\ h[0] = <<root>> /\ \A n \in 1..N : h[n] = step[h[n - 1]]
    BY <1>7 DEF Follows
  <2>2. ASSUME NEW n \in 1..N PROVE h[n - 1] \in V
    BY <1>1, <2>1
  <2> QED
    BY <1>6, <2>1, <2>2
<1>9. Good(h)
  <2> DEFINE w == [n \in 0..N |-> IF n = 0 THEN <<root>> ELSE Longer(h[n - 1])]
  <2>1. \A n \in 0..N : h[n] = w[n]
    <3> DEFINE base == <<root>>
    <3> HIDE DEF base
    <3>1. h[0] = base /\ \A n \in 1..N : h[n] = Longer(h[n - 1])
      BY <1>8 DEF base
    <3>2. \A n \in 0..N : w[n] = IF n = 0 THEN base ELSE Longer(h[n - 1])
      BY DEF base
    <3> QED
      BY <1>1, <3>1, <3>2
  <2>2. h = [n \in 0..N |-> h[n]] /\ w = [n \in 0..N |-> w[n]]
    BY <1>8
  <2> HIDE DEF w
  <2>3. h = w
    BY <2>1, <2>2
  <2> QED
    BY <2>3 DEF w
<1>10. Good(path)
  BY <1>3, <1>9
<1>11. \A n \in 0..N : path[n] = IF n = 0 THEN <<root>> ELSE Longer(path[n - 1])
  BY <1>10
<1>12. path[0] = <<root>> /\ \A n \in 1..N : path[n] = Longer(path[n - 1])
  BY <1>1, <1>11
<1> DEFINE T == {n \in Nat : n <= N => path[n] = h[n]}
<1>13. 0..N \subseteq T
  <2>1. T \in SUBSET Nat /\ 0 \in T
    BY <1>8, <1>12
  <2>2. ASSUME NEW n \in T, n < N PROVE n + 1 \in T
    <3>1. n + 1 \in 1..N /\ (n + 1) - 1 = n /\ n \in Nat
      BY <1>1, <2>2
    <3>2. path[n] = h[n]
      BY <1>1, <2>2, <3>1
    <3>3. path[n + 1] = Longer(path[n]) /\ h[n + 1] = Longer(h[n])
      BY <1>8, <1>12, <3>1
    <3> QED
      BY <3>1, <3>2, <3>3
  <2> HIDE DEF T
  <2> QED
    BY <1>1, <2>1, <2>2, InductionUpTo
<1>14. path[N] = h[N]
  BY <1>1, <1>13
<1>15. Walk(root, h)
  BY <1>8 DEF Walk, N, V
<1> QED
  BY <1>2, <1>14, <1>15 DEF N

LEMMA PathType ==
    ASSUME values \in Seq(Values), NEW root \in Ids
    PROVE  PathFrom(root) \in Seq(Ids) /\ Len(PathFrom(root)) \in 1..(Levels + 1)
<1>1. PICK h : Walk(root, h) /\ PathFrom(root) = h[Levels]
  BY PathIs
<1>2. h \in [0..Levels -> Paths] /\ h[0] = <<root>> /\ \A n \in 1..Levels : h[n] = Longer(h[n - 1])
  BY <1>1 DEF Walk
<1> DEFINE T == {n \in Nat : n <= Levels => Len(h[n]) <= n + 1}
<1>3. 0..Levels \subseteq T
  <2>1. T \in SUBSET Nat /\ 0 \in T
    <3>1. Len(h[0]) = 1
      BY <1>2
    <3>2. Len(h[0]) <= 0 + 1 /\ 0 \in Nat
      BY <3>1
    <3> QED
      BY <3>2, Zenon
  <2>2. ASSUME NEW n \in T, n < Levels PROVE n + 1 \in T
    <3>1. n + 1 \in 1..Levels /\ (n + 1) - 1 = n /\ n \in 0..Levels
      BY <2>2, Sizes
    <3>2. h[n + 1] = Longer(h[n]) /\ h[n] \in Paths
      BY <1>2, <3>1
    <3>3. Len(h[n + 1]) \in {Len(h[n]), Len(h[n]) + 1}
      BY <3>2, LongerIs
    <3>4. Len(h[n]) \in Nat
      BY <3>2 DEF Paths
    <3>5. Len(h[n]) <= n + 1
      BY <2>2, <3>1, Sizes
    <3>6. Len(h[n + 1]) <= n + 2
      <4> DEFINE a == Len(h[n])
                 b == Len(h[n + 1])
      <4> HIDE DEF a, b
      <4>1. b \in {a, a + 1} /\ a \in Nat /\ a <= n + 1 /\ n \in Nat
        BY <3>1, <3>3, <3>4, <3>5 DEF a, b
      <4>2. b <= n + 2
        BY <4>1
      <4> QED
        BY <4>2 DEF b
    <3> QED
      BY <3>1, <3>6
  <2> HIDE DEF T
  <2> QED
    BY <2>1, <2>2, InductionUpTo, Sizes
<1>4. h[Levels] \in Paths /\ Len(h[Levels]) <= Levels + 1
  BY <1>2, <1>3, Sizes
<1> QED
  BY <1>1, <1>4, Sizes DEF Paths

\* The nodes of a context that has just been checked out.
LEMMA CheckedOut ==
    ASSUME Ownership, NEW commit, Checkout(commit)
    PROVE  \E root \in ValueAt(commit.id) :
              /\ ValueAt(commit.id) # None /\ root \in Ids
              /\ ctx' \in Seq(Nodes) /\ Len(ctx') = Len(PathFrom(root)) - 1
              /\ Len(ctx') <= Levels
              /\ \A l \in DOMAIN ctx' : ctx'[l] = Node(PathFrom(root)[l + 1], TRUE)
<1>1. values \in Seq(Values)
  BY DEF Ownership, MainTypes
<1>2. ValueAt(commit.id) # None
  BY DEF Checkout
<1>3. PICK root \in ValueAt(commit.id) :
                /\ ValueAt(root) # None
                /\ ctx' = [l \in 1..(Len(PathFrom(root)) - 1) |-> Node(PathFrom(root)[l + 1], TRUE)]
  BY Zenon DEF Checkout
<1>4. root \in Ids
  <2>1. ValueAt(commit.id) \in Values
    BY <1>1, ValType, ValueAtIs
  <2> QED
    BY <1>2, <2>1, NoneIsNoSet
<1> DEFINE path == PathFrom(root)
<1>5. path \in Seq(Ids) /\ Len(path) \in 1..(Levels + 1)
  BY <1>1, <1>4, PathType
<1>6. ctx' = [l \in 1..(Len(path) - 1) |-> Node(path[l + 1], TRUE)]
  BY <1>3
<1> HIDE DEF path
<1> DEFINE k == Len(path) - 1
<1>7. k \in Nat /\ k <= Levels /\ \A l \in 1..k : l + 1 \in 1..Len(path)
  BY <1>5, Sizes
<1>8. \A l \in 1..k : Node(path[l + 1], TRUE) \in Nodes
  <2> SUFFICES ASSUME NEW l \in 1..k PROVE Node(path[l + 1], TRUE) \in Nodes
    OBVIOUS
  <2>1. path[l + 1] \in Ids
    BY <1>5, <1>7
  <2>2. path[l + 1] \in 0..MaxId
    BY <2>1, Sizes DEF Ids
  <2> QED
    BY <2>2 DEF Node, Nodes
<1>9. ctx' \in Seq(Nodes) /\ Len(ctx') = k /\ \A l \in DOMAIN ctx' : ctx'[l] = Node(path[l + 1], TRUE)
  <2> HIDE DEF k
  <2>1. ctx' = [l \in 1..k |-> Node(path[l + 1], TRUE)]
    BY <1>6 DEF k
  <2>2. ctx' \in [1..k -> Nodes]
    BY <1>8, <2>1
  <2>3. ctx' \in Seq(Nodes) /\ Len(ctx') = k
    BY <1>7, <2>2
  <2>4. \A l \in DOMAIN ctx' : ctx'[l] = Node(path[l + 1], TRUE)
    BY <2>1
  <2> QED
    BY <2>3, <2>4
<1> QED
  BY <1>2, <1>4, <1>7, <1>9 DEF path

LEMMA OwnedCheckout ==
    ASSUME Ownership, NEW commit, Checkout(commit)
    PROVE  Ownership'
<1>1. pc = "idle" /\ UNCHANGED <<Owners, context_hashes, started, prepared, pc>>
  BY DEF Checkout, Owners
<1>2. PICK root \in Ids :
              /\ ctx' \in Seq(Nodes) /\ Len(ctx') = Len(PathFrom(root)) - 1
              /\ Len(ctx') <= Levels
              /\ \A l \in DOMAIN ctx' : ctx'[l] = Node(PathFrom(root)[l + 1], TRUE)
  BY CheckedOut
<1>3. PathFrom(root) \in Seq(Ids) /\ Len(PathFrom(root)) \in 1..(Levels + 1)
  BY PathType DEF Ownership, MainTypes
<1>4. ASSUME NEW l \in DOMAIN ctx' PROVE ctx'[l].commited = TRUE /\ ctx'[l].id # 0
  <2> DEFINE path == PathFrom(root)
  <2>1. ctx'[l] = Node(path[l + 1], TRUE)
    BY <1>2
  <2>2. l + 1 \in 1..Len(path)
    BY <1>2, <1>3
  <2>3. path[l + 1] \in Ids
    BY <1>3, <2>2
  <2> HIDE DEF path
  <2>4. path[l + 1] # 0
    BY <2>3, Sizes DEF Ids
  <2>5. Node(path[l + 1], TRUE).commited = TRUE /\ Node(path[l + 1], TRUE).id = path[l + 1]
    BY NodeIs
  <2> QED
    BY <2>1, <2>4, <2>5
<1>5. Shape(ctx')
  BY <1>2, <1>4 DEF Shape
<1>6. ContextOK'
  <2>1. prepared' = <<>> /\ pc' = "idle"
    BY <1>1 DEF Ownership, ContextOK
  <2> QED
    BY <1>4, <1>5, <2>1, AtRest
<1> QED
  BY <1>1, <1>6, SameOwners DEF Ownership, MainTypes

-----------------------------------------------------------------------------
(* Handing out an id.                                                      *)

LEMMA TailDistinct ==
    ASSUME NEW S, NEW f \in Seq(S), f # <<>>
    PROVE  /\ Head(f) \in S /\ Tail(f) \in Seq(S) /\ Len(Tail(f)) <= Len(f)
           /\ Range(f) = {Head(f)} \cup Range(Tail(f))
           /\ Distinct(f) => Distinct(Tail(f)) /\ Head(f) \notin Range(Tail(f))
<1> DEFINE h == Head(f)
           t == Tail(f)
           k == Len(f)
<1>1. /\ h \in S /\ t \in Seq(S) /\ Len(t) = k - 1 /\ h = f[1] /\ k \in Nat \ {0}
      /\ \A i \in 1..(k - 1) : t[i] = f[i + 1]
  BY HeadTailProperties, EmptySeq
<1>2. DOMAIN f = 1..k /\ DOMAIN t = 1..(k - 1)
  BY <1>1, LenProperties
<1> HIDE DEF h, t, k
<1>3. \A i \in 1..(k - 1) : i + 1 \in 1..k /\ i + 1 # 1 /\ t[i] = f[i + 1]
  BY <1>1
<1>4. 1 \in 1..k /\ \A i \in 1..k : i = 1 \/ (i - 1 \in 1..(k - 1) /\ f[i] = t[i - 1])
  <2>1. ASSUME NEW i \in 1..k, i # 1 PROVE i - 1 \in 1..(k - 1) /\ f[i] = t[i - 1]
    <3>1. i - 1 \in 1..(k - 1) /\ (i - 1) + 1 = i
      BY <1>1, <2>1
    <3> QED
      BY <1>1, <3>1
  <2> QED
    BY <1>1, <2>1
<1>5. \A x : x \in Range(f) <=> \E i \in 1..k : x = f[i]
  BY <1>2 DEF Range
<1>6. \A x : x \in Range(t) <=> \E i \in 1..(k - 1) : x = t[i]
  BY <1>2 DEF Range
<1>7. Range(f) = {h} \cup Range(t)
  <2>1. ASSUME NEW x \in Range(f) PROVE x \in {h} \cup Range(t)
    <3>1. PICK i \in 1..k : x = f[i]
      BY <1>5
    <3>2. CASE i = 1
      BY <1>1, <3>1, <3>2
    <3>3. CASE i - 1 \in 1..(k - 1) /\ f[i] = t[i - 1]
      BY <1>6, <3>1, <3>3
    <3> QED
      BY <1>4, <3>2, <3>3
  <2>2. ASSUME NEW x \in {h} \cup Range(t) PROVE x \in Range(f)
    BY <1>1, <1>3, <1>4, <1>5, <1>6
  <2> QED
    BY <2>1, <2>2
<1>8. ASSUME Distinct(f) PROVE Distinct(t) /\ h \notin Range(t)
  <2>1. \A i, j \in 1..k : f[i] = f[j] => i = j
    BY <1>2, <1>8 DEF Distinct
  <2>2. ASSUME NEW i \in 1..(k - 1), NEW j \in 1..(k - 1), t[i] = t[j] PROVE i = j
    <3>1. i + 1 = j + 1
      BY <1>3, <2>1, <2>2
    <3> QED
      BY <1>1, <3>1
  <2>3. h \notin Range(t)
    BY <1>1, <1>3, <1>4, <1>6, <2>1
  <2> QED
    BY <1>2, <2>2, <2>3 DEF Distinct
<1>9. Len(t) <= k
  BY <1>1
<1> QED
  BY <1>1, <1>7, <1>8, <1>9 DEF h, t, k

\* What is released once the first free id is taken.
LEMMA TakeFree ==
    ASSUME CollectorTypes, free_ids # <<>>, free_ids' = Tail(free_ids), UNCHANGED gc
    PROVE  /\ free_ids' \in Seq(Ids) /\ Len(free_ids') <= Len(free_ids) /\ Head(free_ids) \in Ids
           /\ Range(Released) = {Head(free_ids)} \cup Range(Released')
           /\ Distinct(Released) => Distinct(Released') /\ Head(free_ids) \notin Range(Released')
<1> DEFINE f == free_ids
           t == Tail(free_ids)
           h == Head(free_ids)
           rest == IF sending = <<>> THEN pending ELSE sending[1] \o sending[2]
<1>1. f \in Seq(Ids) /\ rest \in Seq(Ids)
  <2>1. CASE sending = <<>>
    BY <2>1 DEF CollectorTypes
  <2>2. CASE sending \in Seq(Ids) \X Seq(Ids)
    <3>1. sending[1] \in Seq(Ids) /\ sending[2] \in Seq(Ids)
      BY <2>2
    <3>2. sending[1] \o sending[2] \in Seq(Ids)
      BY <3>1, ConcatProperties
    <3> QED
      BY <3>2 DEF CollectorTypes
  <2> QED
    BY <2>1, <2>2 DEF CollectorTypes
<1>2. Released = f \o rest /\ Released' = t \o rest
  BY DEF Released, gc
<1>3. /\ h \in Ids /\ t \in Seq(Ids) /\ Len(t) <= Len(f) /\ Range(f) = {h} \cup Range(t)
      /\ Distinct(f) => Distinct(t) /\ h \notin Range(t)
  BY <1>1, TailDistinct
<1> HIDE DEF rest, t, h, f
<1>4. /\ Distinct(f \o rest) <=> Distinct(f) /\ Distinct(rest) /\ Range(f) \cap Range(rest) = {}
      /\ Range(f \o rest) = Range(f) \cup Range(rest)
  BY <1>1, ConcatDistinct
<1>5. /\ Distinct(t \o rest) <=> Distinct(t) /\ Distinct(rest) /\ Range(t) \cap Range(rest) = {}
      /\ Range(t \o rest) = Range(t) \cup Range(rest)
  BY <1>1, <1>3, ConcatDistinct
<1>6. Range(Released) = {h} \cup Range(Released')
  BY <1>2, <1>3, <1>4, <1>5
<1>7. ASSUME Distinct(Released) PROVE Distinct(Released') /\ h \notin Range(Released')
  <2>1. Distinct(f) /\ Distinct(rest) /\ Range(f) \cap Range(rest) = {}
    BY <1>2, <1>4, <1>7
  <2>2. Range(t) \cap Range(rest) = {} /\ h \notin Range(rest)
    BY <1>3, <2>1
  <2>3. Distinct(t \o rest)
    BY <1>3, <1>5, <2>1, <2>2
  <2> QED
    BY <1>2, <1>3, <1>5, <2>1, <2>2, <2>3
<1>8. free_ids' = t
  BY DEF t
<1> QED
  BY <1>3, <1>6, <1>7, <1>8 DEF h, f

\* The id that is handed out was nobody's, and its entry is empty.
LEMMA VacantIs ==
    ASSUME Ownership, GetVacantEntryHash(VacantId), UNCHANGED <<channel, gc>>
    PROVE  /\ VacantId \in Ids /\ VacantId \notin new_ids /\ VacantId \notin Held(cycles)
           /\ \A j \in DOMAIN channel : VacantId \notin New(channel[j])
           /\ VacantId \notin Range(Released')
           /\ hashes' \in 0..MaxId /\ hashes <= hashes' /\ 1..hashes' = 1..hashes \cup {VacantId}
           /\ values' \in Seq(Values) /\ Len(values') = Len(values)
           /\ Val(values', VacantId) = None
           /\ \A x : x # VacantId => Val(values', x) = Val(values, x)
           /\ new_ids' = new_ids \cup {VacantId}
           /\ free_ids' \in Seq(Ids) /\ Len(free_ids') <= Len(free_ids)
           /\ Range(Released') \subseteq Range(Released)
           /\ Range(Released) \subseteq Range(Released') \cup {VacantId}
           /\ Distinct(Released')
<1> DEFINE id == VacantId
<1>1. /\ hashes \in 0..MaxId /\ values \in Seq(Values) /\ Len(values) <= hashes /\ free_ids \in Seq(Ids)
      /\ Distinct(Released) /\ CollectorTypes
  BY DEF Ownership, MainTypes, CollectorTypes, Apart
<1>2. new_ids' = new_ids \cup {id}
  BY DEF GetVacantEntryHash
<1>3. CASE free_ids # <<>>
  <2>1. /\ id = Head(free_ids) /\ id <= Len(values) /\ free_ids' = Tail(free_ids)
        /\ values' = [values EXCEPT ![id] = None] /\ hashes' = hashes
    BY <1>3 DEF GetVacantEntryHash, VacantId
  <2>2. /\ free_ids' \in Seq(Ids) /\ Len(free_ids') <= Len(free_ids) /\ id \in Ids
        /\ Range(Released) = {id} \cup Range(Released')
        /\ Distinct(Released') /\ id \notin Range(Released')
    BY <1>1, <1>3, <2>1, TakeFree
  <2> HIDE DEF id
  <2>3. id \in 1..Len(values) /\ None \in Values
    BY <1>1, <2>1, <2>2, Sizes DEF Ids, Values
  <2>4. /\ values' \in Seq(Values) /\ Len(values') = Len(values)
        /\ \A j \in 1..Len(values) : values'[j] = IF j = id THEN None ELSE values[j]
    BY <1>1, <2>1, <2>3, ExceptSeq
  <2>5. DOMAIN values' = 1..Len(values) /\ DOMAIN values = 1..Len(values)
    BY <1>1, <2>4
  <2>6. Val(values', id) = None /\ \A x : x # id => Val(values', x) = Val(values, x)
    BY <2>3, <2>4, <2>5 DEF Val
  <2>7. id \in Range(Released)
    BY <2>2
  <2>8. /\ id \notin new_ids /\ id \notin Held(cycles) /\ \A j \in DOMAIN channel : id \notin New(channel[j])
        /\ id \in 1..hashes
    BY <2>7 DEF Ownership, Apart, Counted
  <2>9. 1..hashes' = 1..hashes \cup {id}
    BY <2>1, <2>8
  <2>10. hashes <= hashes'
    BY <1>1, <2>1
  <2> QED
    BY <1>1, <1>2, <2>1, <2>2, <2>4, <2>6, <2>8, <2>9, <2>10 DEF id
<1>4. CASE free_ids = <<>>
  <2>1. id = hashes + 1 /\ id <= MaxId /\ hashes' = id /\ UNCHANGED <<free_ids, values>>
    BY <1>4 DEF GetVacantEntryHash, VacantId
  <2> HIDE DEF id
  <2>2. Released' = Released
    BY <2>1 DEF Released, gc
  <2>3. id \in Ids /\ hashes' \in 0..MaxId /\ hashes <= hashes' /\ id \notin 1..hashes
    BY <1>1, <2>1, Sizes DEF Ids
  <2>4. 1..hashes' = 1..hashes \cup {id}
    BY <1>1, <2>1
  <2>5. /\ id \notin new_ids /\ id \notin Held(cycles) /\ \A j \in DOMAIN channel : id \notin New(channel[j])
        /\ id \notin Range(Released)
    BY <2>3 DEF Ownership, Counted
  <2>6. id \notin DOMAIN values
    <3>1. DOMAIN values = 1..Len(values) /\ Len(values) \in Nat
      BY <1>1
    <3>2. ~(id <= Len(values))
      BY <1>1, <2>1, <3>1
    <3> QED
      BY <3>1, <3>2
  <2>7. Val(values', id) = None /\ \A x : x # id => Val(values', x) = Val(values, x)
    BY <2>1, <2>6 DEF Val
  <2>8. Len(free_ids') <= Len(free_ids)
    BY <1>1, <2>1
  <2> QED
    BY <1>1, <1>2, <2>1, <2>2, <2>3, <2>4, <2>5, <2>7, <2>8 DEF id
<1> QED
  BY <1>3, <1>4

\* Which node or entry the new id goes to.
LEMMA HashEntryIs ==
    ASSUME Ownership, HashEntry
    PROVE  /\ pc \in Operations /\ GetVacantEntryHash(VacantId)
           /\ UNCHANGED <<pc, current_cycle, context_hashes, started, channel, gc>>
           /\ Shape(ctx) /\ Hashing(ctx, new_ids, values, prepared) /\ DOMAIN ctx' = DOMAIN ctx /\ Len(ctx') = Len(ctx)
           /\ ctx' \in Seq(Nodes)
           /\ \/ /\ prepared = <<>> /\ prepared' = prepared
                 /\ \E k \in DOMAIN ctx :
                       /\ ctx[k].id = 0 /\ ctx'[k] = Node(VacantId, ctx[k].commited)
                       /\ \A l \in DOMAIN ctx : l # k => ctx'[l] = ctx[l]
              \/ /\ ctx' = ctx /\ \A l \in DOMAIN ctx : ctx[l].id # 0
                 /\ Len(prepared) < 2 /\ prepared' = Append(prepared, VacantId)
<1> DEFINE id == VacantId
<1>1. /\ pc \in Operations /\ Len(prepared) < 2 /\ GetVacantEntryHash(VacantId)
      /\ UNCHANGED <<pc, current_cycle, context_hashes, started, channel, gc>>
  <2>1. Len(prepared) \in Nat
    BY DEF Ownership, MainTypes
  <2> QED
    BY <2>1 DEF HashEntry, Unprepared
<1>2. Shape(ctx) /\ Hashing(ctx, new_ids, values, prepared)
  BY <1>1 DEF Ownership, ContextOK, Operations
<1>3. ctx \in Seq(Nodes) /\ Len(ctx) \in Nat /\ DOMAIN ctx = 1..Len(ctx)
  BY <1>2 DEF Shape
<1>4. id \in 0..MaxId
  BY <1>1, VacantIs, Sizes DEF Ids
<1> HIDE DEF id
<1>5. CASE Unhashed # {}
  <2> DEFINE k == Max(Unhashed)
  <2>1. k \in Unhashed
    <3>1. Unhashed \in SUBSET (0..Len(ctx))
      BY <1>3 DEF Unhashed
    <3> QED
      BY <1>3, <1>5, <3>1, MaxIs
  <2>2. ctx' = [ctx EXCEPT ![k].id = id] /\ prepared' = prepared
    BY <1>5 DEF HashEntry, id
  <2> HIDE DEF k
  <2>3. k \in DOMAIN ctx /\ ctx[k].id = 0
    BY <2>1 DEF Unhashed
  <2>4. prepared = <<>>
    BY <1>2, <2>3 DEF Hashing
  <2>5. ctx' = [ctx EXCEPT ![k] = [ctx[k] EXCEPT !.id = id]]
    BY <2>2, Zenon
  <2> DEFINE old == ctx[k]
             node == [old EXCEPT !.id = id]
  <2>6. old \in Nodes
    BY <1>3, <2>3
  <2>7. node = Node(id, old.commited) /\ node \in Nodes
    <3> HIDE DEF old
    <3>1. node = [id |-> id, commited |-> old.commited]
      BY <2>6 DEF Nodes
    <3>2. old.commited \in BOOLEAN
      BY <2>6 DEF Nodes
    <3> QED
      BY <1>4, <3>1, <3>2 DEF Node, Nodes
  <2>8. ctx' = [ctx EXCEPT ![k] = node]
    BY <2>5 DEF node, old
  <2> HIDE DEF node
  <2>9. k \in 1..Len(ctx)
    BY <1>3, <2>3
  <2>10. /\ [ctx EXCEPT ![k] = node] \in Seq(Nodes) /\ Len([ctx EXCEPT ![k] = node]) = Len(ctx)
         /\ \A j \in 1..Len(ctx) : [ctx EXCEPT ![k] = node][j] = IF j = k THEN node ELSE ctx[j]
    BY <1>3, <2>7, <2>9, ExceptSeq
  <2>11. ctx' \in Seq(Nodes) /\ Len(ctx') = Len(ctx) /\ \A j \in 1..Len(ctx) : ctx'[j] = IF j = k THEN node ELSE ctx[j]
    BY <2>8, <2>10
  <2>12. DOMAIN ctx' = DOMAIN ctx
    BY <1>3, <2>8
  <2>13. ctx'[k] = Node(id, ctx[k].commited) /\ \A l \in DOMAIN ctx : l # k => ctx'[l] = ctx[l]
    BY <1>3, <2>3, <2>7, <2>11 DEF old
  <2> QED
    BY <1>1, <1>2, <2>2, <2>3, <2>4, <2>11, <2>12, <2>13 DEF id
<1>6. CASE Unhashed = {}
  <2>1. ctx' = ctx /\ prepared' = Append(prepared, VacantId)
    BY <1>6 DEF HashEntry
  <2>2. \A l \in DOMAIN ctx : ctx[l].id # 0
    BY <1>6 DEF Unhashed
  <2> QED
    BY <1>1, <1>2, <1>3, <2>1, <2>2
<1> QED
  BY <1>5, <1>6

LEMMA FewerFree ==
    ASSUME CollectorTypes, UNCHANGED <<channel, gc>>,
           free_ids' \in Seq(Ids) /\ Len(free_ids') <= Len(free_ids)
    PROVE  CollectorTypes'
<1>1. channel' = channel /\ cycles' = cycles /\ pending' = pending /\ sending' = sending
  BY DEF gc
<1>2. /\ channel' \in Seq(Commands) /\ Len(channel') <= MaxCommands
      /\ \A j \in DOMAIN channel' : IsCycle(channel'[j]) =>
            DOMAIN channel'[j].values_in_cycle \subseteq channel'[j].new_ids
      /\ cycles' \in CycleList /\ pending' \in Seq(Ids)
  BY <1>1 DEF CollectorTypes
<1>3. Len(free_ids') <= QueueSize
  <2>1. Len(free_ids) <= QueueSize /\ Len(free_ids) \in Nat /\ Len(free_ids') \in Nat
    BY DEF CollectorTypes
  <2> QED
    BY <2>1, Sizes
<1>4. CASE sending = <<>>
  BY <1>1, <1>2, <1>3, <1>4 DEF CollectorTypes
<1>5. CASE sending \in Seq(Ids) \X Seq(Ids) /\ Len(free_ids) + Len(sending[1]) <= QueueSize
  <2>1. Len(free_ids) \in Nat /\ Len(free_ids') \in Nat /\ Len(sending[1]) \in Nat
    BY <1>5 DEF CollectorTypes
  <2>2. Len(free_ids') + Len(sending[1]) <= QueueSize
    BY <1>5, <2>1, Sizes
  <2> QED
    BY <1>1, <1>2, <1>3, <1>5, <2>2 DEF CollectorTypes
<1> QED
  BY <1>4, <1>5 DEF CollectorTypes

LEMMA OwnedByHashing ==
    ASSUME Ownership, GetVacantEntryHash(VacantId),
           UNCHANGED <<current_cycle, context_hashes, started, channel, gc>>,
           pc' \in Pcs,
           prepared' \in Seq(Ids) /\ Len(prepared') <= 2, ContextOK'
    PROVE  Ownership'
<1> DEFINE id == VacantId
<1>1. /\ id \in Ids /\ id \notin new_ids /\ id \notin Held(cycles)
      /\ \A j \in DOMAIN channel : id \notin New(channel[j])
      /\ id \notin Range(Released')
      /\ hashes' \in 0..MaxId /\ hashes <= hashes' /\ 1..hashes' = 1..hashes \cup {id}
      /\ values' \in Seq(Values) /\ Len(values') = Len(values)
      /\ new_ids' = new_ids \cup {id}
      /\ free_ids' \in Seq(Ids) /\ Len(free_ids') <= Len(free_ids)
      /\ Range(Released') \subseteq Range(Released)
      /\ Distinct(Released')
  BY VacantIs
<1> HIDE DEF id
<1>2. MainTypes'
  <2>1. Len(values') <= hashes'
    <3>1. Len(values) \in Nat /\ Len(values) <= hashes /\ hashes \in 0..MaxId
      BY DEF Ownership, MainTypes
    <3> QED
      BY <1>1, <3>1
  <2>2. new_ids' \in SUBSET Ids /\ DOMAIN current_cycle \subseteq new_ids'
    BY <1>1 DEF Ownership, MainTypes
  <2> QED
    BY <1>1, <2>1, <2>2 DEF Ownership, MainTypes
<1>3. CollectorTypes'
  BY <1>1, FewerFree DEF Ownership
<1>4. Apart'
  <2>1. channel' = channel /\ cycles' = cycles
    BY DEF gc
  <2>2. \A j \in DOMAIN channel : /\ New(channel[j]) \cap Held(cycles) = {}
                                  /\ New(channel[j]) \cap new_ids' = {}
                                  /\ New(channel[j]) \cap Range(Released') = {}
    BY <1>1 DEF Ownership, Apart
  <2>3. /\ new_ids' \cap Held(cycles) = {} /\ new_ids' \cap Range(Released') = {}
        /\ Held(cycles) \cap Range(Released') = {}
    BY <1>1 DEF Ownership, Apart
  <2> QED
    BY <1>1, <2>1, <2>2, <2>3 DEF Ownership, Apart
<1>5. Counted'
  <2>1. channel' = channel /\ cycles' = cycles
    BY DEF gc
  <2>2. /\ new_ids' \subseteq 1..hashes' /\ Held(cycles) \subseteq 1..hashes'
        /\ Range(Released') \subseteq 1..hashes'
        /\ \A j \in DOMAIN channel : New(channel[j]) \subseteq 1..hashes'
    BY <1>1 DEF Ownership, Counted
  <2> QED
    BY <2>1, <2>2 DEF Counted
<1> QED
  BY <1>2, <1>3, <1>4, <1>5 DEF Ownership

LEMMA OwnedHashEntry ==
    ASSUME Ownership, HashEntry
    PROVE  Ownership'
<1> DEFINE id == VacantId
<1>1. /\ pc \in Operations /\ GetVacantEntryHash(VacantId)
      /\ UNCHANGED <<pc, current_cycle, context_hashes, started, channel, gc>>
      /\ Shape(ctx) /\ Hashing(ctx, new_ids, values, prepared) /\ DOMAIN ctx' = DOMAIN ctx /\ Len(ctx') = Len(ctx)
      /\ ctx' \in Seq(Nodes)
  BY HashEntryIs
<1>2. /\ id \in Ids /\ id \notin new_ids /\ new_ids' = new_ids \cup {id}
      /\ Val(values', id) = None /\ \A x : x # id => Val(values', x) = Val(values, x)
  BY <1>1, VacantIs
<1>3. id # 0
  BY <1>2, Sizes DEF Ids
<1>4. prepared \in Seq(Ids) /\ Len(prepared) <= 2 /\ pc \in Pcs
  BY DEF Ownership, MainTypes
<1>5. \A x \in new_ids : Val(values, x) = None => Val(values', x) = None
  BY <1>2
<1>6. Val(values', id) = None
  BY <1>2 DEF id
<1> HIDE DEF id
<1>7. CASE /\ prepared = <<>> /\ prepared' = prepared
           /\ \E k \in DOMAIN ctx :
                 /\ ctx[k].id = 0 /\ ctx'[k] = Node(id, ctx[k].commited)
                 /\ \A l \in DOMAIN ctx : l # k => ctx'[l] = ctx[l]
  <2>1. PICK k \in DOMAIN ctx :
                 /\ ctx[k].id = 0 /\ ctx'[k] = Node(id, ctx[k].commited)
                 /\ \A l \in DOMAIN ctx : l # k => ctx'[l] = ctx[l]
    BY <1>7
  <2>2. ctx'[k].id = id /\ ctx'[k].commited = ctx[k].commited
    BY <2>1, NodeIs
  <2>3. \A l \in DOMAIN ctx : l # k => ctx'[l] = ctx[l]
    BY <2>1
  <2>4. \A l \in DOMAIN ctx : ctx'[l].commited = ctx[l].commited
    BY <2>2, <2>3
  <2>5. Shape(ctx')
    <3>1. \A l, m \in DOMAIN ctx : l < m /\ ~ctx[m].commited => ~ctx[l].commited
      BY <1>1 DEF Shape
    <3>2. \A l, m \in DOMAIN ctx' : l < m /\ ~ctx'[m].commited => ~ctx'[l].commited
      BY <1>1, <2>4, <3>1
    <3>3. \A l \in DOMAIN ctx' : ctx'[l].commited => ctx'[l].id # 0
      BY <1>1, <1>3, <2>2, <2>3 DEF Shape
    <3>4. Len(ctx') <= Levels
      BY <1>1 DEF Shape
    <3> QED
      BY <1>1, <3>2, <3>3, <3>4 DEF Shape
  <2>6. Hashing(ctx', new_ids', values', prepared')
    <3>1. ASSUME NEW l \in DOMAIN ctx', ~ctx'[l].commited, ctx'[l].id # 0
          PROVE  /\ ctx'[l].id \in new_ids' /\ Val(values', ctx'[l].id) = None
                 /\ ctx'[l].id \notin Range(prepared')
                 /\ \A m \in DOMAIN ctx' : ~ctx'[m].commited /\ ctx'[m].id = ctx'[l].id => m = l
      <4>1. prepared' = <<>> /\ Range(prepared') = {}
        BY <1>7 DEF Range
      <4>2. CASE l = k
        <5>1. ASSUME NEW m \in DOMAIN ctx', ~ctx'[m].commited, ctx'[m].id = id, m # k PROVE FALSE
          <6>1. ctx'[m] = ctx[m] /\ m \in DOMAIN ctx
            BY <1>1, <2>3, <5>1
          <6>2. ctx[m].id \in new_ids
            BY <1>1, <1>3, <5>1, <6>1 DEF Hashing
          <6> QED
            BY <1>2, <5>1, <6>1, <6>2
        <5>2. ctx'[l].id = id
          BY <2>2, <4>2
        <5> QED
          BY <1>2, <1>6, <4>1, <4>2, <5>1, <5>2
      <4>3. CASE l # k
        <5>1. ctx'[l] = ctx[l] /\ l \in DOMAIN ctx
          BY <1>1, <2>3, <4>3
        <5>2. /\ ctx[l].id \in new_ids /\ Val(values, ctx[l].id) = None
              /\ \A m \in DOMAIN ctx : ~ctx[m].commited /\ ctx[m].id = ctx[l].id => m = l
          BY <1>1, <3>1, <5>1 DEF Hashing
        <5>3. ctx[l].id # id
          BY <1>2, <5>2
        <5>4. \A m \in DOMAIN ctx' : ~ctx'[m].commited /\ ctx'[m].id = ctx'[l].id => m = l
          BY <1>1, <2>2, <2>3, <5>1, <5>2, <5>3
        <5>5. Val(values', ctx'[l].id) = None
          <6> DEFINE x == ctx[l].id
          <6>1. x \in new_ids /\ Val(values, x) = None /\ ctx'[l].id = x
            BY <5>1, <5>2
          <6> HIDE DEF x
          <6>2. Val(values', x) = None
            BY <1>2, <5>3, <6>1
          <6> QED
            BY <6>1, <6>2
        <5> QED
          BY <1>2, <4>1, <5>1, <5>2, <5>4, <5>5
      <4> QED
        BY <4>2, <4>3
    <3>2. prepared' = <<>> /\ DOMAIN prepared' = {}
      BY <1>7
    <3> QED
      BY <3>1, <3>2 DEF Hashing
  <2>7. ContextOK'
    <3>1. Shape(ctx)' /\ Hashing(ctx, new_ids, values, prepared)' /\ pc' # "idle"
      BY <1>1, <2>5, <2>6 DEF Shape, Operations
    <3> QED
      BY <3>1 DEF ContextOK
  <2> QED
    BY <1>1, <1>4, <1>7, <2>7, OwnedByHashing
<1>8. CASE /\ ctx' = ctx /\ \A l \in DOMAIN ctx : ctx[l].id # 0
           /\ Len(prepared) < 2 /\ prepared' = Append(prepared, id)
  <2> DEFINE p == prepared
             q == prepared'
             n == Len(prepared)
  <2>1. /\ p \in Seq(Ids) /\ n \in Nat /\ n < 2 /\ DOMAIN p = 1..n
        /\ q \in Seq(Ids) /\ Len(q) = n + 1 /\ DOMAIN q = 1..(n + 1)
        /\ \A i \in 1..n : q[i] = p[i] /\ q[n + 1] = id
    BY <1>2, <1>4, <1>8
  <2>2. q[n + 1] = id /\ Len(q) <= 2
    BY <1>2, <1>4, <1>8
  <2>3. /\ \A i \in 1..n : p[i] \in new_ids /\ Val(values, p[i]) = None
        /\ \A i, j \in 1..n : p[i] = p[j] => i = j
    BY <1>1, <2>1 DEF Hashing
  <2>4. \A l \in DOMAIN ctx : ~ctx[l].commited =>
            /\ ctx[l].id \in new_ids /\ Val(values, ctx[l].id) = None /\ ctx[l].id \notin Range(p)
            /\ \A m \in DOMAIN ctx : ~ctx[m].commited /\ ctx[m].id = ctx[l].id => m = l
    BY <1>1, <1>8 DEF Hashing
  <2> HIDE DEF p, q, n
  <2>5. \A i \in 1..(n + 1) : (i \in 1..n /\ q[i] = p[i]) \/ (i = n + 1 /\ q[i] = id)
    BY <2>1, <2>2
  <2>6. \A i \in 1..(n + 1) : q[i] \in new_ids'
    BY <1>2, <2>3, <2>5
  <2>7. \A i \in 1..(n + 1) : Val(values', q[i]) = None
    <3>1. ASSUME NEW i \in 1..(n + 1) PROVE Val(values', q[i]) = None
      <4>1. CASE i = n + 1 /\ q[i] = id
        BY <1>2, <4>1
      <4>2. CASE i \in 1..n /\ q[i] = p[i]
        <5>1. Val(values, p[i]) = None /\ p[i] # id
          BY <1>2, <2>3, <4>2
        <5> QED
          BY <1>2, <4>2, <5>1
      <4> QED
        BY <2>5, <4>1, <4>2
    <3> QED
      BY <3>1 DEF q
  <2>8. \A i, j \in 1..(n + 1) : q[i] = q[j] => i = j
    <3> SUFFICES ASSUME NEW i \in 1..(n + 1), NEW j \in 1..(n + 1), q[i] = q[j] PROVE i = j
      OBVIOUS
    <3>1. \A m \in 1..n : p[m] # id
      BY <1>2, <2>3
    <3> QED
      BY <2>3, <2>5, <3>1
  <2>9. Range(q) = Range(p) \cup {id}
    <3>1. \A x : x \in Range(q) <=> \E i \in 1..(n + 1) : q[i] = x
      BY <2>1 DEF Range
    <3>2. \A x : x \in Range(p) <=> \E i \in 1..n : p[i] = x
      BY <2>1 DEF Range
    <3>3. \A i \in 1..n : i \in 1..(n + 1) /\ q[i] = p[i]
      BY <2>1
    <3>4. n + 1 \in 1..(n + 1)
      BY <2>1
    <3>5. ASSUME NEW x \in Range(q) PROVE x \in Range(p) \cup {id}
      BY <2>5, <3>1, <3>2
    <3>6. ASSUME NEW x \in Range(p) \cup {id} PROVE x \in Range(q)
      BY <2>2, <3>1, <3>2, <3>3, <3>4
    <3> QED
      BY <3>5, <3>6
  <2>10. \A l \in DOMAIN ctx : ~ctx[l].commited =>
            /\ ctx[l].id \in new_ids' /\ Val(values', ctx[l].id) = None /\ ctx[l].id \notin Range(q)
            /\ \A m \in DOMAIN ctx : ~ctx[m].commited /\ ctx[m].id = ctx[l].id => m = l
    <3> SUFFICES ASSUME NEW l \in DOMAIN ctx, ~ctx[l].commited
                 PROVE  ctx[l].id \in new_ids' /\ Val(values', ctx[l].id) = None /\ ctx[l].id \notin Range(q)
      BY <2>4
    <3>1. ctx[l].id \in new_ids /\ Val(values, ctx[l].id) = None /\ ctx[l].id \notin Range(p)
      BY <2>4
    <3>2. ctx[l].id # id
      BY <1>2, <3>1
    <3> QED
      BY <1>2, <2>9, <3>1, <3>2
  <2>11. Hashing(ctx', new_ids', values', prepared')
    <3>1. \A l \in DOMAIN ctx' : ~ctx'[l].commited =>
              /\ ctx'[l].id \in new_ids' /\ Val(values', ctx'[l].id) = None /\ ctx'[l].id \notin Range(prepared')
              /\ \A m \in DOMAIN ctx' : ~ctx'[m].commited /\ ctx'[m].id = ctx'[l].id => m = l
      BY <1>8, <2>10 DEF q
    <3>2. \A i \in DOMAIN prepared' :
              /\ prepared'[i] \in new_ids' /\ Val(values', prepared'[i]) = None
              /\ \A m \in DOMAIN prepared' : prepared'[m] = prepared'[i] => m = i
      BY <2>1, <2>6, <2>7, <2>8 DEF q
    <3>3. \A l \in DOMAIN ctx' : ctx'[l].id # 0
      BY <1>8
    <3> QED
      BY <3>1, <3>2, <3>3 DEF Hashing
  <2>12. ContextOK'
    <3>1. Shape(ctx)'
      BY <1>1, <1>8 DEF Shape
    <3> QED
      BY <1>1, <2>11, <3>1 DEF ContextOK, Operations
  <2>13. prepared' \in Seq(Ids) /\ Len(prepared') <= 2
    BY <2>1, <2>2 DEF q
  <2> QED
    BY <1>1, <1>4, <2>12, <2>13, OwnedByHashing
<1> QED
  BY <1>7, <1>8, HashEntryIs DEF id

LEMMA OwnedHashPanics ==
    ASSUME Ownership, HashPanics
    PROVE  Ownership'
<1>1. /\ free_ids # <<>> /\ free_ids' = Tail(free_ids) /\ pc' = "poisoned"
      /\ UNCHANGED <<ctx, prepared, hashes, values, new_ids, current_cycle, context_hashes, started,
                     channel, gc>>
  BY DEF HashPanics
<1>2. /\ free_ids' \in Seq(Ids) /\ Len(free_ids') <= Len(free_ids)
      /\ Range(Released') \subseteq Range(Released) /\ Distinct(Released')
  BY <1>1, TakeFree DEF Ownership, Apart
<1>3. CollectorTypes'
  BY <1>1, <1>2, FewerFree DEF Ownership
<1>4. MainTypes'
  BY <1>1 DEF Ownership, MainTypes, Pcs
<1>5. ContextOK'
  BY <1>1 DEF Ownership, ContextOK, Shape, Operations
<1>6. cycles' = cycles
  BY <1>1 DEF gc
<1>7. Apart'
  BY <1>1, <1>2, <1>6 DEF Ownership, Apart
<1>8. Counted'
  BY <1>1, <1>2, <1>6 DEF Ownership, Counted
<1> QED
  BY <1>3, <1>4, <1>5, <1>7, <1>8 DEF Ownership

\* After hash and commit every node is a committed one, with its id.
LEMMA AllCommited ==
    ASSUME Ownership, pc \in {"hash", "commit"}, Len(prepared) = 2,
           ctx' = [l \in DOMAIN ctx |-> Node(ctx[l].id, TRUE)]
    PROVE  /\ Shape(ctx) /\ Hashing(ctx, new_ids, values, prepared) /\ Shape(ctx')
           /\ DOMAIN ctx' = DOMAIN ctx /\ Len(ctx') = Len(ctx) /\ prepared # <<>>
           /\ \A l \in DOMAIN ctx : /\ ctx'[l].commited = TRUE
                                    /\ ctx'[l].id = ctx[l].id /\ ctx[l].id \in Ids
<1>1. Shape(ctx) /\ Hashing(ctx, new_ids, values, prepared)
  BY DEF Ownership, ContextOK, Operations
<1>2. prepared # <<>>
  <2> SUFFICES ASSUME prepared = <<>> PROVE FALSE
    OBVIOUS
  <2>1. Len(<<>>) = 2
    OBVIOUS
  <2> QED
    BY <2>1
<1>3. ctx \in Seq(Nodes) /\ DOMAIN ctx = 1..Len(ctx) /\ Len(ctx) \in Nat /\ Len(ctx) <= Levels
  BY <1>1 DEF Shape
<1>4. \A l \in DOMAIN ctx : ctx[l].id \in Ids
  <2> SUFFICES ASSUME NEW l \in DOMAIN ctx PROVE ctx[l].id \in Ids
    OBVIOUS
  <2>1. ctx[l].id # 0
    BY <1>1, <1>2 DEF Hashing
  <2>2. ctx[l] \in Nodes
    BY <1>3
  <2>3. ctx[l].id \in 0..MaxId
    BY <2>2 DEF Nodes
  <2> QED
    BY <2>1, <2>3, Sizes DEF Ids
<1>5. \A l \in DOMAIN ctx : ctx'[l] = Node(ctx[l].id, TRUE)
  OBVIOUS
<1>6. ASSUME NEW l \in DOMAIN ctx PROVE ctx'[l].commited = TRUE /\ ctx'[l].id = ctx[l].id
  <2> DEFINE x == ctx[l].id
  <2> HIDE DEF x
  <2>1. ctx'[l] = Node(x, TRUE)
    BY <1>5 DEF x
  <2>2. Node(x, TRUE).id = x /\ Node(x, TRUE).commited = TRUE
    BY NodeIs
  <2> QED
    BY <2>1, <2>2 DEF x
<1>7. \A l \in DOMAIN ctx : ctx'[l] \in Nodes
  <2> SUFFICES ASSUME NEW l \in DOMAIN ctx PROVE Node(ctx[l].id, TRUE) \in Nodes
    BY <1>5
  <2>1. ctx[l].id \in 0..MaxId
    BY <1>4, Sizes DEF Ids
  <2> QED
    BY <2>1 DEF Node, Nodes
<1>8. DOMAIN ctx' = DOMAIN ctx
  OBVIOUS
<1>9. ctx' \in Seq(Nodes) /\ Len(ctx') = Len(ctx)
  <2> DEFINE k == Len(ctx)
  <2>1. ctx' \in [1..k -> Nodes] /\ k \in Nat
    <3>1. \A l \in DOMAIN ctx : Node(ctx[l].id, TRUE) \in Nodes
      BY <1>5, <1>7
    <3>2. ctx' \in [DOMAIN ctx -> Nodes]
      BY <3>1, Zenon
    <3>3. DOMAIN ctx = 1..k /\ k \in Nat
      BY <1>3
    <3> HIDE DEF k
    <3> QED
      BY <3>2, <3>3, Zenon
  <2> HIDE DEF k
  <2>2. ctx' \in Seq(Nodes) /\ Len(ctx') = k
    BY <2>1, SeqIntro, Zenon
  <2> QED
    BY <2>2 DEF k
<1>10. \A l \in DOMAIN ctx : ctx[l].id # 0
  BY <1>4, Sizes DEF Ids
<1>11. Shape(ctx')
  BY <1>3, <1>6, <1>8, <1>9, <1>10 DEF Shape
<1> QED
  BY <1>1, <1>2, <1>4, <1>6, <1>8, <1>9, <1>11

LEMMA OwnedHashDone ==
    ASSUME Ownership, HashDone
    PROVE  Ownership'
<1>1. /\ pc = "hash" /\ Len(prepared) = 2 /\ pc' = "idle" /\ prepared' = <<>>
      /\ ctx' = [l \in DOMAIN ctx |-> Node(ctx[l].id, TRUE)]
      /\ UNCHANGED <<Owners, context_hashes, started>>
  BY DEF HashDone, Owners
<1>2. Shape(ctx') /\ \A l \in DOMAIN ctx' : ctx'[l].commited = TRUE
  BY <1>1, AllCommited
<1>3. ContextOK'
  BY <1>1, <1>2, AtRest
<1>4. prepared' \in Seq(Ids) /\ Len(prepared') <= 2 /\ pc' \in Pcs
  BY <1>1 DEF Pcs
<1> QED
  BY <1>1, <1>3, <1>4, SameOwners

LEMMA OwnedRootDone ==
    ASSUME Ownership, RootDone
    PROVE  Ownership'
<1>1. /\ pc = "root" /\ pc' = "idle" /\ prepared' = <<>> /\ ctx' = ctx
      /\ UNCHANGED <<Owners, context_hashes, started>>
  BY DEF RootDone, Owners
<1>2. Shape(ctx) /\ Hashing(ctx, new_ids, values, prepared)
  BY <1>1 DEF Ownership, ContextOK, Operations
<1>3. Hashing(ctx, new_ids, values, <<>>)
  <2>1. Range(<<>>) = {} /\ DOMAIN <<>> = {}
    BY DEF Range
  <2> QED
    BY <1>2, <2>1 DEF Hashing
<1>4. ContextOK'
  BY <1>1, <1>2, <1>3 DEF ContextOK, Owners
<1>5. prepared' \in Seq(Ids) /\ Len(prepared') <= 2 /\ pc' \in Pcs
  BY <1>1 DEF Pcs
<1> QED
  BY <1>1, <1>4, <1>5, SameOwners

-----------------------------------------------------------------------------
(* The commands.                                                           *)

LEMMA CommandIs ==
    ASSUME NEW c \in Commands
    PROVE  /\ IsCycle(c) => c.new_ids \in SUBSET Ids /\ c.values_in_cycle \in Cycle /\ New(c) = c.new_ids
           /\ ~IsCycle(c) => c.reused \in SUBSET Ids /\ New(c) = {}
           /\ "reused" \in DOMAIN c <=> ~IsCycle(c)
<1>1. CASE c \in [reused : SUBSET Ids]
  <2>1. DOMAIN c = {"reused"} /\ c.reused \in SUBSET Ids
    BY <1>1
  <2>2. ~IsCycle(c)
    BY <2>1 DEF IsCycle
  <2> QED
    BY <2>1, <2>2 DEF New
<1>2. CASE c \in [values_in_cycle : Cycle, new_ids : SUBSET Ids]
  <2>1. DOMAIN c = {"values_in_cycle", "new_ids"} /\ c.new_ids \in SUBSET Ids /\ c.values_in_cycle \in Cycle
    BY <1>2
  <2>2. IsCycle(c) /\ "reused" \notin DOMAIN c
    BY <2>1 DEF IsCycle
  <2> QED
    BY <2>1, <2>2 DEF New
<1> QED
  BY <1>1, <1>2 DEF Commands

LEMMA ReusedCommand ==
    ASSUME NEW ids \in SUBSET Ids
    PROVE  LET c == [reused |-> ids] IN c \in Commands /\ ~IsCycle(c) /\ c.reused = ids
<1> DEFINE c == [reused |-> ids]
<1>1. c \in [reused : SUBSET Ids] /\ DOMAIN c = {"reused"} /\ c.reused = ids
  OBVIOUS
<1> HIDE DEF c
<1>2. c \in Commands /\ ~IsCycle(c)
  BY <1>1 DEF Commands, IsCycle
<1> QED
  BY <1>1, <1>2 DEF c

LEMMA CycleCommand ==
    ASSUME NEW cycle \in Cycle, NEW ids \in SUBSET Ids
    PROVE  LET c == [values_in_cycle |-> cycle, new_ids |-> ids]
           IN  c \in Commands /\ IsCycle(c) /\ c.values_in_cycle = cycle /\ c.new_ids = ids /\ New(c) = ids
<1> DEFINE c == [values_in_cycle |-> cycle, new_ids |-> ids]
<1>1. /\ c \in [values_in_cycle : Cycle, new_ids : SUBSET Ids]
      /\ DOMAIN c = {"values_in_cycle", "new_ids"} /\ c.values_in_cycle = cycle /\ c.new_ids = ids
  OBVIOUS
<1> HIDE DEF c
<1>2. c \in Commands /\ IsCycle(c) /\ New(c) = ids
  BY <1>1 DEF Commands, IsCycle, New
<1> QED
  BY <1>1, <1>2 DEF c

\* One more command.
LEMMA Sent ==
    ASSUME NEW commands \in Seq(Commands), NEW c \in Commands
    PROVE  LET a == Append(commands, c)
               n == Len(commands)
           IN  /\ a \in Seq(Commands) /\ Len(a) = n + 1 /\ n \in Nat
               /\ DOMAIN commands = 1..n /\ DOMAIN a = 1..(n + 1) /\ a[n + 1] = c
               /\ \A j \in 1..n : j \in 1..(n + 1) /\ a[j] = commands[j]
               /\ \A j \in 1..(n + 1) : (j \in 1..n /\ a[j] = commands[j]) \/ (j = n + 1 /\ a[j] = c)
<1> DEFINE a == Append(commands, c)
           n == Len(commands)
<1>1. /\ a \in Seq(Commands) /\ Len(a) = n + 1 /\ n \in Nat /\ a[n + 1] = c
      /\ \A j \in 1..n : a[j] = commands[j]
  BY AppendProperties
<1>2. DOMAIN commands = 1..n /\ DOMAIN a = 1..(n + 1)
  BY <1>1
<1> HIDE DEF a, n
<1>3. \A j \in 1..(n + 1) : (j \in 1..n /\ a[j] = commands[j]) \/ (j = n + 1 /\ a[j] = c)
  BY <1>1
<1>4. \A j \in 1..n : j \in 1..(n + 1)
  BY <1>1
<1> QED
  BY <1>1, <1>2, <1>3, <1>4 DEF a, n

\* One command less.
LEMMA Taken ==
    ASSUME NEW commands \in Seq(Commands), commands # <<>>
    PROVE  LET t == Tail(commands)
               n == Len(commands)
           IN  /\ t \in Seq(Commands) /\ Len(t) = n - 1 /\ n \in Nat \ {0} /\ n - 1 \in Nat
               /\ DOMAIN commands = 1..n /\ DOMAIN t = 1..(n - 1)
               /\ Head(commands) = commands[1] /\ 1 \in 1..n
               /\ \A j \in 1..(n - 1) : j + 1 \in 1..n /\ j + 1 # 1 /\ t[j] = commands[j + 1]
               /\ \A j \in 1..n : j = 1 \/ (j - 1 \in 1..(n - 1) /\ t[j - 1] = commands[j])
<1> DEFINE t == Tail(commands)
           n == Len(commands)
<1>1. /\ t \in Seq(Commands) /\ Len(t) = n - 1 /\ n \in Nat \ {0} /\ Head(commands) = commands[1]
      /\ \A i \in 1..(n - 1) : t[i] = commands[i + 1]
  BY HeadTailProperties, EmptySeq
<1>2. DOMAIN commands = 1..n /\ DOMAIN t = 1..(n - 1)
  BY <1>1, LenProperties
<1> HIDE DEF t, n
<1>3. n - 1 \in Nat /\ 1 \in 1..n /\ \A j \in 1..(n - 1) : j + 1 \in 1..n /\ j + 1 # 1
  BY <1>1
<1>4. ASSUME NEW j \in 1..n, j # 1 PROVE j - 1 \in 1..(n - 1) /\ t[j - 1] = commands[j]
  <2>1. j - 1 \in 1..(n - 1) /\ (j - 1) + 1 = j
    BY <1>1, <1>4
  <2> QED
    BY <1>1, <2>1
<1> QED
  BY <1>1, <1>2, <1>3, <1>4 DEF t, n

-----------------------------------------------------------------------------
(* What a commit writes.                                                   *)

\* A set of numbers with every number below each of its members.
LEMMA DownClosed ==
    ASSUME NEW N \in Nat, NEW S \in SUBSET (1..N), \A l \in S : \A m \in 1..l : m \in S
    PROVE  Cardinality(S) \in 0..N /\ S = 1..Cardinality(S)
<1>1. \E k \in 0..N : S = 1..k
  <2>1. CASE S = {}
    <3>1. S = 1..0 /\ 0 \in 0..N
      BY <2>1
    <3> QED
      BY <3>1
  <2>2. CASE S # {}
    <3> DEFINE k == Max(S)
    <3>1. S \in SUBSET (0..N)
      OBVIOUS
    <3>2. k \in S /\ \A y \in S : y <= k
      BY <2>2, <3>1, MaxIs
    <3> HIDE DEF k
    <3>3. k \in 0..N /\ k \in 1..N
      BY <3>2
    <3>4. \A l : l \in S => l \in 1..k
      BY <3>2, <3>3
    <3>5. S = 1..k
      BY <3>2, <3>4
    <3> QED
      BY <3>3, <3>5
  <2> QED
    BY <2>1, <2>2
<1>2. PICK k \in 0..N : S = 1..k
  BY <1>1
<1>3. Cardinality(1..k) = k
  <2>1. k \in Int /\ 1 \in Int /\ k \in Nat
    OBVIOUS
  <2>2. Cardinality(1..k) = IF 1 > k THEN 0 ELSE k - 1 + 1
    BY <2>1, FS_Interval
  <2> QED
    BY <2>1, <2>2
<1> QED
  BY <1>2, <1>3

\* The nodes that the commit adds are the first ones of the context.
LEMMA UncommitedIs ==
    ASSUME Shape(ctx)
    PROVE  LET k == Cardinality(Uncommited)
           IN  /\ k \in 0..Len(ctx) /\ Uncommited = 1..k
               /\ \A l \in 1..k : l \in DOMAIN ctx /\ ~ctx[l].commited
               /\ \A l \in DOMAIN ctx : l > k => ctx[l].commited
<1> DEFINE k == Cardinality(Uncommited)
           N == Len(ctx)
<1>1. N \in Nat /\ DOMAIN ctx = 1..N
  BY DEF Shape
<1>2. Uncommited \in SUBSET (1..N) /\ \A l \in Uncommited : \A m \in 1..l : m \in Uncommited
  <2>1. \A l : l \in Uncommited <=> l \in 1..N /\ \A m \in 1..l : ~ctx[m].commited
    BY <1>1 DEF Uncommited
  <2> HIDE DEF N
  <2>2. ASSUME NEW l \in Uncommited, NEW m \in 1..l PROVE m \in Uncommited
    <3>1. l \in 1..N /\ \A i \in 1..l : ~ctx[i].commited
      BY <2>1
    <3>2. m \in 1..N /\ \A i \in 1..m : i \in 1..l
      BY <1>1, <3>1
    <3> QED
      BY <2>1, <3>1, <3>2
  <2> QED
    BY <2>1, <2>2
<1>3. k \in 0..N /\ Uncommited = 1..k
  <2> HIDE DEF N
  <2> QED
    BY <1>1, <1>2, DownClosed
<1> HIDE DEF k
<1>4. ASSUME NEW l \in 1..k PROVE l \in DOMAIN ctx /\ ~ctx[l].commited
  <2>1. l \in Uncommited /\ l \in 1..l
    BY <1>3
  <2> QED
    BY <2>1 DEF Uncommited
<1>5. ASSUME NEW l \in DOMAIN ctx, l > k PROVE ctx[l].commited
  <2> SUFFICES ASSUME ~ctx[l].commited PROVE FALSE
    OBVIOUS
  <2>1. l \in 1..N
    BY <1>1
  <2>2. \A m \in 1..l : m \in DOMAIN ctx /\ (m < l \/ m = l)
    <3> HIDE DEF N
    <3> QED
      BY <1>1, <2>1
  <2>3. \A m \in 1..l : ~ctx[m].commited
    BY <2>2 DEF Shape
  <2>4. l \in Uncommited
    BY <2>3 DEF Uncommited
  <2> HIDE DEF N
  <2> QED
    BY <1>1, <1>3, <1>5, <2>1, <2>4
<1> QED
  BY <1>3, <1>4, <1>5 DEF k

LEMMA BatchIs ==
    ASSUME Ownership, pc = "commit", Len(prepared) = 2
    PROVE  LET k == Cardinality(Uncommited)
           IN  /\ Shape(ctx) /\ Hashing(ctx, new_ids, values, prepared) /\ \A l \in DOMAIN ctx : ctx[l].id \in Ids
               /\ \A l \in 0..Len(ctx) : Below(l) = BelowOf(ctx, l) /\ Below(l) \in SUBSET Ids
               /\ Batch \in Cycle /\ ReferencedOlderEntries = BelowOf(ctx, k)
               /\ \A x : x \in DOMAIN Batch <=>
                     x = prepared[1] \/ x = prepared[2] \/ \E l \in 1..k : x = ctx[l].id
               /\ \A x \in DOMAIN Batch : x \in new_ids /\ Val(values, x) = None /\ Batch[x] \in SUBSET Ids
               /\ Batch[prepared[2]] = {prepared[1]} /\ Batch[prepared[1]] = BelowOf(ctx, 0)
               /\ \A l \in 1..k : Batch[ctx[l].id] = BelowOf(ctx, l)
               /\ prepared[1] \in Ids /\ prepared[2] \in Ids
<1> DEFINE k == Cardinality(Uncommited)
           r == prepared[1]
           c == prepared[2]
           D == Range(prepared) \cup {ctx[l].id : l \in Uncommited}
           Node1(x) == CHOOSE l \in Uncommited : ctx[l].id = x
           Entry(x) == CASE x = c -> {r} [] x = r -> Below(0) [] OTHER -> Below(Node1(x))
<1>1. Shape(ctx) /\ Hashing(ctx, new_ids, values, prepared)
  BY DEF Ownership, ContextOK, Operations
<1>2. /\ prepared \in Seq(Ids) /\ prepared # <<>> /\ DOMAIN prepared = 1..2 /\ r \in Ids /\ c \in Ids
  <2>1. prepared \in Seq(Ids) /\ DOMAIN prepared = 1..2 /\ 1 \in 1..2 /\ 2 \in 1..2
    BY DEF Ownership, MainTypes
  <2>2. r \in Ids /\ c \in Ids
    BY <2>1
  <2>3. prepared # <<>>
    <3>1. Len(prepared) # 0
      OBVIOUS
    <3> QED
      BY <2>1, <3>1, EmptySeq
  <2> QED
    BY <2>1, <2>2, <2>3
<1>3. \A x : x \in Range(prepared) <=> x = r \/ x = c
  <2>1. \A x : x \in Range(prepared) <=> \E i \in 1..2 : x = prepared[i]
    BY <1>2 DEF Range
  <2>2. \A i : i \in 1..2 <=> i = 1 \/ i = 2
    OBVIOUS
  <2> QED
    BY <2>1, <2>2
<1>4. ctx \in Seq(Nodes) /\ DOMAIN ctx = 1..Len(ctx) /\ Len(ctx) \in Nat
  BY <1>1 DEF Shape
<1>5. \A l \in DOMAIN ctx : ctx[l].id \in Ids
  <2> SUFFICES ASSUME NEW l \in DOMAIN ctx PROVE ctx[l].id \in Ids
    OBVIOUS
  <2>1. ctx[l].id # 0
    BY <1>1, <1>2 DEF Hashing
  <2>2. ctx[l] \in Nodes
    BY <1>4
  <2>3. ctx[l].id \in 0..MaxId
    BY <2>2 DEF Nodes
  <2> QED
    BY <2>1, <2>3, Sizes DEF Ids
<1>6. \A l \in 0..Len(ctx) : Below(l) = BelowOf(ctx, l) /\ Below(l) \in SUBSET Ids
  <2> SUFFICES ASSUME NEW l \in 0..Len(ctx) PROVE Below(l) = BelowOf(ctx, l) /\ Below(l) \in SUBSET Ids
    OBVIOUS
  <2>1. l < Len(ctx) => l + 1 \in DOMAIN ctx
    BY <1>4
  <2> QED
    BY <1>5, <2>1 DEF Below, BelowOf
<1>7. /\ k \in 0..Len(ctx) /\ Uncommited = 1..k
      /\ \A l \in 1..k : l \in DOMAIN ctx /\ ~ctx[l].commited
  BY <1>1, UncommitedIs
<1>8. \A l \in 1..k : l \in 0..Len(ctx) /\ 0 \in 0..Len(ctx)
  BY <1>4, <1>7
<1>9. /\ r \in new_ids /\ Val(values, r) = None /\ c \in new_ids /\ Val(values, c) = None /\ r # c
      /\ \A l \in 1..k : /\ ctx[l].id \in new_ids /\ Val(values, ctx[l].id) = None /\ ctx[l].id # r /\ ctx[l].id # c
                         /\ \A m \in 1..k : ctx[m].id = ctx[l].id => m = l
  <2>1. /\ r \in new_ids /\ Val(values, r) = None /\ c \in new_ids /\ Val(values, c) = None
    BY <1>1, <1>2 DEF Hashing
  <2>2. r # c
    <3>1. 1 \in DOMAIN prepared /\ 2 \in DOMAIN prepared /\ 1 # 2
      BY <1>2
    <3> QED
      BY <1>1, <3>1 DEF Hashing
  <2>3. ASSUME NEW l \in 1..k
        PROVE  /\ ctx[l].id \in new_ids /\ Val(values, ctx[l].id) = None /\ ctx[l].id \notin Range(prepared)
               /\ \A m \in 1..k : ctx[m].id = ctx[l].id => m = l
    <3>1. l \in DOMAIN ctx /\ ~ctx[l].commited /\ ctx[l].id # 0
      BY <1>1, <1>2, <1>7 DEF Hashing
    <3> QED
      BY <1>1, <1>7, <3>1 DEF Hashing
  <2> QED
    BY <1>3, <2>1, <2>2, <2>3
<1>10. Batch = [x \in D |-> Entry(x)]
  BY DEF Batch
<1>11. ReferencedOlderEntries = BelowOf(ctx, k)
  BY <1>6, <1>7 DEF ReferencedOlderEntries
<1>12. \A x : x \in D <=> x = r \/ x = c \/ \E l \in 1..k : x = ctx[l].id
  BY <1>3, <1>7
<1>13. Entry(c) = {r} /\ Entry(r) = Below(0)
  BY <1>9
<1>14. ASSUME NEW l \in 1..k PROVE Entry(ctx[l].id) = Below(l)
  <2> DEFINE x == ctx[l].id
  <2>1. x # c /\ x # r /\ l \in Uncommited /\ \A m \in Uncommited : ctx[m].id = x => m = l
    BY <1>7, <1>9
  <2>2. Node1(x) = l
    BY <2>1
  <2> HIDE DEF x, Node1
  <2>3. Entry(x) = Below(Node1(x))
    BY <2>1
  <2> QED
    BY <2>2, <2>3 DEF x
<1> HIDE DEF D, Entry, k, r, c
<1>15. DOMAIN Batch = D /\ \A x \in D : Batch[x] = Entry(x)
  BY <1>10
<1>16. ASSUME NEW x \in D PROVE Entry(x) \in SUBSET Ids /\ x \in new_ids /\ Val(values, x) = None /\ x \in Ids
  <2>1. CASE x = c
    BY <1>2, <1>9, <1>13, <2>1
  <2>2. CASE x = r
    <3>1. 0 \in 0..Len(ctx)
      BY <1>4
    <3> QED
      BY <1>2, <1>6, <1>9, <1>13, <2>2, <3>1
  <2>3. CASE \E l \in 1..k : x = ctx[l].id
    <3>1. PICK l \in 1..k : x = ctx[l].id
      BY <2>3
    <3> QED
      BY <1>5, <1>6, <1>7, <1>8, <1>9, <1>14, <3>1
  <2> QED
    BY <1>12, <2>1, <2>2, <2>3
<1>17. Batch \in Cycle
  <2>1. D \in SUBSET Ids
    BY <1>16
  <2>2. Batch \in [D -> Values]
    BY <1>10, <1>16 DEF Values
  <2> QED
    BY <2>1, <2>2, IsCycleOf
<1>18. Batch[c] = {r} /\ Batch[r] = BelowOf(ctx, 0)
  <2>1. 0 \in 0..Len(ctx)
    BY <1>4
  <2> QED
    BY <1>6, <1>12, <1>13, <1>15, <2>1
<1>19. \A l \in 1..k : Batch[ctx[l].id] = BelowOf(ctx, l)
  BY <1>6, <1>8, <1>12, <1>14, <1>15
<1>20. \A x \in DOMAIN Batch : x \in new_ids /\ Val(values, x) = None /\ Batch[x] \in SUBSET Ids
  BY <1>15, <1>16
<1>21. \A x : x \in DOMAIN Batch <=> x = r \/ x = c \/ \E l \in 1..k : x = ctx[l].id
  BY <1>12, <1>15
<1> QED
  BY <1>1, <1>2, <1>5, <1>6, <1>11, <1>17, <1>18, <1>19, <1>20, <1>21 DEF r, c, k

LEMMA WriteIs ==
    ASSUME NEW N \in Nat, values \in Seq(Values), Len(values) <= N,
           NEW batch \in Cycle, DOMAIN batch \subseteq 1..N
    PROVE  /\ WriteBatch(batch) \in Seq(Values) /\ Len(WriteBatch(batch)) <= N
           /\ \A x : Val(WriteBatch(batch), x) = IF x \in DOMAIN batch THEN batch[x] ELSE Val(values, x)
<1> DEFINE n == Len(values)
           B == DOMAIN batch
           S == {n} \cup B
           M == Max(S)
           w == WriteBatch(batch)
<1>1. n \in Nat /\ n <= N /\ DOMAIN values = 1..n /\ B \subseteq 1..N
  OBVIOUS
<1>2. w = [id \in 1..M |-> IF id \in B THEN batch[id] ELSE Val(values, id)]
  BY DEF WriteBatch, ValueAt, Val
<1>3. \A x \in B : batch[x] \in Values
  BY CycleFacts
<1>4. \A x : Val(values, x) \in Values
  BY ValType
<1>5. \A x : x \notin DOMAIN values => Val(values, x) = None
  BY DEF Val
<1> HIDE DEF n, B, w
<1>6. S \in SUBSET (0..N) /\ S # {}
  BY <1>1
<1>7. M \in S /\ \A y \in S : y <= M
  <2> HIDE DEF S
  <2> QED
    BY <1>6, MaxIs
<1> HIDE DEF M
<1>8. M \in 0..N /\ n <= M /\ \A x \in B : x \in 1..M
  BY <1>1, <1>6, <1>7
<1>9. w \in [1..M -> Values] /\ DOMAIN w = 1..M
  BY <1>2, <1>3, <1>4, Zenon
<1>10. w \in Seq(Values) /\ Len(w) = M
  BY <1>8, <1>9, SeqIntro
<1>11. ASSUME NEW x PROVE Val(w, x) = IF x \in B THEN batch[x] ELSE Val(values, x)
  <2>1. CASE x \in 1..M
    <3>1. Val(w, x) = w[x]
      BY <1>9, <2>1 DEF Val
    <3>2. w[x] = IF x \in B THEN batch[x] ELSE Val(values, x)
      BY <1>2, <2>1, Zenon
    <3> QED
      BY <3>1, <3>2
  <2>2. CASE x \notin 1..M
    <3>1. Val(w, x) = None
      BY <1>9, <2>2 DEF Val
    <3>2. 1..n \subseteq 1..M /\ B \subseteq 1..M
      BY <1>1, <1>8
    <3>3. x \notin B /\ x \notin 1..n
      BY <2>2, <3>2
    <3> QED
      BY <1>1, <1>5, <3>1, <3>3
  <2> QED
    BY <2>1, <2>2
<1> QED
  BY <1>8, <1>10, <1>11 DEF w, B

\* The ids along the tree of a commit.
PathOf(root, context) == <<root>> \o [l \in DOMAIN context |-> context[l].id]

LEMMA PathOfIs ==
    ASSUME NEW root \in Ids, NEW context \in Seq(Nodes), \A l \in DOMAIN context : context[l].id \in Ids
    PROVE  LET path == PathOf(root, context)
           IN  /\ path \in Seq(Ids) /\ Len(path) = Len(context) + 1 /\ path[1] = root
               /\ \A l \in 1..Len(context) : path[l + 1] = context[l].id
<1> DEFINE n == Len(context)
           t == [l \in DOMAIN context |-> context[l].id]
           r == <<root>>
<1>1. n \in Nat /\ DOMAIN context = 1..n
  OBVIOUS
<1>2. t \in [1..n -> Ids]
  BY <1>1, Zenon
<1>3. \A l \in 1..n : t[l] = context[l].id
  BY <1>1
<1>4. r \in Seq(Ids) /\ Len(r) = 1 /\ r[1] = root
  OBVIOUS
<1> HIDE DEF n, t, r
<1>5. t \in Seq(Ids) /\ Len(t) = n
  BY <1>1, <1>2, SeqIntro
<1> DEFINE path == r \o t
<1>6. /\ path \in Seq(Ids) /\ Len(path) = 1 + n
      /\ \A i \in 1..(1 + n) : path[i] = IF i <= 1 THEN r[i] ELSE t[i - 1]
  <2>1. /\ path \in Seq(Ids) /\ Len(path) = Len(r) + Len(t)
        /\ \A i \in 1..(Len(r) + Len(t)) : path[i] = IF i <= Len(r) THEN r[i] ELSE t[i - Len(r)]
    BY <1>4, <1>5, ConcatProperties
  <2> HIDE DEF path
  <2> QED
    BY <1>4, <1>5, <2>1
<1> HIDE DEF path
<1>7. path[1] = root
  BY <1>1, <1>4, <1>6
<1>8. ASSUME NEW l \in 1..n PROVE path[l + 1] = context[l].id
  <2>1. l + 1 \in 1..(1 + n) /\ ~(l + 1 <= 1) /\ (l + 1) - 1 = l
    BY <1>1
  <2>2. path[l + 1] = t[(l + 1) - 1]
    BY <1>6, <2>1
  <2> QED
    BY <1>3, <2>1, <2>2
<1>9. PathOf(root, context) = path
  BY DEF PathOf, path, r, t
<1>10. Len(path) = n + 1
  BY <1>1, <1>6
<1> QED
  BY <1>6, <1>7, <1>8, <1>9, <1>10 DEF n

LEMMA OwnedCommit ==
    ASSUME Ownership, Commit
    PROVE  Ownership'
<1> DEFINE c == [reused |-> ReferencedOlderEntries]
           record == [id |-> prepared[2], path |-> PathOf(prepared[1], ctx)]
           k == Cardinality(Uncommited)
<1>1. /\ MainTypes /\ CollectorTypes /\ ContextOK /\ Apart /\ Counted
  BY DEF Ownership
<1>2. /\ pc = "commit" /\ Len(prepared) = 2 /\ Len(channel) < MaxCommands
      /\ values' = WriteBatch(Batch) /\ current_cycle' = InsertAll(current_cycle, Batch)
      /\ context_hashes' = [context_hashes EXCEPT ![P] = @ \cup {record}]
      /\ channel' = Append(channel, c)
      /\ ctx' = [l \in DOMAIN ctx |-> Node(ctx[l].id, TRUE)]
      /\ pc' = "idle" /\ prepared' = <<>>
      /\ UNCHANGED <<hashes, new_ids, started, free_ids, gc>>
  BY DEF Commit, P, PathOf
<1>3. /\ Shape(ctx) /\ Hashing(ctx, new_ids, values, prepared) /\ \A l \in DOMAIN ctx : ctx[l].id \in Ids
      /\ Batch \in Cycle /\ k \in 0..Len(ctx) /\ ReferencedOlderEntries = BelowOf(ctx, k)
      /\ \A l \in 0..Len(ctx) : BelowOf(ctx, l) \in SUBSET Ids
      /\ \A x \in DOMAIN Batch : x \in new_ids
      /\ prepared[1] \in Ids /\ prepared[2] \in Ids
  BY <1>2, BatchIs, UncommitedIs
<1>4. DOMAIN Batch \subseteq 1..hashes /\ DOMAIN Batch \subseteq new_ids
  BY <1>1, <1>3 DEF Counted
<1>5. ReferencedOlderEntries \in SUBSET Ids
  BY <1>3
<1> HIDE DEF k
<1>6. c \in Commands /\ ~IsCycle(c) /\ New(c) = {}
  <2>1. c \in Commands /\ ~IsCycle(c)
    BY <1>5, ReusedCommand, Zenon
  <2> QED
    BY <2>1 DEF New
<1>7. hashes \in Nat /\ values \in Seq(Values) /\ Len(values) <= hashes
  BY <1>1, Sizes DEF MainTypes
<1>8. values' \in Seq(Values) /\ Len(values') <= hashes
  BY <1>2, <1>3, <1>4, <1>7, WriteIs
<1>9. record \in CommitRecords
  <2>1. PathOf(prepared[1], ctx) \in Seq(Ids)
    BY <1>3, PathOfIs DEF Shape
  <2> QED
    BY <1>3, <2>1, Zenon DEF CommitRecords
<1>10. context_hashes' \in [1..P -> SUBSET CommitRecords]
  <2>1. context_hashes \in [1..P -> SUBSET CommitRecords] /\ P \in 1..P
    BY <1>1, Sizes DEF MainTypes
  <2> HIDE DEF record
  <2> QED
    BY <1>2, <1>9, <2>1
<1>11. current_cycle' \in Cycle /\ DOMAIN current_cycle' \subseteq new_ids
  <2>1. current_cycle \in Cycle /\ DOMAIN current_cycle \subseteq new_ids
    BY <1>1 DEF MainTypes
  <2> QED
    <3>1. /\ InsertAll(current_cycle, Batch) \in Cycle
          /\ DOMAIN InsertAll(current_cycle, Batch) = DOMAIN current_cycle \cup DOMAIN Batch
      BY <1>3, <2>1, InsertAllIs
    <3> QED
      BY <1>2, <1>4, <2>1, <3>1
<1>12. MainTypes'
  <2>1. <<>> \in Seq(Ids) /\ Len(<<>>) <= 2
    OBVIOUS
  <2>2. hashes' = hashes /\ new_ids' = new_ids /\ started' = started
    BY <1>2
  <2> QED
    BY <1>1, <1>2, <1>8, <1>10, <1>11, <2>1, <2>2 DEF MainTypes, Pcs
<1> DEFINE n == Len(channel)
<1> HIDE DEF c, n
<1>13. /\ channel \in Seq(Commands) /\ channel' \in Seq(Commands) /\ n \in Nat /\ Len(channel') = n + 1
       /\ DOMAIN channel = 1..n /\ DOMAIN channel' = 1..(n + 1)
       /\ \A j \in 1..(n + 1) : \/ j \in 1..n /\ channel'[j] = channel[j]
                                \/ j = n + 1 /\ channel'[j] = c
  <2>1. channel \in Seq(Commands)
    BY <1>1 DEF CollectorTypes
  <2> QED
    BY <1>2, <1>6, <2>1, Sent DEF n
<1>14. CollectorTypes'
  <2>1. Len(channel') <= MaxCommands
    BY <1>2, <1>13, Sizes DEF n
  <2>2. ASSUME NEW j \in DOMAIN channel', IsCycle(channel'[j])
        PROVE  DOMAIN channel'[j].values_in_cycle \subseteq channel'[j].new_ids
    <3>1. j \in 1..n /\ channel'[j] = channel[j]
      BY <1>6, <1>13, <2>2
    <3> QED
      BY <1>1, <1>13, <2>2, <3>1 DEF CollectorTypes
  <2>3. free_ids' = free_ids /\ cycles' = cycles /\ pending' = pending /\ sending' = sending
    BY <1>2 DEF gc
  <2> QED
    BY <1>1, <1>13, <2>1, <2>2, <2>3 DEF CollectorTypes
<1>15. ContextOK'
  <2>1. Shape(ctx') /\ \A l \in DOMAIN ctx' : ctx'[l].commited
    BY <1>2, AllCommited
  <2> QED
    BY <1>2, <2>1, AtRest
<1>16. \A j \in 1..(n + 1) : New(channel'[j]) = {} \/ (j \in 1..n /\ channel'[j] = channel[j])
  BY <1>6, <1>13
<1>17. Released' = Released /\ cycles' = cycles /\ new_ids' = new_ids /\ hashes' = hashes
  BY <1>2 DEF Released, gc
<1>18. Apart' /\ Counted'
  BY <1>1, <1>13, <1>16, <1>17 DEF Apart, Counted
<1> QED
  BY <1>12, <1>14, <1>15, <1>18 DEF Ownership

LEMMA KnownShift ==
    ASSUME NEW h \in [1..P -> SUBSET CommitRecords], NEW t, t = Append(Tail(h), {})
    PROVE  /\ t \in [1..P -> SUBSET CommitRecords] /\ t[P] = {}
           /\ \A n \in 1..(P - 1) : n + 1 \in 1..P /\ t[n] = h[n + 1]
<1>1. PICK S : S = SUBSET CommitRecords
  OBVIOUS
<1>2. PICK e : e = {}
  OBVIOUS
<1> DEFINE q == Append(Tail(h), e)
<1>3. h \in [1..P -> S] /\ e \in S /\ P \in Nat \ {0}
  BY <1>1, <1>2, Sizes
<1>4. h \in Seq(S) /\ Len(h) = P
  BY <1>3, SeqIntro
<1>5. h # <<>>
  BY <1>3, <1>4
<1>6. Tail(h) \in Seq(S) /\ Len(Tail(h)) = P - 1 /\ \A i \in 1..(P - 1) : Tail(h)[i] = h[i + 1]
  BY <1>3, <1>4, <1>5, HeadTailProperties
<1>7. q \in Seq(S) /\ Len(q) = P /\ q[P] = e
  BY <1>3, <1>6, AppendProperties
<1>8. \A n \in 1..(P - 1) : n + 1 \in 1..P /\ q[n] = h[n + 1]
  BY <1>3, <1>6, AppendProperties
<1>9. t = q
  BY <1>2
<1> HIDE DEF q
<1>10. q \in [1..P -> S]
  BY <1>7
<1> QED
  BY <1>1, <1>2, <1>7, <1>8, <1>9, <1>10

LEMMA CycleOfIs ==
    ASSUME NEW c \in Commands, IsCycle(c), DOMAIN c.values_in_cycle \subseteq c.new_ids
    PROVE  /\ CycleOf(c) \in Cycle /\ DOMAIN CycleOf(c) = New(c) /\ New(c) = c.new_ids
           /\ New(c) \in SUBSET Ids
           /\ \A x \in New(c) : CycleOf(c)[x] =
                 IF x \in DOMAIN c.values_in_cycle THEN c.values_in_cycle[x] ELSE None
<1> DEFINE ids == c.new_ids
           vals == c.values_in_cycle
           e == [id \in ids |-> None]
<1>1. ids \in SUBSET Ids /\ vals \in Cycle /\ New(c) = ids /\ DOMAIN vals \subseteq ids
  BY CommandIs
<1>2. CycleOf(c) = InsertAll(e, vals)
  BY DEF CycleOf
<1> HIDE DEF ids, vals
<1>3. e \in Cycle /\ DOMAIN e = ids /\ \A x \in ids : e[x] = None
  BY <1>1, EmptyValues, Zenon
<1> HIDE DEF e
<1>4. /\ InsertAll(e, vals) \in Cycle /\ DOMAIN InsertAll(e, vals) = ids
      /\ \A x \in ids : InsertAll(e, vals)[x] = IF x \in DOMAIN vals THEN vals[x] ELSE e[x]
  <2>1. /\ InsertAll(e, vals) \in Cycle /\ DOMAIN InsertAll(e, vals) = DOMAIN e \cup DOMAIN vals
        /\ \A x \in DOMAIN e \cup DOMAIN vals :
              InsertAll(e, vals)[x] = IF x \in DOMAIN vals THEN vals[x] ELSE e[x]
    BY <1>1, <1>3, InsertAllIs
  <2>2. DOMAIN e \cup DOMAIN vals = ids
    BY <1>1, <1>3
  <2> QED
    BY <2>1, <2>2
<1> QED
  BY <1>1, <1>2, <1>3, <1>4 DEF ids, vals

LEMMA NoCycleIs == NoCycle \in Cycle /\ DOMAIN NoCycle = {}
<1>1. NoCycle \in [{} -> Values] /\ DOMAIN NoCycle = {} /\ {} \in SUBSET Ids
  BY DEF NoCycle
<1> QED
  BY <1>1, IsCycleOf

LEMMA OwnedCycleStarted ==
    ASSUME Ownership, ~LeftOver, CycleStarted
    PROVE  Ownership'
<1> DEFINE c == [values_in_cycle |-> current_cycle, new_ids |-> new_ids]
           n == Len(channel)
<1>1. MainTypes /\ CollectorTypes /\ ContextOK /\ Apart /\ Counted
  BY DEF Ownership
<1>2. /\ pc = "idle" /\ ctx = None /\ started < MaxCycles /\ Len(channel) < MaxCommands
      /\ started' = started + 1 /\ channel' = Append(channel, c)
      /\ current_cycle' = NoCycle /\ new_ids' = {}
      /\ context_hashes' = Append(Tail(context_hashes), {})
      /\ UNCHANGED <<ctx, pc, prepared, hashes, values, free_ids, gc>>
  BY DEF CycleStarted, LeftOver
<1>3. current_cycle \in Cycle /\ new_ids \in SUBSET Ids /\ DOMAIN current_cycle \subseteq new_ids
  BY <1>1 DEF MainTypes
<1>4. /\ c \in Commands /\ IsCycle(c) /\ c.values_in_cycle = current_cycle /\ c.new_ids = new_ids
      /\ New(c) = new_ids
  BY <1>3, CycleCommand, Zenon
<1> HIDE DEF c, n
<1>5. /\ channel \in Seq(Commands) /\ channel' \in Seq(Commands) /\ n \in Nat /\ Len(channel') = n + 1
      /\ DOMAIN channel = 1..n /\ DOMAIN channel' = 1..(n + 1)
      /\ \A j \in 1..(n + 1) : \/ j \in 1..n /\ channel'[j] = channel[j]
                               \/ j = n + 1 /\ channel'[j] = c
  <2>1. channel \in Seq(Commands)
    BY <1>1 DEF CollectorTypes
  <2> QED
    BY <1>2, <1>4, <2>1, Sent DEF n
<1>6. context_hashes' \in [1..P -> SUBSET CommitRecords]
  <2>1. context_hashes \in [1..P -> SUBSET CommitRecords]
    BY <1>1 DEF MainTypes
  <2> QED
    BY <1>2, <2>1, KnownShift
<1>7. MainTypes'
  <2>1. started' \in 0..MaxCycles
    BY <1>1, <1>2, Sizes DEF MainTypes
  <2>2. hashes' = hashes /\ values' = values /\ pc' = pc /\ prepared' = prepared
    BY <1>2
  <2>3. current_cycle' \in Cycle /\ DOMAIN current_cycle' \subseteq new_ids' /\ new_ids' \in SUBSET Ids
    BY <1>2, NoCycleIs
  <2> QED
    BY <1>1, <1>6, <2>1, <2>2, <2>3 DEF MainTypes
<1>8. CollectorTypes'
  <2>1. Len(channel') <= MaxCommands
    BY <1>2, <1>5, Sizes DEF n
  <2>2. ASSUME NEW j \in DOMAIN channel', IsCycle(channel'[j])
        PROVE  DOMAIN channel'[j].values_in_cycle \subseteq channel'[j].new_ids
    <3>1. CASE j \in 1..n /\ channel'[j] = channel[j]
      BY <1>1, <1>5, <2>2, <3>1 DEF CollectorTypes
    <3>2. CASE channel'[j] = c
      BY <1>3, <1>4, <3>2
    <3> QED
      BY <1>5, <3>1, <3>2
  <2>3. free_ids' = free_ids /\ cycles' = cycles /\ pending' = pending /\ sending' = sending
    BY <1>2 DEF gc
  <2> QED
    BY <1>1, <1>5, <2>1, <2>2, <2>3 DEF CollectorTypes
<1>9. ContextOK'
  BY <1>1, <1>2 DEF ContextOK, Operations
<1>10. Released' = Released /\ cycles' = cycles /\ hashes' = hashes
  BY <1>2 DEF Released, gc
<1>11. /\ \A j \in 1..(n + 1) : New(channel'[j]) = new_ids \/ (j \in 1..n /\ New(channel'[j]) = New(channel[j]))
       /\ \A j \in 1..(n + 1) : j # n + 1 => j \in 1..n /\ New(channel'[j]) = New(channel[j])
       /\ New(channel'[n + 1]) = new_ids
  BY <1>4, <1>5
<1>12. Counted'
  BY <1>1, <1>2, <1>5, <1>10, <1>11 DEF Counted
<1>13. Apart'
  <2>1. \A i, j \in DOMAIN channel' : i # j => New(channel'[i]) \cap New(channel'[j]) = {}
    <3> SUFFICES ASSUME NEW i \in 1..(n + 1), NEW j \in 1..(n + 1), i # j
                 PROVE  New(channel'[i]) \cap New(channel'[j]) = {}
      BY <1>5
    <3>1. \A m \in 1..n : New(channel[m]) \cap new_ids = {}
      BY <1>1, <1>5 DEF Apart
    <3>2. CASE i # n + 1 /\ j # n + 1
      BY <1>1, <1>5, <1>11, <3>2 DEF Apart
    <3>3. CASE i = n + 1
      BY <1>11, <3>1, <3>3
    <3>4. CASE j = n + 1
      BY <1>11, <3>1, <3>4
    <3> QED
      BY <3>2, <3>3, <3>4
  <2>2. \A j \in DOMAIN channel' : /\ New(channel'[j]) \cap Held(cycles) = {}
                                   /\ New(channel'[j]) \cap new_ids' = {}
                                   /\ New(channel'[j]) \cap Range(Released) = {}
    BY <1>1, <1>2, <1>5, <1>11 DEF Apart
  <2> QED
    BY <1>1, <1>2, <1>10, <2>1, <2>2 DEF Apart
<1> QED
  BY <1>7, <1>8, <1>9, <1>12, <1>13 DEF Ownership

-----------------------------------------------------------------------------
(* No id has two owners: the steps of the collector.                       *)

LEMMA SameMain ==
    ASSUME MainTypes, ContextOK, UNCHANGED main
    PROVE  MainTypes' /\ ContextOK'
<1>1. /\ ctx' = ctx /\ pc' = pc /\ prepared' = prepared /\ hashes' = hashes /\ values' = values
      /\ new_ids' = new_ids /\ current_cycle' = current_cycle /\ context_hashes' = context_hashes
      /\ started' = started
  BY DEF main
<1>2. MainTypes'
  BY <1>1 DEF MainTypes
<1>3. ContextOK'
  BY <1>1 DEF ContextOK
<1> QED
  BY <1>2, <1>3

\* The command that is taken and those that stay.
LEMMA FirstTaken ==
    ASSUME CollectorTypes, channel # <<>>, channel' = Tail(channel)
    PROVE  LET n == Len(channel)
           IN  /\ n \in Nat \ {0} /\ n - 1 \in Nat /\ DOMAIN channel = 1..n /\ DOMAIN channel' = 1..(n - 1)
               /\ channel[1] = Head(channel) /\ Head(channel) \in Commands
               /\ channel' \in Seq(Commands) /\ Len(channel') = n - 1 /\ Len(channel') <= MaxCommands
               /\ \A j \in 1..(n - 1) : j + 1 \in 1..n /\ j + 1 # 1 /\ channel'[j] = channel[j + 1]
               /\ \A j \in DOMAIN channel' : IsCycle(channel'[j]) =>
                     DOMAIN channel'[j].values_in_cycle \subseteq channel'[j].new_ids
               /\ IsCycle(Head(channel)) =>
                     DOMAIN Head(channel).values_in_cycle \subseteq Head(channel).new_ids
<1> DEFINE n == Len(channel)
<1>1. channel \in Seq(Commands) /\ n <= MaxCommands
  BY DEF CollectorTypes
<1>2. /\ channel' \in Seq(Commands) /\ Len(channel') = n - 1 /\ n \in Nat \ {0} /\ n - 1 \in Nat
      /\ DOMAIN channel = 1..n /\ DOMAIN channel' = 1..(n - 1)
      /\ Head(channel) = channel[1] /\ 1 \in 1..n
      /\ \A j \in 1..(n - 1) : j + 1 \in 1..n /\ j + 1 # 1 /\ channel'[j] = channel[j + 1]
  BY <1>1, Taken
<1>3. Head(channel) \in Commands
  <2> HIDE DEF n
  <2> QED
    BY <1>1, <1>2
<1> HIDE DEF n
<1>4. n - 1 <= MaxCommands
  BY <1>1, <1>2, Sizes
<1>5. \A j \in DOMAIN channel : IsCycle(channel[j]) =>
          DOMAIN channel[j].values_in_cycle \subseteq channel[j].new_ids
  BY DEF CollectorTypes
<1>6. \A j \in DOMAIN channel' : IsCycle(channel'[j]) =>
          DOMAIN channel'[j].values_in_cycle \subseteq channel'[j].new_ids
  BY <1>2, <1>5
<1>7. IsCycle(Head(channel)) => DOMAIN Head(channel).values_in_cycle \subseteq Head(channel).new_ids
  BY <1>2, <1>5
<1> QED
  BY <1>2, <1>3, <1>4, <1>6, <1>7 DEF n

LEMMA OwnedStartNewCycle ==
    ASSUME Ownership, StartNewCycle
    PROVE  Ownership'
<1> DEFINE c == Head(channel)
           n == Len(channel)
           u == Keys(Head(cycles))
           old == DOMAIN cycles[1]
<1>1. MainTypes /\ CollectorTypes /\ ContextOK /\ Apart /\ Counted
  BY DEF Ownership
<1>2. /\ sending = <<>> /\ channel # <<>> /\ IsCycle(c) /\ channel' = Tail(channel)
      /\ cycles' = Append(Tail(cycles), CycleOf(c))
      /\ SendUnused(u) /\ UNCHANGED main /\ free_ids' = free_ids /\ pending' = pending
  BY DEF StartNewCycle, IsCycle, Roll, CycleOf
<1>3. MainTypes' /\ ContextOK'
  BY <1>1, <1>2, SameMain
<1>4. /\ n \in Nat \ {0} /\ n - 1 \in Nat /\ DOMAIN channel = 1..n /\ DOMAIN channel' = 1..(n - 1)
      /\ channel[1] = c /\ c \in Commands /\ channel' \in Seq(Commands) /\ Len(channel') <= MaxCommands
      /\ \A j \in 1..(n - 1) : j + 1 \in 1..n /\ j + 1 # 1 /\ channel'[j] = channel[j + 1]
      /\ \A j \in DOMAIN channel' : IsCycle(channel'[j]) =>
            DOMAIN channel'[j].values_in_cycle \subseteq channel'[j].new_ids
      /\ DOMAIN c.values_in_cycle \subseteq c.new_ids
  BY <1>1, <1>2, FirstTaken
<1>5. cycles \in CycleList /\ Head(cycles) = cycles[1] /\ cycles[1] \in Cycle
  <2>1. cycles \in CycleList
    BY <1>1 DEF CollectorTypes
  <2>2. 1 \in 1..P
    BY Sizes
  <2> QED
    BY <2>1, <2>2, ListFacts
<1> HIDE DEF c, n
<1>6. CycleOf(c) \in Cycle /\ DOMAIN CycleOf(c) = New(c)
  BY <1>2, <1>4, CycleOfIs
<1>7. u \in Seq(Ids) /\ Range(u) = old /\ Distinct(u)
  BY <1>5, KeysIs
<1> HIDE DEF u
<1>8. /\ Unique(cycles) /\ Distinct(Released) /\ Held(cycles) \cap Range(Released) = {}
      /\ \A i, j \in 1..n : i # j => New(channel[i]) \cap New(channel[j]) = {}
      /\ \A j \in 1..n : /\ New(channel[j]) \cap Held(cycles) = {}
                         /\ New(channel[j]) \cap new_ids = {}
                         /\ New(channel[j]) \cap Range(Released) = {}
      /\ new_ids \cap Held(cycles) = {} /\ new_ids \cap Range(Released) = {}
  BY <1>1, <1>4 DEF Apart
<1>9. 1 \in 1..n /\ 1 \in 1..P
  BY <1>4, Sizes
<1>10. old \subseteq Held(cycles)
  BY <1>9, InHeld
<1>11. cycles' \in CycleList
  BY <1>2, <1>5, <1>6, RollIs
<1>12. /\ Unique(cycles')
       /\ \A x : x \in Held(cycles') <=> x \in New(c) \/ (x \in Held(cycles) /\ x \notin old)
  BY <1>2, <1>4, <1>5, <1>6, <1>8, <1>9, RollUnique
<1> HIDE DEF old
<1>13. /\ sending' \in Seq(Ids) \X Seq(Ids) /\ Len(free_ids') + Len(sending'[1]) <= QueueSize
       /\ Range(Released') = Range(Released) \cup old /\ Distinct(Released')
  BY <1>1, <1>2, <1>7, <1>8, <1>10, SendUnusedIs
<1>14. CollectorTypes'
  <2>1. free_ids' \in Seq(Ids) /\ pending' \in Seq(Ids) /\ Len(free_ids') <= QueueSize
    BY <1>1, <1>2 DEF CollectorTypes
  <2> QED
    BY <1>4, <1>11, <1>13, <2>1 DEF CollectorTypes
<1>15. new_ids' = new_ids /\ hashes' = hashes
  BY <1>2 DEF main
<1>16. \A j \in 1..(n - 1) : New(channel'[j]) \cap New(c) = {}
  <2> SUFFICES ASSUME NEW j \in 1..(n - 1) PROVE New(channel'[j]) \cap New(c) = {}
    OBVIOUS
  <2>1. j + 1 \in 1..n /\ j + 1 # 1 /\ channel'[j] = channel[j + 1]
    BY <1>4
  <2> QED
    BY <1>4, <1>8, <1>9, <2>1
<1>17. /\ New(c) \cap new_ids = {} /\ New(c) \cap Range(Released) = {} /\ New(c) \cap Held(cycles) = {}
  BY <1>4, <1>8, <1>9
<1>18. \A i, j \in 1..(n - 1) : i # j => New(channel'[i]) \cap New(channel'[j]) = {}
  <2> SUFFICES ASSUME NEW i \in 1..(n - 1), NEW j \in 1..(n - 1), i # j
               PROVE  New(channel'[i]) \cap New(channel'[j]) = {}
    OBVIOUS
  <2>1. /\ i + 1 \in 1..n /\ channel'[i] = channel[i + 1]
        /\ j + 1 \in 1..n /\ channel'[j] = channel[j + 1] /\ i + 1 # j + 1
    BY <1>4
  <2> QED
    BY <1>8, <2>1
<1>19. \A j \in 1..(n - 1) : /\ New(channel'[j]) \cap Held(cycles) = {}
                             /\ New(channel'[j]) \cap new_ids = {}
                             /\ New(channel'[j]) \cap Range(Released) = {}
  BY <1>4, <1>8
<1>20. Apart'
  <2>1. \A j \in 1..(n - 1) : /\ New(channel'[j]) \cap Held(cycles') = {}
                              /\ New(channel'[j]) \cap new_ids' = {}
                              /\ New(channel'[j]) \cap Range(Released') = {}
    BY <1>10, <1>12, <1>13, <1>15, <1>16, <1>19
  <2>2. /\ new_ids' \cap Held(cycles') = {} /\ new_ids' \cap Range(Released') = {}
        /\ Held(cycles') \cap Range(Released') = {}
    BY <1>8, <1>10, <1>12, <1>13, <1>15, <1>17
  <2> QED
    BY <1>4, <1>12, <1>13, <1>18, <2>1, <2>2 DEF Apart
<1>21. Counted'
  <2>1. /\ new_ids \subseteq 1..hashes /\ Held(cycles) \subseteq 1..hashes
        /\ Range(Released) \subseteq 1..hashes /\ \A j \in 1..n : New(channel[j]) \subseteq 1..hashes
    BY <1>1, <1>4 DEF Counted
  <2>2. Held(cycles') \subseteq 1..hashes /\ Range(Released') \subseteq 1..hashes
    BY <1>4, <1>9, <1>10, <1>12, <1>13, <2>1
  <2>3. \A j \in 1..(n - 1) : New(channel'[j]) \subseteq 1..hashes
    BY <1>4, <2>1
  <2> QED
    BY <1>4, <1>15, <2>1, <2>2, <2>3 DEF Counted
<1> QED
  BY <1>3, <1>14, <1>20, <1>21 DEF Ownership

LEMMA OwnedMarkReused ==
    ASSUME Ownership, MarkReused
    PROVE  Ownership'
<1> DEFINE c == Head(channel)
           n == Len(channel)
           ids == Visited(cycles, c.reused)
<1>1. MainTypes /\ CollectorTypes /\ ContextOK /\ Apart /\ Counted
  BY DEF Ownership
<1>2. /\ sending = <<>> /\ channel # <<>> /\ "reused" \in DOMAIN c /\ channel' = Tail(channel)
      /\ cycles' = MoveToLastCycle(cycles, ids)
      /\ SendPending /\ UNCHANGED main /\ free_ids' = free_ids /\ pending' = pending
  BY DEF MarkReused
<1>3. MainTypes' /\ ContextOK'
  BY <1>1, <1>2, SameMain
<1>4. /\ n \in Nat \ {0} /\ n - 1 \in Nat /\ DOMAIN channel = 1..n /\ DOMAIN channel' = 1..(n - 1)
      /\ channel[1] = c /\ c \in Commands /\ channel' \in Seq(Commands) /\ Len(channel') <= MaxCommands
      /\ \A j \in 1..(n - 1) : j + 1 \in 1..n /\ j + 1 # 1 /\ channel'[j] = channel[j + 1]
      /\ \A j \in DOMAIN channel' : IsCycle(channel'[j]) =>
            DOMAIN channel'[j].values_in_cycle \subseteq channel'[j].new_ids
  BY <1>1, <1>2, FirstTaken
<1> HIDE DEF c, n
<1>5. cycles \in CycleList /\ c.reused \in SUBSET Ids
  BY <1>1, <1>2, <1>4, CommandIs DEF CollectorTypes
<1>6. ids \in SUBSET Ids
  BY <1>5, VisitedType
<1> HIDE DEF ids
<1>7. /\ Unique(cycles) /\ Distinct(Released) /\ Held(cycles) \cap Range(Released) = {}
      /\ \A i, j \in 1..n : i # j => New(channel[i]) \cap New(channel[j]) = {}
      /\ \A j \in 1..n : /\ New(channel[j]) \cap Held(cycles) = {}
                         /\ New(channel[j]) \cap new_ids = {}
                         /\ New(channel[j]) \cap Range(Released) = {}
      /\ new_ids \cap Held(cycles) = {} /\ new_ids \cap Range(Released) = {}
  BY <1>1, <1>4 DEF Apart
<1>8. cycles' \in CycleList
  BY <1>2, <1>5, <1>6, MoveIs
<1>9. Unique(cycles') /\ Held(cycles') \subseteq Held(cycles)
  BY <1>2, <1>5, <1>6, <1>7, MoveUnique
<1>10. /\ sending' = <<>> \/ (/\ sending' \in Seq(Ids) \X Seq(Ids)
                              /\ Len(free_ids') + Len(sending'[1]) <= QueueSize)
       /\ Range(Released') = Range(Released) /\ Distinct(Released')
  BY <1>1, <1>2, <1>7, SendPendingIs
<1>11. CollectorTypes'
  <2>1. free_ids' \in Seq(Ids) /\ pending' \in Seq(Ids) /\ Len(free_ids') <= QueueSize
    BY <1>1, <1>2 DEF CollectorTypes
  <2> QED
    BY <1>4, <1>8, <1>10, <2>1 DEF CollectorTypes
<1>12. new_ids' = new_ids /\ hashes' = hashes
  BY <1>2 DEF main
<1>13. \A i, j \in 1..(n - 1) : i # j => New(channel'[i]) \cap New(channel'[j]) = {}
  <2> SUFFICES ASSUME NEW i \in 1..(n - 1), NEW j \in 1..(n - 1), i # j
               PROVE  New(channel'[i]) \cap New(channel'[j]) = {}
    OBVIOUS
  <2>1. /\ i + 1 \in 1..n /\ channel'[i] = channel[i + 1]
        /\ j + 1 \in 1..n /\ channel'[j] = channel[j + 1] /\ i + 1 # j + 1
    BY <1>4
  <2> QED
    BY <1>7, <2>1
<1>14. \A j \in 1..(n - 1) : /\ New(channel'[j]) \cap Held(cycles) = {}
                             /\ New(channel'[j]) \cap new_ids = {}
                             /\ New(channel'[j]) \cap Range(Released) = {}
  BY <1>4, <1>7
<1>15. Apart'
  <2>1. /\ \A j \in 1..(n - 1) : /\ New(channel'[j]) \cap Held(cycles') = {}
                                 /\ New(channel'[j]) \cap new_ids' = {}
                                 /\ New(channel'[j]) \cap Range(Released') = {}
        /\ new_ids' \cap Held(cycles') = {} /\ new_ids' \cap Range(Released') = {}
        /\ Held(cycles') \cap Range(Released') = {}
    BY <1>7, <1>9, <1>10, <1>12, <1>14
  <2> QED
    BY <1>4, <1>9, <1>10, <1>13, <2>1 DEF Apart
<1>16. Counted'
  <2>1. /\ new_ids \subseteq 1..hashes /\ Held(cycles) \subseteq 1..hashes
        /\ Range(Released) \subseteq 1..hashes /\ \A j \in 1..n : New(channel[j]) \subseteq 1..hashes
    BY <1>1, <1>4 DEF Counted
  <2>2. \A j \in 1..(n - 1) : New(channel'[j]) \subseteq 1..hashes
    BY <1>4, <2>1
  <2> QED
    BY <1>4, <1>9, <1>10, <1>12, <2>1, <2>2 DEF Counted
<1> QED
  BY <1>3, <1>11, <1>15, <1>16 DEF Ownership

LEMMA OwnedPushSlice ==
    ASSUME Ownership, PushSlice
    PROVE  Ownership'
<1>1. MainTypes /\ CollectorTypes /\ ContextOK /\ Apart /\ Counted
  BY DEF Ownership
<1>2. UNCHANGED main /\ channel' = channel /\ cycles' = cycles
  BY DEF PushSlice
<1>3. MainTypes' /\ ContextOK'
  BY <1>1, <1>2, SameMain
<1>4. /\ sending' = <<>> /\ free_ids' \in Seq(Ids) /\ pending' \in Seq(Ids) /\ Len(free_ids') <= QueueSize
      /\ Range(Released') = Range(Released) /\ Distinct(Released')
  BY <1>1, PushSliceIs DEF Apart
<1>5. CollectorTypes'
  BY <1>1, <1>2, <1>4 DEF CollectorTypes
<1>6. new_ids' = new_ids /\ hashes' = hashes
  BY <1>2 DEF main
<1>7. Apart' /\ Counted'
  BY <1>1, <1>2, <1>4, <1>6 DEF Apart, Counted
<1> QED
  BY <1>3, <1>5, <1>7 DEF Ownership

-----------------------------------------------------------------------------
(* No id has two owners.                                                   *)

LEMMA OwnedInit == Init => Ownership
<1> SUFFICES ASSUME Init PROVE Ownership
  OBVIOUS
<1>1. /\ ctx = None /\ pc = "idle" /\ prepared = <<>>
      /\ hashes = 0 /\ values = <<>> /\ new_ids = {} /\ current_cycle = NoCycle
      /\ context_hashes = [i \in 1..P |-> {}] /\ channel = <<>> /\ free_ids = <<>>
      /\ cycles = [i \in 1..P |-> NoCycle] /\ pending = <<>> /\ sending = <<>> /\ started = 0
  BY DEF Init, P
<1>2. MainTypes
  <2>1. context_hashes \in [1..P -> SUBSET CommitRecords]
    BY <1>1
  <2>2. values \in Seq(Values) /\ Len(values) <= hashes /\ prepared \in Seq(Ids) /\ Len(prepared) <= 2
    BY <1>1
  <2>3. hashes \in 0..MaxId /\ started \in 0..MaxCycles /\ new_ids \in SUBSET Ids
    BY <1>1, Sizes
  <2> QED
    BY <1>1, <2>1, <2>2, <2>3, NoCycleIs DEF MainTypes, Pcs
<1>3. cycles \in CycleList /\ Held(cycles) = {} /\ Unique(cycles)
  <2>1. cycles \in CycleList /\ \A i \in 1..P : DOMAIN cycles[i] = {}
    BY <1>1, NoCycleIs DEF CycleList
  <2> QED
    BY <2>1 DEF Held, Unique
<1>4. CollectorTypes
  BY <1>1, <1>3, Sizes DEF CollectorTypes
<1>5. ContextOK
  BY <1>1 DEF ContextOK, Operations
<1>6. Range(Released) = {} /\ Distinct(Released)
  <2>1. Released = <<>>
    BY <1>1 DEF Released
  <2> QED
    BY <2>1 DEF Range, Distinct
<1>7. Apart /\ Counted
  <2>1. DOMAIN channel = {}
    BY <1>1
  <2> QED
    BY <1>1, <1>3, <1>6, <2>1 DEF Apart, Counted
<1> QED
  BY <1>2, <1>4, <1>5, <1>7 DEF Ownership

LEMMA OwnedStep ==
    ASSUME Ownership, NEW near \in BOOLEAN, NEW writes \in BOOLEAN, [Steps(TRUE, near, writes)]_vars
    PROVE  Ownership'
<1>1. ASSUME UNCHANGED vars PROVE Ownership'
  <2>1. /\ UNCHANGED <<Owners, context_hashes, started>> /\ prepared' = prepared /\ pc' = pc /\ ctx' = ctx
        /\ UNCHANGED main
    BY <1>1 DEF vars, main, Owners
  <2>2. ContextOK' /\ MainTypes'
    BY <2>1, SameMain DEF Ownership
  <2> QED
    BY <2>1, <2>2, SameOwners DEF Ownership, MainTypes
<1>2. ASSUME NEW op \in Operations, PrepareCommit(op) PROVE Ownership'
  BY <1>2, OwnedPrepareCommit
<1>3. "root" \in Operations /\ "hash" \in Operations /\ "commit" \in Operations
  BY DEF Operations
<1>4. ASSUME NEW commit, Checkout(commit) PROVE Ownership'
  BY <1>4, OwnedCheckout
<1> QED
  BY <1>1, <1>2, <1>3, <1>4, OwnedNewContext, OwnedChange, OwnedDropContext, OwnedHashEntry,
     OwnedHashPanics, OwnedRootDone, OwnedHashDone, OwnedCommit, OwnedCycleStarted,
     OwnedStartNewCycle, OwnedMarkReused, OwnedPushSlice, Zenon DEF Steps

\* With a shell that keeps no context over a cycle start, the types hold in
\* every reachable state, the nodes that are hashed and not yet committed have
\* new ids of their own, and no id is in two of: the running cycle, a command,
\* a cycle of the collector, the queue and what waits for room in it.
THEOREM OwnershipHolds == LeavingSpec => []Ownership
<1>1. Ownership /\ [Steps(TRUE, FALSE, FALSE)]_vars => Ownership'
  BY OwnedStep
<1> QED
  BY <1>1, OwnedInit, PTL DEF LeavingSpec

\* With a shell that keeps no context over a cycle start, every reachable
\* state has its types, what is written in a cycle has its id from that cycle,
\* and the ring of free ids never holds more than it has room for.
THEOREM TypesHold == LeavingSpec => []TypeOK
<1>1. Ownership => TypeOK
  <2> SUFFICES ASSUME Ownership PROVE TypeOK
    OBVIOUS
  <2>1. MainTypes /\ CollectorTypes /\ ContextOK /\ Apart /\ Counted
    BY DEF Ownership
  <2>2. ctx = None \/ (Len(ctx) <= Levels /\ \A l \in DOMAIN ctx :
                          ctx[l].id \in 0..MaxId /\ ctx[l].commited \in BOOLEAN)
    <3>1. ctx = None \/ Shape(ctx)
      BY <2>1 DEF ContextOK
    <3>2. CASE Shape(ctx)
      <4>1. ctx \in Seq(Nodes) /\ Len(ctx) <= Levels
        BY <3>2 DEF Shape
      <4>2. \A l \in DOMAIN ctx : ctx[l] \in Nodes
        BY <4>1
      <4> QED
        BY <4>1, <4>2 DEF Nodes
    <3> QED
      BY <3>1, <3>2
  <2>3. Range(prepared) \subseteq Ids /\ Len(prepared) <= 2
    <3>1. prepared \in Seq(Ids) /\ Len(prepared) <= 2
      BY <2>1 DEF MainTypes
    <3>2. \A i \in 1..Len(prepared) : prepared[i] \in Ids
      BY <3>1
    <3> QED
      BY <3>1, <3>2, InRange
  <2>4. \A id \in DOMAIN values : values[id] = None \/ values[id] \subseteq Ids
    BY <2>1 DEF MainTypes, Values
  <2>5. Len(context_hashes) = PRESERVE_CYCLE_COUNT /\ Len(cycles) = PRESERVE_CYCLE_COUNT
    <3>1. context_hashes \in [1..P -> SUBSET CommitRecords] /\ cycles \in CycleList
      BY <2>1 DEF MainTypes, CollectorTypes
    <3>2. Len(context_hashes) = P
      BY <3>1, Sizes, SeqIntro
    <3> QED
      BY <3>1, <3>2, ListFacts DEF P
  <2>6. Range(Released) \subseteq Ids
    <3>1. 1..hashes \subseteq Ids
      BY <2>1, Sizes DEF MainTypes, Ids
    <3> QED
      BY <2>1, <3>1 DEF Counted
  <2> QED
    BY <2>1, <2>2, <2>3, <2>4, <2>5, <2>6 DEF TypeOK, MainTypes, CollectorTypes, Pcs
<1> QED
  BY <1>1, OwnershipHolds, PTL

-----------------------------------------------------------------------------
(* Nothing that can be checked out is given away: the cycles to come.      *)

LEMMA PlacesIs ==
    ASSUME NEW list, NEW fresh
    PROVE  /\ \A n \in 1..P : Places(list, fresh)[n] = DOMAIN list[n]
           /\ Places(list, fresh)[P + 1] = fresh
           /\ \A n \in 1..(P + 1) : n \in 1..P \/ n = P + 1
           /\ \A n \in 1..(P + 1) : \A x \in Places(list, fresh)[n] : x \in Held(list) \/ x \in fresh
<1>1. \A n \in 1..(P + 1) : n \in 1..P \/ n = P + 1
  BY Sizes
<1>2. \A n \in 1..P : Places(list, fresh)[n] = DOMAIN list[n]
  BY Sizes DEF Places
<1>3. Places(list, fresh)[P + 1] = fresh
  BY Sizes DEF Places
<1> QED
  BY <1>1, <1>2, <1>3, InHeld

\* The cycles after the last command of the channel.
LEMMA FinalIs ==
    ASSUME Ownership, NEW vs, Ahead(vs, cycles, channel), AheadOK(vs, channel)
    PROVE  LET n == Len(channel)
               V == vs[n]
           IN  /\ n \in Nat /\ n \in 0..n /\ V \in CycleList /\ Unique(V) /\ Held(V) \in SUBSET Ids
               /\ \A x \in Held(V) : x \in Held(cycles) \/ \E j \in DOMAIN channel : x \in New(channel[j])
               /\ Held(V) \cap new_ids = {} /\ Held(V) \cap Range(Released) = {}
<1> DEFINE n == Len(channel)
           V == vs[n]
<1>1. channel \in Seq(Commands) /\ Apart
  BY DEF Ownership, CollectorTypes
<1>2. n \in Nat /\ DOMAIN channel = 1..n
  BY <1>1
<1> HIDE DEF n
<1>3. n \in 0..n /\ 0 \in 0..n /\ (0 + 1)..n = 1..n
  BY <1>2
<1>4. V \in CycleList /\ vs[0] = cycles
  BY <1>3 DEF Ahead, n
<1>5. Unique(V) /\ \A x \in Held(V) : x \in Held(vs[0]) \/ \E j \in (0 + 1)..n : x \in New(channel[j])
  BY <1>3 DEF AheadOK, n
<1> HIDE DEF V
<1>6. \A x \in Held(V) : x \in Held(cycles) \/ \E j \in DOMAIN channel : x \in New(channel[j])
  BY <1>2, <1>3, <1>4, <1>5
<1>7. Held(V) \cap new_ids = {} /\ Held(V) \cap Range(Released) = {}
  BY <1>1, <1>6 DEF Apart
<1>8. Held(V) \in SUBSET Ids
  BY <1>4, ListFacts
<1> QED
  BY <1>2, <1>3, <1>4, <1>5, <1>6, <1>7, <1>8 DEF n, V

\* An entry keeps its place or gets a later one.
Later(D, vals, E, wals) ==
    \A n \in 1..(P + 1) : \A x \in D[n] : Val(vals, x) # None =>
        \E m \in 1..(P + 1) : m >= n /\ x \in E[m] /\ Val(wals, x) = Val(vals, x)

LEMMA LaterKept ==
    ASSUME NEW D, NEW vals, NEW E, NEW wals, Later(D, vals, E, wals),
           NEW x, NEW n \in Int, NEW v, Kept(D, vals, x, n, v)
    PROVE  Kept(E, wals, x, n, v)
<1>1. v # None
  BY DEF Kept
<1>2. PICK m \in 1..(P + 1) : m >= n /\ x \in D[m] /\ Val(vals, x) = v
  BY DEF Kept
<1>3. PICK k \in 1..(P + 1) : k >= m /\ x \in E[k] /\ Val(wals, x) = Val(vals, x)
  BY <1>1, <1>2 DEF Later
<1>4. k >= n
  BY <1>2, <1>3
<1> QED
  BY <1>1, <1>2, <1>3, <1>4 DEF Kept

LEMMA LaterCommit ==
    ASSUME NEW D, NEW vals, NEW E, NEW wals, Later(D, vals, E, wals),
           NEW i \in 1..P, NEW commit \in CommitRecords, CommitKept(D, vals, i, commit)
    PROVE  CommitKept(E, wals, i, commit)
<1>1. commit.path \in Seq(Ids)
  BY DEF CommitRecords
<1>2. i + 1 \in Int /\ \A l \in DOMAIN commit.path : i + 2 - l \in Int
  BY <1>1
<1> QED
  BY <1>2, LaterKept DEF CommitKept

LEMMA LaterKnown ==
    ASSUME NEW D, NEW vals, NEW E, NEW wals, Later(D, vals, E, wals),
           NEW known \in [1..P -> SUBSET CommitRecords], KnownKept(D, vals, known)
    PROVE  KnownKept(E, wals, known)
<1> SUFFICES ASSUME NEW i \in 1..P, NEW commit \in known[i] PROVE CommitKept(E, wals, i, commit)
  BY DEF KnownKept
<1>1. commit \in CommitRecords /\ CommitKept(D, vals, i, commit)
  BY DEF KnownKept
<1> QED
  BY <1>1, LaterCommit

\* The same list, as the main thread goes on.
LEMMA SameAhead ==
    ASSUME NEW vs, Ahead(vs, cycles, channel), AheadOK(vs, channel), UNCHANGED <<channel, cycles>>,
           NEW V, V = vs[Len(channel)], Keeps(V)', Covered'
    PROVE  Retention'
<1>1. channel' = channel /\ cycles' = cycles
  OBVIOUS
<1>2. Ahead(vs, cycles', channel') /\ AheadOK(vs, channel')
  BY <1>1
<1>3. V = vs[Len(channel')]
  BY <1>1
<1> QED
  BY <1>2, <1>3 DEF Retention

LEMMA SameEntries ==
    ASSUME Retention, UNCHANGED <<channel, cycles, values, new_ids, current_cycle, context_hashes>>, Covered',
           \A D : ContextKept(D, values, new_ids, ctx, pc) => ContextKept(D, values, new_ids, ctx', pc')
    PROVE  Retention'
<1>1. PICK vs : Ahead(vs, cycles, channel) /\ AheadOK(vs, channel) /\ Keeps(vs[Len(channel)])
  BY DEF Retention
<1> DEFINE V == vs[Len(channel)]
           D == Places(V, new_ids)
<1>2. /\ Contents(V, values, new_ids, current_cycle) /\ Lag(D, values)
      /\ KnownKept(D, values, context_hashes) /\ ContextKept(D, values, new_ids, ctx, pc)
  BY <1>1 DEF Keeps
<1> HIDE DEF V
<1>3. ContextKept(D, values, new_ids, ctx', pc')
  BY <1>2
<1>4. /\ Contents(V, values', new_ids', current_cycle') /\ Lag(Places(V, new_ids'), values')
      /\ KnownKept(Places(V, new_ids'), values', context_hashes')
      /\ ContextKept(Places(V, new_ids'), values', new_ids', ctx', pc')
  BY <1>2, <1>3
<1>5. PICK W : W = V
  OBVIOUS
<1>6. Keeps(W)'
  BY <1>4, <1>5 DEF Keeps
<1>7. W = vs[Len(channel)]
  BY <1>5 DEF V
<1> QED
  BY <1>1, <1>6, <1>7, SameAhead

LEMMA SameCovered ==
    ASSUME Covered, pc # "poisoned", UNCHANGED Owners
    PROVE  Covered'
<1>1. Released' = Released /\ hashes' = hashes /\ new_ids' = new_ids /\ cycles' = cycles /\ channel' = channel
  BY DEF Owners, gc, Released
<1> QED
  BY <1>1 DEF Covered

LEMMA KeptNewContext ==
    ASSUME Ownership, Retention, NewContext
    PROVE  Retention'
<1>1. ctx' = <<>> /\ pc = "idle" /\ UNCHANGED <<Owners, context_hashes, started, prepared, pc>>
  BY DEF NewContext, Owners
<1>2. Covered'
  BY <1>1, SameCovered DEF Retention
<1>3. DOMAIN ctx' = {}
  BY <1>1
<1>4. \A D : ContextKept(D, values, new_ids, ctx', pc')
  BY <1>3 DEF ContextKept
<1> QED
  BY <1>1, <1>2, <1>4, SameEntries DEF Owners, gc

LEMMA KeptDropContext ==
    ASSUME Ownership, Retention, DropContext
    PROVE  Retention'
<1>1. ctx' = None /\ pc = "idle" /\ UNCHANGED <<Owners, context_hashes, started, prepared, pc>>
  BY DEF DropContext, Owners
<1>2. Covered'
  BY <1>1, SameCovered DEF Retention
<1>3. \A D : ContextKept(D, values, new_ids, ctx', pc')
  BY <1>1 DEF ContextKept, Operations
<1> QED
  BY <1>1, <1>2, <1>3, SameEntries DEF Owners, gc

LEMMA KeptPrepareCommit ==
    ASSUME Ownership, Retention, NEW op \in Operations, op = "commit" => Written, PrepareCommit(op)
    PROVE  Retention'
<1>1. /\ ctx' = ctx /\ ctx # None /\ pc = "idle" /\ pc' = op /\ UNCHANGED <<Owners, context_hashes>>
      /\ op = "commit" => \A l \in DOMAIN ctx : ctx[l].commited => ValueAt(ctx[l].id) # None
  BY DEF PrepareCommit, Owners, Written
<1>2. Covered'
  BY <1>1, SameCovered DEF Retention
<1>3. op = "commit" => \A l \in DOMAIN ctx : ctx[l].commited => Val(values, ctx[l].id) # None
  BY <1>1, ValueAtIs
<1>4. ASSUME NEW D, ContextKept(D, values, new_ids, ctx, pc)
      PROVE  ContextKept(D, values, new_ids, ctx', pc')
  <2>1. \A l \in DOMAIN ctx : ctx[l].commited =>
           Stored(D, values, ctx, l) \/ (ctx[l].id \in new_ids /\ Val(values, ctx[l].id) = None)
    BY <1>1, <1>4 DEF ContextKept
  <2>2. \A l \in DOMAIN ctx : ctx[l].commited =>
           \/ Stored(D, values, ctx, l)
           \/ op # "commit" /\ ctx[l].id \in new_ids /\ Val(values, ctx[l].id) = None
    BY <1>3, <2>1
  <2> QED
    BY <1>1, <2>2 DEF ContextKept
<1> QED
  BY <1>1, <1>2, <1>4, SameEntries DEF Owners, gc

LEMMA KeptChange ==
    ASSUME Ownership, Retention, Change
    PROVE  Retention'
<1>1. ctx # None /\ pc = "idle" /\ UNCHANGED <<Owners, context_hashes, pc>>
  BY DEF Change, Owners
<1>2. Shape(ctx)
  BY <1>1 DEF Ownership, ContextOK
<1>3. PICK n \in 0..Levels : Changed(ctx, ctx', n)
  BY <1>2, ChangeIs
<1>4. Covered'
  BY <1>1, SameCovered DEF Retention
<1>5. ASSUME NEW l \in DOMAIN ctx', ctx'[l].commited
      PROVE  l \in DOMAIN ctx /\ ctx'[l] = ctx[l] /\ BelowOf(ctx', l) = BelowOf(ctx, l)
  <2> DEFINE a == Len(ctx)
             b == Len(ctx')
  <2>1. ctx' \in Seq(Nodes) /\ \A j \in DOMAIN ctx' : j <= n => ctx'[j] = Fresh
    BY <1>3 DEF Changed
  <2>2. a \in Nat /\ b \in Nat /\ DOMAIN ctx = 1..a /\ DOMAIN ctx' = 1..b /\ n \in Nat
    BY <1>2, <2>1, Sizes DEF Shape
  <2>3. l > n
    <3>1. ctx'[l] # Fresh
      BY <1>5, FreshIs
    <3> QED
      BY <2>1, <2>2, <3>1
  <2>4. b = a /\ \A j \in DOMAIN ctx' : j > n => ctx'[j] = ctx[j]
    <3>1. \/ b = n
          \/ b = a /\ \A j \in DOMAIN ctx' : j > n => ctx'[j] = ctx[j]
      BY <1>3 DEF Changed
    <3> HIDE DEF a, b
    <3> QED
      BY <2>2, <2>3, <3>1
  <2>5. l < b => l + 1 \in 1..b /\ l + 1 > n
    <3> HIDE DEF a, b
    <3> QED
      BY <2>2, <2>3
  <2>6. l < b => ctx'[l + 1] = ctx[l + 1]
    BY <2>2, <2>4, <2>5
  <2>7. l \in DOMAIN ctx /\ ctx'[l] = ctx[l]
    BY <2>2, <2>3, <2>4
  <2> QED
    BY <2>4, <2>6, <2>7 DEF BelowOf
<1>6. ASSUME NEW D, ContextKept(D, values, new_ids, ctx, pc)
      PROVE  ContextKept(D, values, new_ids, ctx', pc')
  <2>1. \A l \in DOMAIN ctx : ctx[l].commited =>
           Stored(D, values, ctx, l) \/ (ctx[l].id \in new_ids /\ Val(values, ctx[l].id) = None)
    BY <1>1, <1>6 DEF ContextKept
  <2>2. \A l \in DOMAIN ctx' : ctx'[l].commited =>
           Stored(D, values, ctx', l) \/ (ctx'[l].id \in new_ids /\ Val(values, ctx'[l].id) = None)
    BY <1>5, <2>1 DEF Stored
  <2> QED
    BY <1>1, <2>2 DEF ContextKept
<1> QED
  BY <1>1, <1>4, <1>6, SameEntries DEF Owners, gc

LEMMA KeptHashDone ==
    ASSUME Ownership, Retention, HashDone
    PROVE  Retention'
<1>1. /\ pc = "hash" /\ Len(prepared) = 2 /\ pc' = "idle" /\ UNCHANGED <<Owners, context_hashes>>
      /\ ctx' = [l \in DOMAIN ctx |-> Node(ctx[l].id, TRUE)]
  BY DEF HashDone, Owners
<1>2. /\ Shape(ctx) /\ Hashing(ctx, new_ids, values, prepared)
      /\ DOMAIN ctx' = DOMAIN ctx /\ Len(ctx') = Len(ctx)
      /\ \A l \in DOMAIN ctx : ctx'[l].id = ctx[l].id /\ ctx[l].id \in Ids
  BY <1>1, AllCommited
<1>3. Covered'
  BY <1>1, SameCovered DEF Retention
<1>4. \A l \in DOMAIN ctx : BelowOf(ctx', l) = BelowOf(ctx, l)
  <2> SUFFICES ASSUME NEW l \in DOMAIN ctx, l < Len(ctx) PROVE ctx'[l + 1].id = ctx[l + 1].id
    BY <1>2 DEF BelowOf
  <2>1. l + 1 \in DOMAIN ctx
    BY <1>2 DEF Shape
  <2> QED
    BY <1>2, <2>1
<1>5. \A l \in DOMAIN ctx : ~ctx[l].commited => ctx[l].id \in new_ids /\ Val(values, ctx[l].id) = None
  <2>1. \A l \in DOMAIN ctx : ctx[l].id # 0
    BY <1>2 DEF Ids
  <2> QED
    BY <1>2, <2>1 DEF Hashing
<1>6. ASSUME NEW D, ContextKept(D, values, new_ids, ctx, pc)
      PROVE  ContextKept(D, values, new_ids, ctx', pc')
  <2>1. \A l \in DOMAIN ctx : ctx[l].commited =>
           Stored(D, values, ctx, l) \/ (ctx[l].id \in new_ids /\ Val(values, ctx[l].id) = None)
    BY <1>1, <1>6 DEF ContextKept, Operations
  <2>2. \A l \in DOMAIN ctx' :
           Stored(D, values, ctx', l) \/ (ctx'[l].id \in new_ids /\ Val(values, ctx'[l].id) = None)
    BY <1>2, <1>4, <1>5, <2>1 DEF Stored
  <2> QED
    BY <1>1, <2>2 DEF ContextKept
<1> QED
  BY <1>1, <1>3, <1>6, SameEntries DEF Owners, gc

LEMMA KeptHashPanics ==
    ASSUME Ownership, Retention, HashPanics
    PROVE  Retention'
<1>1. /\ pc' = "poisoned" /\ ctx' = ctx /\ pc \in Operations
      /\ UNCHANGED <<channel, cycles, values, new_ids, current_cycle, context_hashes>>
  BY DEF HashPanics, gc
<1>2. Covered'
  BY <1>1 DEF Covered
<1>3. ASSUME NEW D, ContextKept(D, values, new_ids, ctx, pc)
      PROVE  ContextKept(D, values, new_ids, ctx', pc')
  BY <1>1, <1>3 DEF ContextKept
<1> QED
  BY <1>1, <1>2, <1>3, SameEntries

LEMMA KeptRootDone ==
    ASSUME Ownership, Retention, RootDone
    PROVE  Retention'
<1>1. pc = "root" /\ pc' = "idle" /\ ctx' = ctx /\ UNCHANGED <<Owners, context_hashes>>
  BY DEF RootDone, Owners
<1>2. Covered'
  BY <1>1, SameCovered DEF Retention
<1>3. ASSUME NEW D, ContextKept(D, values, new_ids, ctx, pc)
      PROVE  ContextKept(D, values, new_ids, ctx', pc')
  BY <1>1, <1>3 DEF ContextKept, Operations
<1> QED
  BY <1>1, <1>2, <1>3, SameEntries DEF Owners, gc

LEMMA KeptHashEntry ==
    ASSUME Ownership, Retention, HashEntry
    PROVE  Retention'
<1> DEFINE id == VacantId
<1>1. /\ pc \in Operations /\ GetVacantEntryHash(id) /\ pc' = pc
      /\ current_cycle' = current_cycle /\ context_hashes' = context_hashes /\ channel' = channel
      /\ cycles' = cycles /\ UNCHANGED <<channel, gc>>
      /\ Shape(ctx) /\ DOMAIN ctx' = DOMAIN ctx /\ Len(ctx') = Len(ctx)
      /\ \/ \E k \in DOMAIN ctx : ctx[k].id = 0 /\ \A l \in DOMAIN ctx : l # k => ctx'[l] = ctx[l]
         \/ ctx' = ctx
  BY HashEntryIs DEF gc
<1>2. /\ id \in Ids /\ id \notin new_ids /\ id \notin Held(cycles)
      /\ \A j \in DOMAIN channel : id \notin New(channel[j])
      /\ 1..hashes' = 1..hashes \cup {id}
      /\ Val(values', id) = None /\ \A x : x # id => Val(values', x) = Val(values, x)
      /\ new_ids' = new_ids \cup {id}
      /\ Range(Released) \subseteq Range(Released') \cup {id}
  BY <1>1, VacantIs
<1> HIDE DEF id
<1>3. PICK vs : Ahead(vs, cycles, channel) /\ AheadOK(vs, channel) /\ Keeps(vs[Len(channel)])
  BY DEF Retention
<1>4. PICK V : V = vs[Len(channel)]
  OBVIOUS
<1> DEFINE D == Places(V, new_ids)
           E == Places(V, new_ids')
<1>5. /\ V \in CycleList /\ Held(V) \cap new_ids = {}
      /\ \A x \in Held(V) : x \in Held(cycles) \/ \E j \in DOMAIN channel : x \in New(channel[j])
  BY <1>3, <1>4, FinalIs
<1>6. id \notin Held(V)
  BY <1>2, <1>5
<1>7. /\ Contents(V, values, new_ids, current_cycle) /\ Lag(D, values)
      /\ KnownKept(D, values, context_hashes) /\ ContextKept(D, values, new_ids, ctx, pc)
  BY <1>3, <1>4 DEF Keeps
<1>8. /\ \A n \in 1..(P + 1) : \A x \in D[n] : x # id /\ x \in E[n]
      /\ \A n \in 1..(P + 1) : \A x \in E[n] : x # id => x \in D[n]
  <2>1. \A n \in 1..(P + 1) : n \in 1..P \/ n = P + 1
    BY PlacesIs
  <2>2. \A n \in 1..P : D[n] = DOMAIN V[n] /\ E[n] = DOMAIN V[n]
    BY PlacesIs
  <2>3. D[P + 1] = new_ids /\ E[P + 1] = new_ids \cup {id}
    BY <1>2, PlacesIs
  <2>4. \A n \in 1..P : id \notin DOMAIN V[n]
    BY <1>6, InHeld
  <2> HIDE DEF D, E
  <2> QED
    BY <1>2, <2>1, <2>2, <2>3, <2>4
<1> HIDE DEF D, E
<1>9. Later(D, values, E, values')
  BY <1>2, <1>8, Sizes DEF Later
<1>10. Lag(E, values')
  <2> SUFFICES ASSUME NEW n \in 2..(P + 1), NEW x \in E[n], Val(values', x) # None, NEW y \in Val(values', x)
               PROVE  \E m \in 1..(P + 1) : m >= n - 1 /\ y \in E[m] /\ Val(values', y) # None
    BY DEF Lag
  <2>1. n \in 1..(P + 1)
    BY Sizes
  <2>2. x # id /\ x \in D[n] /\ Val(values, x) # None /\ y \in Val(values, x)
    BY <1>2, <1>8, <2>1
  <2>3. PICK m \in 1..(P + 1) : m >= n - 1 /\ y \in D[m] /\ Val(values, y) # None
    BY <1>7, <2>2 DEF Lag
  <2>4. y # id /\ y \in E[m]
    BY <1>8, <2>3
  <2> QED
    BY <1>2, <2>3, <2>4
<1>11. KnownKept(E, values', context_hashes)
  BY <1>7, <1>9, LaterKnown DEF Ownership, MainTypes
<1>12. Contents(V, values', new_ids', current_cycle)
  <2>1. \A n \in 1..P : \A x \in DOMAIN V[n] : V[n][x] = Val(values', x)
    <3>1. \A n \in 1..P : \A x \in DOMAIN V[n] : x # id
      BY <1>6, InHeld
    <3> QED
      BY <1>2, <1>7, <3>1 DEF Contents
  <2>2. ASSUME NEW x \in new_ids'
        PROVE  Val(values', x) = IF x \in DOMAIN current_cycle THEN current_cycle[x] ELSE None
    <3>1. CASE x = id
      <4>1. x \notin DOMAIN current_cycle
        BY <1>2, <3>1 DEF Ownership, MainTypes
      <4> QED
        BY <1>2, <3>1, <4>1
    <3>2. CASE x # id
      <4>1. x \in new_ids /\ Val(values', x) = Val(values, x)
        BY <1>2, <3>2
      <4> QED
        BY <1>7, <4>1 DEF Contents
    <3> QED
      BY <3>1, <3>2
  <2> QED
    BY <2>1, <2>2 DEF Contents
<1>13. ContextKept(E, values', new_ids', ctx', pc')
  <2>1. \A l \in DOMAIN ctx : ctx[l].commited =>
           \/ Stored(D, values, ctx, l)
           \/ pc # "commit" /\ ctx[l].id \in new_ids /\ Val(values, ctx[l].id) = None
    BY <1>1, <1>7 DEF ContextKept
  <2>2. ASSUME NEW l \in DOMAIN ctx', ctx'[l].commited
        PROVE  ctx[l].commited /\ ctx'[l].id = ctx[l].id /\ BelowOf(ctx', l) = BelowOf(ctx, l)
    <3>1. CASE ctx' = ctx
      BY <2>2, <3>1
    <3>2. ASSUME NEW k \in DOMAIN ctx, ctx[k].id = 0, \A j \in DOMAIN ctx : j # k => ctx'[j] = ctx[j]
          PROVE  ctx[l].commited /\ ctx'[l].id = ctx[l].id /\ BelowOf(ctx', l) = BelowOf(ctx, l)
      <4>1. ~ctx[k].commited
        BY <1>1, <3>2 DEF Shape
      <4>2. ~ctx'[k].commited
        <5>1. \/ \E i \in DOMAIN ctx : /\ ctx[i].id = 0 /\ ctx'[i] = Node(VacantId, ctx[i].commited)
                                       /\ \A j \in DOMAIN ctx : j # i => ctx'[j] = ctx[j]
              \/ ctx' = ctx
          BY HashEntryIs
        <5>2. CASE ctx' = ctx
          BY <4>1, <5>2
        <5>3. ASSUME NEW i \in DOMAIN ctx, ctx[i].id = 0, ctx'[i] = Node(VacantId, ctx[i].commited),
                     \A j \in DOMAIN ctx : j # i => ctx'[j] = ctx[j]
              PROVE  ~ctx'[k].commited
          <6>1. ~ctx[i].commited
            BY <1>1, <5>3 DEF Shape
          <6>2. ctx'[i].commited = ctx[i].commited
            BY <5>3, NodeIs
          <6> QED
            BY <4>1, <5>3, <6>1, <6>2
        <5> QED
          BY <5>1, <5>2, <5>3
      <4>3. l # k /\ ctx'[l] = ctx[l] /\ ctx[l].commited
        BY <1>1, <2>2, <3>2, <4>2
      <4>4. ASSUME l < Len(ctx) PROVE l + 1 # k /\ ctx'[l + 1] = ctx[l + 1]
        <5>1. l + 1 \in DOMAIN ctx /\ l < l + 1
          BY <1>1, <4>4 DEF Shape
        <5>2. ctx[l + 1].commited
          BY <1>1, <4>3, <5>1 DEF Shape
        <5> QED
          BY <3>2, <4>1, <5>1, <5>2
      <4> QED
        BY <1>1, <4>3, <4>4 DEF BelowOf
    <3> QED
      BY <1>1, <3>1, <3>2
  <2>3. ASSUME NEW l \in DOMAIN ctx', ctx'[l].commited, Stored(D, values, ctx, l)
        PROVE  Stored(E, values', ctx', l)
    <3>1. Kept(E, values', ctx[l].id, 1, BelowOf(ctx, l))
      BY <1>9, <2>3, LaterKept DEF Stored
    <3> QED
      BY <2>2, <2>3, <3>1 DEF Stored
  <2>4. ASSUME NEW l \in DOMAIN ctx', ctx'[l].commited, ~Stored(D, values, ctx, l)
        PROVE  pc' # "commit" /\ ctx'[l].id \in new_ids' /\ Val(values', ctx'[l].id) = None
    <3>1. pc # "commit" /\ ctx[l].id \in new_ids /\ Val(values, ctx[l].id) = None
      BY <1>1, <2>1, <2>2, <2>4
    <3> QED
      BY <1>1, <1>2, <2>2, <2>4, <3>1
  <2> QED
    BY <2>3, <2>4 DEF ContextKept
<1>14. Keeps(V)'
  BY <1>1, <1>10, <1>11, <1>12, <1>13 DEF Keeps, E
<1>15. Covered'
  <2>1. pc' # "poisoned" /\ pc # "poisoned"
    BY <1>1 DEF Operations
  <2>2. \A x \in 1..hashes' : x = id \/ x \in 1..hashes
    BY <1>2
  <2>3. Covered
    BY DEF Retention
  <2> QED
    BY <1>1, <1>2, <2>1, <2>2, <2>3 DEF Covered
<1> QED
  BY <1>1, <1>3, <1>4, <1>14, <1>15, SameAhead

\* Once the collector has taken a command, what it will hold in the end is the same.
LEMMA TakenAhead ==
    ASSUME CollectorTypes, NEW vs, Ahead(vs, cycles, channel), AheadOK(vs, channel),
           Keeps(vs[Len(channel)]), channel # <<>>, channel' = Tail(channel),
           cycles' = Apply(cycles, Head(channel)), UNCHANGED main, Covered'
    PROVE  Retention'
<1> DEFINE n == Len(channel)
<1>1. /\ n \in Nat \ {0} /\ n - 1 \in Nat /\ channel[1] = Head(channel) /\ Len(channel') = n - 1
      /\ \A j \in 1..(n - 1) : j + 1 \in 1..n /\ channel'[j] = channel[j + 1]
  BY FirstTaken
<1>2. /\ vs \in [0..n -> CycleList] /\ vs[0] = cycles
      /\ \A k \in 1..n : vs[k] = Apply(vs[k - 1], channel[k])
  BY DEF Ahead
<1>3. /\ \A k \in 0..n : Unique(vs[k])
      /\ \A k \in 0..n : \A i \in 0..k : \A x \in Held(vs[k]) :
            x \in Held(vs[i]) \/ \E j \in (i + 1)..k : x \in New(channel[j])
      /\ \A k \in 1..n : ~IsCycle(channel[k]) => NoLoss(vs[k - 1], Visited(vs[k - 1], channel[k].reused))
  BY DEF AheadOK
<1>4. PICK V : V = vs[n]
  OBVIOUS
<1> HIDE DEF n
<1>5. PICK w : w = [k \in 0..(n - 1) |-> vs[k + 1]]
  OBVIOUS
<1>6. \A k \in 0..(n - 1) : k + 1 \in 0..n /\ w[k] = vs[k + 1]
  BY <1>1, <1>5
<1>7. w \in [0..(n - 1) -> CycleList]
  BY <1>2, <1>5, <1>6
<1>8. \A k \in 1..(n - 1) : k \in 0..(n - 1) /\ k - 1 \in 0..(n - 1) /\ (k - 1) + 1 = k /\ (k + 1) - 1 = k
  BY <1>1
<1>9. w[0] = cycles'
  <2>1. 0 \in 0..(n - 1) /\ 1 \in 1..n /\ 0 + 1 = 1 /\ 1 - 1 = 0
    BY <1>1
  <2>2. w[0] = vs[1]
    BY <1>6, <2>1
  <2>3. vs[1] = Apply(vs[0], channel[1])
    BY <1>2, <2>1
  <2> QED
    BY <1>1, <1>2, <2>2, <2>3
<1>10. \A k \in 1..(n - 1) : w[k - 1] = vs[k] /\ w[k] = vs[k + 1] /\ k + 1 \in 1..n
  BY <1>1, <1>6, <1>8
<1>11. \A k \in 1..(n - 1) : w[k] = Apply(w[k - 1], channel'[k])
  <2> SUFFICES ASSUME NEW k \in 1..(n - 1) PROVE w[k] = Apply(w[k - 1], channel'[k])
    OBVIOUS
  <2>1. vs[k + 1] = Apply(vs[(k + 1) - 1], channel[k + 1])
    BY <1>2, <1>10
  <2> QED
    BY <1>1, <1>8, <1>10, <2>1
<1>12. Ahead(w, cycles', channel')
  BY <1>1, <1>7, <1>9, <1>11 DEF Ahead
<1>13. ASSUME NEW k \in 0..(n - 1), NEW i \in 0..k, NEW x \in Held(w[k])
       PROVE  x \in Held(w[i]) \/ \E j \in (i + 1)..k : x \in New(channel'[j])
  <2>1. i \in 0..(n - 1) /\ i + 1 \in 0..(k + 1) /\ k + 1 \in 0..n /\ w[k] = vs[k + 1] /\ w[i] = vs[i + 1]
    <3>1. i \in 0..(n - 1) /\ i + 1 \in 0..(k + 1)
      BY <1>1
    <3> QED
      BY <1>6, <3>1
  <2>2. x \in Held(vs[i + 1]) \/ \E j \in ((i + 1) + 1)..(k + 1) : x \in New(channel[j])
    BY <1>3, <1>13, <2>1
  <2>3. ASSUME NEW j \in ((i + 1) + 1)..(k + 1), x \in New(channel[j])
        PROVE  \E m \in (i + 1)..k : x \in New(channel'[m])
    <3>1. j - 1 \in (i + 1)..k /\ j - 1 \in 1..(n - 1) /\ (j - 1) + 1 = j
      BY <1>1
    <3>2. channel'[j - 1] = channel[j]
      BY <1>1, <3>1
    <3> QED
      BY <2>3, <3>1, <3>2
  <2> QED
    BY <2>1, <2>2, <2>3
<1>14. AheadOK(w, channel')
  <2>1. \A k \in 0..(n - 1) : Unique(w[k])
    BY <1>3, <1>6
  <2>2. ASSUME NEW k \in 1..(n - 1), ~IsCycle(channel'[k])
        PROVE  NoLoss(w[k - 1], Visited(w[k - 1], channel'[k].reused))
    <3>1. channel'[k] = channel[k + 1] /\ k + 1 \in 1..n
      BY <1>1
    <3>2. NoLoss(vs[(k + 1) - 1], Visited(vs[(k + 1) - 1], channel[k + 1].reused))
      BY <1>3, <2>2, <3>1
    <3> QED
      BY <1>8, <1>10, <3>1, <3>2
  <2> QED
    BY <1>1, <1>13, <2>1, <2>2 DEF AheadOK
<1>15. V = w[Len(channel')]
  <2>1. n - 1 \in 0..(n - 1) /\ (n - 1) + 1 = n
    BY <1>1
  <2> QED
    BY <1>1, <1>4, <1>6, <2>1
<1>16. Keeps(V)'
  <2>1. /\ ctx' = ctx /\ pc' = pc /\ values' = values /\ new_ids' = new_ids
        /\ current_cycle' = current_cycle /\ context_hashes' = context_hashes
    BY DEF main
  <2>2. Keeps(V)
    BY <1>4 DEF n
  <2> QED
    BY <2>1, <2>2 DEF Keeps
<1> QED
  BY <1>12, <1>14, <1>15, <1>16 DEF Retention

LEMMA KeptStartNewCycle ==
    ASSUME Ownership, Retention, StartNewCycle
    PROVE  Retention'
<1> DEFINE c == Head(channel)
           n == Len(channel)
           u == Keys(Head(cycles))
           old == DOMAIN cycles[1]
<1>1. MainTypes /\ CollectorTypes /\ Apart
  BY DEF Ownership
<1>2. /\ sending = <<>> /\ channel # <<>> /\ IsCycle(c) /\ channel' = Tail(channel)
      /\ cycles' = Append(Tail(cycles), CycleOf(c))
      /\ SendUnused(u) /\ UNCHANGED main /\ free_ids' = free_ids /\ pending' = pending
  BY DEF StartNewCycle, IsCycle, Roll, CycleOf
<1>3. cycles' = Apply(cycles, c)
  BY <1>2 DEF Apply
<1>4. /\ n \in Nat \ {0} /\ n - 1 \in Nat /\ DOMAIN channel = 1..n /\ DOMAIN channel' = 1..(n - 1)
      /\ channel[1] = c /\ c \in Commands
      /\ \A j \in 1..(n - 1) : j + 1 \in 1..n /\ j + 1 # 1 /\ channel'[j] = channel[j + 1]
      /\ DOMAIN c.values_in_cycle \subseteq c.new_ids
  BY <1>1, <1>2, FirstTaken
<1>5. cycles \in CycleList /\ Head(cycles) = cycles[1] /\ cycles[1] \in Cycle /\ 1 \in 1..P
  <2>1. cycles \in CycleList
    BY <1>1 DEF CollectorTypes
  <2>2. 1 \in 1..P
    BY Sizes
  <2> QED
    BY <2>1, <2>2, ListFacts
<1> HIDE DEF c, n
<1>6. CycleOf(c) \in Cycle /\ DOMAIN CycleOf(c) = New(c)
  BY <1>2, <1>4, CycleOfIs
<1>7. u \in Seq(Ids) /\ Range(u) = old /\ Distinct(u)
  BY <1>5, KeysIs
<1> HIDE DEF u
<1>8. old \subseteq Held(cycles)
  BY <1>5, InHeld
<1>9. 1 \in DOMAIN channel
  BY <1>4
<1>10. Range(Released') = Range(Released) \cup old
  <2>1. Distinct(Released) /\ Range(Released) \cap Range(u) = {}
    BY <1>1, <1>7, <1>8 DEF Apart
  <2> QED
    BY <1>1, <1>2, <1>7, <2>1, SendUnusedIs
<1>11. \A x : x \in Held(cycles') <=> x \in New(c) \/ (x \in Held(cycles) /\ x \notin old)
  <2>1. Unique(cycles) /\ Held(cycles) \cap New(c) = {}
    BY <1>1, <1>4, <1>9 DEF Apart
  <2> QED
    BY <1>2, <1>5, <1>6, <2>1, RollUnique
<1>12. Covered'
  <2> SUFFICES ASSUME pc # "poisoned", NEW x \in 1..hashes
               PROVE  \/ x \in new_ids \/ x \in Held(cycles') \/ x \in Range(Released')
                      \/ \E j \in DOMAIN channel' : x \in New(channel'[j])
    BY <1>2 DEF Covered, main
  <2>1. \/ x \in new_ids \/ x \in Held(cycles) \/ x \in Range(Released)
        \/ \E j \in DOMAIN channel : x \in New(channel[j])
    BY DEF Retention, Covered
  <2>2. ASSUME NEW j \in DOMAIN channel, x \in New(channel[j])
        PROVE  x \in New(c) \/ \E k \in DOMAIN channel' : x \in New(channel'[k])
    <3>1. CASE j = 1
      BY <1>4, <2>2, <3>1
    <3>2. CASE j # 1
      <4>1. j - 1 \in 1..(n - 1) /\ (j - 1) + 1 = j
        BY <1>4, <3>2
      <4>2. channel'[j - 1] = channel[j]
        BY <1>4, <4>1
      <4> QED
        BY <1>4, <2>2, <4>1, <4>2
    <3> QED
      BY <3>1, <3>2
  <2> QED
    BY <1>10, <1>11, <2>1, <2>2
<1>13. PICK vs : Ahead(vs, cycles, channel) /\ AheadOK(vs, channel) /\ Keeps(vs[Len(channel)])
  BY DEF Retention
<1> QED
  BY <1>1, <1>2, <1>3, <1>12, <1>13, TakenAhead DEF c

LEMMA KeptMarkReused ==
    ASSUME Ownership, Retention, MarkReused
    PROVE  Retention'
<1> DEFINE c == Head(channel)
           n == Len(channel)
           ids == Visited(cycles, c.reused)
<1>1. MainTypes /\ CollectorTypes /\ Apart
  BY DEF Ownership
<1>2. /\ sending = <<>> /\ channel # <<>> /\ "reused" \in DOMAIN c /\ channel' = Tail(channel)
      /\ cycles' = MoveToLastCycle(cycles, ids)
      /\ SendPending /\ UNCHANGED main /\ free_ids' = free_ids /\ pending' = pending
  BY DEF MarkReused
<1>3. /\ n \in Nat \ {0} /\ n - 1 \in Nat /\ DOMAIN channel = 1..n /\ DOMAIN channel' = 1..(n - 1)
      /\ channel[1] = c /\ c \in Commands
      /\ \A j \in 1..(n - 1) : j + 1 \in 1..n /\ j + 1 # 1 /\ channel'[j] = channel[j + 1]
  BY <1>1, <1>2, FirstTaken
<1> HIDE DEF c
<1>4. cycles \in CycleList /\ c.reused \in SUBSET Ids /\ ~IsCycle(c) /\ New(c) = {} /\ Unique(cycles)
  BY <1>1, <1>2, <1>3, CommandIs DEF CollectorTypes, Apart
<1>5. cycles' = Apply(cycles, c)
  BY <1>2, <1>4 DEF Apply
<1>6. ids \in SUBSET Ids
  BY <1>4, VisitedType
<1>7. PICK vs : Ahead(vs, cycles, channel) /\ AheadOK(vs, channel) /\ Keeps(vs[Len(channel)])
  BY DEF Retention
<1>8. NoLoss(cycles, ids)
  <2>1. 1 \in 1..n /\ 1 - 1 = 0
    BY <1>3
  <2>2. vs[0] = cycles
    BY <1>7 DEF Ahead
  <2>3. NoLoss(vs[1 - 1], Visited(vs[1 - 1], channel[1].reused))
    BY <1>3, <1>4, <1>7, <2>1 DEF AheadOK, n
  <2> QED
    BY <1>3, <2>1, <2>2, <2>3
<1> HIDE DEF ids, n
<1>9. Held(cycles') = Held(cycles)
  BY <1>2, <1>4, <1>6, <1>8, MoveUnique
<1>10. Range(Released') = Range(Released)
  <2>1. Distinct(Released)
    BY <1>1 DEF Apart
  <2> QED
    BY <1>1, <1>2, <2>1, SendPendingIs
<1>11. Covered'
  <2> SUFFICES ASSUME pc # "poisoned", NEW x \in 1..hashes
               PROVE  \/ x \in new_ids \/ x \in Held(cycles') \/ x \in Range(Released')
                      \/ \E j \in DOMAIN channel' : x \in New(channel'[j])
    BY <1>2 DEF Covered, main
  <2>1. \/ x \in new_ids \/ x \in Held(cycles) \/ x \in Range(Released)
        \/ \E j \in DOMAIN channel : x \in New(channel[j])
    BY DEF Retention, Covered
  <2>2. ASSUME NEW j \in DOMAIN channel, x \in New(channel[j])
        PROVE  \E k \in DOMAIN channel' : x \in New(channel'[k])
    <3>1. j # 1
      BY <1>3, <1>4, <2>2
    <3>2. j - 1 \in 1..(n - 1) /\ (j - 1) + 1 = j
      BY <1>3, <3>1
    <3>3. channel'[j - 1] = channel[j]
      BY <1>3, <3>2
    <3> QED
      BY <1>3, <2>2, <3>2, <3>3
  <2> QED
    BY <1>9, <1>10, <2>1, <2>2
<1> QED
  BY <1>1, <1>2, <1>5, <1>7, <1>11, TakenAhead DEF c

LEMMA KeptPushSlice ==
    ASSUME Ownership, Retention, PushSlice
    PROVE  Retention'
<1>1. UNCHANGED main /\ channel' = channel /\ cycles' = cycles
  BY DEF PushSlice
<1>2. /\ ctx' = ctx /\ pc' = pc /\ values' = values /\ new_ids' = new_ids /\ hashes' = hashes
      /\ current_cycle' = current_cycle /\ context_hashes' = context_hashes
  BY <1>1 DEF main
<1>3. Range(Released') = Range(Released)
  BY PushSliceIs DEF Ownership
<1>4. Covered'
  BY <1>1, <1>2, <1>3 DEF Retention, Covered
<1> QED
  BY <1>1, <1>2, <1>4, SameEntries

\* One more command, and one more list of cycles to come.
LEMMA SentAhead ==
    ASSUME Ownership, NEW vs, Ahead(vs, cycles, channel), AheadOK(vs, channel),
           NEW c \in Commands, channel' = Append(channel, c), cycles' = cycles,
           NEW V, V = vs[Len(channel)], NEW W \in CycleList, W = Apply(V, c), Unique(W),
           \A x \in Held(W) : x \in Held(V) \/ x \in New(c),
           ~IsCycle(c) => NoLoss(V, Visited(V, c.reused)), Keeps(W)', Covered'
    PROVE  Retention'
<1> DEFINE n == Len(channel)
<1>1. /\ n \in Nat /\ Len(channel') = n + 1 /\ channel'[n + 1] = c
      /\ \A j \in 1..n : channel'[j] = channel[j]
  <2>1. channel \in Seq(Commands)
    BY DEF Ownership, CollectorTypes
  <2> QED
    BY <2>1, Sent
<1>2. /\ vs \in [0..n -> CycleList] /\ vs[0] = cycles
      /\ \A k \in 1..n : vs[k] = Apply(vs[k - 1], channel[k])
  BY DEF Ahead
<1>3. /\ \A k \in 0..n : Unique(vs[k])
      /\ \A k \in 0..n : \A i \in 0..k : \A x \in Held(vs[k]) :
            x \in Held(vs[i]) \/ \E j \in (i + 1)..k : x \in New(channel[j])
      /\ \A k \in 1..n : ~IsCycle(channel[k]) => NoLoss(vs[k - 1], Visited(vs[k - 1], channel[k].reused))
  BY DEF AheadOK
<1>4. V = vs[n]
  OBVIOUS
<1> HIDE DEF n
<1>5. PICK w : w = [k \in 0..(n + 1) |-> IF k <= n THEN vs[k] ELSE W]
  OBVIOUS
<1>6. /\ \A k \in 0..n : w[k] = vs[k]
      /\ w[n + 1] = W
      /\ \A k \in 0..(n + 1) : k \in 0..n \/ k = n + 1
      /\ \A k \in 1..(n + 1) : (k \in 1..n /\ k \in 0..n /\ k - 1 \in 0..n) \/ k = n + 1
      /\ (n + 1) - 1 = n /\ n \in 0..n /\ 0 \in 0..n
  BY <1>1, <1>5
<1>7. w \in [0..(n + 1) -> CycleList]
  BY <1>1, <1>2, <1>5
<1>8. \A k \in 1..(n + 1) : w[k] = Apply(w[k - 1], channel'[k])
  <2> SUFFICES ASSUME NEW k \in 1..(n + 1) PROVE w[k] = Apply(w[k - 1], channel'[k])
    OBVIOUS
  <2>1. CASE k = n + 1
    <3>1. w[k - 1] = V /\ channel'[k] = c /\ w[k] = W
      BY <1>1, <1>4, <1>6, <2>1
    <3> QED
      BY <3>1
  <2>2. CASE k # n + 1
    <3>1. k \in 1..n /\ w[k] = vs[k] /\ w[k - 1] = vs[k - 1] /\ channel'[k] = channel[k]
      BY <1>1, <1>6, <2>2
    <3> QED
      BY <1>2, <3>1
  <2> QED
    BY <2>1, <2>2
<1>9. Ahead(w, cycles', channel')
  BY <1>1, <1>2, <1>6, <1>7, <1>8 DEF Ahead
<1>10. ASSUME NEW k \in 0..n, NEW i \in 0..k, NEW x \in Held(vs[k])
       PROVE  x \in Held(w[i]) \/ \E j \in (i + 1)..k : x \in New(channel'[j])
  <2>1. i \in 0..n /\ \A j \in (i + 1)..k : j \in 1..n
    BY <1>1
  <2>2. x \in Held(vs[i]) \/ \E j \in (i + 1)..k : x \in New(channel[j])
    BY <1>3, <1>10
  <2> QED
    BY <1>1, <1>6, <2>1, <2>2
<1>11. ASSUME NEW k \in 0..(n + 1), NEW i \in 0..k, NEW x \in Held(w[k])
       PROVE  x \in Held(w[i]) \/ \E j \in (i + 1)..k : x \in New(channel'[j])
  <2>1. CASE k \in 0..n
    <3>1. w[k] = vs[k]
      BY <1>6, <2>1
    <3> QED
      BY <1>10, <1>11, <2>1, <3>1
  <2>2. CASE k = n + 1 /\ i = n + 1
    BY <1>11, <2>2
  <2>3. CASE k = n + 1 /\ i # n + 1
    <3>1. i \in 0..n /\ n + 1 \in (i + 1)..(n + 1) /\ (i + 1)..n \subseteq (i + 1)..(n + 1)
      BY <1>1, <2>3
    <3>2. x \in Held(vs[n]) \/ x \in New(c)
      BY <1>4, <1>6, <1>11, <2>3
    <3>3. CASE x \in New(c)
      BY <1>1, <2>3, <3>1, <3>3
    <3>4. CASE x \in Held(vs[n])
      <4>1. x \in Held(w[i]) \/ \E j \in (i + 1)..n : x \in New(channel'[j])
        BY <1>6, <1>10, <3>1, <3>4
      <4> QED
        BY <2>3, <3>1, <4>1
    <3> QED
      BY <3>2, <3>3, <3>4
  <2> QED
    BY <1>6, <2>1, <2>2, <2>3
<1>12. AheadOK(w, channel')
  <2>1. \A k \in 0..(n + 1) : Unique(w[k])
    BY <1>3, <1>6
  <2>2. ASSUME NEW k \in 1..(n + 1), ~IsCycle(channel'[k])
        PROVE  NoLoss(w[k - 1], Visited(w[k - 1], channel'[k].reused))
    <3>1. CASE k = n + 1
      <4>1. w[k - 1] = V /\ channel'[k] = c
        BY <1>1, <1>4, <1>6, <3>1
      <4> QED
        BY <2>2, <4>1
    <3>2. CASE k # n + 1
      <4>1. k \in 1..n /\ w[k - 1] = vs[k - 1] /\ channel'[k] = channel[k]
        BY <1>1, <1>6, <3>2
      <4> QED
        BY <1>3, <2>2, <4>1
    <3> QED
      BY <3>1, <3>2
  <2> QED
    BY <1>1, <1>11, <2>1, <2>2 DEF AheadOK
<1>13. W = w[Len(channel')]
  BY <1>1, <1>6
<1> QED
  BY <1>9, <1>12, <1>13 DEF Retention

\* With a new cycle every id and every commit moves one place down.
LEMMA KeptShift ==
    ASSUME NEW D, NEW E, NEW vals, \A m \in 2..(P + 1) : E[m - 1] = D[m],
           NEW x, NEW n \in Int, n >= 1, NEW v, Kept(D, vals, x, n + 1, v)
    PROVE  Kept(E, vals, x, n, v)
<1>1. v # None
  BY DEF Kept
<1>2. PICK m \in 1..(P + 1) : m >= n + 1 /\ x \in D[m] /\ Val(vals, x) = v
  BY DEF Kept
<1>3. m \in 2..(P + 1) /\ m - 1 \in 1..(P + 1) /\ m - 1 >= n
  BY <1>2, Sizes
<1>4. x \in E[m - 1]
  BY <1>2, <1>3
<1> QED
  BY <1>1, <1>2, <1>3, <1>4 DEF Kept

LEMMA KeptCycleStarted ==
    ASSUME Ownership, Retention, ~LeftOver, CycleStarted
    PROVE  Retention'
<1> DEFINE c == [values_in_cycle |-> current_cycle, new_ids |-> new_ids]
<1>1. MainTypes /\ CollectorTypes /\ ContextOK /\ Apart
  BY DEF Ownership
<1>2. /\ pc = "idle" /\ ctx = None /\ ctx' = ctx /\ pc' = pc
      /\ channel' = Append(channel, c) /\ cycles' = cycles /\ values' = values /\ hashes' = hashes
      /\ current_cycle' = NoCycle /\ new_ids' = {}
      /\ context_hashes' = Append(Tail(context_hashes), {})
      /\ UNCHANGED <<free_ids, gc>>
  BY DEF CycleStarted, gc, LeftOver
<1>3. current_cycle \in Cycle /\ new_ids \in SUBSET Ids /\ DOMAIN current_cycle \subseteq new_ids
  BY <1>1 DEF MainTypes
<1>4. /\ c \in Commands /\ IsCycle(c) /\ c.values_in_cycle = current_cycle /\ c.new_ids = new_ids
      /\ New(c) = new_ids
  BY <1>3, CycleCommand, Zenon
<1> HIDE DEF c
<1>5. /\ CycleOf(c) \in Cycle /\ DOMAIN CycleOf(c) = new_ids
      /\ \A x \in new_ids : CycleOf(c)[x] = IF x \in DOMAIN current_cycle THEN current_cycle[x] ELSE None
  BY <1>3, <1>4, CycleOfIs
<1>6. PICK vs : Ahead(vs, cycles, channel) /\ AheadOK(vs, channel) /\ Keeps(vs[Len(channel)])
  BY DEF Retention
<1>7. PICK V : V = vs[Len(channel)]
  OBVIOUS
<1>8. V \in CycleList /\ Unique(V) /\ Held(V) \cap new_ids = {}
  BY <1>6, <1>7, FinalIs
<1>9. PICK W : W = Append(Tail(V), CycleOf(c))
  OBVIOUS
<1>10. /\ W \in CycleList /\ W[P] = CycleOf(c)
       /\ \A n \in 1..(P - 1) : n + 1 \in 1..P /\ W[n] = V[n + 1]
  <2>1. CycleOf(c) \in Cycle
    BY <1>5
  <2> QED
    BY <1>8, <1>9, <2>1, RollIs, Zenon
<1>11. Unique(W) /\ \A x \in Held(W) : x \in Held(V) \/ x \in New(c)
  BY <1>4, <1>5, <1>8, <1>9, RollUnique
<1>12. W = Apply(V, c)
  BY <1>4, <1>9 DEF Apply
<1> DEFINE D == Places(V, new_ids)
           E == Places(W, {})
<1>13. /\ Contents(V, values, new_ids, current_cycle) /\ Lag(D, values)
       /\ KnownKept(D, values, context_hashes)
  BY <1>6, <1>7 DEF Keeps
<1>14. E[P + 1] = {} /\ \A n \in 1..P : E[n] = D[n + 1]
  <2>1. /\ \A n \in 1..P : D[n] = DOMAIN V[n] /\ E[n] = DOMAIN W[n]
        /\ D[P + 1] = new_ids /\ E[P + 1] = {}
    BY PlacesIs
  <2> HIDE DEF D, E
  <2>2. ASSUME NEW n \in 1..P PROVE E[n] = D[n + 1]
    <3>1. CASE n = P
      BY <1>5, <1>10, <2>1, <3>1
    <3>2. CASE n # P
      <4>1. n \in 1..(P - 1)
        BY <3>2, Sizes
      <4> QED
        BY <1>10, <2>1, <4>1
    <3> QED
      BY <3>1, <3>2
  <2> QED
    BY <2>1, <2>2
<1> HIDE DEF D, E
<1>15. \A m \in 2..(P + 1) : m - 1 \in 1..P /\ E[m - 1] = D[m]
  <2> SUFFICES ASSUME NEW m \in 2..(P + 1) PROVE m - 1 \in 1..P /\ E[m - 1] = D[m]
    OBVIOUS
  <2>1. m - 1 \in 1..P /\ (m - 1) + 1 = m
    BY Sizes
  <2> QED
    BY <1>14, <2>1
<1>16. Lag(E, values)
  <2> SUFFICES ASSUME NEW n \in 2..(P + 1), NEW x \in E[n], Val(values, x) # None, NEW y \in Val(values, x)
               PROVE  \E m \in 1..(P + 1) : m >= n - 1 /\ y \in E[m] /\ Val(values, y) # None
    BY DEF Lag
  <2>1. n # P + 1
    BY <1>14
  <2>2. n \in 1..P /\ n + 1 \in 2..(P + 1) /\ (n + 1) - 1 = n /\ n >= 2
    BY <2>1, Sizes
  <2>3. x \in D[n + 1]
    BY <1>14, <2>2
  <2>4. PICK m \in 1..(P + 1) : m >= (n + 1) - 1 /\ y \in D[m] /\ Val(values, y) # None
    BY <1>13, <2>2, <2>3 DEF Lag
  <2>5. m \in 2..(P + 1) /\ m - 1 \in 1..(P + 1) /\ m - 1 >= n - 1
    BY <2>2, <2>4, Sizes
  <2> QED
    BY <1>15, <2>4, <2>5
<1>17. KnownKept(E, values, context_hashes')
  <2>1. context_hashes \in [1..P -> SUBSET CommitRecords]
    BY <1>1 DEF MainTypes
  <2>2. /\ context_hashes'[P] = {}
        /\ \A i \in 1..(P - 1) : i + 1 \in 1..P /\ context_hashes'[i] = context_hashes[i + 1]
    BY <1>2, <2>1, KnownShift
  <2> SUFFICES ASSUME NEW i \in 1..P, NEW commit \in context_hashes'[i] PROVE CommitKept(E, values, i, commit)
    BY DEF KnownKept
  <2>3. i \in 1..(P - 1) /\ i + 1 \in 1..P /\ commit \in context_hashes[i + 1]
    <3>1. i # P
      BY <2>2
    <3>2. i \in 1..(P - 1)
      BY <3>1, Sizes
    <3> QED
      BY <2>2, <3>2
  <2>4. CommitKept(D, values, i + 1, commit) /\ commit \in CommitRecords
    BY <1>13, <2>1, <2>3 DEF KnownKept
  <2>5. commit.path \in Seq(Ids)
    BY <2>4 DEF CommitRecords
  <2>6. Kept(E, values, commit.id, i + 1, {commit.path[1]})
    <3>1. i + 1 \in Int /\ i + 1 >= 1
      BY <2>3
    <3>2. Kept(D, values, commit.id, (i + 1) + 1, {commit.path[1]})
      BY <2>4 DEF CommitKept
    <3> QED
      BY <1>15, <3>1, <3>2, KeptShift
  <2>7. ASSUME NEW l \in DOMAIN commit.path, l - 1 <= i
        PROVE  Kept(E, values, commit.path[l], i + 2 - l, Child(commit.path, l))
    <3>1. l \in Nat
      BY <2>5
    <3>2. l - 1 <= i + 1 /\ i + 2 - l \in Int /\ i + 2 - l >= 1 /\ (i + 1) + 2 - l = (i + 2 - l) + 1
      BY <2>3, <2>7, <3>1
    <3>3. Kept(D, values, commit.path[l], (i + 1) + 2 - l, Child(commit.path, l))
      BY <2>4, <3>2 DEF CommitKept
    <3> QED
      BY <1>15, <3>2, <3>3, KeptShift
  <2> QED
    BY <2>4, <2>6, <2>7 DEF CommitKept
<1>18. Contents(W, values, {}, NoCycle)
  <2> SUFFICES ASSUME NEW n \in 1..P, NEW x \in DOMAIN W[n] PROVE W[n][x] = Val(values, x)
    BY DEF Contents
  <2>1. CASE n = P
    BY <1>5, <1>10, <1>13, <2>1 DEF Contents
  <2>2. CASE n # P
    <3>1. n \in 1..(P - 1)
      BY <2>2, Sizes
    <3> QED
      BY <1>10, <1>13, <3>1 DEF Contents
  <2> QED
    BY <2>1, <2>2
<1>19. ContextKept(E, values, {}, ctx', pc')
  BY <1>2 DEF ContextKept, Operations
<1>20. Keeps(W)'
  BY <1>2, <1>16, <1>17, <1>18, <1>19 DEF Keeps, E
<1>21. Covered'
  <2>1. /\ DOMAIN channel' = DOMAIN channel \cup {Len(channel) + 1} /\ channel'[Len(channel) + 1] = c
        /\ \A j \in DOMAIN channel : channel'[j] = channel[j]
    <3> DEFINE n == Len(channel)
    <3>1. channel \in Seq(Commands)
      BY <1>1 DEF CollectorTypes
    <3>2. /\ n \in Nat /\ DOMAIN channel = 1..n /\ DOMAIN channel' = 1..(n + 1) /\ channel'[n + 1] = c
          /\ \A j \in 1..n : channel'[j] = channel[j]
      BY <1>2, <1>4, <3>1, Sent
    <3> HIDE DEF n
    <3>3. 1..(n + 1) = 1..n \cup {n + 1}
      BY <3>2
    <3> QED
      BY <3>2, <3>3 DEF n
  <2>2. Released' = Released
    BY <1>2 DEF Released, gc
  <2>3. Covered
    BY DEF Retention
  <2> QED
    BY <1>2, <1>4, <2>1, <2>2, <2>3 DEF Covered
<1> QED
  BY <1>2, <1>4, <1>6, <1>7, <1>10, <1>11, <1>12, <1>20, <1>21, SentAhead

\* The walk from the root of a commit whose entries are all there.
Reaches(p, path, n) ==
    /\ p \in Paths /\ Len(p) \in 1..Len(path)
    /\ Len(p) = n + 1 \/ (Len(p) = Len(path) /\ Len(path) <= n + 1)
    /\ \A j \in 1..Len(p) : p[j] = path[j]

LEMMA LongerFollows ==
    ASSUME values \in Seq(Values), NEW path \in Seq(Ids),
           \A l \in DOMAIN path : Val(values, path[l]) = Child(path, l),
           NEW p, NEW n \in Nat, Reaches(p, path, n)
    PROVE  Reaches(Longer(p), path, n + 1)
<1> DEFINE q == Len(p)
           N == Len(path)
<1>1. p \in Seq(Ids) /\ p # <<>> /\ q \in Nat /\ N \in Nat /\ DOMAIN path = 1..N /\ p \in Paths
  BY DEF Reaches, Paths
<1>2. /\ q \in 1..N /\ (q = n + 1 \/ (q = N /\ N <= n + 1)) /\ \A j \in 1..q : p[j] = path[j]
  BY DEF Reaches
<1>3. Last(p) = path[q]
  <2>1. Last(p) = p[q]
    BY DEF Last
  <2>2. q \in 1..q
    BY <1>2
  <2> QED
    BY <1>2, <2>1, <2>2
<1>4. ValueAt(Last(p)) = Child(path, q)
  BY <1>1, <1>2, <1>3, ValueAtIs
<1> HIDE DEF q, N
<1>5. CASE q = N
  <2>1. Child(path, q) = {}
    BY <1>1, <1>5 DEF Child, N
  <2>2. Longer(p) = p
    BY <1>4, <2>1 DEF Longer
  <2>3. q = n + 2 \/ (q = N /\ N <= n + 2)
    BY <1>1, <1>2, <1>5
  <2>4. (n + 1) + 1 = n + 2
    OBVIOUS
  <2> QED
    BY <1>1, <1>2, <2>2, <2>3, <2>4 DEF Reaches, q, N
<1>6. CASE q # N
  <2>1. q < N /\ q = n + 1 /\ q + 1 \in 1..N /\ q + 1 = (n + 1) + 1
    BY <1>1, <1>2, <1>6
  <2>2. PICK y : y = path[q + 1]
    OBVIOUS
  <2>3. y \in Ids /\ Child(path, q) = {y}
    BY <1>1, <2>1, <2>2 DEF Child, N
  <2>4. {y} # None /\ {y} # {} /\ (CHOOSE child \in {y} : TRUE) = y
    <3>1. {y} \in SUBSET Ids
      BY <2>3
    <3> QED
      BY <3>1, NoneAssumption
  <2>5. Longer(p) = Append(p, y)
    BY <1>4, <2>3, <2>4, Zenon DEF Longer
  <2> DEFINE a == Append(p, y)
  <2>6. /\ a \in Seq(Ids) /\ Len(a) = q + 1 /\ a[q + 1] = y /\ \A j \in 1..q : a[j] = p[j]
    BY <1>1, <2>3, AppendProperties DEF q
  <2>7. a # <<>>
    BY <1>1, <2>6
  <2> HIDE DEF a
  <2>8. \A j \in 1..(q + 1) : a[j] = path[j]
    <3> SUFFICES ASSUME NEW j \in 1..(q + 1) PROVE a[j] = path[j]
      OBVIOUS
    <3>1. j \in 1..q \/ j = q + 1
      BY <1>1
    <3> QED
      BY <1>2, <2>2, <2>6, <3>1
  <2>9. Longer(p) = a
    BY <2>5 DEF a
  <2> QED
    BY <2>1, <2>6, <2>7, <2>8, <2>9 DEF Reaches, Paths, N
<1> QED
  BY <1>5, <1>6

LEMMA PathFound ==
    ASSUME values \in Seq(Values), NEW path \in Seq(Ids), Len(path) \in 1..(Levels + 1),
           \A l \in DOMAIN path : Val(values, path[l]) = Child(path, l)
    PROVE  Len(PathFrom(path[1])) = Len(path) /\ \A j \in 1..Len(path) : PathFrom(path[1])[j] = path[j]
<1> DEFINE N == Len(path)
<1>1. PICK root : root = path[1]
  OBVIOUS
<1>2. N \in 1..(Levels + 1) /\ Levels \in Nat /\ root \in Ids
  BY <1>1, Sizes
<1>3. PICK h : Walk(root, h) /\ PathFrom(root) = h[Levels]
  BY <1>2, PathIs
<1>4. h[0] = <<root>> /\ \A n \in 1..Levels : h[n] = Longer(h[n - 1])
  BY <1>3 DEF Walk
<1> DEFINE T == {n \in Nat : n <= Levels => Reaches(h[n], path, n)}
<1>5. Reaches(h[0], path, 0)
  <2> DEFINE r == <<root>>
  <2>1. r \in Seq(Ids) /\ r # <<>> /\ Len(r) = 1 /\ r[1] = root
    BY <1>2
  <2>2. h[0] = r
    BY <1>4
  <2> HIDE DEF r, N
  <2>3. 1 \in 1..N /\ 1 = 0 + 1 /\ \A j \in 1..1 : j = 1
    BY <1>2
  <2> QED
    BY <1>1, <2>1, <2>2, <2>3 DEF Reaches, Paths, N
<1>6. T \in SUBSET Nat /\ 0 \in T
  BY <1>5
<1>7. ASSUME NEW n \in T PROVE n + 1 \in T
  <2>1. n \in Nat
    OBVIOUS
  <2> SUFFICES ASSUME n + 1 <= Levels PROVE Reaches(h[n + 1], path, n + 1)
    BY <2>1
  <2>2. n <= Levels /\ n + 1 \in 1..Levels /\ (n + 1) - 1 = n
    BY <1>2, <2>1
  <2>3. Reaches(h[n], path, n)
    BY <2>2
  <2>4. h[n + 1] = Longer(h[n])
    BY <1>4, <2>2
  <2> QED
    BY <2>1, <2>3, <2>4, LongerFollows
<1> HIDE DEF T
<1>8. T = Nat
  BY <1>6, <1>7, SetInduction
<1>9. Reaches(h[Levels], path, Levels)
  BY <1>2, <1>8 DEF T
<1>10. PICK p : p = h[Levels]
  OBVIOUS
<1>11. Len(p) \in 1..N /\ (Len(p) = Levels + 1 \/ Len(p) = N) /\ \A j \in 1..Len(p) : p[j] = path[j]
  BY <1>9, <1>10 DEF Reaches
<1> HIDE DEF N
<1>12. Len(p) = N
  BY <1>2, <1>11
<1> QED
  BY <1>1, <1>3, <1>10, <1>11, <1>12 DEF N

LEMMA KeptCheckout ==
    ASSUME Ownership, Retention, NEW i \in 1..P, NEW commit \in context_hashes[i],
           Near(i, commit), Checkout(commit)
    PROVE  Retention'
<1>1. pc = "idle" /\ UNCHANGED <<Owners, context_hashes, pc>>
  BY DEF Checkout, Owners
<1>2. values \in Seq(Values) /\ context_hashes \in [1..P -> SUBSET CommitRecords]
  BY DEF Ownership, MainTypes
<1>3. PICK root \in ValueAt(commit.id) :
          /\ ValueAt(commit.id) # None /\ root \in Ids
          /\ ctx' \in Seq(Nodes) /\ Len(ctx') = Len(PathFrom(root)) - 1
          /\ Len(ctx') <= Levels
          /\ \A l \in DOMAIN ctx' : ctx'[l] = Node(PathFrom(root)[l + 1], TRUE)
  BY CheckedOut
<1>4. PICK path : path = commit.path
  OBVIOUS
<1>5. commit \in CommitRecords /\ path \in Seq(Ids)
  <2>1. commit \in CommitRecords
    BY <1>2
  <2> QED
    BY <1>4, <2>1 DEF CommitRecords
<1>6. Len(path) - 1 <= i /\ i \in Nat
  BY <1>4, Sizes DEF Near
<1>7. PICK vs : Ahead(vs, cycles, channel) /\ AheadOK(vs, channel) /\ Keeps(vs[Len(channel)])
  BY DEF Retention
<1>8. PICK V : V = vs[Len(channel)]
  OBVIOUS
<1> DEFINE D == Places(V, new_ids)
           N == Len(path)
<1>9. /\ Contents(V, values, new_ids, current_cycle) /\ Lag(D, values)
       /\ KnownKept(D, values, context_hashes)
  BY <1>7, <1>8 DEF Keeps
<1> HIDE DEF D
<1>10. CommitKept(D, values, i, commit)
  BY <1>9 DEF KnownKept
<1>11. N \in 1..(Levels + 1) /\ DOMAIN path = 1..N /\ N \in Nat
  BY <1>4, <1>5, <1>10 DEF CommitKept
<1>12. Val(values, commit.id) = {path[1]}
  BY <1>4, <1>10 DEF CommitKept, Kept
<1>13. root = path[1]
  BY <1>3, <1>12, ValueAtIs
<1>14. \A l \in 1..N : Kept(D, values, path[l], i + 2 - l, Child(path, l))
  <2>1. \A l \in 1..N : l - 1 <= i
    <3>1. N - 1 <= i
      BY <1>6
    <3> HIDE DEF N
    <3> QED
      BY <1>6, <1>11, <3>1
  <2> QED
    BY <1>4, <1>10, <1>11, <2>1 DEF CommitKept
<1>15. \A l \in DOMAIN path : Val(values, path[l]) = Child(path, l)
  BY <1>11, <1>14 DEF Kept
<1>16. Len(PathFrom(root)) = N /\ \A j \in 1..N : PathFrom(root)[j] = path[j]
  BY <1>2, <1>5, <1>11, <1>13, <1>15, PathFound
<1>17. Len(ctx') = N - 1 /\ DOMAIN ctx' = 1..(N - 1) /\ N - 1 \in Nat
  <2> HIDE DEF N
  <2> QED
    BY <1>3, <1>11, <1>16
<1>18. ASSUME NEW l \in 1..(N - 1) PROVE l + 1 \in 1..N /\ ctx'[l].id = path[l + 1]
  <2>1. l + 1 \in 1..N
    <3> HIDE DEF N
    <3> QED
      BY <1>11
  <2>2. ctx'[l] = Node(PathFrom(root)[l + 1], TRUE)
    BY <1>3, <1>17
  <2>3. PathFrom(root)[l + 1] = path[l + 1]
    BY <1>16, <2>1
  <2>4. ctx'[l] = Node(path[l + 1], TRUE)
    BY <2>2, <2>3, Zenon
  <2> QED
    BY <2>1, <2>4 DEF Node
<1> HIDE DEF N
<1>19. ASSUME NEW l \in 1..(N - 1) PROVE Stored(D, values, ctx', l)
  <2>1. BelowOf(ctx', l) = Child(path, l + 1)
    <3>1. CASE l < N - 1
      <4>1. l + 1 \in 1..(N - 1) /\ l + 1 < N
        BY <1>11, <3>1
      <4> QED
        BY <1>17, <1>18, <3>1, <4>1 DEF BelowOf, Child, N
    <3>2. CASE ~(l < N - 1)
      <4>1. ~(l + 1 < N)
        BY <1>11, <3>2
      <4> QED
        BY <1>17, <3>2, <4>1 DEF BelowOf, Child, N
    <3> QED
      BY <3>1, <3>2
  <2>2. Kept(D, values, path[l + 1], i + 2 - (l + 1), Child(path, l + 1))
    BY <1>14, <1>18
  <2>3. PICK m \in 1..(P + 1) : m >= i + 2 - (l + 1) /\ path[l + 1] \in D[m] /\ Val(values, path[l + 1]) = Child(path, l + 1)
    BY <2>2 DEF Kept
  <2>4. m >= 1
    BY <2>3
  <2>5. Child(path, l + 1) # None
    BY <2>2 DEF Kept
  <2> QED
    BY <1>18, <2>1, <2>3, <2>4, <2>5 DEF Stored, Kept
<1>20. ContextKept(D, values, new_ids, ctx', pc)
  BY <1>17, <1>19 DEF ContextKept
<1>21. Keeps(V)'
  BY <1>1, <1>9, <1>20 DEF Keeps, Owners, D
<1>22. Covered'
  BY <1>1, SameCovered DEF Retention
<1> QED
  BY <1>1, <1>7, <1>8, <1>21, <1>22, SameAhead DEF Owners, gc

-----------------------------------------------------------------------------
(* Nothing that can be checked out is given away: commit.                  *)

\* What is visited stays within any set that what is reused leads to.
LEMMA VisitedWithin ==
    ASSUME NEW list \in CycleList, NEW reused \in SUBSET Ids, NEW S, reused \subseteq S,
           \A x \in S : Earlier(list, x) # {} => Item(list, x) \subseteq S
    PROVE  Visited(list, reused) \subseteq S
<1>1. PICK f : Rounds(list, reused, f) /\ Visited(list, reused) = f[MaxId]
  BY VisitedIs
<1>2. /\ f \in [0..MaxId -> SUBSET Ids] /\ f[0] = reused
      /\ \A n \in 1..MaxId : f[n] = Round(list, f[n - 1])
  BY <1>1 DEF Rounds
<1> DEFINE T == {n \in Nat : n <= MaxId => f[n] \subseteq S}
<1>3. T \in SUBSET Nat /\ 0 \in T
  BY <1>2
<1>4. ASSUME NEW n \in T PROVE n + 1 \in T
  <2>1. n \in Nat
    OBVIOUS
  <2> SUFFICES ASSUME n + 1 <= MaxId PROVE f[n + 1] \subseteq S
    BY <2>1
  <2>2. n <= MaxId /\ n + 1 \in 1..MaxId /\ (n + 1) - 1 = n /\ n \in 0..MaxId
    BY <2>1, Sizes
  <2>3. f[n] \subseteq S /\ f[n] \in SUBSET Ids
    BY <1>2, <2>2
  <2>4. f[n + 1] = Round(list, f[n])
    BY <1>2, <2>2
  <2>5. \A x \in Round(list, f[n]) : x \in f[n] \/ \E i \in f[n] : Earlier(list, i) # {} /\ x \in Item(list, i)
    BY <2>3, RoundIs
  <2> HIDE DEF T
  <2> QED
    BY <2>3, <2>4, <2>5
<1> HIDE DEF T
<1>5. T = Nat
  BY <1>3, <1>4, SetInduction
<1>6. f[MaxId] \subseteq S
  BY <1>5, Sizes DEF T
<1> QED
  BY <1>1, <1>6

\* The rounds suffice: what is below a moved id has been visited.  A round
\* that is not the last one finds an id more, and there are MaxId of them.
LEMMA VisitedClosed ==
    ASSUME NEW list \in CycleList, NEW reused \in SUBSET Ids
    PROVE  /\ reused \subseteq Visited(list, reused)
           /\ \A x \in Visited(list, reused) : Earlier(list, x) # {} => Item(list, x) \subseteq Visited(list, reused)
<1>1. PICK f : Rounds(list, reused, f) /\ Visited(list, reused) = f[MaxId]
  BY VisitedIs
<1>2. /\ f \in [0..MaxId -> SUBSET Ids] /\ f[0] = reused
      /\ \A n \in 1..MaxId : f[n] = Round(list, f[n - 1])
  BY <1>1 DEF Rounds
<1>3. IsFiniteSet(Ids) /\ Cardinality(Ids) = MaxId
  BY FS_Interval, Sizes DEF Ids
<1>4. \A s \in SUBSET Ids : IsFiniteSet(s) /\ Cardinality(s) \in Nat /\ Cardinality(s) <= MaxId
  BY <1>3, FS_Subset, FS_CardinalityType
<1> DEFINE Big(n) == n + 1 <= Cardinality(f[n])
           Stable(n) == Round(list, f[n]) = f[n]
           T == {n \in Nat : n <= MaxId => reused \subseteq f[n] /\ (Stable(n) \/ Big(n))}
<1>5. 0 \in T
  <2>1. f[0] \in SUBSET Ids /\ f[0] = reused
    BY <1>2, Sizes
  <2>2. CASE f[0] = {}
    <3>1. \A x : x \notin Round(list, f[0])
      BY <2>1, <2>2, RoundIs
    <3>2. Round(list, f[0]) = f[0]
      BY <2>2, <3>1
    <3> QED
      BY <2>1, <3>2
  <2>3. CASE f[0] # {}
    <3>1. Cardinality(f[0]) # 0 /\ Cardinality(f[0]) \in Nat
      BY <1>4, <2>1, <2>3, FS_EmptySet
    <3>2. 0 + 1 <= Cardinality(f[0])
      BY <3>1
    <3> QED
      BY <2>1, <3>2
  <2> QED
    BY <2>2, <2>3
<1>6. ASSUME NEW n \in T PROVE n + 1 \in T
  <2>1. n \in Nat
    OBVIOUS
  <2> SUFFICES ASSUME n + 1 <= MaxId PROVE reused \subseteq f[n + 1] /\ (Stable(n + 1) \/ Big(n + 1))
    BY <2>1
  <2>2. n <= MaxId /\ n + 1 \in 1..MaxId /\ (n + 1) - 1 = n /\ n \in 0..MaxId /\ n + 1 \in 0..MaxId
    BY <2>1, Sizes
  <2>3. f[n] \in SUBSET Ids /\ f[n + 1] \in SUBSET Ids /\ f[n + 1] = Round(list, f[n])
    BY <1>2, <2>2
  <2>4. reused \subseteq f[n] /\ (Stable(n) \/ Big(n))
    BY <2>2
  <2>5. f[n] \subseteq f[n + 1]
    BY <2>3, RoundIs
  <2>6. CASE f[n + 1] = f[n]
    BY <2>3, <2>4, <2>6
  <2>7. CASE f[n + 1] # f[n]
    <3>1. Big(n)
      BY <2>3, <2>4, <2>7
    <3>2. Cardinality(f[n]) <= Cardinality(f[n + 1]) /\ Cardinality(f[n + 1]) # Cardinality(f[n])
      BY <1>4, <2>3, <2>5, <2>7, FS_Subset
    <3>3. Cardinality(f[n]) \in Nat /\ Cardinality(f[n + 1]) \in Nat
      BY <1>4, <2>3
    <3>4. (n + 1) + 1 <= Cardinality(f[n + 1])
      BY <2>1, <3>1, <3>2, <3>3
    <3> QED
      BY <2>4, <2>5, <3>4
  <2> QED
    BY <2>6, <2>7
<1>7. T \in SUBSET Nat
  OBVIOUS
<1> HIDE DEF T
<1>8. T = Nat
  BY <1>5, <1>6, <1>7, SetInduction
<1>9. reused \subseteq f[MaxId] /\ (Stable(MaxId) \/ Big(MaxId)) /\ f[MaxId] \in SUBSET Ids
  BY <1>2, <1>8, Sizes DEF T
<1>10. ~Big(MaxId)
  <2>1. Cardinality(f[MaxId]) \in Nat /\ Cardinality(f[MaxId]) <= MaxId
    BY <1>4, <1>9
  <2> QED
    BY <2>1, Sizes
<1>11. Round(list, f[MaxId]) = f[MaxId]
  BY <1>9, <1>10
<1>12. \A x \in f[MaxId] : Earlier(list, x) # {} => \A y \in Item(list, x) : y \in Round(list, f[MaxId])
  BY <1>9, RoundIs
<1> QED
  BY <1>1, <1>9, <1>11, <1>12

\* Where the ids are after the move.
LEMMA MovedPlaces ==
    ASSUME NEW list \in CycleList, Unique(list), NEW ids \in SUBSET Ids, NoLoss(list, ids), NEW fresh,
           NEW D, D = Places(list, fresh), NEW E, E = Places(MoveToLastCycle(list, ids), fresh)
    PROVE  /\ \A n \in 1..(P + 1) : \A x \in D[n] : x \in E[n] \/ (n < P /\ x \in ids /\ x \in E[P])
           /\ \A n \in 1..(P + 1) : \A x \in D[n] : x \in ids => \E m \in 1..(P + 1) : m >= P /\ x \in E[m]
           /\ \A n \in 1..(P + 1) : \A x \in E[n] :
                 \/ x \in D[n]
                 \/ n = P /\ x \in ids /\ Earlier(list, x) # {} /\ \E j \in 1..P : x \in DOMAIN list[j] /\ list[j][x] = Item(list, x)
<1> DEFINE m == MoveToLastCycle(list, ids)
           moved == {x \in ids : Earlier(list, x) # {}}
<1>1. /\ \A n \in 1..(P - 1) : DOMAIN m[n] = DOMAIN list[n] \ ids
      /\ DOMAIN m[P] = DOMAIN list[P] \cup moved
  BY MoveIs
<1>2. /\ \A n \in 1..(P + 1) : n \in 1..(P - 1) \/ n = P \/ n = P + 1
      /\ \A n \in 1..(P - 1) : n \in 1..P /\ n \in 1..(P + 1) /\ n < P
      /\ P \in 1..P /\ P \in 1..(P + 1) /\ P + 1 \in 1..(P + 1) /\ P >= P /\ P + 1 >= P
  BY Sizes
<1>3. /\ \A n \in 1..P : D[n] = DOMAIN list[n] /\ E[n] = DOMAIN m[n]
      /\ D[P + 1] = fresh /\ E[P + 1] = fresh
  BY PlacesIs
<1>4. \A x \in moved : x \in ids /\ Earlier(list, x) # {} /\ \E n \in 1..(P - 1) : x \in DOMAIN list[n] /\ list[n][x] = Item(list, x)
  BY ItemIs
<1>5. ASSUME NEW x, NEW n \in 1..(P - 1), x \in DOMAIN list[n], x \in ids PROVE x \in moved
  <2>1. list[n][x] # None
    BY <1>5 DEF NoLoss
  <2> QED
    BY <1>5, <2>1, EarlierIs
<1> HIDE DEF m, moved
<1>6. ASSUME NEW n \in 1..(P + 1), NEW x \in D[n] PROVE x \in E[n] \/ (n < P /\ x \in ids /\ x \in E[P])
  <2>1. CASE n \in 1..(P - 1)
    BY <1>1, <1>2, <1>3, <1>5, <2>1
  <2>2. CASE n = P
    BY <1>1, <1>2, <1>3, <2>2
  <2>3. CASE n = P + 1
    BY <1>3, <2>3
  <2> QED
    BY <1>2, <2>1, <2>2, <2>3
<1>7. ASSUME NEW n \in 1..(P + 1), NEW x \in D[n], x \in ids PROVE \E k \in 1..(P + 1) : k >= P /\ x \in E[k]
  <2>1. CASE n \in 1..(P - 1)
    <3>1. x \in moved
      BY <1>2, <1>3, <1>5, <1>7, <2>1
    <3> QED
      BY <1>1, <1>2, <1>3, <3>1
  <2>2. CASE n = P
    BY <1>1, <1>2, <1>3, <2>2
  <2>3. CASE n = P + 1
    BY <1>2, <1>3, <2>3
  <2> QED
    BY <1>2, <2>1, <2>2, <2>3
<1>8. ASSUME NEW n \in 1..(P + 1), NEW x \in E[n]
      PROVE  \/ x \in D[n]
             \/ n = P /\ x \in ids /\ Earlier(list, x) # {} /\ \E j \in 1..P : x \in DOMAIN list[j] /\ list[j][x] = Item(list, x)
  <2>1. CASE n \in 1..(P - 1)
    BY <1>1, <1>2, <1>3, <2>1
  <2>2. CASE n = P
    BY <1>1, <1>2, <1>3, <1>4, <2>2
  <2>3. CASE n = P + 1
    BY <1>3, <2>3
  <2> QED
    BY <1>2, <2>1, <2>2, <2>3
<1> QED
  BY <1>6, <1>7, <1>8

\* The cycles hold what they held.
LEMMA MovedContents ==
    ASSUME NEW list \in CycleList, NEW ids \in SUBSET Ids, NEW vals,
           \A n \in 1..P : \A x \in DOMAIN list[n] : list[n][x] = Val(vals, x)
    PROVE  \A n \in 1..P : \A x \in DOMAIN MoveToLastCycle(list, ids)[n] :
              MoveToLastCycle(list, ids)[n][x] = Val(vals, x)
<1> DEFINE m == MoveToLastCycle(list, ids)
           moved == {x \in ids : Earlier(list, x) # {}}
<1>1. /\ \A n \in 1..(P - 1) : /\ DOMAIN m[n] = DOMAIN list[n] \ ids
                               /\ \A x \in DOMAIN m[n] : m[n][x] = list[n][x]
      /\ DOMAIN m[P] = DOMAIN list[P] \cup moved
      /\ \A x \in moved : m[P][x] = Item(list, x)
      /\ \A x \in DOMAIN list[P] : x \notin moved => m[P][x] = list[P][x]
  BY MoveIs
<1>2. \A n \in 1..P : n = P \/ n \in 1..(P - 1)
  BY Sizes
<1>3. P \in 1..P /\ \A n \in 1..(P - 1) : n \in 1..P
  BY Sizes
<1>4. \A x \in moved : \E n \in 1..(P - 1) : x \in DOMAIN list[n] /\ list[n][x] = Item(list, x)
  BY ItemIs
<1> HIDE DEF m, moved
<1>5. ASSUME NEW n \in 1..P, NEW x \in DOMAIN m[n] PROVE m[n][x] = Val(vals, x)
  <2>1. CASE n \in 1..(P - 1)
    BY <1>1, <1>3, <2>1
  <2>2. CASE n = P /\ x \in moved
    BY <1>1, <1>3, <1>4, <2>2
  <2>3. CASE n = P /\ x \notin moved
    BY <1>1, <1>3, <2>3
  <2> QED
    BY <1>2, <2>1, <2>2, <2>3
<1> QED
  BY <1>5 DEF m

\* In the last cycle or in the running one, with an entry.
Late(E, vals, y) == \E m \in 1..(P + 1) : m >= P /\ y \in E[m] /\ Val(vals, y) # None

\* What is written, and what is moved, has what it refers to in the last two places.
LEMMA LagAfterCommit ==
    ASSUME NEW D, NEW E, NEW vals, NEW wals, NEW batch, NEW visited,
           Lag(D, vals), Later(D, vals, E, wals),
           \A x : Val(wals, x) = IF x \in DOMAIN batch THEN batch[x] ELSE Val(vals, x),
           \A n \in 1..(P + 1) : \A x \in E[n] : x \notin DOMAIN batch =>
               x \in D[n] \/ (n = P /\ Val(vals, x) \subseteq visited),
           \A x \in visited : Late(E, wals, x),
           \A x \in DOMAIN batch : \A y \in batch[x] : Late(E, wals, y)
    PROVE  Lag(E, wals)
<1> SUFFICES ASSUME NEW n \in 2..(P + 1), NEW x \in E[n], Val(wals, x) # None, NEW y \in Val(wals, x)
             PROVE  \E m \in 1..(P + 1) : m >= n - 1 /\ y \in E[m] /\ Val(wals, y) # None
  BY DEF Lag
<1>1. P \in Nat /\ n \in 1..(P + 1) /\ n - 1 <= P
  BY Sizes
<1>2. ASSUME Late(E, wals, y) PROVE \E m \in 1..(P + 1) : m >= n - 1 /\ y \in E[m] /\ Val(wals, y) # None
  <2>1. PICK m \in 1..(P + 1) : m >= P /\ y \in E[m] /\ Val(wals, y) # None
    BY <1>2 DEF Late
  <2>2. m >= n - 1
    BY <1>1, <2>1
  <2> QED
    BY <2>1, <2>2
<1>3. CASE x \in DOMAIN batch
  <2>1. Val(wals, x) = batch[x]
    BY <1>3
  <2>2. Late(E, wals, y)
    BY <1>3, <2>1
  <2> QED
    BY <1>2, <2>2
<1>4. CASE x \notin DOMAIN batch
  <2>1. Val(wals, x) = Val(vals, x)
    BY <1>4
  <2>2. x \in D[n] \/ (n = P /\ Val(vals, x) \subseteq visited)
    BY <1>1, <1>4
  <2>3. CASE Val(vals, x) \subseteq visited
    <3>1. Late(E, wals, y)
      BY <2>1, <2>3
    <3> QED
      BY <1>2, <3>1
  <2>4. CASE x \in D[n]
    <3>1. PICK m \in 1..(P + 1) : m >= n - 1 /\ y \in D[m] /\ Val(vals, y) # None
      BY <2>1, <2>4 DEF Lag
    <3>2. PICK j \in 1..(P + 1) : j >= m /\ y \in E[j] /\ Val(wals, y) = Val(vals, y)
      BY <3>1 DEF Later
    <3>3. j >= n - 1
      BY <1>1, <3>1, <3>2
    <3> QED
      BY <3>1, <3>2, <3>3
  <2> QED
    BY <2>2, <2>3, <2>4
<1> QED
  BY <1>3, <1>4

\* Along the path of a new commit every node is at most one place below the
\* one above it, and those down to the first reused one are in the last two.
LEMMA PathPlaces ==
    ASSUME NEW E, NEW wals, NEW context \in Seq(Nodes), NEW k \in Nat, Lag(E, wals),
           \A l \in 1..Len(context) :
               Val(wals, context[l].id) = BelowOf(context, l) /\ BelowOf(context, l) # None,
           \A l \in 1..Len(context) : l <= k + 1 => Late(E, wals, context[l].id)
    PROVE  \A l \in 1..Len(context) : l <= P => Kept(E, wals, context[l].id, P + 1 - l, BelowOf(context, l))
<1> DEFINE L == Len(context)
           Good(l) == \E m \in 1..(P + 1) : m >= P + 1 - l /\ context[l].id \in E[m]
           T == {l \in Nat : l \in 1..L /\ l <= P => Good(l)}
<1>1. L \in Nat /\ P \in Nat
  BY Sizes
<1> HIDE DEF L
<1>2. T \in SUBSET Nat /\ 0 \in T
  BY <1>1
<1>3. ASSUME NEW l \in T PROVE l + 1 \in T
  <2>1. l \in Nat
    OBVIOUS
  <2> SUFFICES ASSUME l + 1 \in 1..L, l + 1 <= P PROVE Good(l + 1)
    BY <2>1
  <2>2. CASE l + 1 <= k + 1
    <3>1. PICK m \in 1..(P + 1) : m >= P /\ context[l + 1].id \in E[m]
      BY <2>2 DEF Late, L
    <3>2. m >= P + 1 - (l + 1)
      BY <1>1, <2>1, <3>1
    <3> QED
      BY <3>1, <3>2
  <2>3. CASE ~(l + 1 <= k + 1)
    <3>1. l \in 1..L /\ l < L /\ l <= P
      BY <1>1, <2>1, <2>3
    <3>2. PICK m \in 1..(P + 1) : m >= P + 1 - l /\ context[l].id \in E[m]
      BY <3>1
    <3>3. m \in 2..(P + 1)
      BY <1>1, <3>1, <3>2
    <3>4. Val(wals, context[l].id) = {context[l + 1].id} /\ Val(wals, context[l].id) # None
      BY <3>1 DEF BelowOf, L
    <3>5. PICK j \in 1..(P + 1) : j >= m - 1 /\ context[l + 1].id \in E[j]
      BY <3>2, <3>3, <3>4 DEF Lag
    <3>6. j >= P + 1 - (l + 1)
      BY <1>1, <2>1, <3>2, <3>5
    <3> QED
      BY <3>5, <3>6
  <2> QED
    BY <2>2, <2>3
<1> HIDE DEF T
<1>4. T = Nat
  BY <1>2, <1>3, SetInduction
<1>5. ASSUME NEW l \in 1..L, l <= P PROVE Good(l)
  <2>1. l \in T
    BY <1>1, <1>4
  <2> QED
    BY <1>5, <2>1, Zenon DEF T
<1>6. ASSUME NEW l \in 1..L, l <= P PROVE Kept(E, wals, context[l].id, P + 1 - l, BelowOf(context, l))
  <2>1. Good(l)
    BY <1>5, <1>6
  <2>2. Val(wals, context[l].id) = BelowOf(context, l) /\ BelowOf(context, l) # None
    BY DEF L
  <2> QED
    BY <2>1, <2>2 DEF Kept
<1> QED
  BY <1>6 DEF L

\* What mark_reused will visit for this commit: nodes of the path that are stored.
LEMMA CommitVisits ==
    ASSUME Ownership, pc = "commit", Len(prepared) = 2, NEW V \in CycleList, Keeps(V)
    PROVE  LET k == Cardinality(Uncommited)
               reused == ReferencedOlderEntries
               visited == Visited(V, reused)
           IN  /\ reused \in SUBSET Ids /\ visited \in SUBSET Ids /\ reused \subseteq visited
               /\ \A l \in DOMAIN ctx : l > k =>
                     Kept(Places(V, new_ids), values, ctx[l].id, 1, BelowOf(ctx, l))
               /\ \A x \in visited : \E l \in DOMAIN ctx : l > k /\ x = ctx[l].id
               /\ NoLoss(V, visited)
               /\ \A x \in visited : Earlier(V, x) # {} => Item(V, x) \subseteq visited /\ Item(V, x) = Val(values, x)
<1> DEFINE k == Cardinality(Uncommited)
           L == Len(ctx)
           D == Places(V, new_ids)
           reused == ReferencedOlderEntries
           visited == Visited(V, reused)
           S == {ctx[l].id : l \in (k + 1)..L}
<1>1. /\ Shape(ctx) /\ reused = BelowOf(ctx, k) /\ k \in 0..L
      /\ \A l \in DOMAIN ctx : ctx[l].id \in Ids
      /\ \A l \in DOMAIN ctx : l > k => ctx[l].commited
  BY BatchIs, UncommitedIs
<1>2. L \in Nat /\ k \in Nat /\ DOMAIN ctx = 1..L
  BY <1>1 DEF Shape
<1>3. /\ Contents(V, values, new_ids, current_cycle) /\ ContextKept(D, values, new_ids, ctx, pc)
  BY DEF Keeps
<1> HIDE DEF k, L, D, reused, visited
<1>4. \A l \in DOMAIN ctx : l > k => Kept(D, values, ctx[l].id, 1, BelowOf(ctx, l))
  BY <1>1, <1>3 DEF ContextKept, Stored, Operations
<1>5. \A l \in (k + 1)..L : l \in DOMAIN ctx /\ l > k
  BY <1>2
<1>6. \A l \in (k + 1)..L : Val(values, ctx[l].id) = BelowOf(ctx, l) /\ BelowOf(ctx, l) # None
  BY <1>4, <1>5 DEF Kept
<1>7. ASSUME NEW l \in k..L PROVE BelowOf(ctx, l) \subseteq S
  <2>1. CASE l < L
    <3>1. l + 1 \in (k + 1)..L
      BY <1>2, <2>1
    <3> QED
      BY <2>1, <3>1 DEF BelowOf, L
  <2>2. CASE ~(l < L)
    BY <2>2 DEF BelowOf, L
  <2> QED
    BY <2>1, <2>2
<1>8. reused \subseteq S /\ S \subseteq Ids
  <2>1. k \in k..L
    BY <1>1, <1>2
  <2>2. S \subseteq Ids
    BY <1>1, <1>5
  <2> HIDE DEF S
  <2> QED
    BY <1>1, <1>7, <2>1, <2>2
<1>9. \A x \in S : Val(values, x) # None /\ Val(values, x) \subseteq S
  <2> SUFFICES ASSUME NEW l \in (k + 1)..L PROVE Val(values, ctx[l].id) # None /\ Val(values, ctx[l].id) \subseteq S
    OBVIOUS
  <2>1. l \in k..L
    BY <1>2
  <2> HIDE DEF S
  <2> QED
    BY <1>6, <1>7, <2>1
<1>10. \A x \in S : \E l \in DOMAIN ctx : l > k /\ x = ctx[l].id
  BY <1>5
<1> HIDE DEF S
<1>11. \A x : Earlier(V, x) # {} => Item(V, x) = Val(values, x)
  <2> SUFFICES ASSUME NEW x, Earlier(V, x) # {} PROVE Item(V, x) = Val(values, x)
    OBVIOUS
  <2>1. PICK n \in 1..(P - 1) : x \in DOMAIN V[n] /\ V[n][x] = Item(V, x)
    BY ItemIs
  <2>2. n \in 1..P
    BY Sizes
  <2> QED
    BY <1>3, <2>1, <2>2 DEF Contents
<1>12. reused \in SUBSET Ids
  BY <1>8
<1>13. visited \subseteq S
  BY <1>8, <1>9, <1>11, <1>12, VisitedWithin DEF visited
<1>14. /\ visited \in SUBSET Ids /\ reused \subseteq visited
       /\ \A x \in visited : Earlier(V, x) # {} => Item(V, x) \subseteq visited
  BY <1>12, VisitedType, VisitedClosed DEF visited
<1>15. NoLoss(V, visited)
  <2> SUFFICES ASSUME NEW n \in 1..(P - 1), NEW x \in visited \cap DOMAIN V[n] PROVE V[n][x] # None
    BY DEF NoLoss
  <2>1. n \in 1..P
    BY Sizes
  <2>2. V[n][x] = Val(values, x)
    BY <1>3, <2>1 DEF Contents
  <2> QED
    BY <1>9, <1>13, <2>2
<1> QED
  BY <1>4, <1>10, <1>11, <1>12, <1>13, <1>14, <1>15 DEF k, L, D, reused, visited

LEMMA KeptCommit ==
    ASSUME Ownership, Retention, Commit
    PROVE  Retention'
<1> DEFINE c == [reused |-> ReferencedOlderEntries]
           path == PathOf(prepared[1], ctx)
           record == [id |-> prepared[2], path |-> path]
           k == Cardinality(Uncommited)
           L == Len(ctx)
           B == DOMAIN Batch
<1>1. MainTypes /\ CollectorTypes /\ Apart /\ Counted
  BY DEF Ownership
<1>2. /\ pc = "commit" /\ Len(prepared) = 2 /\ values' = WriteBatch(Batch)
      /\ current_cycle' = InsertAll(current_cycle, Batch)
      /\ context_hashes' = [context_hashes EXCEPT ![P] = @ \cup {record}]
      /\ channel' = Append(channel, c)
      /\ ctx' = [l \in DOMAIN ctx |-> Node(ctx[l].id, TRUE)]
      /\ pc' = "idle" /\ hashes' = hashes /\ new_ids' = new_ids /\ cycles' = cycles
      /\ UNCHANGED <<free_ids, gc>>
  BY DEF Commit, P, PathOf, gc
<1>3. /\ Shape(ctx) /\ \A l \in DOMAIN ctx : ctx[l].id \in Ids
      /\ Batch \in Cycle /\ ReferencedOlderEntries = BelowOf(ctx, k)
      /\ \A x : x \in B <=> x = prepared[1] \/ x = prepared[2] \/ \E l \in 1..k : x = ctx[l].id
      /\ \A x \in B : x \in new_ids /\ Val(values, x) = None /\ Batch[x] \in SUBSET Ids
      /\ Batch[prepared[2]] = {prepared[1]} /\ Batch[prepared[1]] = BelowOf(ctx, 0)
      /\ \A l \in 1..k : Batch[ctx[l].id] = BelowOf(ctx, l)
      /\ prepared[1] \in Ids /\ prepared[2] \in Ids
  BY <1>2, BatchIs
<1>4. /\ k \in 0..L /\ L \in Nat /\ k \in Nat /\ DOMAIN ctx = 1..L /\ L <= Levels
      /\ Levels \in Nat /\ P \in Nat \ {0} /\ ctx \in Seq(Nodes)
  <2>1. k \in 0..L /\ L \in Nat /\ DOMAIN ctx = 1..L /\ L <= Levels /\ ctx \in Seq(Nodes)
    BY <1>3, UncommitedIs DEF Shape
  <2> HIDE DEF k, L
  <2> QED
    BY <2>1, Sizes
<1>5. PICK vs : Ahead(vs, cycles, channel) /\ AheadOK(vs, channel) /\ Keeps(vs[Len(channel)])
  BY DEF Retention
<1>6. PICK V : V = vs[Len(channel)]
  OBVIOUS
<1>7. V \in CycleList /\ Unique(V) /\ Held(V) \cap new_ids = {}
  BY <1>5, <1>6, FinalIs
<1> DEFINE D == Places(V, new_ids)
<1>8. /\ Contents(V, values, new_ids, current_cycle) /\ Lag(D, values)
      /\ KnownKept(D, values, context_hashes)
  BY <1>5, <1>6 DEF Keeps
<1>9. PICK reused : reused = ReferencedOlderEntries
  OBVIOUS
<1>10. PICK visited : visited = Visited(V, reused)
  OBVIOUS
<1>11. /\ reused \in SUBSET Ids /\ visited \in SUBSET Ids /\ reused \subseteq visited
       /\ \A l \in DOMAIN ctx : l > k => Kept(D, values, ctx[l].id, 1, BelowOf(ctx, l))
       /\ \A x \in visited : \E l \in DOMAIN ctx : l > k /\ x = ctx[l].id
       /\ NoLoss(V, visited)
       /\ \A x \in visited : Earlier(V, x) # {} => Item(V, x) \subseteq visited /\ Item(V, x) = Val(values, x)
  <2>1. Keeps(V)
    BY <1>5, <1>6
  <2> QED
    BY <1>2, <1>7, <1>9, <1>10, <2>1, CommitVisits
<1> HIDE DEF k, L, B, D
<1>12. c \in Commands /\ ~IsCycle(c) /\ c.reused = reused /\ New(c) = {}
  <2>1. c = [reused |-> reused]
    BY <1>9
  <2>2. c \in Commands /\ ~IsCycle(c) /\ c.reused = reused
    BY <1>11, <2>1, ReusedCommand, Zenon
  <2> QED
    BY <2>2 DEF New
<1> HIDE DEF c
<1>13. PICK W : W = MoveToLastCycle(V, visited)
  OBVIOUS
<1>14. W \in CycleList /\ Unique(W) /\ Held(W) \subseteq Held(V)
  BY <1>7, <1>11, <1>13, MoveIs, MoveUnique
<1>15. W = Apply(V, c)
  BY <1>10, <1>12, <1>13 DEF Apply
<1> DEFINE E == Places(W, new_ids)
<1>16. /\ \A n \in 1..(P + 1) : \A x \in D[n] : x \in E[n] \/ (n < P /\ x \in visited /\ x \in E[P])
       /\ \A n \in 1..(P + 1) : \A x \in D[n] : x \in visited => \E m \in 1..(P + 1) : m >= P /\ x \in E[m]
       /\ \A n \in 1..(P + 1) : \A x \in E[n] :
             x \in D[n] \/ (n = P /\ x \in visited /\ Earlier(V, x) # {})
  BY <1>7, <1>11, <1>13, MovedPlaces DEF D
<1>17. E[P + 1] = new_ids /\ P + 1 \in 1..(P + 1) /\ P \in 1..(P + 1)
  <2>1. E[P + 1] = new_ids
    BY PlacesIs
  <2> QED
    BY <1>4, <2>1
<1> HIDE DEF E
\* What is written.
<1>18. \A x : Val(values', x) = IF x \in B THEN Batch[x] ELSE Val(values, x)
  <2>1. hashes \in Nat /\ values \in Seq(Values) /\ Len(values) <= hashes
    BY <1>1, Sizes DEF MainTypes
  <2>2. DOMAIN Batch \subseteq 1..hashes
    BY <1>1, <1>3 DEF Counted, B
  <2> QED
    BY <1>2, <1>3, <2>1, <2>2, WriteIs DEF B
<1>19. \A x \in B : Val(values', x) = Batch[x] /\ Batch[x] # None /\ Late(E, values', x)
  <2> SUFFICES ASSUME NEW x \in B PROVE Val(values', x) = Batch[x] /\ Batch[x] # None /\ Late(E, values', x)
    OBVIOUS
  <2>1. Val(values', x) = Batch[x] /\ Batch[x] # None /\ x \in E[P + 1]
    BY <1>3, <1>17, <1>18, NoneAssumption
  <2>2. P + 1 >= P
    BY <1>4
  <2> QED
    BY <1>17, <2>1, <2>2 DEF Late
<1>20. \A x : Val(values, x) # None => x \notin B /\ Val(values', x) = Val(values, x)
  BY <1>3, <1>18
<1>21. ASSUME NEW l \in 1..L
       PROVE  Val(values', ctx[l].id) = BelowOf(ctx, l) /\ BelowOf(ctx, l) # None
  <2>1. CASE l <= k
    <3>1. l \in 1..k
      BY <1>4, <2>1
    <3>2. ctx[l].id \in B /\ Batch[ctx[l].id] = BelowOf(ctx, l)
      BY <1>3, <3>1
    <3> QED
      BY <1>19, <3>2
  <2>2. CASE l > k
    <3>1. Kept(D, values, ctx[l].id, 1, BelowOf(ctx, l))
      BY <1>4, <1>11, <2>2
    <3>2. Val(values, ctx[l].id) = BelowOf(ctx, l) /\ BelowOf(ctx, l) # None
      BY <3>1 DEF Kept
    <3> QED
      BY <1>20, <3>2
  <2> QED
    BY <1>4, <2>1, <2>2
<1>22. \A x \in visited : Late(E, values', x)
  <2> SUFFICES ASSUME NEW x \in visited PROVE Late(E, values', x)
    OBVIOUS
  <2>1. PICK l \in DOMAIN ctx : l > k /\ x = ctx[l].id
    BY <1>11
  <2>2. PICK n \in 1..(P + 1) : x \in D[n] /\ Val(values, x) = BelowOf(ctx, l) /\ BelowOf(ctx, l) # None
    BY <1>11, <2>1 DEF Kept
  <2>3. PICK m \in 1..(P + 1) : m >= P /\ x \in E[m]
    BY <1>16, <2>2
  <2> QED
    BY <1>20, <2>2, <2>3 DEF Late
<1>23. ASSUME NEW l \in 0..k, NEW y \in BelowOf(ctx, l) PROVE Late(E, values', y)
  <2>1. l < L /\ y = ctx[l + 1].id
    BY <1>23 DEF BelowOf, L
  <2>2. CASE l = k
    BY <1>3, <1>9, <1>11, <1>22, <1>23, <2>2
  <2>3. CASE l # k
    <3>1. l + 1 \in 1..k
      BY <1>4, <2>3
    <3>2. y \in B
      BY <1>3, <2>1, <3>1
    <3> QED
      BY <1>19, <3>2
  <2> QED
    BY <2>2, <2>3
<1>24. ASSUME NEW x \in B, NEW y \in Batch[x] PROVE Late(E, values', y)
  <2>1. CASE x = prepared[2]
    <3>1. y = prepared[1] /\ y \in B
      BY <1>3, <1>24, <2>1
    <3> QED
      BY <1>19, <3>1
  <2>2. CASE x = prepared[1]
    <3>1. 0 \in 0..k /\ y \in BelowOf(ctx, 0)
      BY <1>3, <1>4, <1>24, <2>2
    <3> QED
      BY <1>23, <3>1
  <2>3. ASSUME NEW l \in 1..k, x = ctx[l].id PROVE Late(E, values', y)
    <3>1. l \in 0..k /\ y \in BelowOf(ctx, l)
      BY <1>3, <1>4, <1>24, <2>3
    <3> QED
      BY <1>23, <3>1
  <2> QED
    BY <1>3, <2>1, <2>2, <2>3
\* Where it is.
<1>25. Later(D, values, E, values')
  <2> SUFFICES ASSUME NEW n \in 1..(P + 1), NEW x \in D[n], Val(values, x) # None
               PROVE  \E m \in 1..(P + 1) : m >= n /\ x \in E[m] /\ Val(values', x) = Val(values, x)
    BY DEF Later
  <2>1. Val(values', x) = Val(values, x)
    BY <1>20
  <2>2. x \in E[n] \/ (n < P /\ x \in E[P])
    BY <1>16
  <2>3. n >= n /\ (n < P => P >= n)
    BY <1>4
  <2> QED
    BY <1>17, <2>1, <2>2, <2>3
<1>26. Lag(E, values')
  <2>1. \A n \in 1..(P + 1) : \A x \in E[n] : x \notin B =>
           x \in D[n] \/ (n = P /\ Val(values, x) \subseteq visited)
    BY <1>11, <1>16
  <2> QED
    BY <1>8, <1>18, <1>22, <1>24, <1>25, <2>1, LagAfterCommit DEF B
<1>27. \A l \in 1..L : l <= k + 1 => Late(E, values', ctx[l].id)
  <2> SUFFICES ASSUME NEW l \in 1..L, l <= k + 1 PROVE Late(E, values', ctx[l].id)
    OBVIOUS
  <2>1. l - 1 \in 0..k /\ l - 1 < L /\ (l - 1) + 1 = l
    BY <1>4
  <2>2. ctx[l].id \in BelowOf(ctx, l - 1)
    BY <2>1 DEF BelowOf, L
  <2> QED
    BY <1>23, <2>1, <2>2
<1>28. \A l \in 1..L : l <= P => Kept(E, values', ctx[l].id, P + 1 - l, BelowOf(ctx, l))
  BY <1>4, <1>21, <1>26, <1>27, PathPlaces DEF L
\* The new commit, and the others.
<1>29. /\ path \in Seq(Ids) /\ Len(path) = L + 1 /\ path[1] = prepared[1]
       /\ \A l \in 1..L : path[l + 1] = ctx[l].id
  <2>1. prepared[1] \in Ids /\ ctx \in Seq(Nodes) /\ \A l \in DOMAIN ctx : ctx[l].id \in Ids
    BY <1>3, <1>4
  <2> QED
    BY <2>1, PathOfIs DEF L
<1> HIDE DEF path
<1>30. record \in CommitRecords /\ record.id = prepared[2] /\ record.path = path
  BY <1>3, <1>29, Zenon DEF CommitRecords
<1> HIDE DEF record
<1>31. \A l \in 0..L : Child(path, l + 1) = BelowOf(ctx, l)
  <2> SUFFICES ASSUME NEW l \in 0..L PROVE Child(path, l + 1) = BelowOf(ctx, l)
    OBVIOUS
  <2>1. CASE l = L
    <3>1. ~(l + 1 < Len(path)) /\ ~(l < L)
      BY <1>4, <1>29, <2>1
    <3> QED
      BY <3>1 DEF Child, BelowOf, L
  <2>2. CASE l # L
    <3>1. l + 1 < Len(path) /\ l < L /\ l + 1 \in 1..L
      BY <1>4, <1>29, <2>2
    <3>2. path[(l + 1) + 1] = ctx[l + 1].id
      BY <1>29, <3>1
    <3> QED
      BY <3>1, <3>2 DEF Child, BelowOf, L
  <2> QED
    BY <2>1, <2>2
<1>32. /\ Kept(E, values', prepared[2], P + 1, {prepared[1]})
       /\ Kept(E, values', prepared[1], P + 1, BelowOf(ctx, 0))
  <2>1. P + 1 >= P + 1
    BY <1>4
  <2>2. prepared[2] \in B /\ prepared[1] \in B
    BY <1>3
  <2>3. prepared[2] \in E[P + 1] /\ prepared[1] \in E[P + 1]
    BY <1>3, <1>17, <2>2
  <2> QED
    BY <1>3, <1>17, <1>19, <2>1, <2>2, <2>3 DEF Kept
<1>33. CommitKept(E, values', P, record)
  <2>1. Len(path) \in 1..(Levels + 1)
    BY <1>4, <1>29
  <2>2. ASSUME NEW l \in DOMAIN path, l - 1 <= P
        PROVE  Kept(E, values', path[l], P + 2 - l, Child(path, l))
    <3>1. l \in 1..(L + 1)
      BY <1>29
    <3>2. CASE l = 1
      <4>1. P + 2 - l = P + 1 /\ 0 \in 0..L /\ 0 + 1 = l
        BY <1>4, <3>2
      <4>2. Child(path, l) = BelowOf(ctx, 0)
        BY <1>31, <4>1
      <4> QED
        BY <1>29, <1>32, <3>2, <4>1, <4>2
    <3>3. CASE l # 1
      <4>1. PICK m : m = l - 1
        OBVIOUS
      <4>2. m \in 1..L /\ m \in 0..L /\ m + 1 = l /\ m <= P /\ P + 2 - l = P + 1 - m
        BY <1>4, <2>2, <3>1, <3>3, <4>1
      <4>3. path[l] = ctx[m].id /\ Child(path, l) = BelowOf(ctx, m)
        BY <1>29, <1>31, <4>2
      <4>4. Kept(E, values', ctx[m].id, P + 1 - m, BelowOf(ctx, m))
        BY <1>28, <4>2
      <4> QED
        BY <4>2, <4>3, <4>4
    <3> QED
      BY <3>2, <3>3
  <2> QED
    BY <1>29, <1>30, <1>32, <2>1, <2>2 DEF CommitKept
<1>34. KnownKept(E, values', context_hashes')
  <2>1. context_hashes \in [1..P -> SUBSET CommitRecords]
    BY <1>1 DEF MainTypes
  <2>2. KnownKept(E, values', context_hashes)
    BY <1>8, <1>25, <2>1, LaterKnown
  <2>3. ASSUME NEW i \in 1..P, NEW commit \in context_hashes'[i]
        PROVE  commit \in context_hashes[i] \/ (i = P /\ commit = record)
    BY <1>2, <2>1, <2>3
  <2> QED
    BY <1>33, <2>2, <2>3 DEF KnownKept
<1>35. Contents(W, values', new_ids, current_cycle')
  <2>1. \A n \in 1..P : \A x \in DOMAIN W[n] : W[n][x] = Val(values, x)
    <3>1. \A n \in 1..P : \A x \in DOMAIN V[n] : V[n][x] = Val(values, x)
      BY <1>8 DEF Contents
    <3> QED
      BY <1>7, <1>11, <1>13, <3>1, MovedContents
  <2>2. \A n \in 1..P : \A x \in DOMAIN W[n] : x \notin B
    <3>1. \A n \in 1..P : \A x \in DOMAIN W[n] : x \in Held(V)
      BY <1>14, InHeld
    <3> QED
      BY <1>3, <1>7, <3>1
  <2>3. current_cycle \in Cycle
    BY <1>1 DEF MainTypes
  <2>4. /\ DOMAIN current_cycle' = DOMAIN current_cycle \cup B
        /\ \A x \in DOMAIN current_cycle \cup B :
              current_cycle'[x] = IF x \in B THEN Batch[x] ELSE current_cycle[x]
    BY <1>2, <1>3, <2>3, InsertAllIs DEF B
  <2>5. \A x \in new_ids : Val(values', x) = IF x \in DOMAIN current_cycle' THEN current_cycle'[x] ELSE None
    BY <1>8, <1>18, <2>4 DEF Contents
  <2> QED
    BY <1>18, <2>1, <2>2, <2>5 DEF Contents
<1>36. ContextKept(E, values', new_ids, ctx', pc')
  <2>1. /\ DOMAIN ctx' = DOMAIN ctx /\ Len(ctx') = Len(ctx)
        /\ \A l \in DOMAIN ctx : ctx'[l].id = ctx[l].id
    BY <1>2, AllCommited
  <2>2. ASSUME NEW l \in 1..L PROVE Stored(E, values', ctx', l)
    <3>1. BelowOf(ctx', l) = BelowOf(ctx, l)
      <4>1. l < L => l + 1 \in DOMAIN ctx
        BY <1>4
      <4> QED
        BY <2>1, <4>1 DEF BelowOf, L
    <3>2. Kept(E, values', ctx[l].id, 1, BelowOf(ctx, l))
      <4>1. CASE l <= k
        <5>1. l \in 1..k /\ P + 1 >= 1
          BY <1>4, <4>1
        <5>2. ctx[l].id \in E[P + 1]
          BY <1>3, <1>17, <5>1
        <5> QED
          BY <1>17, <1>21, <5>1, <5>2 DEF Kept
      <4>2. CASE l > k
        <5>1. Kept(D, values, ctx[l].id, 1, BelowOf(ctx, l))
          BY <1>4, <1>11, <4>2
        <5> QED
          BY <1>25, <5>1, LaterKept
      <4> QED
        BY <1>4, <4>1, <4>2
    <3>3. ctx'[l].id = ctx[l].id
      BY <1>4, <2>1
    <3> QED
      BY <3>1, <3>2, <3>3 DEF Stored
  <2> QED
    BY <1>4, <2>1, <2>2 DEF ContextKept
<1>37. Keeps(W)'
  BY <1>2, <1>26, <1>34, <1>35, <1>36 DEF Keeps, E
<1>38. Covered'
  <2>1. \A j \in DOMAIN channel : j \in DOMAIN channel' /\ channel'[j] = channel[j]
    <3>1. channel \in Seq(Commands)
      BY <1>1 DEF CollectorTypes
    <3> QED
      BY <1>2, <1>12, <3>1, Sent
  <2>2. Released' = Released
    BY <1>2 DEF Released, gc
  <2>3. Covered
    BY DEF Retention
  <2> QED
    BY <1>2, <2>1, <2>2, <2>3 DEF Covered
<1>39. ~IsCycle(c) => NoLoss(V, Visited(V, c.reused))
  BY <1>10, <1>11, <1>12
<1>40. \A x \in Held(W) : x \in Held(V) \/ x \in New(c)
  BY <1>14
<1>41. c \in Commands /\ channel' = Append(channel, c) /\ cycles' = cycles
  BY <1>2, <1>12
<1> QED
  BY <1>5, <1>6, <1>14, <1>15, <1>37, <1>38, <1>39, <1>40, <1>41, SentAhead

LEMMA KeptInit == Init => Retention
<1> SUFFICES ASSUME Init PROVE Retention
  OBVIOUS
<1>1. /\ ctx = None /\ pc = "idle" /\ hashes = 0 /\ values = <<>> /\ new_ids = {} /\ current_cycle = NoCycle
      /\ context_hashes = [i \in 1..P |-> {}] /\ channel = <<>> /\ cycles = [i \in 1..P |-> NoCycle]
  BY DEF Init, P
<1>2. cycles \in CycleList /\ Unique(cycles) /\ \A n \in 1..P : DOMAIN cycles[n] = {}
  <2>1. cycles \in CycleList /\ \A n \in 1..P : DOMAIN cycles[n] = {}
    BY <1>1, NoCycleIs DEF CycleList
  <2> QED
    BY <2>1 DEF Unique
<1>3. Covered
  <2>1. \A x \in 1..hashes : FALSE
    BY <1>1
  <2> QED
    BY <2>1 DEF Covered
<1>4. Keeps(cycles)
  <2>1. \A n \in 1..(P + 1) : Places(cycles, new_ids)[n] = {}
    <3> SUFFICES ASSUME NEW n \in 1..(P + 1) PROVE Places(cycles, new_ids)[n] = {}
      OBVIOUS
    <3>1. n \in 1..P \/ n = P + 1
      BY Sizes
    <3>2. n \in 1..P => Places(cycles, new_ids)[n] = DOMAIN cycles[n]
      BY PlacesIs
    <3>3. Places(cycles, new_ids)[P + 1] = new_ids
      BY PlacesIs
    <3> QED
      BY <1>1, <1>2, <3>1, <3>2, <3>3
  <2>2. \A n \in 2..(P + 1) : n \in 1..(P + 1)
    BY Sizes
  <2>3. Lag(Places(cycles, new_ids), values)
    BY <2>1, <2>2 DEF Lag
  <2>4. KnownKept(Places(cycles, new_ids), values, context_hashes)
    BY <1>1 DEF KnownKept
  <2>5. Contents(cycles, values, new_ids, current_cycle)
    BY <1>1, <1>2 DEF Contents
  <2>6. ContextKept(Places(cycles, new_ids), values, new_ids, ctx, pc)
    BY <1>1 DEF ContextKept, Operations
  <2> QED
    BY <2>3, <2>4, <2>5, <2>6 DEF Keeps
<1> DEFINE vs == [n \in 0..0 |-> cycles]
<1>5. Len(channel) = 0
  BY <1>1
<1>6. vs[0] = cycles
  OBVIOUS
<1>7. Ahead(vs, cycles, channel)
  BY <1>2, <1>5 DEF Ahead
<1>8. AheadOK(vs, channel)
  <2>1. \A n \in 0..0 : n = 0
    OBVIOUS
  <2>2. \A n \in 1..0 : FALSE
    OBVIOUS
  <2> HIDE DEF vs
  <2> QED
    BY <1>2, <1>5, <1>6, <2>1, <2>2 DEF AheadOK
<1> HIDE DEF vs
<1>9. Keeps(vs[Len(channel)])
  BY <1>4, <1>5, <1>6
<1> QED
  BY <1>3, <1>7, <1>8, <1>9 DEF Retention

LEMMA KeptStep ==
    ASSUME Ownership, Retention, [CarefulNext]_vars
    PROVE  Retention'
<1>1. ASSUME UNCHANGED vars PROVE Retention'
  <2>1. /\ UNCHANGED <<Owners, channel, cycles, values, new_ids, current_cycle, context_hashes>>
        /\ pc' = pc /\ ctx' = ctx /\ hashes' = hashes
    BY <1>1 DEF vars, main, gc, Owners
  <2>2. Released' = Released
    BY <2>1 DEF Owners, gc, Released
  <2>3. Covered'
    BY <2>1, <2>2 DEF Retention, Covered
  <2>4. \A D : ContextKept(D, values, new_ids, ctx, pc) => ContextKept(D, values, new_ids, ctx', pc')
    BY <2>1
  <2> QED
    BY <2>1, <2>3, <2>4, SameEntries
<1>2. ASSUME NEW op \in Operations, op = "commit" => Written, PrepareCommit(op) PROVE Retention'
  BY <1>2, KeptPrepareCommit
<1>3. /\ "root" \in Operations /\ "hash" \in Operations /\ "commit" \in Operations
      /\ "root" # "commit" /\ "hash" # "commit"
  BY DEF Operations
<1>4. DOMAIN context_hashes = 1..P
  BY DEF Ownership, MainTypes
<1>5. ASSUME NEW i \in DOMAIN context_hashes, NEW commit \in context_hashes[i], Near(i, commit), Checkout(commit)
      PROVE  Retention'
  BY <1>4, <1>5, KeptCheckout
<1> QED
  BY <1>1, <1>2, <1>3, <1>5, KeptNewContext, KeptChange, KeptDropContext, KeptHashEntry,
     KeptHashPanics, KeptRootDone, KeptHashDone, KeptCommit, KeptCycleStarted, KeptStartNewCycle,
     KeptMarkReused, KeptPushSlice, Zenon DEF CarefulNext, Steps

\* With a shell that leaves its contexts at a cycle start, checks out near
\* commits and commits what it has not hashed, in every reachable state the
\* collector, once it has taken the commands of the channel, will hold what the main thread reads, each entry at most one
\* cycle behind the one that refers to it, and every commit that can be
\* checked out deep enough; and every id that was handed out has an owner.
THEOREM RetentionHolds == CarefulSpec => [](Ownership /\ Retention)
<1>1. Init => Ownership /\ Retention
  BY OwnedInit, KeptInit
<1>2. Ownership /\ Retention /\ [CarefulNext]_vars => (Ownership /\ Retention)'
  <2>1. Ownership /\ [CarefulNext]_vars => Ownership'
    BY OwnedStep DEF CarefulNext
  <2> QED
    BY <2>1, KeptStep
<1> QED
  BY <1>1, <1>2, PTL DEF CarefulSpec

LEMMA OneOrNone ==
    ASSUME NEW S, \A a, b \in S : a = b
    PROVE  /\ S = {} => Cardinality(S) = 0
           /\ S # {} => Cardinality(S) = 1
<1>1. S = {} => Cardinality(S) = 0
  BY FS_EmptySet
<1>2. ASSUME S # {} PROVE Cardinality(S) = 1
  <2>1. PICK a : a \in S
    BY <1>2
  <2>2. S = {a}
    BY <2>1
  <2> QED
    BY <2>2, FS_Singleton
<1> QED
  BY <1>1, <1>2

\* With a shell that keeps to the three conditions of CarefulSpec, every id
\* that was handed out is in one place only, and in one: in the
\* running cycle, in a command, in a cycle of the collector, or released once.
THEOREM EveryIdHasOneOwner == CarefulSpec => []EveryIdOwnedOnce
<1>1. Ownership /\ Retention => EveryIdOwnedOnce
  <2> SUFFICES ASSUME Ownership, Covered, pc # "poisoned", NEW id \in 1..hashes
               PROVE  1 = (IF id \in new_ids THEN 1 ELSE 0)
            + Cardinality({j \in DOMAIN channel : "new_ids" \in DOMAIN channel[j]
                              /\ id \in channel[j].new_ids \cup DOMAIN channel[j].values_in_cycle})
            + Cardinality({i \in DOMAIN cycles : id \in DOMAIN cycles[i]})
            + Cardinality({k \in DOMAIN Released : Released[k] = id})
    BY DEF EveryIdOwnedOnce, Retention
  <2> DEFINE J == {j \in DOMAIN channel : "new_ids" \in DOMAIN channel[j]
                              /\ id \in channel[j].new_ids \cup DOMAIN channel[j].values_in_cycle}
             I == {i \in DOMAIN cycles : id \in DOMAIN cycles[i]}
             K == {k \in DOMAIN Released : Released[k] = id}
  <2>1. Apart /\ CollectorTypes
    BY DEF Ownership
  <2>2. \A j : j \in J <=> j \in DOMAIN channel /\ id \in New(channel[j])
    BY <2>1 DEF CollectorTypes, New, IsCycle
  <2>3. DOMAIN cycles = 1..P
    BY <2>1 DEF CollectorTypes, CycleList
  <2>4. \A i : i \in I <=> i \in 1..P /\ id \in DOMAIN cycles[i]
    BY <2>3
  <2>5. \A k : k \in K <=> k \in DOMAIN Released /\ Released[k] = id
    OBVIOUS
  <2>6. (I # {} <=> id \in Held(cycles)) /\ (K # {} <=> id \in Range(Released))
    BY <2>4, <2>5 DEF Held, Range
  <2> HIDE DEF I, J, K
  <2>7. \A a, b \in J : a = b
    BY <2>1, <2>2 DEF Apart
  <2>8. \A a, b \in I : a = b
    BY <2>1, <2>4 DEF Apart, Unique
  <2>9. \A a, b \in K : a = b
    BY <2>1, <2>5 DEF Apart, Distinct
  <2>10. /\ J = {} => Cardinality(J) = 0
         /\ J # {} => Cardinality(J) = 1
         /\ I = {} => Cardinality(I) = 0
         /\ I # {} => Cardinality(I) = 1
         /\ K = {} => Cardinality(K) = 0
         /\ K # {} => Cardinality(K) = 1
    BY <2>7, <2>8, <2>9, OneOrNone
  <2>11. id \in new_ids \/ J # {} \/ I # {} \/ K # {}
    BY <2>2, <2>6 DEF Covered
  <2>12. /\ ~(id \in new_ids /\ J # {}) /\ ~(id \in new_ids /\ I # {}) /\ ~(id \in new_ids /\ K # {})
         /\ ~(J # {} /\ I # {}) /\ ~(J # {} /\ K # {}) /\ ~(I # {} /\ K # {})
    BY <2>1, <2>2, <2>6 DEF Apart
  <2>13. 1 = (IF id \in new_ids THEN 1 ELSE 0) + Cardinality(J) + Cardinality(I) + Cardinality(K)
    BY <2>10, <2>11, <2>12
  <2> QED
    BY <2>13 DEF I, J, K
<1> QED
  BY <1>1, RetentionHolds, PTL

LEMMA ReleasedType ==
    ASSUME CollectorTypes
    PROVE  Released \in Seq(Ids)
<1>1. free_ids \in Seq(Ids) /\ pending \in Seq(Ids)
  BY DEF CollectorTypes
<1>2. CASE sending = <<>>
  BY <1>1, <1>2, RelIdle, ReleasedIs
<1>3. CASE sending # <<>>
  <2>1. sending \in Seq(Ids) \X Seq(Ids)
    BY <1>3 DEF CollectorTypes
  <2>2. sending = <<sending[1], sending[2]>> /\ sending[1] \in Seq(Ids) /\ sending[2] \in Seq(Ids)
    BY <2>1
  <2>3. Rel(free_ids, pending, <<sending[1], sending[2]>>) \in Seq(Ids)
    BY <1>1, <2>2, RelBusy
  <2> QED
    BY <2>2, <2>3, ReleasedIs
<1> QED
  BY <1>2, <1>3

\* With a shell that keeps to the three conditions of CarefulSpec, a commit
\* that can be checked out is stored as it was written, and so is
\* its root and what it refers to l levels below for P - l cycle starts; none
\* of those ids is in the queue or on its way there, whatever the collector
\* still has to do.
THEOREM CommitsAreRetained == CarefulSpec => []Retained
<1>1. Ownership /\ Retention => Retained
  <2> SUFFICES ASSUME Ownership, Retention PROVE Retained
    OBVIOUS
  <2>1. PICK vs : Ahead(vs, cycles, channel) /\ AheadOK(vs, channel) /\ Keeps(vs[Len(channel)])
    BY DEF Retention
  <2>2. PICK V : V = vs[Len(channel)]
    OBVIOUS
  <2>3. Held(V) \cap Range(Released) = {}
    BY <2>1, <2>2, FinalIs
  <2> DEFINE D == Places(V, new_ids)
  <2>4. KnownKept(D, values, context_hashes)
    BY <2>1, <2>2 DEF Keeps
  <2>5. \A n \in 1..(P + 1) : \A x \in D[n] : x \notin Range(Released)
    <3>1. new_ids \cap Range(Released) = {}
      BY DEF Ownership, Apart
    <3> QED
      BY <2>3, <3>1, PlacesIs
  <2> HIDE DEF D
  <2>6. ASSUME NEW x, NEW n, NEW v, Kept(D, values, x, n, v)
        PROVE  x \notin Range(Released) /\ ValueAt(x) = v
    <3>1. x \notin Range(Released) /\ Val(values, x) = v
      BY <2>5, <2>6 DEF Kept
    <3> QED
      BY <3>1, ValueAtIs
  <2>7. context_hashes \in [1..P -> SUBSET CommitRecords]
    BY DEF Ownership, MainTypes
  <2> SUFFICES ASSUME NEW i \in 1..P, NEW commit \in context_hashes[i]
               PROVE  /\ commit.id \notin Range(Released) /\ ValueAt(commit.id) = {commit.path[1]}
                      /\ \A l \in DOMAIN commit.path : l - 1 <= i => Intact(Range(Released), commit.path, l)
    BY <2>7 DEF Retained
  <2>8. CommitKept(D, values, i, commit)
    BY <2>4 DEF KnownKept
  <2>9. commit.id \notin Range(Released) /\ ValueAt(commit.id) = {commit.path[1]}
    BY <2>6, <2>8 DEF CommitKept
  <2>10. ASSUME NEW l \in DOMAIN commit.path, l - 1 <= i PROVE Intact(Range(Released), commit.path, l)
    <3>1. Kept(D, values, commit.path[l], i + 2 - l, Child(commit.path, l))
      BY <2>8, <2>10 DEF CommitKept
    <3> QED
      BY <2>6, <3>1 DEF Intact, Child
  <2> QED
    BY <2>9, <2>10
<1> QED
  BY <1>1, RetentionHolds, PTL
=============================================================================
