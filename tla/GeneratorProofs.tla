-------------------------- MODULE GeneratorProofs --------------------------
(***************************************************************************)
(* Proofs about Generator with the limits of the source, for all messages  *)
(* of the peer, all sizes the random generator may pick, every limit of    *)
(* the blocks map and any number of calls.                                 *)
(***************************************************************************)
EXTENDS Generator, FiniteSetTheorems, SequenceTheorems, WellFoundedInduction, TLAPS

-----------------------------------------------------------------------------
(* The limits of the source.                                               *)

LEMMA Sizes32 ==
    /\ HashSize("ChainId") = 4 /\ HashSize("BlockHash") = 32 /\ HashSize("OperationHash") = 32
    /\ HashSize("OperationListListHash") = 32 /\ HashSize("ContextHash") = 32
    /\ HashSize("ProtocolHash") = 32
<1>1. SourceLimits
  BY GeneratorAssumption
<1>2. \A t \in {"BlockHash", "OperationHash", "OperationListListHash", "ContextHash", "ProtocolHash"} :
          HashTypeSize[t] = 32
  BY <1>1 DEF SourceLimits, HashTypes
<1> QED
  BY <1>1, <1>2 DEF HashSize, SourceLimits

LEMMA Values ==
    /\ P2P_POINT_MAX_SIZE = 51 /\ P2P_POINT_MAX_LENGTH = 47 /\ NACK_PEERS_MAX_LENGTH = 100
    /\ ADVERTISE_ID_LIST_MAX_LENGTH = 100 /\ CURRENT_BRANCH_HISTORY_MAX_LENGTH = 1000
    /\ BLOCK_HEADER_MAX_SIZE = 8388608 /\ OPERATION_MAX_SIZE = 131072
    /\ PROTOCOL_COMPONENT_MAX_SIZE = 2097150 /\ MEMPOOL_MAX_OPERATIONS = 4000
    /\ GET_BLOCK_HEADERS_MAX_LENGTH = 10 /\ GET_OPERATIONS_MAX_LENGTH = 10
    /\ GET_PROTOCOLS_MAX_LENGTH = 10 /\ GET_OPERATIONS_FOR_BLOCKS_MAX_LENGTH = 10
    /\ OPERATION_LIST_MAX_SIZE = 1048576 /\ CHAIN_NAME_MAX_LENGTH = 128
    /\ MAX_PASS_MERKLE_DEPTH = 3 /\ MEMPOOL_MAX_SIZE = 128008 /\ MESSAGE_MAX_SIZE = 8516630
<1>1. SourceLimits /\ DerivedLimits
  BY GeneratorAssumption, LimitsAssumption
<1>2. MEMPOOL_MAX_SIZE = 8 + 4000 * 32
  BY <1>1, Sizes32 DEF SourceLimits, DerivedLimits, HashSize
<1>3. MESSAGE_MAX_SIZE = 4 + 2 + 4 + 4 + 8388608 + MEMPOOL_MAX_SIZE
  BY <1>1, Sizes32 DEF SourceLimits, DerivedLimits, HashSize
<1> QED
  BY <1>1, <1>2, <1>3 DEF SourceLimits, DerivedLimits

LEMMA UpTo ==
    ASSUME NEW m \in Nat, NEW n \in 0 .. m
    PROVE  n \in Nat /\ n <= m
OBVIOUS

LEMMA GenRange ==
    ASSUME NEW from \in Int, NEW to \in Int, NEW n \in gen_range(from, to)
    PROVE  n \in Int /\ from <= n /\ n < to
BY GeneratorAssumption DEF gen_range

LEMMA DataLen ==
    ASSUME NEW remaining \in Nat, NEW d \in gen_data_len(remaining)
    PROVE  d \in 0 .. remaining
<1>1. CASE remaining > 1
  <2>1. d \in gen_range(1, remaining)
    BY <1>1 DEF gen_data_len
  <2> QED
    BY <2>1, GenRange
<1>2. CASE ~ (remaining > 1)
  BY <1>2 DEF gen_data_len
<1> QED
  BY <1>1, <1>2

-----------------------------------------------------------------------------
(* Headers.                                                                *)

LEMMA HeaderSizeIs ==
    ASSUME NEW h, h.fit \in Nat, h.data \in Nat
    PROVE  HeaderSize(h) = 114 + h.fit + h.data
BY Sizes32 DEF HeaderSize

LEMMA FitnessElements ==
    ASSUME NEW f \in gen_fitness_elements
    PROVE  f \in 0 .. 28
BY GenRange DEF gen_fitness_elements

\* A header made from nothing leaves room.
LEMMA GenHeader ==
    ASSUME NEW h \in gen_BlockHeader
    PROVE  h.fit \in Nat /\ h.data \in Nat /\ HeaderSize(h) <= 8384626
<1>1. PICK f \in gen_fitness_elements :
        \E d \in gen_data_len(BLOCK_HEADER_MAX_SIZE - Slack - f) : h = [fit |-> f, data |-> d]
  BY DEF gen_BlockHeader
<1>2. PICK d \in gen_data_len(BLOCK_HEADER_MAX_SIZE - Slack - f) : h = [fit |-> f, data |-> d]
  BY <1>1
<1>3. f \in 0 .. 28
  BY FitnessElements
<1>4. BLOCK_HEADER_MAX_SIZE - Slack - f = 8384512 - f /\ 8384512 - f \in Nat
  BY <1>3, Values, SMT DEF Slack
<1>5. d \in 0 .. 8384512 - f
  BY <1>4, DataLen
<1>6. h.fit = f /\ h.data = d
  BY <1>2
<1> HIDE DEF Slack
<1> QED
  BY <1>3, <1>5, <1>6, HeaderSizeIs

\* What the peer may send.
LearnedHeaders == BlockHeaders \cup {x.header : x \in Heads \cup Branches}

LEMMA LearnedHeader ==
    ASSUME NEW b \in LearnedHeaders
    PROVE  /\ b.n \in Nat /\ b.fit \in Nat /\ b.data \in Nat /\ b.first \in Nat
           /\ b.n > 0 => b.fit >= 4 * b.n + b.first
           /\ b.bid \in 0 .. FitnessMax
BY LearnedAssumption DEF LearnedHeaders

\* A changed header keeps within the room or is at most 28 bytes longer than
\* the learned one; only one without fitness has no first element.
LEMMA MutateHeader ==
    ASSUME NEW b \in LearnedHeaders, NEW h \in mutate_BlockHeader(b)
    PROVE  /\ h.panic \in {"no", "fitness", "memory"} /\ h.bid \in {NoBid, gen_fitness}
           /\ h.panic # "no" => h.bid = NoBid
           /\ h.panic = "fitness" => b.n = 0
           /\ h.panic = "no" =>
                 /\ h.fit \in Nat /\ h.data \in Nat
                 /\ HeaderSize(h) <= 8384640 \/ HeaderSize(h) <= HeaderSize(b) + 28
<1> DEFINE remaining == BLOCK_HEADER_MAX_SIZE - Slack
           bad(why) == [panic |-> why, bid |-> NoBid, fit |-> 0, data |-> 0]
           good(v, f, d) == [panic |-> "no", bid |-> v, fit |-> f, data |-> d]
           left == remaining - b.first - 8
<1>1. \/ \E f \in gen_fitness_elements : \E d \in MutateProtocolData(b, remaining - f) : h = good(NoBid, f, d)
      \/ b.n = 0 /\ h = bad("fitness")
      \/ /\ b.n # 0 /\ left >= 0
         /\ \E d \in MutateProtocolData(b, left) : h = good(gen_fitness, 4 + b.first + 12, d)
      \/ b.n # 0 /\ h = bad("memory")
      \/ b.n # 0 /\ b.data > 0 /\ h = good(gen_fitness, 4 + b.first + 12, b.data)
  BY DEF mutate_BlockHeader
<1>2. remaining = 8384512
  BY Values, SMT DEF Slack
<1> HIDE DEF remaining
<1>3. b.n \in Nat /\ b.fit \in Nat /\ b.data \in Nat /\ b.first \in Nat /\ (b.n > 0 => b.fit >= 4 * b.n + b.first)
  BY LearnedHeader
<1>4. HeaderSize(b) = 114 + b.fit + b.data
  BY <1>3, HeaderSizeIs
<1>5. ASSUME NEW w \in Nat, NEW d \in MutateProtocolData(b, w) PROVE d = b.data \/ d \in 0 .. w
  <2>1. d = b.data \/ d \in gen_data_len(w)
    BY DEF MutateProtocolData
  <2> QED
    BY <2>1, DataLen
<1>6. \A v, f, d : /\ good(v, f, d).panic = "no" /\ good(v, f, d).bid = v
                   /\ good(v, f, d).fit = f /\ good(v, f, d).data = d
  OBVIOUS
<1>7. \A why : bad(why).panic = why /\ bad(why).bid = NoBid
  OBVIOUS
<1> HIDE DEF bad, good
<1>8. CASE \E f \in gen_fitness_elements : \E d \in MutateProtocolData(b, remaining - f) : h = good(NoBid, f, d)
  <2>0. PICK f \in gen_fitness_elements : \E d \in MutateProtocolData(b, remaining - f) : h = good(NoBid, f, d)
    BY <1>8
  <2>1. PICK d \in MutateProtocolData(b, remaining - f) : h = good(NoBid, f, d)
    BY <2>0
  <2>2. f \in 0 .. 28
    BY FitnessElements
  <2>3. remaining - f \in Nat
    BY <1>2, <2>2
  <2>4. d = b.data \/ d \in 0 .. remaining - f
    BY <1>5, <2>3
  <2>5. d \in Nat /\ f \in Nat
    BY <1>3, <2>2, <2>3, <2>4
  <2>6. h.fit = f /\ h.data = d /\ h.panic = "no" /\ h.bid = NoBid
    BY <1>6, <2>1
  <2>7. HeaderSize(h) = 114 + f + d
    BY <2>5, <2>6, HeaderSizeIs
  <2>8. HeaderSize(h) <= 8384640 \/ HeaderSize(h) <= HeaderSize(b) + 28
    <3>1. CASE d = b.data
      BY <1>3, <1>4, <2>2, <2>7, <3>1
    <3>2. CASE d \in 0 .. remaining - f
      BY <1>2, <2>2, <2>7, <3>2
    <3> QED
      BY <2>4, <3>1, <3>2
  <2> QED
    BY <2>5, <2>6, <2>8
<1>9. CASE b.n = 0 /\ h = bad("fitness")
  BY <1>7, <1>9
<1>10. ASSUME NEW d \in Nat, h = good(gen_fitness, 4 + b.first + 12, d), b.n # 0,
              d = b.data \/ d <= remaining - b.first - 8
       PROVE  /\ h.panic = "no" /\ h.bid = gen_fitness /\ h.fit \in Nat /\ h.data \in Nat
              /\ HeaderSize(h) <= 8384640 \/ HeaderSize(h) <= HeaderSize(b) + 28
  <2>1. h.fit = 4 + b.first + 12 /\ h.data = d /\ h.panic = "no" /\ h.bid = gen_fitness
    BY <1>6, <1>10
  <2>2. h.fit \in Nat /\ h.data \in Nat
    BY <1>3, <2>1
  <2>3. HeaderSize(h) = 114 + (4 + b.first + 12) + d
    BY <2>1, <2>2, HeaderSizeIs
  <2>4. b.fit >= 4 + b.first
    BY <1>3, <1>10
  <2>5. HeaderSize(h) <= 8384640 \/ HeaderSize(h) <= HeaderSize(b) + 28
    <3>1. CASE d = b.data
      BY <1>3, <1>4, <2>3, <2>4, <3>1
    <3>2. CASE d <= remaining - b.first - 8
      BY <1>2, <1>3, <2>3, <3>2
    <3> QED
      BY <1>10, <3>1, <3>2
  <2> QED
    BY <2>1, <2>2, <2>5
<1>11. CASE /\ b.n # 0 /\ left >= 0
            /\ \E d \in MutateProtocolData(b, left) : h = good(gen_fitness, 4 + b.first + 12, d)
  <2>1. left \in Nat
    BY <1>2, <1>3, <1>11
  <2>2. PICK d \in MutateProtocolData(b, left) : h = good(gen_fitness, 4 + b.first + 12, d)
    BY <1>11
  <2>3. d = b.data \/ d \in 0 .. left
    BY <1>5, <2>1
  <2>4. d \in Nat /\ (d = b.data \/ d <= left)
    BY <1>3, <2>1, <2>3
  <2> QED
    BY <1>10, <1>11, <2>2, <2>4
<1>12. CASE b.n # 0 /\ h = bad("memory")
  BY <1>7, <1>12
<1>13. CASE b.n # 0 /\ b.data > 0 /\ h = good(gen_fitness, 4 + b.first + 12, b.data)
  BY <1>3, <1>10, <1>13
<1> QED
  BY <1>1, <1>8, <1>9, <1>11, <1>12, <1>13

-----------------------------------------------------------------------------
(* Messages that depend on nothing learned.                                *)

LEMMA ListsFit ==
    ASSUME NEW size \in 32 .. 33, NEW f \in gen_List(10, size)
    PROVE  f
<1>1. PICK n \in gen_range(0, 10) : f = (n <= 10 /\ ResponseFits(4 + n * size))
  BY DEF gen_List
<1>2. n \in Int /\ 0 <= n /\ n < 10
  BY GenRange
<1>3. n * size <= 400
  <2>1. n \in {0, 1, 2, 3, 4, 5, 6, 7, 8, 9}
    BY <1>2
  <2> QED
    BY <2>1
<1>4. n * size \in Int
  BY <1>2
<1> DEFINE x == n * size
<1>5. x \in Int /\ x <= 400
  BY <1>3, <1>4
<1> HIDE DEF x
<1>6. 2 + (4 + x) <= 8516630
  BY <1>5
<1>7. ResponseFits(4 + n * size)
  BY <1>6, Values, SMT DEF ResponseFits, x
<1>8. n <= 10
  BY <1>2
<1> QED
  BY <1>1, <1>7, <1>8, Zenon

LEMMA PointsAreShort ==
    ASSUME NEW l \in gen_string(P2P_POINT_MAX_LENGTH), NEW max \in Nat, NEW n \in Nat, n <= max
    PROVE  PointsFit(n, max, l)
<1>1. P2P_POINT_MAX_LENGTH - 1 \in Int /\ P2P_POINT_MAX_LENGTH = 47
  BY Values, SMT
<1>2. l \in gen_range(0, P2P_POINT_MAX_LENGTH - 1)
  BY DEF gen_string
<1>3. l \in Int /\ l < 46
  BY <1>1, <1>2, GenRange
<1> QED
  BY <1>3, Values, SMT DEF PointsFit

LEMMA ChainMessages == ChainMessageFits
BY Sizes32, Values, SMT DEF ChainMessageFits, ResponseFits

LEMMA AdvertiseFits == \A f \in gen_Advertise : f
<1> SUFFICES ASSUME NEW f \in gen_Advertise PROVE f
  OBVIOUS
<1>1. PICK n \in gen_range(0, ADVERTISE_ID_LIST_MAX_LENGTH), l \in {9, 21} :
        f = PointsFit(n, ADVERTISE_ID_LIST_MAX_LENGTH, l)
  BY DEF gen_Advertise
<1>2. n \in Int /\ n < 100
  BY GenRange, Values, SMT
<1>3. PointsFit(n, ADVERTISE_ID_LIST_MAX_LENGTH, l)
  BY <1>2, Values, SMT DEF PointsFit
<1> QED
  BY <1>1, <1>3, Zenon

LEMMA SwapFits == \A f \in gen_Swap : f
<1> SUFFICES ASSUME NEW f \in gen_Swap PROVE f
  OBVIOUS
<1>1. PICK l \in gen_string(P2P_POINT_MAX_LENGTH) : f = PointsFit(1, 1, l)
  BY DEF gen_Swap
<1> QED
  BY <1>1, PointsAreShort

LEMMA NackInfoFits == \A f \in gen_NackInfo : f
<1> SUFFICES ASSUME NEW f \in gen_NackInfo PROVE f
  OBVIOUS
<1>1. PICK n \in gen_range(0, NACK_PEERS_MAX_LENGTH), l \in gen_string(P2P_POINT_MAX_LENGTH) :
        f = PointsFit(n, NACK_PEERS_MAX_LENGTH, l)
  BY DEF gen_NackInfo
<1>2. n \in Nat /\ n <= NACK_PEERS_MAX_LENGTH /\ NACK_PEERS_MAX_LENGTH \in Nat
  BY GenRange, Values, SMT
<1> QED
  BY <1>1, <1>2, PointsAreShort

LEMMA NamesFit == \A f \in gen_NetworkVersion : f
<1> SUFFICES ASSUME NEW f \in gen_NetworkVersion PROVE f
  OBVIOUS
<1>1. PICK l \in gen_range(0, CHAIN_NAME_MAX_LENGTH - 1) : f = (l <= CHAIN_NAME_MAX_LENGTH)
  BY DEF gen_NetworkVersion, gen_string
<1>2. CHAIN_NAME_MAX_LENGTH - 1 \in Int /\ CHAIN_NAME_MAX_LENGTH = 128
  BY Values, SMT
<1>3. l \in Int /\ l < 127
  BY <1>2, GenRange
<1>4. l <= CHAIN_NAME_MAX_LENGTH
  BY <1>2, <1>3
<1> QED
  BY <1>1, <1>4, Zenon

\* Every message made from nothing but sizes respects its limits.
LEMMA PlainFits ==
    ASSUME NEW m \in PlainMessages
    PROVE  m.bid = NoBid /\ m.fits
<1>1. \A kind, f : Plain(kind, f).bid = NoBid /\ Plain(kind, f).fits = f
  BY DEF Plain, Message
<1>2. /\ \A f \in gen_GetBlockHeaders : f
      /\ \A f \in gen_GetOperations : f
      /\ \A f \in gen_GetProtocols : f
      /\ \A f \in gen_GetOperationsForBlocks : f
  <2>1. /\ gen_GetBlockHeaders = gen_List(10, 32) /\ gen_GetOperations = gen_List(10, 32)
        /\ gen_GetProtocols = gen_List(10, 32) /\ gen_GetOperationsForBlocks = gen_List(10, 33)
    BY Values, SMT, Sizes32 DEF gen_GetBlockHeaders, gen_GetOperations, gen_GetProtocols,
       gen_GetOperationsForBlocks, gen_OperationsForBlock
  <2>2. 32 \in 32 .. 33 /\ 33 \in 32 .. 33
    OBVIOUS
  <2>3. (\A f \in gen_List(10, 32) : f) /\ (\A f \in gen_List(10, 33) : f)
    BY <2>2, ListsFit
  <2> QED
    BY <2>1, <2>3
<1>3. \A f \in gen_Connection : f
  BY NamesFit DEF gen_Connection
<1>4. \A f \in gen_Ack : f
  BY NackInfoFits DEF gen_Ack
<1>5. \/ \E kind : m = Plain(kind, ChainMessageFits)
      \/ \E kind : m = Plain(kind, TRUE)
      \/ \E kind : \E f \in gen_Advertise \cup gen_Swap \cup gen_GetBlockHeaders \cup gen_GetOperations
                               \cup gen_GetProtocols \cup gen_GetOperationsForBlocks
                               \cup gen_Connection \cup gen_Ack : m = Plain(kind, f)
  BY DEF PlainMessages, gen_GetCurrentBranch, gen_GetCurrentHead, gen_Deactivate, gen_Metadata
<1>6. \E kind, f : f /\ m = Plain(kind, f)
  BY <1>2, <1>3, <1>4, <1>5, ChainMessages, AdvertiseFits, SwapFits, Zenon
<1> QED
  BY <1>1, <1>6, Zenon

-----------------------------------------------------------------------------
(* Induction: a set of numbers that holds zero and what follows each of    *)
(* its members is all of them, since there is no least number outside.     *)

LEMMA LeastNumber ==
    ASSUME NEW T \in SUBSET Nat, T # {}
    PROVE  \E x \in T : \A y \in T : x <= y
<1> DEFINE R == OpToRel(<, Nat)
<1>1. IsWellFoundedOn(R, Nat)
  BY NatLessThanWellFounded
<1>2. \A x, y \in Nat : x < y => <<x, y>> \in R
  BY DEF OpToRel
<1> HIDE DEF R
<1>3. PICK x \in T : \A y \in T : ~ (<<y, x>> \in R)
  BY <1>1, WFMin
<1>4. ASSUME NEW y \in T PROVE x <= y
  <2>1. ~ (y < x) /\ x \in Nat /\ y \in Nat
    BY <1>2, <1>3
  <2> QED
    BY <2>1
<1> QED
  BY <1>4

LEMMA SetInduction ==
    ASSUME NEW T \in SUBSET Nat, 0 \in T, \A n \in T : n + 1 \in T
    PROVE  T = Nat
<1> SUFFICES ASSUME T # Nat PROVE FALSE
  OBVIOUS
<1> DEFINE U == Nat \ T
<1>1. PICK x \in U : \A y \in U : x <= y
  <2>1. U \in SUBSET Nat /\ U # {}
    OBVIOUS
  <2> HIDE DEF U
  <2> QED
    BY <2>1, LeastNumber
<1>2. x \in Nat /\ x # 0 /\ x - 1 \in Nat /\ ~ (x <= x - 1)
  OBVIOUS
<1>3. x - 1 \in T
  BY <1>1, <1>2
<1>4. (x - 1) + 1 \in T /\ (x - 1) + 1 = x
  BY <1>2, <1>3
<1> QED
  BY <1>4

-----------------------------------------------------------------------------
(* Protocols.                                                              *)

\* The sizes of the first i components.
Upto(cs) ==
    LET upto[i \in 0 .. Len(cs)] ==
            IF i = 0 THEN 0 ELSE upto[i - 1] + ComponentSize(cs[i])
    IN upto

LEMMA UptoIs ==
    ASSUME NEW cs, Len(cs) \in Nat, \A i \in 1 .. Len(cs) : ComponentSize(cs[i]) \in Nat
    PROVE  /\ Upto(cs)[0] = 0
           /\ \A i \in 1 .. Len(cs) : Upto(cs)[i] = Upto(cs)[i - 1] + ComponentSize(cs[i])
<1> DEFINE N == Len(cs)
           c(i) == ComponentSize(cs[i])
           Sums(h, n) == h[0] = 0 /\ \A i \in 1 .. n : h[i] = h[i - 1] + c(i)
           T == {n \in Nat : n <= N => \E h \in [0 .. n -> Nat] : Sums(h, n)}
           upto[i \in 0 .. Len(cs)] == IF i = 0 THEN 0 ELSE upto[i - 1] + ComponentSize(cs[i])
           Good(h) == h = [i \in 0 .. N |-> IF i = 0 THEN 0 ELSE h[i - 1] + c(i)]
<1>1. N \in Nat /\ \A i \in 1 .. N : c(i) \in Nat
  OBVIOUS
<1>2. Upto(cs) = upto
  BY DEF Upto
<1>3. upto = CHOOSE h : Good(h)
  BY DEF upto
<1> HIDE DEF N, c, upto
<1>4. 0 \in T
  <2>1. [i \in 0 .. 0 |-> 0] \in [0 .. 0 -> Nat] /\ Sums([i \in 0 .. 0 |-> 0], 0)
    OBVIOUS
  <2> QED
    BY <2>1
<1>5. ASSUME NEW n \in T PROVE n + 1 \in T
  <2>0. n \in Nat /\ n + 1 \in Nat
    OBVIOUS
  <2> SUFFICES ASSUME n + 1 <= N PROVE \E h \in [0 .. n + 1 -> Nat] : Sums(h, n + 1)
    BY <2>0, Zenon
  <2>1. n \in Nat /\ n <= N /\ n + 1 \in 1 .. N /\ c(n + 1) \in Nat
    BY <1>1
  <2>2. PICK h \in [0 .. n -> Nat] : Sums(h, n)
    BY <2>1
  <2> DEFINE last == h[n] + c(n + 1)
             w == [i \in 0 .. n + 1 |-> IF i <= n THEN h[i] ELSE last]
  <2>3. last \in Nat
    BY <2>1, <2>2
  <2>4. w \in [0 .. n + 1 -> Nat] /\ w[0] = 0
    BY <2>1, <2>2, <2>3
  <2>5. \A i \in 1 .. n + 1 : w[i] = w[i - 1] + c(i)
    <3> SUFFICES ASSUME NEW i \in 1 .. n + 1 PROVE w[i] = w[i - 1] + c(i)
      OBVIOUS
    <3>1. CASE i = n + 1
      <4>1. w[i] = last /\ i - 1 = n /\ w[n] = h[n]
        BY <2>1, <3>1
      <4> QED
        BY <3>1, <4>1
    <3>2. CASE i \in 1 .. n
      <4>1. w[i] = h[i] /\ w[i - 1] = h[i - 1]
        BY <2>1, <3>2
      <4> QED
        BY <2>2, <3>2, <4>1
    <3> QED
      BY <2>1, <3>1, <3>2
  <2> HIDE DEF w
  <2> QED
    BY <2>4, <2>5
<1>6. T = Nat
  <2>1. T \in SUBSET Nat
    OBVIOUS
  <2> HIDE DEF T
  <2> QED
    BY <1>4, <1>5, <2>1, SetInduction
<1>7. PICK h \in [0 .. N -> Nat] : Sums(h, N)
  <2>1. N \in T
    BY <1>1, <1>6
  <2> QED
    BY <1>1, <2>1
<1>8. Good(h)
  <2> DEFINE w == [i \in 0 .. N |-> IF i = 0 THEN 0 ELSE h[i - 1] + c(i)]
  <2>1. \A i \in 0 .. N : h[i] = w[i]
    BY <1>1, <1>7
  <2>2. h = [i \in 0 .. N |-> h[i]] /\ w = [i \in 0 .. N |-> w[i]]
    BY <1>7
  <2> HIDE DEF w
  <2>3. h = w
    BY <2>1, <2>2
  <2> QED
    BY <2>3 DEF w
<1>9. Good(upto)
  BY <1>3, <1>8
<1>10. upto[0] = 0 /\ \A i \in 1 .. N : upto[i] = upto[i - 1] + c(i)
  <2>1. \A i \in 0 .. N : upto[i] = IF i = 0 THEN 0 ELSE upto[i - 1] + c(i)
    BY <1>9
  <2> QED
    BY <1>1, <2>1
<1> QED
  BY <1>2, <1>10 DEF N, c

\* Components that grew by at most g each.
LEMMA SizesGrow ==
    ASSUME NEW cs, NEW d, Len(cs) \in Nat, Len(d) = Len(cs), NEW g \in Nat,
           \A i \in 1 .. Len(cs) : ComponentSize(cs[i]) \in Nat /\ ComponentSize(d[i]) \in Nat,
           \A i \in 1 .. Len(cs) : ComponentSize(d[i]) <= ComponentSize(cs[i]) + g
    PROVE  /\ ComponentsSize(d) \in Nat /\ ComponentsSize(cs) \in Nat
           /\ ComponentsSize(d) <= ComponentsSize(cs) + Len(cs) * g
<1> DEFINE N == Len(cs)
           c(i) == ComponentSize(cs[i])
           e(i) == ComponentSize(d[i])
           p(i) == Upto(cs)[i]
           q(i) == Upto(d)[i]
           T == {n \in Nat : n <= N => p(n) \in Nat /\ q(n) \in Nat /\ q(n) <= p(n) + n * g}
<1>1. N \in Nat /\ \A i \in 1 .. N : c(i) \in Nat /\ e(i) \in Nat /\ e(i) <= c(i) + g
  OBVIOUS
<1>2. p(0) = 0 /\ q(0) = 0 /\ \A i \in 1 .. N : p(i) = p(i - 1) + c(i) /\ q(i) = q(i - 1) + e(i)
  <2>1. p(0) = 0 /\ \A i \in 1 .. N : p(i) = p(i - 1) + c(i)
    BY <1>1, UptoIs
  <2>2. q(0) = 0 /\ \A i \in 1 .. N : q(i) = q(i - 1) + e(i)
    BY <1>1, UptoIs
  <2> QED
    BY <2>1, <2>2
<1>3. ComponentsSize(cs) = p(N) /\ ComponentsSize(d) = q(N)
  BY DEF ComponentsSize, Upto
<1> HIDE DEF N, c, e, p, q
<1>4. 0 \in T
  BY <1>2
<1>5. ASSUME NEW n \in T PROVE n + 1 \in T
  <2> SUFFICES ASSUME n + 1 <= N
               PROVE  p(n + 1) \in Nat /\ q(n + 1) \in Nat /\ q(n + 1) <= p(n + 1) + (n + 1) * g
    OBVIOUS
  <2>1. n \in Nat /\ n <= N /\ n + 1 \in 1 .. N /\ (n + 1) - 1 = n
    BY <1>1
  <2> DEFINE x == n * g
             a == p(n)
             b == q(n)
             u == c(n + 1)
             v == e(n + 1)
  <2>2. a \in Nat /\ b \in Nat /\ b <= a + x /\ x \in Nat
    BY <2>1
  <2>3. p(n + 1) = a + u /\ q(n + 1) = b + v /\ u \in Nat /\ v \in Nat /\ v <= u + g
    BY <1>1, <1>2, <2>1
  <2>4. (n + 1) * g = x + g
    BY <2>1
  <2> HIDE DEF x, a, b, u, v
  <2>5. a + u \in Nat /\ b + v \in Nat /\ b + v <= (a + u) + (x + g)
    BY <2>2, <2>3
  <2> QED
    BY <2>3, <2>4, <2>5
<1>6. T = Nat
  <2>1. T \in SUBSET Nat
    OBVIOUS
  <2> HIDE DEF T
  <2> QED
    BY <1>4, <1>5, <2>1, SetInduction
<1>7. N \in T
  BY <1>1, <1>6
<1> QED
  BY <1>1, <1>3, <1>7 DEF N

Components == [name : Nat, interface : Int, implementation : Nat]

LEMMA GenComponentIs == ComponentSize(gen_Component) = 205834
BY SMT DEF ComponentSize, gen_Component

\* A changed component is longer by one that was made at most.
LEMMA MutateComponent ==
    ASSUME NEW c \in Components, NEW e \in mutate_Component(c)
    PROVE  /\ ComponentSize(c) \in Nat /\ ComponentSize(e) \in Nat
           /\ ComponentSize(e) <= ComponentSize(c) + 205834
<1>1. /\ e.name \in gen_string(1025) \cup {c.name}
      /\ e.interface \in gen_string(102401) \cup {0 - 1, c.interface}
      /\ e.implementation \in gen_string(102401) \cup {c.implementation}
  BY SMT DEF mutate_Component
<1>2. c.name \in Nat /\ c.interface \in Int /\ c.implementation \in Nat
  BY DEF Components
<1>3. \A n \in gen_string(1025) : n \in Nat /\ n <= 1023
  BY GenRange, SMT DEF gen_string
<1>4. \A n \in gen_string(102401) : n \in Nat /\ n <= 102399
  BY GenRange, SMT DEF gen_string
<1> DEFINE a == e.name
           i == e.interface
           m == e.implementation
           b == c.name
           j == c.interface
           n == c.implementation
           x == IF i < 0 THEN 0 ELSE 4 + i
           y == IF j < 0 THEN 0 ELSE 4 + j
<1>5. ComponentSize(e) = 4 + a + 1 + x + 4 + m /\ ComponentSize(c) = 4 + b + 1 + y + 4 + n
  BY SMT DEF ComponentSize
<1>6. a \in Nat /\ b \in Nat /\ a <= b + 1023
  BY <1>1, <1>2, <1>3, SMT
<1>7. m \in Nat /\ n \in Nat /\ m <= n + 102399
  BY <1>1, <1>2, <1>4, SMT
<1>8. x \in Nat /\ y \in Nat /\ x <= y + 102403
  <2>1. i \in Int /\ j \in Int /\ (i = 0 - 1 \/ i = j \/ (i >= 0 /\ i <= 102399))
    BY <1>1, <1>2, <1>4, SMT
  <2> HIDE DEF i, j
  <2> QED
    BY <2>1, SMT
<1> HIDE DEF a, b, m, n, x, y
<1> QED
  BY <1>5, <1>6, <1>7, <1>8, SMT

\* A changed protocol is longer by one made component each at most.
LEMMA MutateComponents ==
    ASSUME NEW cs \in Protocols, NEW size \in mutate_ComponentVec(cs)
    PROVE  /\ size \in Nat
           /\ size <= ComponentsSize(cs) + Len(cs) * ComponentSize(gen_Component)
<1>1. cs \in Seq(Components) /\ Len(cs) \in Nat /\ DOMAIN cs = 1 .. Len(cs)
  BY LearnedAssumption DEF Components
<1> DEFINE all == UNION {mutate_Component(cs[i]) : i \in DOMAIN cs}
<1>2. PICK d \in [DOMAIN cs -> all] :
        size = ComponentsSize(d) /\ \A i \in DOMAIN cs : d[i] \in mutate_Component(cs[i])
  BY DEF mutate_ComponentVec
<1> HIDE DEF all
<1>3. d \in [1 .. Len(cs) -> all]
  BY <1>1, <1>2
<1>4. Len(d) = Len(cs)
  BY <1>1, <1>3
<1>5. \A i \in 1 .. Len(cs) : /\ ComponentSize(cs[i]) \in Nat /\ ComponentSize(d[i]) \in Nat
                              /\ ComponentSize(d[i]) <= ComponentSize(cs[i]) + 205834
  <2> SUFFICES ASSUME NEW i \in 1 .. Len(cs)
               PROVE  /\ ComponentSize(cs[i]) \in Nat /\ ComponentSize(d[i]) \in Nat
                      /\ ComponentSize(d[i]) <= ComponentSize(cs[i]) + 205834
    BY SMT
  <2>1. cs[i] \in Components /\ d[i] \in mutate_Component(cs[i])
    BY <1>1, <1>2
  <2> QED
    BY <2>1, MutateComponent, SMT
<1>6. 205834 \in Nat
  BY SMT
<1> DEFINE g == 205834
<1>7. /\ ComponentsSize(d) \in Nat
      /\ ComponentsSize(d) <= ComponentsSize(cs) + Len(cs) * g
  <2>1. g \in Nat /\ \A i \in 1 .. Len(cs) :
            /\ ComponentSize(cs[i]) \in Nat /\ ComponentSize(d[i]) \in Nat
            /\ ComponentSize(d[i]) <= ComponentSize(cs[i]) + g
    BY <1>5, <1>6, SMT
  <2> HIDE DEF g
  <2> QED
    BY <1>1, <1>4, <2>1, SizesGrow
<1>8. ComponentSize(gen_Component) = g
  BY GenComponentIs, SMT
<1> HIDE DEF g
<1> QED
  BY <1>2, <1>7, <1>8

LEMMA ProtocolSizes ==
    ASSUME NEW cs \in Protocols
    PROVE  ComponentsSize(cs) + Len(cs) * ComponentSize(gen_Component) \in Int
<1>1. cs \in Seq(Components) /\ Len(cs) \in Nat /\ DOMAIN cs = 1 .. Len(cs)
  BY LearnedAssumption DEF Components
<1>2. \A i \in 1 .. Len(cs) : ComponentSize(cs[i]) \in Nat
  <2> SUFFICES ASSUME NEW i \in 1 .. Len(cs) PROVE ComponentSize(cs[i]) \in Nat
    OBVIOUS
  <2>1. cs[i] \in Components
    BY <1>1
  <2> QED
    BY <2>1 DEF ComponentSize, Components
<1>3. ComponentsSize(cs) \in Nat
  <2>1. \A i \in 1 .. Len(cs) : ComponentSize(cs[i]) <= ComponentSize(cs[i]) + 0
    BY <1>2
  <2> QED
    BY <1>1, <1>2, <2>1, SizesGrow
<1>4. Len(cs) * 205834 \in Nat
  BY <1>1, SMT
<1> QED
  BY <1>3, <1>4, GenComponentIs, SMT

-----------------------------------------------------------------------------
(* The other messages.                                                     *)

LEMMA SmallHeadersFit ==
    ASSUME NEW h, h.fit \in Nat, h.data \in Nat, HeaderSize(h) <= 8388608
    PROVE  /\ HeaderFits(h) /\ BlockHeaderFits(h)
           /\ \A history \in Nat : history <= 1000 => BranchFits(h, history)
           /\ \A p : MempoolSize(p) \in Nat /\ MempoolFits(p) => HeadFits(h, p)
<1>1. HeaderSize(h) \in Nat
  BY HeaderSizeIs, SMT
<1>2. HeaderFits(h) /\ BlockHeaderFits(h)
  BY <1>1, Values, SMT DEF HeaderFits, BlockHeaderFits, ResponseFits
<1>3. ASSUME NEW history \in Nat, history <= 1000 PROVE BranchFits(h, history)
  <2> DEFINE x == HeaderSize(h)
  <2>1. 2 + (4 + 4 + x + history * 32) <= 8516630
    <3>1. x \in Nat /\ x <= 8388608
      BY <1>1
    <3> HIDE DEF x
    <3> QED
      BY <1>3, <3>1, SMT
  <2> QED
    BY <1>2, <1>3, <2>1, Values, Sizes32, SMT DEF BranchFits, ResponseFits
<1>4. ASSUME NEW p, MempoolSize(p) \in Nat, MempoolFits(p) PROVE HeadFits(h, p)
  <2>1. MempoolSize(p) <= 128008
    BY <1>4, Values, SMT DEF MempoolFits
  <2>2. 2 + (4 + 4 + HeaderSize(h) + MempoolSize(p)) <= 8516630
    BY <1>1, <1>4, <2>1, SMT
  <2> QED
    BY <1>2, <1>4, <2>2, Values, Sizes32, SMT DEF HeadFits, ResponseFits
<1> QED
  BY <1>2, <1>3, <1>4, SMT

LEMMA MempoolsFit ==
    ASSUME NEW p \in gen_Mempool
    PROVE  MempoolSize(p) \in Nat /\ MempoolFits(p)
<1>1. PICK n \in gen_range(1, MEMPOOL_MAX_OPERATIONS - 2) :
        \E k \in gen_range(1, MEMPOOL_MAX_OPERATIONS - n) : p = [known_valid |-> k, pending |-> n]
  BY DEF gen_Mempool
<1>2. PICK k \in gen_range(1, MEMPOOL_MAX_OPERATIONS - n) : p = [known_valid |-> k, pending |-> n]
  BY <1>1
<1>3. n \in Nat /\ MEMPOOL_MAX_OPERATIONS - n \in Int /\ MEMPOOL_MAX_OPERATIONS - n = 4000 - n
  BY GenRange, Values, SMT
<1>4. k \in Nat /\ k < 4000 - n
  BY <1>3, GenRange, SMT
<1>5. MempoolSize(p) = 12 + (k + n) * 32
  BY <1>2, Sizes32, SMT DEF MempoolSize
<1> QED
  BY <1>3, <1>4, <1>5, Values, SMT DEF MempoolFits

LEMMA OperationsFit ==
    /\ OperationFits(gen_Operation)
    /\ \A o \in Operations : \A data \in mutate_Operation(o) : OperationFits(data)
<1>1. gen_Operation = 131008
  BY Sizes32, Values, SMT DEF gen_Operation
<1>2. ASSUME NEW data \in Nat, data <= 131072 PROVE OperationFits(data)
  <2>1. data <= OPERATION_MAX_SIZE /\ 2 + (32 + data) <= MESSAGE_MAX_SIZE
    BY <1>2, Values, SMT
  <2> QED
    BY <2>1, Sizes32 DEF OperationFits, OperationSize, ResponseFits
<1>3. ASSUME NEW o \in Operations, NEW data \in mutate_Operation(o)
      PROVE  data \in Nat /\ data <= 131072
  <2>1. o \in 0 .. OPERATION_MAX_SIZE
    BY LearnedAssumption, Zenon
  <2>2. o \in Nat /\ o <= 131072
    <3>1. OPERATION_MAX_SIZE \in Nat
      BY Values, SMT
    <3>2. o \in Nat /\ o <= OPERATION_MAX_SIZE
      BY <2>1, <3>1, UpTo
    <3> QED
      BY <3>2, Values, SMT
  <2>3. data = o \/ (o > 1 /\ data \in gen_range(1, o))
    BY DEF mutate_Operation
  <2>4. CASE data = o
    BY <2>2, <2>4, SMT
  <2>5. CASE data \in gen_range(1, o)
    <3>1. data \in Int /\ 1 <= data /\ data < o
      BY <2>2, <2>5, GenRange, SMT
    <3> QED
      BY <2>2, <3>1, SMT
  <2> QED
    BY <2>3, <2>4, <2>5, SMT
<1>4. gen_Operation \in Nat /\ gen_Operation <= 131072
  BY <1>1, SMT
<1> QED
  BY <1>2, <1>3, <1>4, SMT

LEMMA ProtocolsFit ==
    /\ \A size \in Nat : size <= 2097150 => ProtocolFits(size)
    /\ \A size \in gen_ComponentVec : ProtocolFits(size)
<1>1. \A size \in Nat : size <= 2097150 => ProtocolFits(size)
  BY Values, SMT DEF ProtocolFits, ComponentsFit, ResponseFits
<1>2. ASSUME NEW size \in gen_ComponentVec PROVE size \in Nat /\ size <= 2097150
  <2>1. size \in gen_range(2097151 - 205834, 2097151)
    BY GenComponentIs, Values, SMT DEF gen_ComponentVec
  <2> QED
    BY <2>1, GenRange, SMT
<1> QED
  BY <1>1, <1>2, SMT

LEMMA OperationListsFit ==
    ASSUME NEW L \in SUBSET OperationLists,
           NEW path \in gen_Path \cup {l.path : l \in L}, NEW size \in {gen_OperationVec} \cup {l.size : l \in L}
    PROVE  ListFits(path, size)
<1>1. gen_Operation = 131008 /\ OperationSize(gen_Operation) = 131040
  BY Sizes32, Values, SMT DEF gen_Operation, OperationSize
<1>2. gen_OperationVec = 1048352
  <2>1. 1048576 \div 131040 = 8
    BY SMT
  <2> QED
    BY <1>1, <2>1, Values, SMT DEF gen_OperationVec
<1>3. MAX_PASS_MERKLE_DEPTH \in Nat /\ OPERATION_LIST_MAX_SIZE \in Nat
  BY Values, SMT
<1>4. \A l \in L : /\ l.path \in Nat /\ l.path <= MAX_PASS_MERKLE_DEPTH
                  /\ l.size \in Nat /\ l.size <= OPERATION_LIST_MAX_SIZE
  <2>1. \A l \in L : /\ l.path \in 0 .. MAX_PASS_MERKLE_DEPTH
                    /\ l.size \in 0 .. OPERATION_LIST_MAX_SIZE
    BY LearnedAssumption, Zenon
  <2> QED
    BY <1>3, <2>1, UpTo
<1>5. path \in Nat /\ path <= MAX_PASS_MERKLE_DEPTH
  <2>1. CASE path \in gen_Path
    <3>1. path \in Int /\ 0 <= path /\ path < MAX_PASS_MERKLE_DEPTH
      BY <1>3, <2>1, GenRange DEF gen_Path
    <3> QED
      BY <1>3, <3>1
  <2>2. CASE path \in {l.path : l \in L}
    BY <1>4, <2>2
  <2> QED
    BY <2>1, <2>2
<1>6. size \in Nat /\ size <= OPERATION_LIST_MAX_SIZE
  <2>1. CASE size = gen_OperationVec
    BY <1>2, <2>1, Values, SMT
  <2>2. CASE size \in {l.size : l \in L}
    BY <1>4, <2>2
  <2> QED
    BY <2>1, <2>2
<1>7. path <= 3 /\ size <= 1048576
  BY <1>5, <1>6, Values, SMT
<1>8. 2 + (32 + 1 + (1 + 32) * path + 1 + size) <= 8516630
  BY <1>5, <1>6, <1>7, SMT
<1> QED
  BY <1>5, <1>6, <1>8, Sizes32, Values, SMT DEF ListFits, ResponseFits, gen_OperationsForBlock, PathItemSize

-----------------------------------------------------------------------------
(* Steps.                                                                  *)

\* What OutbidsLearned says of a step.
Outbids ==
    msg' # msg /\ msg'.bid # NoBid => msg'.bid > bid \/ bid + calls >= FitnessMax

LEMMA MessageIs ==
    ASSUME NEW kind, NEW f, NEW b
    PROVE  /\ Plain(kind, f).kind = kind /\ Plain(kind, f).fits = f /\ Plain(kind, f).bid = NoBid
           /\ Message(kind, f, b).kind = kind /\ Message(kind, f, b).fits = f
           /\ Message(kind, f, b).bid = b
BY DEF Plain, Message

\* A message that fits is sent.
LEMMA SentPlain ==
    ASSUME NEW kind, NEW f, f, Send(Plain(kind, f))
    PROVE  panic' = "no" /\ Outbids
<1>1. msg' = Plain(kind, f) /\ panic' = IF Plain(kind, f).fits THEN "no" ELSE "encode"
  BY DEF Send
<1>2. Plain(kind, f).fits = f /\ Plain(kind, f).bid = NoBid
  BY DEF Plain, Message
<1>3. Plain(kind, f).fits
  BY <1>2, Zenon
<1> QED
  BY <1>1, <1>2, <1>3, Zenon DEF Outbids

LEMMA InitInv == Init => IndInv
<1> SUFFICES ASSUME Init PROVE IndInv
  OBVIOUS
<1>1. DOMAIN blocks = {}
  BY DEF Init
<1>2. LearnedInv
  BY DEF Init, LearnedInv
<1>3. ChainInv
  BY <1>1 DEF ChainInv
<1>4. BidInv
  BY GeneratorAssumption DEF Init, BidInv
<1>5. KeptHeadsHaveFitness /\ OnlyLearnedTooLarge
  BY DEF Init, KeptHeadsHaveFitness, OnlyLearnedTooLarge
<1> QED
  BY <1>2, <1>3, <1>4, <1>5 DEF IndInv

\* A step that makes no block.
LEMMA ChainStays ==
    ASSUME IndInv, UNCHANGED chain
    PROVE  ChainInv'
BY DEF IndInv, ChainInv, chain

LEMMA BidStays ==
    ASSUME BidInv, calls' = calls + 1, UNCHANGED <<fitness_count, bid>>
    PROVE  BidInv'
BY GeneratorAssumption DEF BidInv

\* A step that takes the next number.
LEMMA BidCounts ==
    ASSUME BidInv, calls' = calls + 1, bid' = bid, fitness_count' \in {fitness_count, gen_fitness}
    PROVE  BidInv' /\ (gen_fitness > bid \/ bid + calls >= FitnessMax)
<1>1. FitnessMax \in Nat
  BY GeneratorAssumption
<1>2. /\ fitness_count < FitnessMax => gen_fitness = fitness_count + 1
      /\ fitness_count = FitnessMax => gen_fitness = 0
  <2>1. fitness_count \in Nat /\ fitness_count <= FitnessMax
    BY <1>1 DEF BidInv
  <2>2. ASSUME NEW x \in Nat, x < FitnessMax + 1 PROVE x % (FitnessMax + 1) = x
    BY <1>1, <2>2
  <2>3. (FitnessMax + 1) % (FitnessMax + 1) = 0
    BY <1>1
  <2> QED
    BY <1>1, <2>1, <2>2, <2>3 DEF gen_fitness
<1> HIDE DEF gen_fitness
<1> QED
  BY <1>1, <1>2 DEF BidInv

\* A call that ends in none of the two panics the invariant is about.
LEMMA Kept ==
    ASSUME IndInv, LearnedInv', BidInv', UNCHANGED chain,
           current_branch' = {} => current_branch = {}, panic' \notin {"fitness", "encode"}
    PROVE  IndInv'
<1>1. ChainInv'
  BY ChainStays
<1>2. KeptHeadsHaveFitness' /\ OnlyLearnedTooLarge'
  BY DEF KeptHeadsHaveFitness, OnlyLearnedTooLarge
<1> QED
  BY <1>1, <1>2 DEF IndInv

LEMMA LearnedStays ==
    ASSUME LearnedInv, UNCHANGED learned
    PROVE  LearnedInv'
BY DEF LearnedInv, learned

\* A message that fits and takes no number.
LEMMA Stays ==
    ASSUME IndInv, calls' = calls + 1, UNCHANGED <<fitness_count, chain, learned, bid>>,
           panic' \notin {"fitness", "encode"}
    PROVE  IndInv'
<1>1. LearnedInv /\ BidInv /\ current_branch' = current_branch
  BY DEF IndInv, learned
<1>2. LearnedInv' /\ BidInv'
  BY <1>1, LearnedStays, BidStays
<1> QED
  BY <1>1, <1>2, Kept

LEMMA GenPlainInv ==
    ASSUME IndInv, GenPlain
    PROVE  IndInv' /\ Outbids
<1>1. PICK m \in PlainMessages : Send(m)
  BY DEF GenPlain
<1>2. m.bid = NoBid /\ m.fits
  BY PlainFits
<1>3. panic' = "no" /\ Outbids
  BY <1>1, <1>2, Zenon DEF Send, Outbids
<1>4. calls' = calls + 1 /\ UNCHANGED <<fitness_count, chain, learned, bid>>
  BY DEF GenPlain, Call
<1>5. IndInv'
  BY <1>3, <1>4, Stays
<1> QED
  BY <1>3, <1>5

LEMMA SetChainIdInv ==
    ASSUME IndInv, set_chain_id
    PROVE  IndInv' /\ Outbids
<1>1. /\ calls' = calls + 1 /\ UNCHANGED <<fitness_count, chain, learned, bid>>
      /\ panic' = "no" /\ msg' = msg
  BY DEF set_chain_id, Call
<1> QED
  BY <1>1, Stays DEF Outbids

\* What is learned from a branch or a head.
LEMMA Learns ==
    ASSUME IndInv, Call, NEW x \in Heads \cup Branches, NEW learn \in BOOLEAN, NEW same \in BOOLEAN,
           LearnFitness(x.header, learn, same)
    PROVE  /\ BidInv' /\ panic' \notin {"fitness", "encode"}
           /\ same \/ (learn /\ x.header.n > 1)
<1>1. x.header \in LearnedHeaders
  BY DEF LearnedHeaders
<1>2. x.header.bid \in 0 .. FitnessMax
  BY <1>1, LearnedHeader
<1>3. BidInv /\ calls' = calls + 1 /\ panic = "no" /\ calls \in Nat /\ FitnessMax \in Nat
  BY GeneratorAssumption DEF IndInv, Call, BidInv
<1>4. CASE same /\ UNCHANGED <<fitness_count, bid>> /\ panic' \in {panic, "fitness_length"}
  BY <1>3, <1>4, BidStays
<1>5. CASE /\ x.header.n > 1 /\ fitness_count' = x.header.bid /\ bid' = x.header.bid
           /\ learn /\ panic' = panic
  <2>1. BidInv'
    BY <1>2, <1>3, <1>5 DEF BidInv
  <2> QED
    BY <1>3, <1>5, <2>1
<1> QED
  BY <1>4, <1>5 DEF LearnFitness

LEMMA SetCurrentBranchInv ==
    ASSUME IndInv, NEW b \in Branches, set_current_branch(b)
    PROVE  IndInv' /\ Outbids
<1>1. /\ Call /\ LearnFitness(b.header, current_branch' = {b}, UNCHANGED current_branch)
      /\ UNCHANGED <<chain, current_head, block_header, operation, protocol,
                     operations_for_blocks>>
      /\ msg' = msg
  BY DEF set_current_branch
<1>2. /\ BidInv' /\ panic' \notin {"fitness", "encode"}
      /\ current_branch' = current_branch \/ (current_branch' = {b} /\ b.header.n > 1)
  <2>1. (current_branch' = {b}) \in BOOLEAN /\ (UNCHANGED current_branch) \in BOOLEAN
    OBVIOUS
  <2> QED
    BY <1>1, <2>1, Learns
<1>3. LearnedInv'
  BY <1>1, <1>2 DEF IndInv, LearnedInv
<1>4. current_branch' = {} => current_branch = {}
  BY <1>2
<1>5. IndInv'
  BY <1>1, <1>2, <1>3, <1>4, Kept
<1> QED
  BY <1>1, <1>5 DEF Outbids

LEMMA SetCurrentHeadInv ==
    ASSUME IndInv, NEW h \in Heads, set_current_head(h)
    PROVE  IndInv' /\ Outbids
<1>1. /\ Call /\ LearnFitness(h.header, current_head' = {h}, UNCHANGED current_head)
      /\ UNCHANGED <<chain, current_branch, block_header, operation, protocol,
                     operations_for_blocks>>
      /\ msg' = msg
  BY DEF set_current_head
<1>2. /\ BidInv' /\ panic' \notin {"fitness", "encode"}
      /\ current_head' = current_head \/ (current_head' = {h} /\ h.header.n > 1)
  <2>1. (current_head' = {h}) \in BOOLEAN /\ (UNCHANGED current_head) \in BOOLEAN
    OBVIOUS
  <2> QED
    BY <1>1, <2>1, Learns
<1>3. LearnedInv'
  BY <1>1, <1>2 DEF IndInv, LearnedInv
<1>4. IndInv'
  BY <1>1, <1>2, <1>3, Kept
<1> QED
  BY <1>1, <1>4 DEF Outbids

\* What is learned from a message without fitness, or whose fitness nobody
\* looks at.
LEMMA SetOthersInv ==
    ASSUME IndInv,
           \/ \E h \in BlockHeaders : set_block_header(h)
           \/ \E o \in Operations : set_operation(o)
           \/ \E p \in Protocols : set_protocol(p)
           \/ \E l \in OperationLists : set_operations_for_blocks(l)
    PROVE  IndInv' /\ Outbids
<1>1. /\ calls' = calls + 1 /\ panic' = "no" /\ msg' = msg
      /\ UNCHANGED <<fitness_count, chain, bid, current_branch, current_head>>
      /\ block_header' \in {block_header} \cup {{h} : h \in BlockHeaders}
      /\ operation' \in {operation} \cup {{o} : o \in Operations}
      /\ protocol' \in {protocol} \cup {{p} : p \in Protocols}
      /\ operations_for_blocks' \in {operations_for_blocks} \cup {{l} : l \in OperationLists}
  BY DEF set_block_header, set_operation, set_protocol, set_operations_for_blocks, Call
<1>2. LearnedInv'
  BY <1>1 DEF IndInv, LearnedInv
<1>3. BidInv'
  BY <1>1, BidStays DEF IndInv
<1>4. IndInv'
  BY <1>1, <1>2, <1>3, Kept
<1> QED
  BY <1>1, <1>4 DEF Outbids

-----------------------------------------------------------------------------
(* Messages with a header.                                                 *)

\* A header that grew past the limit was near it.
LEMMA NearTheLimit ==
    ASSUME NEW b \in LearnedHeaders, NEW h \in mutate_BlockHeader(b), h.panic = "no",
           \/ ~ BlockHeaderFits(h)
           \/ \E history \in 0 .. CURRENT_BRANCH_HISTORY_MAX_LENGTH : ~ BranchFits(h, history)
    PROVE  HeaderSize(b) + 28 > BLOCK_HEADER_MAX_SIZE
<1>1. h.fit \in Nat /\ h.data \in Nat /\ (HeaderSize(h) <= 8384640 \/ HeaderSize(h) <= HeaderSize(b) + 28)
  BY MutateHeader, SMT
<1>2. HeaderSize(h) \in Nat
  BY <1>1, HeaderSizeIs, SMT
<1>3. HeaderSize(b) \in Nat
  BY LearnedHeader, HeaderSizeIs, SMT
<1>4. ~ (HeaderSize(h) <= 8388608)
  <2> SUFFICES ASSUME HeaderSize(h) <= 8388608 PROVE FALSE
    OBVIOUS
  <2>1. BlockHeaderFits(h) /\ \A history \in Nat : history <= 1000 => BranchFits(h, history)
    BY <1>1, SmallHeadersFit, SMT
  <2>2. CURRENT_BRANCH_HISTORY_MAX_LENGTH \in Nat /\ CURRENT_BRANCH_HISTORY_MAX_LENGTH <= 1000
    BY Values, SMT
  <2>3. ASSUME NEW history \in 0 .. CURRENT_BRANCH_HISTORY_MAX_LENGTH
        PROVE  BranchFits(h, history)
    <3>1. history \in Nat /\ history <= CURRENT_BRANCH_HISTORY_MAX_LENGTH
      BY <2>2, UpTo, SMT
    <3>2. history <= 1000
      BY <2>2, <3>1, SMT
    <3> QED
      BY <2>1, <3>1, <3>2, SMT
  <2>4. BlockHeaderFits(h)
    BY <2>1, SMT
  <2> QED
    BY <2>3, <2>4, SMT
<1> QED
  BY <1>1, <1>2, <1>3, <1>4, Values, SMT

\* A changed header takes no number or the next one.
LEMMA SentMutated ==
    ASSUME IndInv, Call, UNCHANGED bid, NEW b \in LearnedHeaders, NEW h \in mutate_BlockHeader(b), NEW kind, NEW f,
           SendMutated(kind, h, f)
    PROVE  /\ BidInv' /\ Outbids
           /\ panic' \in {"no", "encode", "fitness", "memory"}
           /\ panic' = "fitness" => b.n = 0
           /\ panic' = "encode" => msg'.kind = kind /\ ~ f /\ h.panic = "no"
<1>1. /\ h.panic \in {"no", "fitness", "memory"} /\ h.bid \in {NoBid, gen_fitness}
      /\ h.panic = "fitness" => b.n = 0
  BY MutateHeader
<1>2. fitness_count' \in {fitness_count, gen_fitness}
  BY <1>1 DEF SendMutated
<1>3. BidInv' /\ (gen_fitness > bid \/ bid + calls >= FitnessMax)
  BY <1>2, BidCounts DEF IndInv, Call
<1>4. CASE h.panic # "no"
  <2>1. panic' = h.panic /\ msg' = msg
    BY <1>4 DEF SendMutated
  <2> QED
    BY <1>1, <1>3, <1>4, <2>1 DEF Outbids
<1>5. CASE h.panic = "no"
  <2>1. Send(Message(kind, f, h.bid))
    BY <1>5 DEF SendMutated
  <2>2. /\ Message(kind, f, h.bid).kind = kind /\ Message(kind, f, h.bid).fits = f
        /\ Message(kind, f, h.bid).bid = h.bid
    BY DEF Message
  <2>3. msg'.kind = kind /\ msg'.bid = h.bid /\ (panic' = "no" \/ (panic' = "encode" /\ ~ f))
    BY <2>1, <2>2, Zenon DEF Send
  <2>4. Outbids
    BY <1>1, <1>3, <2>3 DEF Outbids
  <2> QED
    BY <1>3, <1>5, <2>3, <2>4
<1> QED
  BY <1>4, <1>5

\* The block of a head made from nothing is kept, and fits.
LEMMA InsertInv ==
    ASSUME IndInv, NEW h, BlockHeaderFits(h), NEW id, NEW pred,
           InsertBlock(id, [pred |-> pred, header |-> h])
    PROVE  ChainInv'
<1> DEFINE block == [pred |-> pred, header |-> h]
           with(kept) == [k \in kept \cup {id} |-> IF k = id THEN block ELSE blocks[k]]
<1>1. \A k \in DOMAIN blocks : BlockHeaderFits(blocks[k].header)
  BY DEF IndInv, ChainInv
<1>2. block.header = h
  OBVIOUS
<1>3. \/ blocks' = blocks
      \/ \E kept \in SUBSET DOMAIN blocks : blocks' = with(kept)
  BY DEF InsertBlock
<1>4. ASSUME NEW kept \in SUBSET DOMAIN blocks, blocks' = with(kept)
      PROVE  \A k \in DOMAIN blocks' : BlockHeaderFits(blocks'[k].header)
  <2> HIDE DEF block
  <2>1. DOMAIN blocks' = kept \cup {id}
    BY <1>4
  <2> SUFFICES ASSUME NEW k \in kept \cup {id} PROVE BlockHeaderFits(blocks'[k].header)
    BY <2>1
  <2>2. CASE k = id
    BY <1>2, <1>4, <2>2
  <2>3. CASE k # id
    BY <1>1, <1>4, <2>3
  <2> QED
    BY <2>2, <2>3
<1> QED
  BY <1>1, <1>3, <1>4 DEF ChainInv

LEMMA GenCurrentBranchInv ==
    ASSUME IndInv, gen_CurrentBranchMessage
    PROVE  IndInv' /\ Outbids
<1>1. Call /\ UNCHANGED <<learned, bid>> /\ calls' = calls + 1
  BY DEF gen_CurrentBranchMessage, Call
<1>2. LearnedInv /\ BidInv /\ LearnedInv' /\ current_branch' = current_branch
  <2>1. LearnedInv /\ BidInv
    BY DEF IndInv
  <2> QED
    BY <1>1, <2>1, LearnedStays DEF learned
<1>3. CASE current_branch = {} /\ gen_CurrentBranch
  <2>1. PICK history \in gen_range(0, CURRENT_BRANCH_HISTORY_MAX_LENGTH), h \in gen_BlockHeader :
          /\ made' = made + 1
          /\ InsertBlock(made', [pred |-> last_block, header |-> h])
          /\ last_block' = made'
          /\ Send(Plain("CurrentBranch", BranchFits(h, IF history = 0 THEN 0 ELSE history - 1)))
    BY <1>3 DEF gen_CurrentBranch
  <2>2. /\ (IF history = 0 THEN 0 ELSE history - 1) \in Nat
        /\ (IF history = 0 THEN 0 ELSE history - 1) <= 1000
    <3>1. history \in Int /\ 0 <= history /\ history < 1000
      BY GenRange, Values, SMT
    <3> QED
      BY <3>1, SMT
  <2>3. h.fit \in Nat /\ h.data \in Nat /\ HeaderSize(h) <= 8388608
    <3>1. h.fit \in Nat /\ h.data \in Nat /\ HeaderSize(h) <= 8384626
      BY GenHeader
    <3>2. HeaderSize(h) \in Nat
      BY <3>1, HeaderSizeIs, SMT
    <3> QED
      BY <3>1, <3>2, SMT
  <2>4. BlockHeaderFits(h) /\ BranchFits(h, IF history = 0 THEN 0 ELSE history - 1)
    BY <2>2, <2>3, SmallHeadersFit, SMT
  <2>5. panic' = "no" /\ Outbids
    BY <2>1, <2>4, SentPlain, Zenon
  <2>6. ChainInv'
    BY <1>2, <1>3, <2>1, <2>4, InsertInv
  <2>7. BidInv'
    BY <1>1, <1>2, <1>3, BidStays DEF gen_CurrentBranch
  <2>8. KeptHeadsHaveFitness' /\ OnlyLearnedTooLarge'
    BY <2>5 DEF KeptHeadsHaveFitness, OnlyLearnedTooLarge
  <2> QED
    BY <1>2, <2>5, <2>6, <2>7, <2>8 DEF IndInv
<1>4. ASSUME NEW b \in current_branch, mutate_CurrentBranch(b) PROVE IndInv' /\ Outbids
  <2>1. PICK h \in mutate_BlockHeader(b.header), history \in MutateHistory(b.history) :
          /\ SendMutated("CurrentBranch", h, BranchFits(h, history))
          /\ \/ made' = made + 1 /\ last_block' = 0 - made'
             \/ made' = made /\ last_block' = last_block
    BY <1>4 DEF mutate_CurrentBranch
  <2>2. b \in Branches /\ b.header \in LearnedHeaders /\ b.header.n > 1 /\ blocks' = blocks
    BY <1>2, <1>4 DEF LearnedInv, LearnedHeaders, mutate_CurrentBranch
  <2>3. /\ BidInv' /\ Outbids
        /\ panic' \in {"no", "encode", "fitness", "memory"}
        /\ panic' = "fitness" => b.header.n = 0
        /\ panic' = "encode" => msg'.kind = "CurrentBranch" /\ ~ BranchFits(h, history) /\ h.panic = "no"
    BY <1>1, <2>1, <2>2, SentMutated
  <2>4. KeptHeadsHaveFitness'
    BY <2>2, <2>3 DEF KeptHeadsHaveFitness
  <2>5. history \in 0 .. CURRENT_BRANCH_HISTORY_MAX_LENGTH
    <3>1. CURRENT_BRANCH_HISTORY_MAX_LENGTH \in Nat
      BY Values, SMT
    <3>2. history = b.history \/ history \in gen_range(1, CURRENT_BRANCH_HISTORY_MAX_LENGTH)
      BY DEF MutateHistory
    <3>3. b.history \in 0 .. CURRENT_BRANCH_HISTORY_MAX_LENGTH
      BY <2>2, LearnedAssumption, Zenon
    <3>4. CASE history \in gen_range(1, CURRENT_BRANCH_HISTORY_MAX_LENGTH)
      BY <3>1, <3>4, GenRange
    <3> QED
      BY <3>2, <3>3, <3>4
  <2>6. OnlyLearnedTooLarge'
    <3> SUFFICES ASSUME panic' = "encode"
                 PROVE  /\ msg'.kind = "CurrentBranch"
                        /\ HeaderSize(b.header) + 28 > BLOCK_HEADER_MAX_SIZE
      BY <1>2, <1>4 DEF OnlyLearnedTooLarge
    <3> QED
      BY <2>2, <2>3, <2>5, NearTheLimit
  <2>7. ChainInv'
    BY <2>2 DEF IndInv, ChainInv
  <2> QED
    BY <1>2, <2>3, <2>4, <2>6, <2>7 DEF IndInv
<1> QED
  BY <1>3, <1>4 DEF gen_CurrentBranchMessage

LEMMA GenCurrentHeadInv ==
    ASSUME IndInv, gen_CurrentHeadMessage
    PROVE  IndInv' /\ Outbids
<1>1. Call /\ UNCHANGED <<chain, learned, bid>> /\ calls' = calls + 1
  BY DEF gen_CurrentHeadMessage, Call
<1>2. LearnedInv /\ LearnedInv' /\ current_branch' = current_branch /\ current_head' = current_head
  <2>1. LearnedInv
    BY DEF IndInv
  <2> QED
    BY <1>1, <2>1, LearnedStays DEF learned
<1>3. ASSUME NEW h \in gen_BlockHeader, NEW p \in gen_Mempool,
             Send(Plain("CurrentHead", HeadFits(h, p))), UNCHANGED fitness_count
      PROVE  IndInv' /\ Outbids
  <2>1. h.fit \in Nat /\ h.data \in Nat /\ HeaderSize(h) <= 8388608
    <3>1. h.fit \in Nat /\ h.data \in Nat /\ HeaderSize(h) <= 8384626
      BY GenHeader
    <3>2. HeaderSize(h) \in Nat
      BY <3>1, HeaderSizeIs, SMT
    <3> QED
      BY <3>1, <3>2, SMT
  <2>2. HeadFits(h, p)
    BY <2>1, SmallHeadersFit, MempoolsFit, SMT
  <2>3. panic' = "no" /\ Outbids
    BY <1>3, <2>2, SentPlain, Zenon
  <2> QED
    BY <1>1, <1>3, <2>3, Stays
<1>4. ASSUME NEW head \in current_head, mutate_CurrentHeadMessage(head) PROVE IndInv' /\ Outbids
  <2>1. PICK h \in mutate_BlockHeader(head.header), p \in mutate_Mempool(head) :
          SendMutated("CurrentHead", h, HeadFits(h, p))
    BY <1>4 DEF mutate_CurrentHeadMessage
  <2>2. head.header \in LearnedHeaders /\ head.header.n > 1
    BY <1>2, <1>4 DEF LearnedInv, LearnedHeaders
  <2>3. /\ BidInv' /\ Outbids
        /\ panic' = "fitness" => head.header.n = 0
        /\ panic' = "encode" => msg'.kind = "CurrentHead"
    BY <1>1, <2>1, <2>2, SentMutated
  <2>4. KeptHeadsHaveFitness'
    BY <2>2, <2>3 DEF KeptHeadsHaveFitness
  <2>5. OnlyLearnedTooLarge'
    BY <1>2, <1>4, <2>3 DEF OnlyLearnedTooLarge
  <2>6. ChainInv'
    BY <1>1, <1>2, ChainStays
  <2> QED
    BY <1>2, <2>3, <2>4, <2>5, <2>6 DEF IndInv
<1> QED
  BY <1>3, <1>4 DEF gen_CurrentHeadMessage

LEMMA GenBlockHeaderInv ==
    ASSUME IndInv, gen_BlockHeaderMessage
    PROVE  IndInv' /\ Outbids
<1>1. Call /\ UNCHANGED <<chain, learned, bid>> /\ calls' = calls + 1
  BY DEF gen_BlockHeaderMessage, Call
<1>2. LearnedInv /\ LearnedInv' /\ current_branch' = current_branch /\ block_header' = block_header
  <2>1. LearnedInv
    BY DEF IndInv
  <2> QED
    BY <1>1, <2>1, LearnedStays DEF learned
<1>3. ASSUME NEW h \in gen_BlockHeader,
             Send(Plain("BlockHeader", BlockHeaderFits(h))), UNCHANGED fitness_count
      PROVE  IndInv' /\ Outbids
  <2>1. h.fit \in Nat /\ h.data \in Nat /\ HeaderSize(h) <= 8388608
    <3>1. h.fit \in Nat /\ h.data \in Nat /\ HeaderSize(h) <= 8384626
      BY GenHeader
    <3>2. HeaderSize(h) \in Nat
      BY <3>1, HeaderSizeIs, SMT
    <3> QED
      BY <3>1, <3>2, SMT
  <2>2. BlockHeaderFits(h)
    BY <2>1, SmallHeadersFit, SMT
  <2>3. panic' = "no" /\ Outbids
    BY <1>3, <2>2, SentPlain, Zenon
  <2> QED
    BY <1>1, <1>3, <2>3, Stays
<1>4. ASSUME NEW b \in block_header, NEW h \in mutate_BlockHeader(b),
             SendMutated("BlockHeader", h, BlockHeaderFits(h))
      PROVE  IndInv' /\ Outbids
  <2>1. b \in LearnedHeaders
    BY <1>2, <1>4 DEF LearnedInv, LearnedHeaders
  <2>2. /\ BidInv' /\ Outbids
        /\ panic' = "fitness" => b.n = 0
        /\ panic' = "encode" => msg'.kind = "BlockHeader" /\ ~ BlockHeaderFits(h) /\ h.panic = "no"
    BY <1>1, <1>4, <2>1, SentMutated
  <2>3. KeptHeadsHaveFitness'
    BY <1>2, <1>4, <2>2 DEF KeptHeadsHaveFitness
  <2>4. OnlyLearnedTooLarge'
    <3> SUFFICES ASSUME panic' = "encode"
                 PROVE  msg'.kind = "BlockHeader" /\ HeaderSize(b) + 28 > BLOCK_HEADER_MAX_SIZE
      BY <1>2, <1>4 DEF OnlyLearnedTooLarge
    <3> QED
      BY <1>4, <2>1, <2>2, NearTheLimit
  <2>5. ChainInv'
    BY <1>1, <1>2, ChainStays
  <2> QED
    BY <1>2, <2>2, <2>3, <2>4, <2>5 DEF IndInv
<1> QED
  BY <1>3, <1>4 DEF gen_BlockHeaderMessage

-----------------------------------------------------------------------------
(* The other messages.                                                     *)

LEMMA GetBlockInv ==
    ASSUME IndInv, NEW id \in DOMAIN blocks, get_block(id)
    PROVE  IndInv' /\ Outbids
<1>1. /\ calls' = calls + 1 /\ UNCHANGED <<fitness_count, chain, learned, bid>>
      /\ Send(Plain("Block", BlockHeaderFits(blocks[id].header)))
  BY DEF get_block, Call
<1>2. BlockHeaderFits(blocks[id].header)
  BY DEF IndInv, ChainInv
<1>3. panic' = "no" /\ Outbids
  BY <1>1, <1>2, SentPlain, Zenon
<1> QED
  BY <1>1, <1>3, Stays

LEMMA GenOperationInv ==
    ASSUME IndInv, gen_OperationMessage
    PROVE  IndInv' /\ Outbids
<1>1. calls' = calls + 1 /\ UNCHANGED <<fitness_count, chain, learned, bid>>
  BY DEF gen_OperationMessage, Call
<1>2. operation \subseteq Operations
  BY DEF IndInv, LearnedInv
<1>3. PICK data : OperationFits(data) /\ Send(Plain("Operation", OperationFits(data)))
  BY <1>2, OperationsFit DEF gen_OperationMessage
<1>4. panic' = "no" /\ Outbids
  BY <1>3, SentPlain, Zenon
<1> QED
  BY <1>1, <1>4, Stays

LEMMA GenProtocolInv ==
    ASSUME IndInv, gen_ProtocolMessage
    PROVE  IndInv' /\ Outbids
<1>1. calls' = calls + 1 /\ UNCHANGED <<fitness_count, chain, learned, bid>> /\ Call
  BY DEF gen_ProtocolMessage, Call
<1>2. protocol \subseteq Protocols /\ protocol' = protocol /\ current_branch' = current_branch
  BY <1>1 DEF IndInv, LearnedInv, learned
<1>3. CASE \E size \in gen_ComponentVec : Send(Plain("Protocol", ProtocolFits(size)))
  <2>1. PICK size \in gen_ComponentVec : Send(Plain("Protocol", ProtocolFits(size)))
    BY <1>3
  <2>2. ProtocolFits(size)
    BY ProtocolsFit, SMT
  <2>3. panic' = "no" /\ Outbids
    BY <2>1, <2>2, SentPlain, Zenon
  <2> QED
    BY <1>1, <2>3, Stays
<1>4. ASSUME NEW cs \in protocol, NEW size \in mutate_ComponentVec(cs),
             Send(Plain("Protocol", ProtocolFits(size)))
      PROVE  IndInv' /\ Outbids
  <2>1. /\ size \in Nat
        /\ size <= ComponentsSize(cs) + Len(cs) * ComponentSize(gen_Component)
    BY <1>2, <1>4, MutateComponents
  <2>2. CASE ProtocolFits(size)
    <3>1. panic' = "no" /\ Outbids
      BY <1>4, <2>2, SentPlain, Zenon
    <3> QED
      BY <1>1, <3>1, Stays
  <2>3. CASE ~ ProtocolFits(size)
    <3>1. size > 2097150
      <4>1. ~ (size <= 2097150)
        BY <2>1, <2>3, ProtocolsFit, SMT
      <4> QED
        BY <2>1, <4>1, SMT
    <3>2. ComponentsSize(cs) + Len(cs) * ComponentSize(gen_Component) > PROTOCOL_COMPONENT_MAX_SIZE
      <4> DEFINE bound == ComponentsSize(cs) + Len(cs) * ComponentSize(gen_Component)
      <4>1. bound \in Int
        BY <1>2, <1>4, ProtocolSizes
      <4>2. size <= bound
        BY <2>1
      <4> HIDE DEF bound
      <4>3. bound > PROTOCOL_COMPONENT_MAX_SIZE
        BY <2>1, <3>1, <4>1, <4>2, Values, SMT
      <4> QED
        BY <4>3 DEF bound
    <3>3. /\ Plain("Protocol", ProtocolFits(size)).kind = "Protocol"
          /\ Plain("Protocol", ProtocolFits(size)).fits = ProtocolFits(size)
          /\ Plain("Protocol", ProtocolFits(size)).bid = NoBid
      BY DEF Plain, Message
    <3>4. msg'.kind = "Protocol" /\ msg'.bid = NoBid /\ panic' = "encode"
      BY <1>4, <2>3, <3>3, Zenon DEF Send
    <3>5. Outbids /\ KeptHeadsHaveFitness'
      BY <3>4 DEF Outbids, KeptHeadsHaveFitness
    <3>6. OnlyLearnedTooLarge'
      BY <1>2, <1>4, <3>2, <3>4, Zenon DEF OnlyLearnedTooLarge
    <3>7. LearnedInv' /\ BidInv'
      BY <1>1, LearnedStays, BidStays DEF IndInv
    <3>8. ChainInv'
      BY <1>1, <1>2, ChainStays
    <3> QED
      BY <3>5, <3>6, <3>7, <3>8 DEF IndInv
  <2> QED
    BY <2>2, <2>3
<1> QED
  BY <1>3, <1>4 DEF gen_ProtocolMessage

LEMMA GenOperationsForBlocksInv ==
    ASSUME IndInv, gen_OperationsForBlocksMessage
    PROVE  IndInv' /\ Outbids
<1>1. calls' = calls + 1 /\ UNCHANGED <<fitness_count, chain, learned, bid>>
  BY DEF gen_OperationsForBlocksMessage, Call
<1>2. operations_for_blocks \in SUBSET OperationLists
  BY DEF IndInv, LearnedInv
<1>3. PICK path \in gen_Path \cup {l.path : l \in operations_for_blocks},
           size \in {gen_OperationVec} \cup {l.size : l \in operations_for_blocks} :
        Send(Plain("OperationsForBlocks", ListFits(path, size)))
  BY DEF gen_OperationsForBlocksMessage
<1>4. ListFits(path, size)
  BY <1>2, OperationListsFit
<1>5. panic' = "no" /\ Outbids
  BY <1>3, <1>4, SentPlain, Zenon
<1> QED
  BY <1>1, <1>5, Stays

-----------------------------------------------------------------------------
(* Theorems.                                                               *)

LEMMA NextInv ==
    ASSUME IndInv, [Next]_vars
    PROVE  IndInv' /\ [Outbids]_vars
<1>1. CASE Next
  <2>1. CASE GenPlain
    BY <2>1, GenPlainInv
  <2>2. CASE set_chain_id
    BY <2>2, SetChainIdInv
  <2>3. CASE \E b \in Branches : set_current_branch(b)
    BY <2>3, SetCurrentBranchInv
  <2>4. CASE \E h \in Heads : set_current_head(h)
    BY <2>4, SetCurrentHeadInv
  <2>5. CASE \/ \E h \in BlockHeaders : set_block_header(h)
             \/ \E o \in Operations : set_operation(o)
             \/ \E p \in Protocols : set_protocol(p)
             \/ \E l \in OperationLists : set_operations_for_blocks(l)
    BY <2>5, SetOthersInv
  <2>6. CASE gen_CurrentBranchMessage
    BY <2>6, GenCurrentBranchInv
  <2>7. CASE gen_CurrentHeadMessage
    BY <2>7, GenCurrentHeadInv
  <2>8. CASE gen_BlockHeaderMessage
    BY <2>8, GenBlockHeaderInv
  <2>9. CASE gen_OperationMessage
    BY <2>9, GenOperationInv
  <2>10. CASE gen_ProtocolMessage
    BY <2>10, GenProtocolInv
  <2>11. CASE gen_OperationsForBlocksMessage
    BY <2>11, GenOperationsForBlocksInv
  <2>12. CASE \E id \in DOMAIN blocks : get_block(id)
    BY <2>12, GetBlockInv
  <2> QED
    BY <1>1, <2>1, <2>2, <2>3, <2>4, <2>5, <2>6, <2>7, <2>8, <2>9, <2>10, <2>11, <2>12 DEF Next
<1>2. CASE UNCHANGED vars
  <2>1. /\ UNCHANGED <<chain, learned, fitness_count, bid, calls, panic, msg>>
        /\ UNCHANGED <<current_branch, current_head, block_header, protocol>>
    BY <1>2 DEF vars, learned
  <2>2. LearnedInv'
    BY <2>1, LearnedStays DEF IndInv
  <2>3. BidInv'
    BY <2>1 DEF IndInv, BidInv
  <2>4. ChainInv'
    BY <2>1, ChainStays
  <2>5. KeptHeadsHaveFitness' /\ OnlyLearnedTooLarge'
    BY <2>1 DEF IndInv, KeptHeadsHaveFitness, OnlyLearnedTooLarge
  <2> QED
    BY <1>2, <2>2, <2>3, <2>4, <2>5 DEF IndInv
<1> QED
  BY <1>1, <1>2

(* The invariant is inductive: what is kept was learned and has fitness,   *)
(* the blocks made are one chain within their limit, and the count is      *)
(* ahead of the number learned last until it wraps.                        *)
THEOREM IndInvHolds == Spec => []IndInv
<1>1. IndInv /\ [Next]_vars => IndInv'
  BY NextInv
<1> QED
  BY InitInv, <1>1, PTL DEF Spec

(* The write of a message ends the worker only for one made from a learned *)
(* message near a limit: every message gen_... makes from nothing (and     *)
(* every operation and list of operations, learned or not) respects all    *)
(* limits of limits.rs.                                                    *)
THEOREM GeneratedMessagesFit == Spec => []OnlyLearnedTooLarge
<1>1. IndInv => OnlyLearnedTooLarge
  BY DEF IndInv
<1> QED
  BY IndInvHolds, <1>1, PTL

(* data.fitness()[0] panics only for a header of a BlockHeader message.    *)
THEOREM KeptHeadsNeverPanic == Spec => []KeptHeadsHaveFitness
<1>1. IndInv => KeptHeadsHaveFitness
  BY DEF IndInv
<1> QED
  BY IndInvHolds, <1>1, PTL

(* A head with a number outbids what was learned last until the u64 wraps. *)
THEOREM HeadsOutbid == Spec => OutbidsLearned
<1>1. IndInv /\ [Next]_vars => [Outbids]_vars
  BY NextInv
<1> QED
  BY IndInvHolds, <1>1, PTL DEF Spec, OutbidsLearned, Outbids
=============================================================================
