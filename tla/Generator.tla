------------------------------ MODULE Generator -----------------------------
(***************************************************************************)
(* generator/src/lib.rs: one worker's RandomState, what it learns from the *)
(* peer and the messages it makes, from nothing or by changing what it     *)
(* learned.  The worker writes a message with as_bytes().unwrap()          *)
(* (p2p_fuzzer.rs), so that a message over a limit ends the worker.        *)
(*                                                                         *)
(* Contents are random: a message is the sizes of its parts.  A header is  *)
(* the encoded size of its fitness and the size of its protocol data, a    *)
(* learned one also says how many elements the fitness has, the length of  *)
(* the first two and the number in the second.  What may not be there is a *)
(* set with at most one element.  Blocks are named by a counter (block     *)
(* hashes are distinct), negative for a head made from a learned branch.   *)
(***************************************************************************)
EXTENDS Limits, Sequences, FiniteSets

CONSTANTS
    BlocksLimit,        \* RandomState::new's blocks_limit
    FitnessMax,         \* u64::MAX
    Sizes,              \* the sizes gen_range picks from, beside the extremes
    Heads, Branches, BlockHeaders, Operations, Protocols, OperationLists,
                        \* what the peer may send
    MaxCalls            \* bound on the calls

Genesis == 0
Slack == 4096           \* 0x1000

VARIABLES
    fitness_count, blocks, last_block, chain_id, current_branch, current_head,
    block_header, operation, protocol, operations_for_blocks,
    made,               \* how many heads of branches were made
    msg,                \* the message made last
    bid,                \* the number in the fitness learned last
    panic,              \* why the worker ended, or "no"
    calls

learned == <<current_branch, current_head, block_header, operation, protocol,
             operations_for_blocks>>
chain == <<blocks, last_block, made>>
vars == <<fitness_count, chain, chain_id, learned, msg, bid, panic, calls>>

HashSize(type) == HashTypeSize[type]

-----------------------------------------------------------------------------
(* Sizes of what is written.                                               *)

HeaderSize(h) ==
    4 + 1 + HashSize("BlockHash") + 8 + 1 + HashSize("OperationListListHash")
      + 4 + h.fit + HashSize("ContextHash") + h.data

MempoolSize(p) == 12 + (p.known_valid + p.pending) * HashSize("OperationHash")

ComponentSize(c) ==
    4 + c.name + 1 + (IF c.interface < 0 THEN 0 ELSE 4 + c.interface)
      + 4 + c.implementation

ComponentsSize(cs) ==
    LET upto[i \in 0 .. Len(cs)] ==
            IF i = 0 THEN 0 ELSE upto[i - 1] + ComponentSize(cs[i])
    IN upto[Len(cs)]

OperationSize(data) == HashSize("BlockHash") + data

HeaderFits(h) == HeaderSize(h) <= BLOCK_HEADER_MAX_SIZE
MempoolFits(p) == MempoolSize(p) <= MEMPOOL_MAX_SIZE
ComponentsFit(size) == size <= PROTOCOL_COMPONENT_MAX_SIZE
PointsFit(count, max, length) == count <= max /\ 4 + length <= P2P_POINT_MAX_SIZE

ResponseFits(size) == 2 + size <= MESSAGE_MAX_SIZE

NoBid == 0 - 1
Message(kind, fits, b) == [kind |-> kind, fits |-> fits, bid |-> b]
Plain(kind, fits) == Message(kind, fits, NoBid)

(* The limits are those of the source, u64 and usize are not negative.     *)
ASSUME GeneratorAssumption ==
    /\ SourceLimits
    /\ BlocksLimit \in Nat /\ FitnessMax \in Nat /\ Sizes \subseteq Nat

(* The reader accepts what the writer could have written (Messages).       *)
ASSUME LearnedAssumption ==
    /\ \A h \in BlockHeaders \cup {x.header : x \in Heads \cup Branches} :
          /\ HeaderFits(h)
          /\ h.n \in Nat /\ h.fit \in Nat /\ h.data \in Nat
          /\ h.first \in Nat /\ h.second \in Nat
          /\ h.n = 0 => h.fit = 0
          /\ h.n > 0 => h.fit >= 4 * h.n + h.first
          /\ h.n > 1 => h.fit >= 4 * h.n + h.first + h.second
          /\ h.bid \in 0 .. FitnessMax
    /\ \A h \in Heads : MempoolFits(h)
    /\ \A b \in Branches : b.history \in 0 .. CURRENT_BRANCH_HISTORY_MAX_LENGTH
    /\ \A o \in Operations : o \in 0 .. OPERATION_MAX_SIZE
    /\ \A cs \in Protocols : /\ cs \in Seq([name : Nat, interface : Int, implementation : Nat])
                             /\ ComponentsFit(ComponentsSize(cs))
    /\ \A l \in OperationLists :
          /\ l.path \in 0 .. MAX_PASS_MERKLE_DEPTH
          /\ l.size \in 0 .. OPERATION_LIST_MAX_SIZE

-----------------------------------------------------------------------------
(* Random choices.                                                         *)

gen_range(from, to) ==
    {n \in Sizes \cup {from, to - 1} : from <= n /\ n < to}

(* A string for a size below to: as many characters as the size has bytes, *)
(* cut at the last boundary before that many bytes.                        *)
gen_string(to) == gen_range(0, to - 1)

gen_fitness == (fitness_count + 1) % (FitnessMax + 1)

-----------------------------------------------------------------------------
(* Headers and mempools.                                                   *)

(* The encoded sizes of the fitness elements of one to 27 bytes that the   *)
(* loop makes before one would pass 28 bytes.                              *)
gen_fitness_elements == {0} \cup gen_range(5, 29)

gen_data_len(remaining) ==
    IF remaining > 1 THEN gen_range(1, remaining) ELSE {remaining}

(* Mutant: no room is left for the other fields.                           *)
gen_BlockHeader_tight ==
    UNION {{[fit |-> f, data |-> d] :
               d \in gen_data_len(BLOCK_HEADER_MAX_SIZE - f)} :
           f \in gen_fitness_elements}

gen_BlockHeader ==
    UNION {{[fit |-> f, data |-> d] :
               d \in gen_data_len(BLOCK_HEADER_MAX_SIZE - Slack - f)} :
           f \in gen_fitness_elements}

MutateProtocolData(h, remaining) ==
    (IF h.data > 0 THEN {h.data} ELSE {}) \cup gen_data_len(remaining)

(* The learned first element and the next number; or other elements.  An   *)
(* empty fitness has no first element; remaining is a usize, below zero it *)
(* is a size nobody can allocate.                                          *)
mutate_BlockHeader(h) ==
    LET remaining == BLOCK_HEADER_MAX_SIZE - Slack
        bad(why) == [panic |-> why, bid |-> NoBid, fit |-> 0, data |-> 0]
        good(b, f, d) == [panic |-> "no", bid |-> b, fit |-> f, data |-> d]
        left == remaining - h.first - 8
        random == UNION {{good(NoBid, f, d) : d \in MutateProtocolData(h, remaining - f)} :
                         f \in gen_fitness_elements}
        counted ==
            IF h.n = 0 THEN {bad("fitness")}
            ELSE IF left >= 0
            THEN {good(gen_fitness, 4 + h.first + 12, d) : d \in MutateProtocolData(h, left)}
            ELSE {bad("memory")}
                     \cup (IF h.data > 0 THEN {good(gen_fitness, 4 + h.first + 12, h.data)}
                           ELSE {})
    IN random \cup counted

gen_Mempool ==
    UNION {{[known_valid |-> k, pending |-> p] :
               k \in gen_range(1, MEMPOOL_MAX_OPERATIONS - p)} :
           p \in gen_range(1, MEMPOOL_MAX_OPERATIONS - 2)}

MutatePending(data, remaining) ==
    {IF n <= remaining THEN n ELSE remaining : n \in {data.pending, data.known_valid}}
        \cup gen_data_len(remaining)

mutate_Mempool(data) ==
    UNION {{[known_valid |-> k, pending |-> p] :
               p \in MutatePending(data, MEMPOOL_MAX_OPERATIONS - k)} :
           k \in {data.known_valid, data.pending} \cup gen_range(1, MEMPOOL_MAX_OPERATIONS)}

-----------------------------------------------------------------------------
(* Operations, protocols and the rest.                                     *)

gen_Operation == OPERATION_MAX_SIZE - HashSize("BlockHash") - 32

mutate_Operation(data) ==
    {data} \cup (IF data > 1 THEN gen_range(1, data) ELSE {data})

(* Operations of one size, as many as fit; each is written with its size.  *)
gen_OperationVec ==
    (OPERATION_LIST_MAX_SIZE \div OperationSize(gen_Operation))
        * (4 + OperationSize(gen_Operation))

PathItemSize == 1 + 32

gen_Path == gen_range(0, MAX_PASS_MERKLE_DEPTH)

(* The largest component that is made.                                     *)
gen_Component ==
    [name |-> 1023, interface |-> 102399, implementation |-> 102399]

mutate_Component(c) ==
    [name : gen_string(1025) \cup {c.name},
     interface : gen_string(102401) \cup {0 - 1, c.interface},
     implementation : gen_string(102401) \cup {c.implementation}]

(* The loop ends at a component that no longer fits: fewer bytes are left  *)
(* than the largest component has.                                         *)
gen_ComponentVec ==
    gen_range(PROTOCOL_COMPONENT_MAX_SIZE + 1
                - ComponentSize(gen_Component),
              PROTOCOL_COMPONENT_MAX_SIZE + 1)

mutate_ComponentVec(cs) ==
    LET all == UNION {mutate_Component(cs[i]) : i \in DOMAIN cs}
    IN {ComponentsSize(d) :
           d \in {f \in [DOMAIN cs -> all] :
                     \A i \in DOMAIN cs : f[i] \in mutate_Component(cs[i])}}

-----------------------------------------------------------------------------
(* Messages that depend on nothing learned.                                *)

ChainMessageFits == ResponseFits(HashSize("ChainId"))
gen_GetCurrentBranch == Plain("GetCurrentBranch", ChainMessageFits)
gen_GetCurrentHead == Plain("GetCurrentHead", ChainMessageFits)
gen_Deactivate == Plain("Deactivate", ChainMessageFits)

gen_Advertise ==        \* "255.255.255.255:65535"
    {PointsFit(n, ADVERTISE_ID_LIST_MAX_LENGTH, l) :
        n \in gen_range(0, ADVERTISE_ID_LIST_MAX_LENGTH), l \in {9, 21}}

gen_Swap == {PointsFit(1, 1, l) : l \in gen_string(P2P_POINT_MAX_LENGTH)}

gen_List(max, size) ==
    {n <= max /\ ResponseFits(4 + n * size) : n \in gen_range(0, max)}

gen_GetBlockHeaders == gen_List(GET_BLOCK_HEADERS_MAX_LENGTH, HashSize("BlockHash"))
gen_GetOperations == gen_List(GET_OPERATIONS_MAX_LENGTH, HashSize("OperationHash"))
gen_GetProtocols == gen_List(GET_PROTOCOLS_MAX_LENGTH, HashSize("ProtocolHash"))

(* The size of a block's hash, a learned one or not, and a number.         *)
gen_OperationsForBlock == HashSize("BlockHash") + 1

gen_GetOperationsForBlocks ==
    gen_List(GET_OPERATIONS_FOR_BLOCKS_MAX_LENGTH, gen_OperationsForBlock)

gen_NetworkVersion == {l <= CHAIN_NAME_MAX_LENGTH : l \in gen_string(CHAIN_NAME_MAX_LENGTH)}

(* The key, the proof of work and the nonce are made with their sizes.     *)
gen_Connection == gen_NetworkVersion

gen_NackInfo ==
    {PointsFit(n, NACK_PEERS_MAX_LENGTH, l) :
        n \in gen_range(0, NACK_PEERS_MAX_LENGTH), l \in gen_string(P2P_POINT_MAX_LENGTH)}

gen_Metadata == Plain("Metadata", TRUE)

gen_Ack == {TRUE} \cup gen_NackInfo

PlainMessages ==
    {gen_GetCurrentBranch, gen_GetCurrentHead, gen_Deactivate, gen_Metadata}
        \cup {Plain("Advertise", f) : f \in gen_Advertise}
        \cup {Plain("Swap", f) : f \in gen_Swap}
        \cup {Plain("GetBlockHeaders", f) : f \in gen_GetBlockHeaders}
        \cup {Plain("GetOperations", f) : f \in gen_GetOperations}
        \cup {Plain("GetProtocols", f) : f \in gen_GetProtocols}
        \cup {Plain("GetOperationsForBlocks", f) : f \in gen_GetOperationsForBlocks}
        \cup {Plain("Connection", f) : f \in gen_Connection}
        \cup {Plain("Ack", f) : f \in gen_Ack}

-----------------------------------------------------------------------------
Init ==
    /\ fitness_count = 0
    /\ blocks = << >> /\ last_block = Genesis /\ made = 0
    /\ chain_id = "main"
    /\ current_branch = {} /\ current_head = {} /\ block_header = {}
    /\ operation = {} /\ protocol = {} /\ operations_for_blocks = {}
    /\ msg = Plain("none", TRUE)
    /\ bid = 0 /\ panic = "no" /\ calls = 0

Call ==
    /\ panic = "no" /\ calls < MaxCalls
    /\ calls' = calls + 1

(* as_bytes().unwrap()                                                     *)
Send(m) ==
    /\ msg' = m
    /\ panic' = IF m.fits THEN "no" ELSE "encode"

GenPlain ==
    /\ Call
    /\ \E m \in PlainMessages : Send(m)
    /\ UNCHANGED <<fitness_count, chain, chain_id, learned, bid>>

(* The learned fitness has a number in its second element, or the call     *)
(* does nothing, or the conversion of another length panics.               *)
LearnFitness(h, learn, same) ==
    \/ /\ h.n <= 1
       /\ UNCHANGED <<fitness_count, bid, panic>> /\ same
    \/ /\ h.n > 1 /\ h.second = 8
       /\ fitness_count' = h.bid /\ bid' = h.bid
       /\ learn /\ UNCHANGED panic
    \/ /\ h.n > 1 /\ h.second # 8
       /\ panic' = "fitness_length"
       /\ UNCHANGED <<fitness_count, bid>> /\ same

(* Mutant: the head is kept, its number is not.                            *)
set_current_branch_only(b) ==
    /\ Call
    /\ b.header.n > 1
    /\ current_branch' = {b} /\ bid' = b.header.bid
    /\ UNCHANGED <<fitness_count, panic, chain, chain_id, current_head, block_header,
                   operation, protocol, operations_for_blocks, msg>>

set_current_branch(b) ==
    /\ Call
    /\ LearnFitness(b.header, current_branch' = {b}, UNCHANGED current_branch)
    /\ UNCHANGED <<chain, chain_id, current_head, block_header, operation, protocol,
                   operations_for_blocks, msg>>

(* Mutant: a head is kept whatever its fitness.                            *)
set_current_head_always(h) ==
    /\ Call
    /\ chain_id' = "peer"
    /\ current_head' = {h}
    /\ fitness_count' = h.header.bid /\ bid' = h.header.bid
    /\ UNCHANGED <<chain, current_branch, block_header, operation, protocol,
                   operations_for_blocks, msg, panic>>

(* The session calls set_chain_id first.                                   *)
set_current_head(h) ==
    /\ Call
    /\ chain_id' = "peer"
    /\ LearnFitness(h.header, current_head' = {h}, UNCHANGED current_head)
    /\ UNCHANGED <<chain, current_branch, block_header, operation, protocol,
                   operations_for_blocks, msg>>

set_chain_id ==
    /\ Call
    /\ chain_id' = "peer"
    /\ UNCHANGED <<fitness_count, chain, learned, msg, bid, panic>>

set_block_header(h) ==
    /\ Call
    /\ block_header' = {h}
    /\ UNCHANGED <<fitness_count, chain, chain_id, current_branch, current_head,
                   operation, protocol, operations_for_blocks, msg, bid, panic>>

set_operation(o) ==
    /\ Call
    /\ operation' = {o}
    /\ UNCHANGED <<fitness_count, chain, chain_id, current_branch, current_head,
                   block_header, protocol, operations_for_blocks, msg, bid, panic>>

set_protocol(p) ==
    /\ Call
    /\ protocol' = {p}
    /\ UNCHANGED <<fitness_count, chain, chain_id, current_branch, current_head,
                   block_header, operation, operations_for_blocks, msg, bid, panic>>

set_operations_for_blocks(l) ==
    /\ Call
    /\ operations_for_blocks' = {l}
    /\ UNCHANGED <<fitness_count, chain, chain_id, current_branch, current_head,
                   block_header, operation, protocol, msg, bid, panic>>

-----------------------------------------------------------------------------
(* A message whose header is h, a changed one.                             *)
SendMutated(kind, h, fits) ==
    /\ fitness_count' = IF h.bid = NoBid THEN fitness_count ELSE h.bid
    /\ IF h.panic = "no" THEN Send(Message(kind, fits, h.bid))
       ELSE panic' = h.panic /\ UNCHANGED msg

BranchFits(h, history) ==
    /\ HeaderFits(h)
    /\ history <= CURRENT_BRANCH_HISTORY_MAX_LENGTH
    /\ ResponseFits(HashSize("ChainId") + 4 + HeaderSize(h) + history * HashSize("BlockHash"))

(* An arbitrary block is removed from a full map first.                    *)
InsertBlock(id, block) ==
    LET with(kept) == [k \in kept \cup {id} |-> IF k = id THEN block ELSE blocks[k]]
    IN IF BlocksLimit = 0 THEN blocks' = blocks
       ELSE IF Cardinality(DOMAIN blocks) = BlocksLimit
       THEN \E gone \in DOMAIN blocks : blocks' = with(DOMAIN blocks \ {gone})
       ELSE blocks' = with(DOMAIN blocks)

gen_CurrentBranch ==
    \E history \in gen_range(0, CURRENT_BRANCH_HISTORY_MAX_LENGTH), h \in gen_BlockHeader :
        /\ made' = made + 1
        /\ InsertBlock(made', [pred |-> last_block, header |-> h])
        /\ last_block' = made'
        /\ Send(Plain("CurrentBranch", BranchFits(h, IF history = 0 THEN 0 ELSE history - 1)))
        /\ UNCHANGED fitness_count

MutateHistory(history) == {history} \cup gen_range(1, CURRENT_BRANCH_HISTORY_MAX_LENGTH)

(* The hash of the head is taken from what as_bytes().unwrap() gives.      *)
mutate_CurrentBranch(b) ==
    \E h \in mutate_BlockHeader(b.header), history \in MutateHistory(b.history) :
        /\ SendMutated("CurrentBranch", h, BranchFits(h, history))
        /\ IF h.panic = "no" /\ HeaderFits(h)
           THEN made' = made + 1 /\ last_block' = 0 - made'
           ELSE UNCHANGED <<made, last_block>>
        /\ UNCHANGED blocks

gen_CurrentBranchMessage ==
    /\ Call
    /\ \/ current_branch = {} /\ gen_CurrentBranch
       \/ \E b \in current_branch : mutate_CurrentBranch(b)
    /\ UNCHANGED <<chain_id, learned, bid>>

HeadFits(h, p) ==
    /\ HeaderFits(h) /\ MempoolFits(p)
    /\ ResponseFits(HashSize("ChainId") + 4 + HeaderSize(h) + MempoolSize(p))

mutate_CurrentHeadMessage(head) ==
    \E h \in mutate_BlockHeader(head.header), p \in mutate_Mempool(head) :
        SendMutated("CurrentHead", h, HeadFits(h, p))

gen_CurrentHeadMessage ==
    /\ Call
    /\ \/ /\ current_head = {}
          /\ \E h \in gen_BlockHeader, p \in gen_Mempool :
                Send(Plain("CurrentHead", HeadFits(h, p)))
          /\ UNCHANGED fitness_count
       \/ \E head \in current_head : mutate_CurrentHeadMessage(head)
    /\ UNCHANGED <<chain, chain_id, learned, bid>>

BlockHeaderFits(h) == HeaderFits(h) /\ ResponseFits(HeaderSize(h))

gen_BlockHeaderMessage ==
    /\ Call
    /\ \/ /\ block_header = {}
          /\ \E h \in gen_BlockHeader : Send(Plain("BlockHeader", BlockHeaderFits(h)))
          /\ UNCHANGED fitness_count
       \/ \E b \in block_header : \E h \in mutate_BlockHeader(b) :
              SendMutated("BlockHeader", h, BlockHeaderFits(h))
    /\ UNCHANGED <<chain, chain_id, learned, bid>>

(* The peer asks for a block, and gets it if it is still there.            *)
get_block(id) ==
    /\ Call
    /\ id \in DOMAIN blocks
    /\ Send(Plain("Block", BlockHeaderFits(blocks[id].header)))
    /\ UNCHANGED <<fitness_count, chain, chain_id, learned, bid>>

OperationFits(data) ==
    data <= OPERATION_MAX_SIZE /\ ResponseFits(OperationSize(data))

gen_OperationMessage ==
    /\ Call
    /\ \/ operation = {} /\ Send(Plain("Operation", OperationFits(gen_Operation)))
       \/ \E o \in operation : \E data \in mutate_Operation(o) :
              Send(Plain("Operation", OperationFits(data)))
    /\ UNCHANGED <<fitness_count, chain, chain_id, learned, bid>>

ProtocolFits(size) == ComponentsFit(size) /\ ResponseFits(2 + 4 + size)

gen_ProtocolMessage ==
    /\ Call
    /\ \/ protocol = {} /\ \E size \in gen_ComponentVec :
              Send(Plain("Protocol", ProtocolFits(size)))
       \/ \E cs \in protocol : \E size \in mutate_ComponentVec(cs) :
              Send(Plain("Protocol", ProtocolFits(size)))
    /\ UNCHANGED <<fitness_count, chain, chain_id, learned, bid>>

ListFits(path, size) ==
    /\ path <= MAX_PASS_MERKLE_DEPTH /\ size <= OPERATION_LIST_MAX_SIZE
    /\ ResponseFits(gen_OperationsForBlock + PathItemSize * path + 1 + size)

(* Learned parts are kept or made anew; so too for the answer to a request *)
(* for the operations of a block.                                          *)
gen_OperationsForBlocksMessage ==
    /\ Call
    /\ \E path \in gen_Path \cup {l.path : l \in operations_for_blocks},
          size \in {gen_OperationVec} \cup {l.size : l \in operations_for_blocks} :
              Send(Plain("OperationsForBlocks", ListFits(path, size)))
    /\ UNCHANGED <<fitness_count, chain, chain_id, learned, bid>>

Next ==
    \/ GenPlain \/ set_chain_id
    \/ \E b \in Branches : set_current_branch(b)
    \/ \E h \in Heads : set_current_head(h)
    \/ \E h \in BlockHeaders : set_block_header(h)
    \/ \E o \in Operations : set_operation(o)
    \/ \E p \in Protocols : set_protocol(p)
    \/ \E l \in OperationLists : set_operations_for_blocks(l)
    \/ gen_CurrentBranchMessage \/ gen_CurrentHeadMessage
    \/ gen_BlockHeaderMessage \/ gen_OperationMessage \/ gen_ProtocolMessage
    \/ gen_OperationsForBlocksMessage
    \/ \E id \in DOMAIN blocks : get_block(id)

Spec == Init /\ [][Next]_vars

-----------------------------------------------------------------------------
Kinds == {"none", "Block", "CurrentBranch", "CurrentHead", "BlockHeader", "Operation",
          "Protocol", "OperationsForBlocks"} \cup {m.kind : m \in PlainMessages}

(* The state of a RandomState and of the worker that has it.               *)
TypeOK ==
    /\ fitness_count \in 0 .. FitnessMax /\ bid \in 0 .. FitnessMax
    /\ calls \in 0 .. MaxCalls /\ made \in 0 .. calls
    /\ DOMAIN blocks \subseteq 1 .. made
    /\ last_block \in (0 - made) .. made
    /\ chain_id \in {"main", "peer"}
    /\ current_branch \subseteq Branches /\ current_head \subseteq Heads
    /\ block_header \subseteq BlockHeaders /\ operation \subseteq Operations
    /\ protocol \subseteq Protocols /\ operations_for_blocks \subseteq OperationLists
    /\ msg.kind \in Kinds /\ msg.fits \in BOOLEAN
    /\ msg.bid \in {NoBid} \cup 0 .. FitnessMax
    /\ panic \in {"no", "encode", "fitness", "fitness_length", "memory"}

(* Every message made from nothing respects the limits of limits.rs, so    *)
(* that as_bytes().unwrap() (p2p_fuzzer.rs) ends the worker only for a     *)
(* message made from a learned one: a head with its mempool, a branch or a *)
(* header within 28 bytes of the limit, a protocol whose components could  *)
(* grow past it.                                                           *)
OnlyLearnedTooLarge ==
    panic = "encode" =>
        \/ msg.kind = "CurrentHead" /\ current_head # {}
        \/ /\ msg.kind = "CurrentBranch"
           /\ \E b \in current_branch : HeaderSize(b.header) + 28 > BLOCK_HEADER_MAX_SIZE
        \/ /\ msg.kind = "BlockHeader"
           /\ \E h \in block_header : HeaderSize(h) + 28 > BLOCK_HEADER_MAX_SIZE
        \/ /\ msg.kind = "Protocol"
           /\ \E cs \in protocol :
                 ComponentsSize(cs) + Len(cs) * ComponentSize(gen_Component)
                     > PROTOCOL_COMPONENT_MAX_SIZE

(* A head or a branch that was kept has a first element of fitness, so     *)
(* that data.fitness()[0] (mutate of a BlockHeader) panics only for a      *)
(* header that came in a BlockHeader message, which nothing checks.        *)
KeptHeadsHaveFitness ==
    panic = "fitness" => \E h \in block_header : h.n = 0

(* A head that carries a number bids more than the head or the branch that *)
(* was learned last, of whatever kind and made into whatever message,      *)
(* unless the u64 wrapped on the way.                                      *)
OutbidsLearned ==
    [][msg' # msg /\ msg'.bid # NoBid
           => msg'.bid > bid \/ bid + calls >= FitnessMax]_vars

-----------------------------------------------------------------------------
(* The inductive invariants behind the properties.                         *)

(* What was learned came from the peer, and heads and branches have two    *)
(* elements of fitness or more.                                            *)
LearnedInv ==
    /\ current_branch \subseteq Branches /\ current_head \subseteq Heads
    /\ block_header \subseteq BlockHeaders /\ operation \subseteq Operations
    /\ protocol \subseteq Protocols /\ operations_for_blocks \subseteq OperationLists
    /\ \A x \in current_branch \cup current_head : x.header.n > 1

(* A block that was kept can be written when the peer asks for it.         *)
ChainInv == \A id \in DOMAIN blocks : BlockHeaderFits(blocks[id].header)

(* The count is ahead of the number learned, by as many as there were      *)
(* calls at most, until it wraps.                                          *)
BidInv ==
    /\ fitness_count \in 0 .. FitnessMax /\ bid \in 0 .. FitnessMax /\ calls \in Nat
    /\ \/ bid <= fitness_count /\ fitness_count <= bid + calls
       \/ bid + calls > FitnessMax

IndInv ==
    /\ LearnedInv /\ ChainInv /\ BidInv
    /\ KeptHeadsHaveFitness /\ OnlyLearnedTooLarge
=============================================================================
