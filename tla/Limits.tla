------------------------------- MODULE Limits -------------------------------
(***************************************************************************)
(* The limits of tezos/messages/src/p2p/encoding/limits.rs and the sizes   *)
(* of crypto/src/hash.rs.  The base limits are CONSTANTS: the codec is     *)
(* checked with small ones, so that every limit can be met and exceeded,   *)
(* and the generator with the values of the source.                        *)
(***************************************************************************)
EXTENDS Integers

CONSTANTS
    HashTypeSize,       \* HashType::size, a function of the hash type's name
    P2P_POINT_MAX_SIZE, NACK_PEERS_MAX_LENGTH, ADVERTISE_ID_LIST_MAX_LENGTH,
    CURRENT_BRANCH_HISTORY_MAX_LENGTH, BLOCK_HEADER_MAX_SIZE,
    OPERATION_MAX_SIZE, PROTOCOL_MAX_SIZE, MEMPOOL_MAX_OPERATIONS,
    GET_BLOCK_HEADERS_MAX_LENGTH, GET_OPERATIONS_MAX_LENGTH,
    GET_PROTOCOLS_MAX_LENGTH, GET_OPERATIONS_FOR_BLOCKS_MAX_LENGTH,
    OPERATION_LIST_MAX_SIZE, CHAIN_NAME_MAX_LENGTH, MAX_PASS_MERKLE_DEPTH,
    P2P_POINT_MAX_LENGTH, PROTOCOL_COMPONENT_MAX_SIZE, MEMPOOL_MAX_SIZE,
    MESSAGE_MAX_SIZE,
    CRYPTO_KEY_SIZE, POW_SIZE, NONCE_SIZE   \* of crypto/src

HashTypes == {"ChainId", "BlockHash", "OperationHash", "OperationListListHash",
              "ContextHash", "ProtocolHash", "CryptoboxPublicKeyHash"}

(* The limits the source computes from others.  "The biggest one happens   *)
(* to be a PeerResponseMessage::CurrentHead".                              *)
DerivedLimits ==
    /\ P2P_POINT_MAX_LENGTH = P2P_POINT_MAX_SIZE - 4
    /\ PROTOCOL_COMPONENT_MAX_SIZE = PROTOCOL_MAX_SIZE - 2
    /\ MEMPOOL_MAX_SIZE = 8 + MEMPOOL_MAX_OPERATIONS * HashTypeSize["OperationHash"]
    /\ MESSAGE_MAX_SIZE = 4 + 2 + HashTypeSize["ChainId"] + 4
                             + BLOCK_HEADER_MAX_SIZE + MEMPOOL_MAX_SIZE

(* The values of the source.                                               *)
SourceLimits ==
    /\ HashTypeSize["ChainId"] = 4 /\ HashTypeSize["CryptoboxPublicKeyHash"] = 16
    /\ \A t \in HashTypes \ {"ChainId", "CryptoboxPublicKeyHash"} : HashTypeSize[t] = 32
    /\ P2P_POINT_MAX_SIZE = 51 /\ NACK_PEERS_MAX_LENGTH = 100
    /\ ADVERTISE_ID_LIST_MAX_LENGTH = 100 /\ CURRENT_BRANCH_HISTORY_MAX_LENGTH = 1000
    /\ BLOCK_HEADER_MAX_SIZE = 8388608 /\ OPERATION_MAX_SIZE = 131072
    /\ PROTOCOL_MAX_SIZE = 2097152 /\ MEMPOOL_MAX_OPERATIONS = 4000
    /\ GET_BLOCK_HEADERS_MAX_LENGTH = 10 /\ GET_OPERATIONS_MAX_LENGTH = 10
    /\ GET_PROTOCOLS_MAX_LENGTH = 10 /\ GET_OPERATIONS_FOR_BLOCKS_MAX_LENGTH = 10
    /\ OPERATION_LIST_MAX_SIZE = 1048576 /\ CHAIN_NAME_MAX_LENGTH = 128
    /\ MAX_PASS_MERKLE_DEPTH = 3

ASSUME LimitsAssumption ==
    /\ HashTypeSize \in [HashTypes -> Nat \ {0}]
    /\ P2P_POINT_MAX_LENGTH > 0 /\ PROTOCOL_COMPONENT_MAX_SIZE > 0
    /\ DerivedLimits

=============================================================================
