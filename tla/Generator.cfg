SPECIFICATION Spec
CONSTANTS
    HashTypeSize <- MCHashTypeSize
    P2P_POINT_MAX_SIZE = 51
    P2P_POINT_MAX_LENGTH = 47
    NACK_PEERS_MAX_LENGTH = 100
    ADVERTISE_ID_LIST_MAX_LENGTH = 100
    CURRENT_BRANCH_HISTORY_MAX_LENGTH = 1000
    BLOCK_HEADER_MAX_SIZE = 8388608
    OPERATION_MAX_SIZE = 131072
    PROTOCOL_MAX_SIZE = 2097152
    PROTOCOL_COMPONENT_MAX_SIZE = 2097150
    MEMPOOL_MAX_OPERATIONS = 4000
    MEMPOOL_MAX_SIZE = 128008
    GET_BLOCK_HEADERS_MAX_LENGTH = 10
    GET_OPERATIONS_MAX_LENGTH = 10
    GET_PROTOCOLS_MAX_LENGTH = 10
    GET_OPERATIONS_FOR_BLOCKS_MAX_LENGTH = 10
    OPERATION_LIST_MAX_SIZE = 1048576
    CHAIN_NAME_MAX_LENGTH = 128
    MAX_PASS_MERKLE_DEPTH = 3
    MESSAGE_MAX_SIZE = 8516630
    CRYPTO_KEY_SIZE = 32
    POW_SIZE = 24
    NONCE_SIZE = 24
    BlocksLimit = 2
    FitnessMax = 9
    Sizes <- MCSizes
    Heads <- MCHeads
    Branches <- MCBranches
    BlockHeaders <- MCBlockHeaders
    Operations = {0, 1, 131072}
    Protocols <- MCProtocols
    OperationLists <- MCOperationLists
    MaxCalls = 4
CHECK_DEADLOCK FALSE
INVARIANTS
    OnlyLearnedTooLarge
    KeptHeadsHaveFitness
PROPERTY OutbidsLearned
