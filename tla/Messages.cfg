SPECIFICATION Spec
CONSTANTS
    HashTypeSize <- MCHashTypeSize
    P2P_POINT_MAX_SIZE = 6
    NACK_PEERS_MAX_LENGTH = 2
    ADVERTISE_ID_LIST_MAX_LENGTH = 2
    CURRENT_BRANCH_HISTORY_MAX_LENGTH = 2
    BLOCK_HEADER_MAX_SIZE = 30
    OPERATION_MAX_SIZE = 2
    PROTOCOL_MAX_SIZE = 22
    MEMPOOL_MAX_OPERATIONS = 6
    GET_BLOCK_HEADERS_MAX_LENGTH = 2
    GET_OPERATIONS_MAX_LENGTH = 2
    GET_PROTOCOLS_MAX_LENGTH = 2
    GET_OPERATIONS_FOR_BLOCKS_MAX_LENGTH = 2
    OPERATION_LIST_MAX_SIZE = 12
    CHAIN_NAME_MAX_LENGTH = 2
    MAX_PASS_MERKLE_DEPTH = 2
    CRYPTO_KEY_SIZE = 2
    POW_SIZE = 1
    NONCE_SIZE = 3
    P2P_POINT_MAX_LENGTH = 2
    PROTOCOL_COMPONENT_MAX_SIZE = 20
    MEMPOOL_MAX_SIZE = 14
    MESSAGE_MAX_SIZE = 55
    Samples <- MCSamples
    DamageBytes = {0, 1, 2, 4, 15, 240, 255}
    PeerLimit = 1000
INVARIANTS
    RoundTrip
    LimitsAgree
    Canonical
