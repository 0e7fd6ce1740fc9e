---------------------------- MODULE MessageTypes ----------------------------
(***************************************************************************)
(* The messages of tezos/messages/src/p2p/encoding/*.rs, declared with the *)
(* attributes the source gives them, and the size predictions.             *)
(***************************************************************************)
EXTENDS NomReader

FieldOf(name, ty) == FieldDecl(name, ty, <<>>)
Struct(fields) == StructDecl(<<>>, fields)

NetworkVersion == Struct(<<
    FieldDecl("chain_name", Rust("String"), <<AttrMax("string", CHAIN_NAME_MAX_LENGTH)>>),
    FieldOf("distributed_db_version", Rust("u16")),
    FieldOf("p2p_version", Rust("u16"))>>)

ConnectionMessage == Struct(<<
    FieldOf("port", Rust("u16")),
    FieldDecl("public_key", VecOf(Rust("u8")),
              <<AttrMax("sized", CRYPTO_KEY_SIZE), Attr("bytes")>>),
    FieldDecl("proof_of_work_stamp", VecOf(Rust("u8")),
              <<AttrMax("sized", POW_SIZE), Attr("bytes")>>),
    FieldDecl("message_nonce", VecOf(Rust("u8")),
              <<AttrMax("sized", NONCE_SIZE), Attr("bytes")>>),
    FieldOf("version", NetworkVersion)>>)

MetadataMessage == Struct(<<FieldOf("disable_mempool", Rust("bool")),
                            FieldOf("private_node", Rust("bool"))>>)

NackMotive ==
    LET names == <<"NoMotive", "TooManyConnections", "UnknownChainName",
                   "DeprecatedP2pVersion", "DeprecatedDistributedDbVersion",
                   "AlreadyConnected">>
    IN EnumDecl(2, FALSE, [i \in DOMAIN names |->
                              VariantDecl(names[i], i - 1, Rust("()"))])

NackInfo == Struct(<<
    FieldOf("motive", NackMotive),
    FieldDecl("potential_peers_to_connect", VecOf(Rust("String")),
              <<Attr("dynamic"), AttrMax("list", NACK_PEERS_MAX_LENGTH),
                AttrMax("bounded", P2P_POINT_MAX_SIZE)>>)>>)

AckMessage == EnumDecl(1, FALSE, <<
    VariantDecl("Ack", 0, Rust("()")),
    VariantDecl("NackV0", 255, Rust("()")),
    VariantDecl("Nack", 1, NackInfo)>>)

AdvertiseMessage == Struct(<<
    FieldDecl("id", VecOf(Rust("String")),
              <<AttrMax("list", ADVERTISE_ID_LIST_MAX_LENGTH),
                AttrMax("bounded", P2P_POINT_MAX_SIZE)>>)>>)

SwapMessage == Struct(<<
    FieldDecl("point", Rust("String"), <<AttrMax("bounded", P2P_POINT_MAX_SIZE)>>),
    FieldOf("peer_id", HashTy("CryptoboxPublicKeyHash"))>>)

BlockHeader == StructDecl(<<AttrMax("bounded", BLOCK_HEADER_MAX_SIZE)>>, <<
    FieldDecl("level", Rust("Level"), <<Builtin("Int32")>>),
    FieldOf("proto", Rust("u8")),
    FieldOf("predecessor", HashTy("BlockHash")),
    FieldDecl("timestamp", Rust("i64"), <<Attr("timestamp")>>),
    FieldOf("validation_pass", Rust("u8")),
    FieldOf("operations_hash", HashTy("OperationListListHash")),
    FieldDecl("fitness", Rust("Fitness"),
              <<Composite(<<Attr("dynamic"), Attr("list"), Attr("dynamic"),
                            Attr("list"), Builtin("Uint8")>>)>>),
    FieldOf("context", HashTy("ContextHash")),
    FieldDecl("protocol_data", VecOf(Rust("u8")), <<Attr("list"), Builtin("Uint8")>>)>>)

BlockHeaderMessage == Struct(<<FieldOf("block_header", BlockHeader)>>)

(* A message with one list of hashes of bounded length.                    *)
HashListMessage(name, of, max) ==
    Struct(<<FieldDecl(name, VecOf(of), <<Attr("dynamic"), AttrMax("list", max)>>)>>)

GetBlockHeadersMessage ==
    HashListMessage("get_block_headers", HashTy("BlockHash"),
                    GET_BLOCK_HEADERS_MAX_LENGTH)

CurrentBranch == Struct(<<
    FieldDecl("current_head", BlockHeader, <<AttrMax("dynamic", BLOCK_HEADER_MAX_SIZE)>>),
    FieldDecl("history", VecOf(HashTy("BlockHash")),
              <<AttrMax("list", CURRENT_BRANCH_HISTORY_MAX_LENGTH)>>)>>)

CurrentBranchMessage == Struct(<<
    FieldOf("chain_id", HashTy("ChainId")),
    FieldOf("current_branch", CurrentBranch)>>)

GetCurrentBranchMessage == Struct(<<FieldOf("chain_id", HashTy("ChainId"))>>)

Mempool == StructDecl(<<AttrMax("bounded", MEMPOOL_MAX_SIZE)>>, <<
    FieldDecl("known_valid", VecOf(HashTy("OperationHash")),
              <<Attr("dynamic"), Attr("list")>>),
    FieldDecl("pending", VecOf(HashTy("OperationHash")),
              <<Attr("dynamic"), Attr("dynamic"), Attr("list")>>)>>)

CurrentHeadMessage == Struct(<<
    FieldOf("chain_id", HashTy("ChainId")),
    FieldDecl("current_block_header", BlockHeader,
              <<AttrMax("dynamic", BLOCK_HEADER_MAX_SIZE)>>),
    FieldOf("current_mempool", Mempool)>>)

GetCurrentHeadMessage == Struct(<<FieldOf("chain_id", HashTy("ChainId"))>>)

DeactivateMessage == Struct(<<FieldOf("deactivate", HashTy("ChainId"))>>)

Operation == Struct(<<
    FieldOf("branch", HashTy("BlockHash")),
    FieldDecl("data", VecOf(Rust("u8")), <<AttrMax("list", OPERATION_MAX_SIZE)>>)>>)

OperationMessage == Struct(<<FieldOf("operation", Operation)>>)

GetOperationsMessage ==
    HashListMessage("get_operations", HashTy("OperationHash"),
                    GET_OPERATIONS_MAX_LENGTH)

Component == Struct(<<
    FieldOf("name", Rust("String")),
    FieldOf("interface", OptionOf(Rust("String"))),
    FieldOf("implementation", Rust("String"))>>)

Protocol == Struct(<<
    FieldOf("expected_env_version", Rust("i16")),
    FieldDecl("components", VecOf(Component),
              <<AttrMax("dynamic", PROTOCOL_COMPONENT_MAX_SIZE), Attr("list")>>)>>)

ProtocolMessage == Struct(<<FieldOf("protocol", Protocol)>>)

GetProtocolsMessage ==
    HashListMessage("get_protocols", HashTy("ProtocolHash"),
                    GET_PROTOCOLS_MAX_LENGTH)

OperationsForBlock == Struct(<<
    FieldOf("hash", HashTy("BlockHash")),
    FieldOf("validation_pass", Rust("i8"))>>)

GetOperationsForBlocksMessage ==
    HashListMessage("get_operations_for_blocks", OperationsForBlock,
                    GET_OPERATIONS_FOR_BLOCKS_MAX_LENGTH)

OperationsForBlocksMessage == Struct(<<
    FieldOf("operations_for_block", OperationsForBlock),
    FieldOf("operation_hashes_path", Rust("Path")),
    FieldDecl("operations", VecOf(Operation),
              <<AttrMax("bounded", OPERATION_LIST_MAX_SIZE), Attr("list"),
                Attr("dynamic")>>)>>)

PeerMessage == EnumDecl(2, TRUE, <<
    VariantDecl("Disconnect", 1, Rust("()")),
    VariantDecl("Advertise", 3, AdvertiseMessage),
    VariantDecl("SwapRequest", 4, SwapMessage),
    VariantDecl("SwapAck", 5, SwapMessage),
    VariantDecl("Bootstrap", 2, Rust("()")),
    VariantDecl("GetCurrentBranch", 16, GetCurrentBranchMessage),
    VariantDecl("CurrentBranch", 17, CurrentBranchMessage),
    VariantDecl("Deactivate", 18, DeactivateMessage),
    VariantDecl("GetCurrentHead", 19, GetCurrentHeadMessage),
    VariantDecl("CurrentHead", 20, CurrentHeadMessage),
    VariantDecl("GetBlockHeaders", 32, GetBlockHeadersMessage),
    VariantDecl("BlockHeader", 33, BlockHeaderMessage),
    VariantDecl("GetOperations", 48, GetOperationsMessage),
    VariantDecl("Operation", 49, OperationMessage),
    VariantDecl("GetProtocols", 64, GetProtocolsMessage),
    VariantDecl("Protocol", 65, ProtocolMessage),
    VariantDecl("GetOperationsForBlocks", 96, GetOperationsForBlocksMessage),
    VariantDecl("OperationsForBlocks", 97, OperationsForBlocksMessage)>>)

PeerMessageResponse ==
    StructDecl(<<AttrMax("dynamic", MESSAGE_MAX_SIZE)>>,
               <<FieldOf("message", PeerMessage)>>)

(* A number, as the constants of the protocols hold them.                  *)
Zarith == Rust("Zarith")

TypeNames == {"ConnectionMessage", "MetadataMessage", "AckMessage",
              "PeerMessageResponse", "Zarith"}

TypeOf(name) ==
    CASE name = "ConnectionMessage" -> ConnectionMessage
      [] name = "MetadataMessage" -> MetadataMessage
      [] name = "AckMessage" -> AckMessage
      [] name = "PeerMessageResponse" -> PeerMessageResponse
      [] name = "Zarith" -> Zarith

(* The schemas, derived once.                                              *)
Schemas == [name \in TypeNames |-> HasEncoding(TypeOf(name))]

-----------------------------------------------------------------------------
(* SizeFromChunk                                                           *)

PeerMessageSizeFromChunk(bytes) ==
    LET p == complete(size(bytes))
    IN IF p.r = "ok" THEN Done(p.v + 4, p.rest) ELSE p

AckMessageSizeFromChunk(bytes) ==
    LET s == size(Drop(bytes, 3))
    IN CASE bytes = <<>> -> Error("Alt")
         [] bytes # <<>> /\ Head(bytes) \in {0, 255} -> Done(1, Tail(bytes))
         [] bytes # <<>> /\ Head(bytes) = 1 /\ Len(bytes) >= 3 /\ s.r = "ok" ->
              Done(s.v + 3, s.rest)
         [] OTHER -> Error("Alt")

size_from_chunk(name, bytes) ==
    CASE name = "PeerMessageResponse" -> PeerMessageSizeFromChunk(bytes)
      [] name = "AckMessage" -> AckMessageSizeFromChunk(bytes)
      [] name = "MetadataMessage" -> Done(2, bytes)

=============================================================================
