----------------------------- MODULE MCMessages -----------------------------
(* Samples of every message: at, below and above each limit of the cfg.    *)
EXTENDS Messages

F(name, d) == [name |-> name, val |-> d]
H(b) == HashData(<<b>>)
Strings(n) == StringData([i \in 1 .. n |-> 64 + i])
Hashes(n) == VecData([i \in 1 .. n |-> H(i)])
Int16Of(n) == <<0, n>>
Int64Of(n) == <<0, 0, 0, 0, 0, 0, 0, n>>

PeerMsg(name, d) ==
    <<"PeerMessageResponse",
      StructData(<<F("message", NewtypeVariant(name, StructData(d)))>>)>>
PeerUnit(name) ==
    <<"PeerMessageResponse", StructData(<<F("message", UnitVariant(name))>>)>>

Version(n) == StructData(<<F("chain_name", Strings(n)),
                           F("distributed_db_version", IntData("u16", <<1, 2>>)),
                           F("p2p_version", IntData("u16", Int16Of(1)))>>)
Connection(name, key) ==
    <<"ConnectionMessage",
      StructData(<<F("port", IntData("u16", <<38, 7>>)),
                   F("public_key", BytesData([i \in 1 .. key |-> i])),
                   F("proof_of_work_stamp", BytesData(<<9>>)),
                   F("message_nonce", BytesData(<<5, 0, 255>>)),
                   F("version", Version(name))>>)>>

Metadata(a, b) == <<"MetadataMessage",
                    StructData(<<F("disable_mempool", BoolData(a)),
                                 F("private_node", BoolData(b))>>)>>

Nack(motive, peers) ==
    <<"AckMessage",
      NewtypeVariant("Nack", StructData(<<
          F("motive", UnitVariant(motive)),
          F("potential_peers_to_connect",
            VecData([i \in DOMAIN peers |-> Strings(peers[i])]))>>))>>

Header(fitness, data) == StructData(<<
    F("level", IntData("i32", <<255, 255, 255, 254>>)), F("proto", U8(4)),
    F("predecessor", H(240)), F("timestamp", IntData("i64", Int64Of(9))),
    F("validation_pass", U8(4)), F("operations_hash", HashData(<<0, 15>>)),
    F("fitness", VecData([i \in DOMAIN fitness |-> BytesData(fitness[i])])),
    F("context", H(0)),
    F("protocol_data", BytesData([i \in 1 .. data |-> 255]))>>)

Headers == {Header(<<>>, 0), Header(<<<<>>>>, 1), Header(<<<<1>>>>, 3),
            Header(<<<<1>>>>, 4), Header(<<<<1>>, <<2, 3>>>>, 0)}

MempoolOf(k, p) == StructData(<<F("known_valid", Hashes(k)), F("pending", Hashes(p))>>)

OperationOf(n) == StructData(<<F("branch", H(1)),
                               F("data", BytesData([i \in 1 .. n |-> i]))>>)

ComponentOf(some, n) == StructData(<<
    F("name", Strings(1)),
    F("interface", IF some THEN SomeData(Strings(0)) ELSE NoneData),
    F("implementation", Strings(n))>>)

OfBlock(pass) == StructData(<<F("hash", H(15)),
                              F("validation_pass", IntData("i8", <<pass>>))>>)

Turn(side, a) == [side |-> side, hash |-> <<a, 0>>]
Paths == {<<>>, <<Turn("Left", 240)>>, <<Turn("Right", 15), Turn("Left", 0)>>,
          <<Turn("Left", 1), Turn("Left", 2)>>,
          <<Turn("Left", 1), Turn("Right", 2), Turn("Right", 3)>>}
OperationLists == {<<>>, <<0>>, <<2, 0>>, <<1, 1, 1>>, <<2, 2>>}

Numbers == {<<0>>, <<1>>, <<63>>, <<64>>, <<127>>, <<128>>, <<31, 255>>,
            <<32, 0>>, <<255, 255>>, <<1, 0, 0>>, <<128, 0, 0, 1>>}

MCSamples ==
    {Connection(name, 2) : name \in 0 .. 3} \cup {Connection(1, 1)}
    \cup {Metadata(a, b) : a, b \in BOOLEAN}
    \cup {<<"AckMessage", UnitVariant(n)>> : n \in {"Ack", "NackV0"}}
    \cup {Nack("AlreadyConnected", p) : p \in {<<>>, <<1>>, <<0, 2>>, <<3>>, <<0, 0, 0>>}}
    \cup {PeerUnit("Disconnect"), PeerUnit("Bootstrap")}
    \cup {PeerMsg("Advertise",
                  <<F("id", VecData([i \in DOMAIN p |-> Strings(p[i])]))>>) :
              p \in {<<>>, <<2>>, <<1, 2>>, <<3>>, <<1, 0, 1>>}}
    \cup {PeerMsg(k, <<F("point", Strings(n)), F("peer_id", H(3))>>) :
              k \in {"SwapRequest", "SwapAck"}, n \in {0, 2, 3}}
    \cup {PeerMsg(k, <<F("chain_id", H(8))>>) :
              k \in {"GetCurrentBranch", "GetCurrentHead"}}
    \cup {PeerMsg("Deactivate", <<F("deactivate", H(8))>>)}
    \cup {PeerMsg("BlockHeader", <<F("block_header", h)>>) : h \in Headers}
    \cup {PeerMsg("CurrentBranch",
                  <<F("chain_id", H(8)),
                    F("current_branch", StructData(<<F("current_head", h),
                                                     F("history", Hashes(n))>>))>>) :
              h \in {Header(<<<<1>>>>, 3), Header(<<<<1>>>>, 4)}, n \in {0, 2, 3}}
    \cup {PeerMsg("CurrentHead",
                  <<F("chain_id", H(8)), F("current_block_header", Header(<<<<1>>>>, n)),
                    F("current_mempool", MempoolOf(kp[1], kp[2]))>>) :
              n \in {3, 4}, kp \in {<<0, 0>>, <<1, 1>>, <<2, 0>>, <<0, 3>>}}
    \cup {PeerMsg("GetBlockHeaders", <<F("get_block_headers", Hashes(n))>>) :
              n \in {0, 2, 3}}
    \cup {PeerMsg("GetOperations", <<F("get_operations", Hashes(n))>>) : n \in {0, 2, 3}}
    \cup {PeerMsg("GetProtocols", <<F("get_protocols", Hashes(n))>>) : n \in {0, 2, 3}}
    \cup {PeerMsg("Operation", <<F("operation", OperationOf(n))>>) : n \in {0, 2, 3}}
    \cup {PeerMsg("Protocol",
                  <<F("protocol", StructData(<<
                        F("expected_env_version", IntData("i16", <<255, 255>>)),
                        F("components", VecData(cs))>>))>>) :
              cs \in {<<>>, <<ComponentOf(FALSE, 0)>>, <<ComponentOf(TRUE, 2)>>,
                      <<ComponentOf(FALSE, 0), ComponentOf(FALSE, 0)>>,
                      <<ComponentOf(FALSE, 0), ComponentOf(FALSE, 1)>>}}
    \cup {PeerMsg("GetOperationsForBlocks",
                  <<F("get_operations_for_blocks",
                      VecData([i \in 1 .. n |-> OfBlock(i)]))>>) : n \in {0, 2, 3}}
    \cup {PeerMsg("OperationsForBlocks",
                  <<F("operations_for_block", OfBlock(255)),
                    F("operation_hashes_path", PathData(p)),
                    F("operations", VecData([i \in DOMAIN l |-> OperationOf(l[i])]))>>) :
              p \in Paths, l \in OperationLists}
    \cup {<<"Zarith", BigIntData(FALSE, be)>> : be \in Numbers}
    \cup {<<"Zarith", BigIntData(TRUE, be)>> : be \in Numbers \ {<<0>>}}

MCHashTypeSize == [h \in HashTypes |-> IF h = "OperationListListHash" THEN 2 ELSE 1]
=============================================================================
