---------------------------- MODULE MCGenerator ----------------------------
(* The limits of the source, and messages of a peer at and below them.     *)
EXTENDS Generator

MCHashTypeSize ==
    [ChainId |-> 4, BlockHash |-> 32, OperationHash |-> 32,
     OperationListListHash |-> 32, ContextHash |-> 32, ProtocolHash |-> 32,
     CryptoboxPublicKeyHash |-> 16]

Header(n, first, second, b, data) ==
    [n |-> n, first |-> first, second |-> second, bid |-> b, data |-> data,
     fit |-> 4 * n + first + second]

Largest == BLOCK_HEADER_MAX_SIZE - 114

MCBlockHeaders == {Header(0, 0, 0, 0, Largest), Header(1, 8380000, 0, 0, 0),
                   Header(1, Largest - 4, 0, 0, 0), Header(2, 1, 8, 3, 0)}

PeerHead(h, k, p) == [header |-> h, known_valid |-> k, pending |-> p]
MCHeads == {PeerHead(Header(2, 1, 8, 2, 10), 0, 3999),
            PeerHead(Header(2, 1, 8, FitnessMax, Largest - 17), 0, 0),
            PeerHead(Header(0, 0, 0, 0, 0), 1, 1), PeerHead(Header(2, 1, 7, 0, 1), 0, 0)}

MCBranches == {[header |-> Header(2, 1, 8, 0, 1), history |-> 1000],
               [header |-> Header(2, 0, 8, 1, Largest - 16), history |-> 0],
               [header |-> Header(1, 1, 0, 0, 1), history |-> 0]}

Component(n, i, m) == [name |-> n, interface |-> i, implementation |-> m]
MCProtocols == {<<Component(1, 0 - 1, 1)>>, << >>,
                <<Component(1, 0 - 1, 1), Component(0, 0, PROTOCOL_COMPONENT_MAX_SIZE - 200)>>}

MCOperationLists == {[path |-> 3, size |-> OPERATION_LIST_MAX_SIZE], [path |-> 0, size |-> 0]}

MCSizes == {3990}
=============================================================================
