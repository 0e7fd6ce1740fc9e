------------------------------ MODULE Messages ------------------------------
(***************************************************************************)
(* A message on its way: composed, written by this code or by a peer that  *)
(* has the same layout and other limits, possibly damaged in one place,    *)
(* read, and written again (BlockHeader, Operation and the other messages  *)
(* are identified by the hash of what as_bytes gives: message_hash of      *)
(* binary_message.rs).                                                     *)
(***************************************************************************)
EXTENDS MessageTypes

CONSTANTS
    Samples,        \* the messages that are composed: <<type's name, data>>
    DamageBytes,    \* what a damaged byte becomes
    PeerLimit       \* every limit of the peer

ASSUME SamplesAssumption == \A s \in Samples : s[1] \in TypeNames

Peer == INSTANCE MessageTypes WITH
    P2P_POINT_MAX_SIZE <- PeerLimit, NACK_PEERS_MAX_LENGTH <- PeerLimit,
    ADVERTISE_ID_LIST_MAX_LENGTH <- PeerLimit,
    CURRENT_BRANCH_HISTORY_MAX_LENGTH <- PeerLimit,
    BLOCK_HEADER_MAX_SIZE <- PeerLimit, OPERATION_MAX_SIZE <- PeerLimit,
    PROTOCOL_MAX_SIZE <- PeerLimit, MEMPOOL_MAX_OPERATIONS <- PeerLimit,
    GET_BLOCK_HEADERS_MAX_LENGTH <- PeerLimit,
    GET_OPERATIONS_MAX_LENGTH <- PeerLimit,
    GET_PROTOCOLS_MAX_LENGTH <- PeerLimit,
    GET_OPERATIONS_FOR_BLOCKS_MAX_LENGTH <- PeerLimit,
    OPERATION_LIST_MAX_SIZE <- PeerLimit, CHAIN_NAME_MAX_LENGTH <- PeerLimit,
    MAX_PASS_MERKLE_DEPTH <- PeerLimit,
    P2P_POINT_MAX_LENGTH <- PeerLimit, PROTOCOL_COMPONENT_MAX_SIZE <- PeerLimit,
    MEMPOOL_MAX_SIZE <- PeerLimit, MESSAGE_MAX_SIZE <- PeerLimit

VARIABLES
    step,       \* "idle", "composed", "sent", "read", "rehashed"
    ty, msg,    \* the message composed
    own,        \* this code wrote it
    intact,     \* nothing was damaged
    wire,       \* the bytes
    got         \* what the reader, and then the writer, answered

vars == <<step, ty, msg, own, intact, wire, got>>

Nothing == [r |-> "none"]

Init ==
    /\ step = "idle" /\ ty = "MetadataMessage" /\ msg = Nothing
    /\ own = TRUE /\ intact = TRUE /\ wire = <<>> /\ got = Nothing

Compose(s) ==
    /\ step = "idle"
    /\ step' = "composed"
    /\ ty' = s[1] /\ msg' = s[2]
    /\ UNCHANGED <<own, intact, wire, got>>

(* as_bytes; a message that cannot be written is not sent.                 *)
Write ==
    LET r == write(msg, Schemas[ty])
    IN /\ step = "composed"
       /\ step' = IF r.ok THEN "sent" ELSE "refused"
       /\ own' = TRUE
       /\ wire' = r.data
       /\ UNCHANGED <<ty, msg, intact, got>>

PeerWrites ==
    LET r == Peer!write(msg, Peer!Schemas[ty])
    IN /\ step = "composed" /\ r.ok
       /\ step' = "sent"
       /\ own' = FALSE
       /\ wire' = r.data
       /\ UNCHANGED <<ty, msg, intact, got>>

Damages(w) ==
    {[w EXCEPT ![k] = b] : k \in DOMAIN w, b \in DamageBytes}
        \cup {SubSeq(w, 1, k) : k \in 0 .. Len(w) - 1}
        \cup {Append(w, b) : b \in DamageBytes}

Damage ==
    /\ step = "sent" /\ own /\ intact
    /\ wire' \in Damages(wire) \ {wire}
    /\ intact' = FALSE
    /\ UNCHANGED <<step, ty, msg, own, got>>

(* from_bytes                                                              *)
Read ==
    /\ step = "sent"
    /\ step' = "read"
    /\ got' = from_bytes(TypeOf(ty), wire)
    /\ UNCHANGED <<ty, msg, own, intact, wire>>

(* message_hash of what was read                                           *)
Rehash ==
    /\ step = "read" /\ got.r = "ok"
    /\ step' = "rehashed"
    /\ got' = write(got.v, Schemas[ty])
    /\ UNCHANGED <<ty, msg, own, intact, wire>>

Forget ==
    /\ step \in {"refused", "read", "rehashed"}
    /\ step' = "idle" /\ ty' = "MetadataMessage" /\ msg' = Nothing
    /\ own' = TRUE /\ intact' = TRUE /\ wire' = <<>> /\ got' = Nothing

Next ==
    \/ \E s \in Samples : Compose(s)
    \/ Write \/ PeerWrites \/ Damage \/ Read \/ Rehash \/ Forget

Spec == Init /\ [][Next]_vars

-----------------------------------------------------------------------------
(* The wire holds bytes, in every state.                                   *)
TypeOK ==
    /\ step \in {"idle", "composed", "sent", "refused", "read", "rehashed"}
    /\ ty \in TypeNames
    /\ own \in BOOLEAN /\ intact \in BOOLEAN
    /\ \A k \in DOMAIN wire : wire[k] \in Byte

(* The messages whose size can be predicted (SizeFromChunk), and a Nack.   *)
Sized == {"PeerMessageResponse", "MetadataMessage", "AckMessage"}
IsNack == ty = "AckMessage" /\ wire[1] = 1

(* What the writer writes (binary_writer.rs) the reader derived from the   *)
(* same attributes (encoding-derive/src/nom.rs) reads back unchanged, and  *)
(* its length is the one that its first chunk predicts (SizeFromChunk, "the *)
(* exact size of the message"), except that the code leaves the four bytes *)
(* of the size field out of what it predicts for a Nack (ack.rs).          *)
RoundTrip ==
    step = "read" /\ own /\ intact =>
        /\ got.r = "ok" /\ got.v = msg
        /\ ty \in Sized => size_from_chunk(ty, wire).v + (IF IsNack THEN 4 ELSE 0) = Len(wire)

(* The limits are two implementations in the source, counts and sizes of   *)
(* Values in the writer, slices and lengths of input in the reader: of a   *)
(* message that a peer with other limits wrote, the reader accepts exactly *)
(* what the writer would have written.                                     *)
LimitsAgree ==
    step = "read" /\ ~own /\ intact
        => (got.r = "ok") = write(msg, Schemas[ty]).ok

(* Whatever the reader accepts, damaged or not, is written to the bytes it *)
(* was read from, so that message_hash (binary_message.rs) is the hash of  *)
(* the bytes received and no two wires are the same message.  Zarith, which *)
(* has several encodings of a number and is in no p2p message, is left out. *)
Canonical ==
    step = "rehashed" /\ ty # "Zarith" => got = Ok(wire)

=============================================================================
