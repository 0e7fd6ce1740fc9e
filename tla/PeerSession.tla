---------------------------- MODULE PeerSession ----------------------------
(***************************************************************************)
(* A worker of p2p_fuzzer.rs and the node it fuzzes: worker calls fuzz     *)
(* again and again; fuzz connects, goes through the handshake (connection, *)
(* metadata and ack messages) and then alternates between answering a      *)
(* message of the peer (handle_response) and pushing a burst of messages   *)
(* (fuzz_peer_messages).  Every chunk after the connection message is      *)
(* encrypted under a nonce both ends count by themselves.                  *)
(*                                                                         *)
(* The peer is external: a node that may close the connection at any time, *)
(* between two chunks or in the middle of one, and otherwise follows the   *)
(* protocol.  Chunks are the units of the two streams; ChunkStream and     *)
(* ChunkWriter show what happens below them.                               *)
(* A probability is the set of the outcomes its gen_bool may have.  Sleeps *)
(* change nothing; neither do flip_bits, fuzz_pow and fuzz_network_version *)
(* here, since the peer may close for any reason.                          *)
(***************************************************************************)
EXTENDS Integers, Sequences, FiniteSets

CONSTANTS
    Null,                \* an option that is absent
    Profiles,            \* configuration files the fuzzer may be started with
    PeerKinds,           \* kinds of messages the peer sends once it is open
    MaxSplit,            \* bound: chunks of a message
    MaxBlocks,           \* bound: blocks in a GetOperationsForBlocks
    MaxNonce,            \* bound: chunks written in a session
    MaxPeerNonce         \* bound: chunks the peer sends in a session

ASSUME BoundsAssumption ==
    /\ MaxSplit \in Nat \ {0, 1} /\ MaxBlocks \in Nat
    /\ MaxNonce \in Nat /\ MaxPeerNonce \in Nat

\* gen_range(1 .. max_push_throughput + 1) needs a maximum of at least 1,
\* and with messages_per_chunk = 0 a burst never ends.
ASSUME ThroughputAssumption ==
    \A p \in Profiles : p.peer_message_fuzzing # Null =>
        /\ p.peer_message_fuzzing.max_push_throughput \in Nat \ {0}
        /\ p.peer_message_fuzzing.messages_per_chunk \in Nat \ {0}

VARIABLES
    profile,             \* the configuration, read once at the start
    (* the worker *)
    pc, after,           \* where it is; where it goes on after a write
    keyOk,               \* the public key sent is the identity's own
    local, remote,       \* its nonces, counted from the session's first
    sending, pending,    \* the message being written; chunks still to write
    acc,                 \* read_msg: "none" yet, "part", or "junk" read so far
    replies, remaining,  \* replies still to write; messages left of the burst
    unanswered,          \* messages pushed since the last one was received
    learned,             \* what the generator has taken over from the peer
    (* the connection *)
    conn,                \* "none", "open", "closing" (FIN), "broken" (FIN in
                         \* the middle of a chunk), "reset" (RST)
    greet,               \* the connection messages, the only plain chunks
    toPeer, toFuzzer,    \* chunks under way
    cut,                 \* a chunk was left short in this session
    errors,              \* ends at which decryption failed in this session
    (* the peer *)
    peer, peerIn, peerOut  \* what it waits for; its nonces

worker == <<pc, after, keyOk, local, remote, sending, pending, acc, replies,
            remaining, unanswered, learned>>
channel == <<conn, greet, toPeer, toFuzzer, cut, errors>>
peerVars == <<peer, peerIn, peerOut>>
vars == <<profile, worker, channel, peerVars>>

----------------------------------------------------------------------------
(* The profile.                                                            *)

ChunkOptions == [split_chunks : SUBSET BOOLEAN, split_bytes : SUBSET BOOLEAN,
                 incomplete_send : SUBSET BOOLEAN]

\* The probabilities fuzz takes when handshake_fuzzing is null: 0.01 and 0.9.
DefaultHandshake ==
    [chunk_options |-> [split_chunks |-> BOOLEAN, split_bytes |-> BOOLEAN,
                        incomplete_send |-> BOOLEAN],
     abort_before_connect |-> BOOLEAN, fuzz_public_key |-> BOOLEAN,
     abort_before_metadata |-> BOOLEAN, recv_metadata |-> BOOLEAN,
     abort_before_ack |-> BOOLEAN, fuzz_ack |-> BOOLEAN, recv_ack |-> BOOLEAN]

HandshakeOptions ==
    [chunk_options : ChunkOptions,
     abort_before_connect : SUBSET BOOLEAN, fuzz_public_key : SUBSET BOOLEAN,
     abort_before_metadata : SUBSET BOOLEAN, recv_metadata : SUBSET BOOLEAN,
     abort_before_ack : SUBSET BOOLEAN, fuzz_ack : SUBSET BOOLEAN,
     recv_ack : SUBSET BOOLEAN]

ASSUME ProfileAssumption ==
    \A p \in Profiles :
        /\ p.handshake_fuzzing # Null => p.handshake_fuzzing \in HandshakeOptions
        /\ p.peer_message_fuzzing # Null =>
                p.peer_message_fuzzing.chunk_options \in ChunkOptions

Handshake == profile.handshake_fuzzing
PeerMsg == profile.peer_message_fuzzing

options == IF Handshake = Null THEN DefaultHandshake ELSE Handshake

Repliable == {"Bootstrap", "GetCurrentHead", "GetCurrentBranch",
              "GetBlockHeaders", "GetOperationsForBlocks"}

\* How many messages a reply consists of.  The generator's list of blocks is
\* always empty (its limit is 0), so GetBlockHeaders is never answered.
ReplyCounts(kind) ==
    CASE kind \in {"Bootstrap", "GetCurrentHead", "GetCurrentBranch"} -> {1}
      [] kind = "GetOperationsForBlocks" -> 0 .. MaxBlocks
      [] OTHER -> {0}

\* What the generator may take over from a message.  A head or a branch is
\* dropped if its fitness has fewer than two parts.
Lessons(kind) ==
    CASE kind \in {"GetCurrentHead", "GetCurrentBranch"} -> {{"chain_id"}}
      [] kind = "CurrentBranch" -> {{}, {"current_branch"}}
      [] kind = "CurrentHead" -> {{"chain_id"}, {"chain_id", "current_head"}}
      [] kind = "BlockHeader" -> {{"block_header"}}
      [] kind = "Operation" -> {{"operation"}}
      [] kind = "Protocol" -> {{"protocol"}}
      [] kind = "OperationsForBlocks" -> {{"operations_for_blocks"}}
      [] OTHER -> {{}}

\* Learned messages from which another may be made that panics: a header has
\* no fitness()[0], or as_bytes().unwrap() finds the result over a limit
\* (Generator says which).  A reply is made from what its request asks for.
Risky == {"current_head", "current_branch", "block_header", "protocol"}
MadeFrom(kind) ==
    CASE kind = "GetCurrentHead" -> {"current_head"}
      [] kind = "GetCurrentBranch" -> {"current_branch"}
      [] OTHER -> {}

----------------------------------------------------------------------------
(* A session's beginning and end.                                          *)

\* The state of a session before it begins; what happened in the last one
\* is kept until then.
Fresh ==
    /\ after' = "connect" /\ local' = 0 /\ remote' = 0
    /\ sending' = "none" /\ pending' = 0 /\ acc' = "none"
    /\ replies' = 0 /\ remaining' = 0 /\ unanswered' = 0
    /\ greet' = "none" /\ toPeer' = << >> /\ toFuzzer' = << >>
    /\ peerIn' = 0 /\ peerOut' = 0

\* fuzz returns: its stream is dropped.
Return(to) ==
    /\ Fresh
    /\ pc' = to /\ conn' = "none" /\ peer' = "off"
    /\ UNCHANGED <<keyOk, learned, cut>>

ReturnOk == Return("connect") /\ UNCHANGED errors
ReturnErr == Return("backoff") /\ UNCHANGED errors

\* A panic ends the task, and its generator with it; tokio keeps the process
\* and the other tasks.  The place says where it was: in read_msg, while the
\* generator took over a message, or while it made one.
Panics == {"panic_read", "panic_learn", "panic_make"}
Panic(at) == Return(at) /\ UNCHANGED errors

Init ==
    /\ profile \in Profiles
    /\ pc = "connect" /\ after = "connect" /\ keyOk = TRUE
    /\ local = 0 /\ remote = 0 /\ sending = "none" /\ pending = 0
    /\ acc = "none" /\ replies = 0 /\ remaining = 0 /\ unanswered = 0
    /\ learned = {}
    /\ conn = "none" /\ greet = "none" /\ toPeer = << >> /\ toFuzzer = << >>
    /\ cut = FALSE /\ errors = {}
    /\ peer = "off" /\ peerIn = 0 /\ peerOut = 0

\* bind and connect succeed.
Connect ==
    /\ pc = "connect"
    /\ Fresh
    /\ pc' = "greet" /\ keyOk' = TRUE
    /\ conn' = "open" /\ cut' = FALSE /\ errors' = {}
    /\ peer' = "greeting"
    /\ UNCHANGED learned

\* The address is in use, or the peer does not accept.
ConnectFails == pc = "connect" /\ ReturnErr

\* worker sleeps five seconds after an error and starts over.
Backoff ==
    /\ pc = "backoff"
    /\ pc' = "connect"
    /\ UNCHANGED <<after, keyOk, local, remote, sending, pending, acc, replies,
                   remaining, unanswered, learned, channel, peerVars>>

----------------------------------------------------------------------------
(* Writing.                                                                *)

\* What is left of the chunk: incomplete_send stops after the first slice,
\* which is all of the chunk unless split_bytes cut it.
WholeOutcomes(o) == {~ (s /\ i) : s \in o.split_bytes, i \in o.incomplete_send}

OptionsFor(msg) ==
    IF msg = "data" THEN PeerMsg.chunk_options ELSE options.chunk_options

\* Metadata has two bytes, an ack one, and everything else several.
ChunkCounts(msg, split) ==
    CASE msg = "data" -> 1 .. MaxSplit
      [] msg = "meta" -> IF split THEN {2} ELSE {1}
      [] msg = "nack" -> IF split THEN 1 .. MaxSplit ELSE {1}
      [] OTHER -> {1}

\* write_bytes_encrypted up to its first write: the chunks of msg are
\* encrypted, each under the next nonce.
Encrypt(msg, next) ==
    /\ \E split \in OptionsFor(msg).split_chunks :
       \E k \in ChunkCounts(msg, split) :
            /\ conn = "open" => local + k <= MaxNonce
            /\ local' = local + k
            /\ pending' = k
    /\ sending' = msg
    /\ after' = next
    /\ pc' = "write"

\* write_bytes on the next chunk.  Bytes written to a peer that has closed
\* are answered by a reset.
WriteChunk ==
    /\ pc = "write"
    /\ conn \in {"open", "closing", "broken"}
    /\ \E whole \in WholeOutcomes(OptionsFor(sending)) :
        IF conn = "open"
        THEN /\ toPeer' = Append(toPeer,
                    [msg |-> sending, nonce |-> local - pending,
                     last |-> pending = 1, whole |-> whole])
             /\ cut' = (cut \/ ~ whole)
             /\ UNCHANGED conn
        ELSE conn' = "reset" /\ UNCHANGED <<toPeer, cut>>
    /\ pending' = pending - 1
    /\ pc' = IF pending = 1 THEN after ELSE "write"
    /\ UNCHANGED <<after, keyOk, local, remote, sending, acc, replies, remaining,
                   unanswered, learned, greet, toFuzzer, errors, peerVars>>

WriteFails ==
    /\ pc = "write"
    /\ conn = "reset"
    /\ ReturnErr

----------------------------------------------------------------------------
(* The handshake.                                                          *)

AbortBeforeConnect ==
    /\ pc = "greet"
    /\ TRUE \in options.abort_before_connect
    /\ ReturnOk

\* The connection message, in plain.  A peer that has closed gets nothing.
SendConnection ==
    /\ pc = "greet"
    /\ FALSE \in options.abort_before_connect
    /\ \E fuzz \in options.fuzz_public_key : keyOk' = ~ fuzz
    /\ \E whole \in WholeOutcomes(options.chunk_options) :
        IF conn = "open"
        THEN greet' = (IF whole THEN "sent" ELSE "cut") /\ UNCHANGED conn
        ELSE conn' = "reset" /\ UNCHANGED greet
    /\ pc' = "greeted"
    /\ UNCHANGED <<after, local, remote, sending, pending, acc, replies,
                   remaining, unanswered, learned, toPeer, toFuzzer, cut,
                   errors, peerVars>>

AbortBeforeMetadata ==
    /\ pc = "greeted"
    /\ TRUE \in options.abort_before_metadata
    /\ ReturnOk

\* The peer's connection message: key and nonces follow, and the metadata
\* message is written.
RecvConnection ==
    /\ pc = "greeted"
    /\ FALSE \in options.abort_before_metadata
    /\ conn # "reset"
    /\ greet = "answered"
    /\ Encrypt("meta", "metadata_sent")
    /\ UNCHANGED <<keyOk, remote, acc, replies, remaining, unanswered, learned,
                   channel, peerVars>>

RecvConnectionFails ==
    /\ pc = "greeted"
    /\ FALSE \in options.abort_before_metadata
    /\ conn = "reset" \/ (conn = "closing" /\ greet # "answered")
    /\ ReturnErr

\* The draws of recv_metadata and recv_ack.
Draw(at, p, yes, no) ==
    /\ pc = at
    /\ \E b \in p : pc' = IF b THEN yes ELSE no
    /\ UNCHANGED <<after, keyOk, local, remote, sending, pending, acc, replies,
                   remaining, unanswered, learned, channel, peerVars>>

DrawRecvMetadata ==
    Draw("metadata_sent", options.recv_metadata, "recv_metadata", "ack")
DrawRecvAck == Draw("ack_sent", options.recv_ack, "recv_ack", "respond")

AbortBeforeAck ==
    /\ pc = "ack"
    /\ TRUE \in options.abort_before_ack
    /\ ReturnOk

SendAck ==
    /\ pc = "ack"
    /\ FALSE \in options.abort_before_ack
    /\ \E fuzz \in options.fuzz_ack :
        \E msg \in IF fuzz THEN {"nackv0", "nack"} ELSE {"ack"} :
            Encrypt(msg, "ack_sent")
    /\ UNCHANGED <<keyOk, remote, acc, replies, remaining, unanswered, learned,
                   channel, peerVars>>

----------------------------------------------------------------------------
(* Reading.                                                                *)

\* handle_response reads only if there are reply_options.
Reading ==
    \/ pc \in {"recv_metadata", "recv_ack"}
    \/ pc = "respond" /\ PeerMsg # Null /\ PeerMsg.reply_options # Null

\* The stream holds another chunk for read_msg.
ChunkReady == Reading /\ conn # "reset" /\ toFuzzer # << >>

Decrypts == keyOk /\ Head(toFuzzer).nonce = remote

\* Mutant: the end of the stream is taken for a chunk that is late.
ReadFailsRetries ==
    /\ Reading
    /\ conn = "reset" \/ (conn = "closing" /\ toFuzzer = << >>)
    /\ IF conn = "reset" THEN ReturnErr ELSE UNCHANGED vars

\* read_chunk reports the end of the stream, or its reset.
ReadFails ==
    /\ Reading
    /\ conn = "reset" \/ (conn = "closing" /\ toFuzzer = << >>)
    /\ ReturnErr

\* Part of a chunk is in the buffer and no more will come: every read gives
\* 0 bytes, but len is not 0, and read_chunk goes round for ever, without a
\* pause.
ReadSpins ==
    /\ conn = "broken"
    /\ \/ Reading /\ toFuzzer = << >>
       \/ pc = "greeted" /\ FALSE \in options.abort_before_metadata /\ greet # "answered"
    /\ pc' = "spinning"
    /\ UNCHANGED <<after, keyOk, local, remote, sending, pending, acc, replies,
                   remaining, unanswered, learned, channel, peerVars>>

DecryptError ==
    /\ ChunkReady
    /\ ~ Decrypts
    /\ Return("backoff")
    /\ errors' = errors \cup {"fuzzer"}

\* Mutant: the nonce is incremented once per message.
ConsumeOneNonce ==
    /\ toFuzzer' = Tail(toFuzzer)
    /\ remote' = IF Head(toFuzzer).last THEN remote + 1 ELSE remote

\* A chunk is consumed.
Consume ==
    /\ toFuzzer' = Tail(toFuzzer)
    /\ remote' = remote + 1

\* The chunks read so far are a metadata message, or an ack, or they are
\* not and never will be: from_bytes refuses any rest.
RecvHandshake(at, msgs, next) ==
    /\ pc = at
    /\ ChunkReady
    /\ Decrypts
    /\ Consume
    /\ IF acc = "none" /\ Head(toFuzzer).msg \in msgs
       THEN pc' = next /\ UNCHANGED acc
       ELSE acc' = "junk" /\ UNCHANGED pc
    /\ UNCHANGED <<after, keyOk, local, sending, pending, replies, remaining,
                   unanswered, learned, conn, greet, toPeer, cut, errors,
                   peerVars>>

RecvMetadata == RecvHandshake("recv_metadata", {"meta"}, "ack")
RecvAck == RecvHandshake("recv_ack", {"ack", "nack"}, "respond")

\* The first chunk of a peer message is too short for its length field.
RecvTooShort ==
    /\ pc = "respond"
    /\ ChunkReady
    /\ Decrypts
    /\ acc = "none"
    /\ Head(toFuzzer).msg \in {"meta", "ack"}
    /\ Panic("panic_read")

\* A chunk that does not complete a message: its length field announces
\* more, or the chunk is not of a peer message at all.
RecvPart ==
    /\ pc = "respond"
    /\ ChunkReady
    /\ Decrypts
    /\ Consume
    /\ \/ /\ acc = "none"
          /\ Head(toFuzzer).msg \in PeerKinds
          /\ ~ Head(toFuzzer).last
          /\ acc' = "part"
       \/ /\ acc = "part"
          /\ ~ Head(toFuzzer).last
          /\ UNCHANGED acc
       \/ /\ acc = "junk" \/ (acc = "none" /\ Head(toFuzzer).msg = "nack")
          /\ acc' = "junk"
    /\ UNCHANGED <<pc, after, keyOk, local, sending, pending, replies, remaining,
                   unanswered, learned, conn, greet, toPeer, cut, errors,
                   peerVars>>

\* Mutant: a message is handled when its first chunk has arrived.
HandleResponseEarly ==
    /\ pc = "respond"
    /\ ChunkReady
    /\ Decrypts
    /\ Head(toFuzzer).msg \in PeerKinds
    /\ acc \in {"none", "part"}
    /\ Consume
    /\ acc' = "none"
    /\ unanswered' = 0
    /\ pc' = "reply"
    /\ UNCHANGED <<after, keyOk, local, sending, pending, replies, remaining,
                   learned, conn, greet, toPeer, cut, errors, peerVars>>

\* A peer message is complete: the generator learns from it, and a request
\* may be answered.
HandleResponse ==
    /\ pc = "respond"
    /\ ChunkReady
    /\ Decrypts
    /\ Head(toFuzzer).msg \in PeerKinds
    /\ Head(toFuzzer).last
    /\ acc \in {"none", "part"}
    /\ Consume
    /\ LET kind == Head(toFuzzer).msg
       IN /\ \E lesson \in Lessons(kind) : learned' = learned \cup lesson
          /\ \E reply \in IF kind \in Repliable
                          THEN PeerMsg.reply_options[kind] ELSE {FALSE} :
                replies' \in IF reply THEN ReplyCounts(kind) ELSE {0}
    /\ acc' = "none"
    /\ unanswered' = 0
    /\ pc' = "reply"
    /\ UNCHANGED <<after, keyOk, local, sending, pending, remaining, conn, greet,
                   toPeer, cut, errors, peerVars>>

\* The message is complete, but its head has a second element of fitness
\* that is not eight bytes long (the unwrap in set_current_head and
\* set_current_branch), or the reply cannot be made or encoded.
ResponsePanics ==
    /\ pc = "respond"
    /\ ChunkReady
    /\ Decrypts
    /\ Head(toFuzzer).msg \in PeerKinds
    /\ Head(toFuzzer).last
    /\ acc \in {"none", "part"}
    /\ LET kind == Head(toFuzzer).msg
       IN \/ kind \in {"CurrentHead", "CurrentBranch"} /\ Panic("panic_learn")
          \/ /\ kind \in Repliable /\ TRUE \in PeerMsg.reply_options[kind]
             /\ MadeFrom(kind) \cap learned # {}
             /\ Panic("panic_make")

----------------------------------------------------------------------------
(* Replies and bursts.                                                     *)

\* There is no peer_message_fuzzing: fuzz is done.
NoPeerMessages == pc = "respond" /\ PeerMsg = Null /\ ReturnOk

\* There are no reply_options: handle_response does nothing.
SkipResponse ==
    /\ pc = "respond"
    /\ PeerMsg # Null
    /\ PeerMsg.reply_options = Null
    /\ pc' = "reply"
    /\ UNCHANGED <<after, keyOk, local, remote, sending, pending, acc, replies,
                   remaining, unanswered, learned, channel, peerVars>>

SendReply ==
    /\ pc = "reply"
    /\ replies > 0
    /\ Encrypt("data", "reply")
    /\ replies' = replies - 1
    /\ UNCHANGED <<keyOk, remote, acc, remaining, unanswered, learned, channel,
                   peerVars>>

\* Mutant: one message too many.
StartBurstOneMore ==
    /\ pc = "reply"
    /\ replies = 0
    /\ remaining' \in 1 .. PeerMsg.max_push_throughput + 1
    /\ pc' = "push"
    /\ UNCHANGED <<after, keyOk, local, remote, sending, pending, acc, replies,
                   unanswered, learned, channel, peerVars>>

\* fuzz_peer_messages: how many messages to push.
StartBurst ==
    /\ pc = "reply"
    /\ replies = 0
    /\ remaining' \in 1 .. PeerMsg.max_push_throughput
    /\ pc' = "push"
    /\ UNCHANGED <<after, keyOk, local, remote, sending, pending, acc, replies,
                   unanswered, learned, channel, peerVars>>

\* A batch of messages_per_chunk messages is written as one.
PushBatch ==
    /\ pc = "push"
    /\ PeerMsg.messages_per_chunk <= remaining
    /\ Encrypt("data", "push")
    /\ remaining' = remaining - PeerMsg.messages_per_chunk
    /\ unanswered' = unanswered + PeerMsg.messages_per_chunk
    /\ UNCHANGED <<keyOk, remote, acc, replies, learned, channel, peerVars>>

\* A message of the batch cannot be made or encoded.
PushPanics ==
    /\ pc = "push"
    /\ PeerMsg.messages_per_chunk <= remaining
    /\ Risky \cap learned # {}
    /\ Panic("panic_make")

BurstDone ==
    /\ pc = "push"
    /\ PeerMsg.messages_per_chunk > remaining
    /\ pc' = "respond"
    /\ remaining' = 0
    /\ UNCHANGED <<after, keyOk, local, remote, sending, pending, acc, replies,
                   unanswered, learned, channel, peerVars>>

----------------------------------------------------------------------------
(* The peer (external).                                                    *)

\* The peer closes: what it had not read is lost, what it sent is not.
Closes(end) ==
    /\ conn' = end
    /\ toPeer' = << >>
    /\ peer' = "off"

\* It closes after a whole chunk, or dies in the middle of one.
PeerClose ==
    /\ conn = "open"
    /\ \E end \in {"closing", "broken"} : Closes(end)
    /\ UNCHANGED <<worker, greet, toFuzzer, cut, errors, peerIn, peerOut>>

PeerConnection ==
    /\ conn = "open"
    /\ peer = "greeting"
    /\ greet = "sent"
    /\ greet' = "answered"
    /\ peer' = "metadata"
    /\ UNCHANGED <<worker, conn, toPeer, toFuzzer, cut, errors, peerIn, peerOut>>

PeerDecrypts ==
    keyOk /\ Head(toPeer).whole /\ Head(toPeer).nonce = peerIn

PeerReceive ==
    /\ conn = "open"
    /\ toPeer # << >>
    /\ PeerDecrypts
    /\ peerIn' = peerIn + 1
    /\ IF Head(toPeer).last /\ Head(toPeer).msg \in {"nack", "nackv0"}
       THEN Closes("closing")
       ELSE /\ toPeer' = Tail(toPeer)
            /\ peer' = IF ~ Head(toPeer).last THEN peer
                       ELSE CASE Head(toPeer).msg = "meta" -> "ack"
                              [] Head(toPeer).msg = "ack" -> "open"
                              [] OTHER -> peer
            /\ UNCHANGED conn
    /\ UNCHANGED <<worker, greet, toFuzzer, cut, errors, peerOut>>

\* A chunk that was left short swallows the beginning of the next one.
PeerDecryptError ==
    /\ conn = "open"
    /\ toPeer # << >>
    /\ ~ PeerDecrypts
    /\ Head(toPeer).whole \/ Len(toPeer) > 1
    /\ Closes("closing")
    /\ errors' = errors \cup {"peer"}
    /\ UNCHANGED <<worker, greet, toFuzzer, cut, peerIn, peerOut>>

\* The chunks of a message of the peer, each under its next nonce.
PeerChunks(msg, k) ==
    [i \in 1 .. k |-> [msg |-> msg, nonce |-> peerOut + i - 1,
                       first |-> i = 1, last |-> i = k]]

PeerSends(msg, k) ==
    /\ toFuzzer' = toFuzzer \o PeerChunks(msg, k)
    /\ peerOut' = peerOut + k

PeerMetadata ==
    /\ conn = "open"
    /\ peer \in {"metadata", "ack", "open"}
    /\ peerOut = 0
    /\ PeerSends("meta", 1)
    /\ UNCHANGED <<worker, conn, greet, toPeer, cut, errors, peer, peerIn>>

PeerAck ==
    /\ conn = "open"
    /\ peer \in {"ack", "open"}
    /\ peerOut = 1
    /\ PeerSends("ack", 1)
    /\ UNCHANGED <<worker, conn, greet, toPeer, cut, errors, peer, peerIn>>

PeerNack ==
    /\ conn = "open"
    /\ peer \in {"metadata", "ack", "open"}
    /\ peerOut = 1
    /\ PeerSends("nack", 1)
    /\ Closes("closing")
    /\ UNCHANGED <<worker, greet, cut, errors, peerIn>>

PeerMessage ==
    /\ conn = "open"
    /\ peer = "open"
    /\ peerOut >= 2
    /\ \E kind \in PeerKinds, k \in 1 .. MaxSplit :
        peerOut + k <= MaxPeerNonce /\ PeerSends(kind, k)
    /\ UNCHANGED <<worker, conn, greet, toPeer, cut, errors, peer, peerIn>>

----------------------------------------------------------------------------
Worker ==
    \/ Connect \/ ConnectFails \/ Backoff
    \/ WriteChunk \/ WriteFails
    \/ AbortBeforeConnect \/ SendConnection \/ AbortBeforeMetadata
    \/ RecvConnection \/ RecvConnectionFails
    \/ DrawRecvMetadata \/ DrawRecvAck \/ AbortBeforeAck \/ SendAck
    \/ ReadFails \/ ReadSpins \/ DecryptError \/ RecvMetadata \/ RecvAck
    \/ RecvTooShort \/ RecvPart \/ HandleResponse \/ ResponsePanics
    \/ NoPeerMessages \/ SkipResponse \/ SendReply
    \/ StartBurst \/ PushBatch \/ PushPanics \/ BurstDone

Peer ==
    \/ PeerClose \/ PeerConnection \/ PeerReceive \/ PeerDecryptError
    \/ PeerMetadata \/ PeerAck \/ PeerNack \/ PeerMessage

WorkerStep == Worker /\ UNCHANGED profile
PeerStep == Peer /\ UNCHANGED profile

Next == WorkerStep \/ PeerStep

Spec == Init /\ [][Next]_vars

\* The runtime polls the worker's task as long as it can go on; of the peer
\* nothing is assumed.
FairSpec == Spec /\ WF_vars(WorkerStep)
----------------------------------------------------------------------------
(* Properties.                                                             *)

Places == {"connect", "greet", "greeted", "write", "metadata_sent",
           "recv_metadata", "ack", "ack_sent", "recv_ack", "respond",
           "reply", "push", "backoff", "spinning"} \cup Panics
Sendable == {"meta", "ack", "nack", "nackv0", "data"}
ToPeerChunk == [msg : Sendable, nonce : Nat, last : BOOLEAN, whole : BOOLEAN]
ToFuzzerChunk == [msg : {"meta", "ack", "nack"} \cup PeerKinds, nonce : Nat,
                  first : BOOLEAN, last : BOOLEAN]

PlacesOK ==
    /\ profile \in Profiles
    /\ pc \in Places
    /\ after \in {"connect", "metadata_sent", "ack_sent", "reply", "push"}
    /\ sending \in {"none"} \cup Sendable
    /\ acc \in {"none", "part", "junk"}
    /\ conn \in {"none", "open", "closing", "broken", "reset"}
    /\ greet \in {"none", "sent", "cut", "answered"}
    /\ peer \in {"off", "greeting", "metadata", "ack", "open"}

FlagsOK == keyOk \in BOOLEAN /\ cut \in BOOLEAN

CountersOK ==
    /\ local \in Nat /\ remote \in Nat /\ peerIn \in Nat /\ peerOut \in Nat
    /\ pending \in Nat /\ pending <= local
    /\ replies \in Nat /\ remaining \in Nat /\ unanswered \in Nat

StreamsOK ==
    /\ toPeer \in Seq(ToPeerChunk)
    /\ toFuzzer \in Seq(ToFuzzerChunk)
    /\ errors \in SUBSET {"peer", "fuzzer"}

\* The worker and the peer are at one of their places, counters are natural
\* (no burst or write runs below zero), and chunks under way well formed.
TypeOK == PlacesOK /\ FlagsOK /\ CountersOK /\ StreamsOK

\* The two ends agree on the nonces: the chunks under way carry consecutive
\* nonces, the oldest the one its reader expects, and the writer's next one
\* follows.  (write_msg, read_msg and gen_chunks each count for themselves.)
NoncesAligned ==
    /\ conn = "open" =>
        /\ \A i \in 1 .. Len(toPeer) : toPeer[i].nonce = peerIn + i - 1
        /\ local = peerIn + Len(toPeer) + pending
    /\ conn # "reset" =>
        /\ \A i \in 1 .. Len(toFuzzer) : toFuzzer[i].nonce = remote + i - 1
        /\ peerOut = remote + Len(toFuzzer)

\* Decryption fails only where the profile asked for it: at the worker if it
\* sent another key than its own, at the peer also if incomplete_send left a
\* chunk short.
DecryptsUnlessFuzzed ==
    /\ "fuzzer" \in errors => ~ keyOk
    /\ "peer" \in errors => ~ keyOk \/ cut

\* The profile has the peer's metadata and ack always received.
AlwaysReceives == options.recv_metadata = {TRUE} /\ options.recv_ack = {TRUE}

\* If metadata and ack are always received then, whenever the worker begins
\* to read a peer message, the next chunk is the first of one: nothing of
\* the handshake and nothing of an earlier message is left.  Otherwise
\* read_msg panics, or takes any four bytes for a length.
ReadsAligned ==
    AlwaysReceives /\ pc = "respond" /\ acc = "none" /\ toFuzzer # << >> =>
        Head(toFuzzer).first /\ Head(toFuzzer).msg \in PeerKinds

\* A worker with reply_options pushes no more than max_push_throughput
\* messages before it has received one.
BurstBound ==
    PeerMsg # Null /\ PeerMsg.reply_options # Null =>
        unanswered <= PeerMsg.max_push_throughput

\* A worker whose peer has closed the connection notices it, whatever it was
\* doing, and connects again.  What can stop it for good is this and no more:
\* a close in the middle of a chunk while it reads (read_chunk spins); a panic
\* in read_msg, if the profile may leave the metadata or the ack unread; a
\* panic over the fitness of a head or branch the peer has sent; and a panic
\* in making a message, once a head, branch, header or protocol was learned.
\* That the peer closes at all is not claimed.
Reconnects ==
    conn \in {"closing", "broken", "reset"} ~>
        \/ pc = "connect"
        \/ pc = "spinning" /\ conn = "broken"
        \/ pc = "panic_read" /\ ~ AlwaysReceives
        \/ pc = "panic_learn" /\ PeerKinds \cap {"CurrentHead", "CurrentBranch"} # {}
        \/ pc = "panic_make" /\ Risky \cap learned # {}

\* The invariant behind the safety properties, closed under every step.
\* Outside of a write no chunk is pending; a chunk left short is on record;
\* the key is chosen before anything is encrypted; and while a burst is under
\* way what was pushed and what remains of it stay within the maximum.
WriteShape ==
    IF pc = "write" THEN pending > 0 /\ sending # "none" ELSE pending = 0

CutRecorded ==
    \A i \in 1 .. Len(toPeer) : toPeer[i].whole \/ cut

KeyFirst == pc = "greet" => toPeer = << >> /\ errors = {}

At(place) == pc = place \/ (pc = "write" /\ after = place)

BurstShape ==
    /\ At("reply") \/ At("push") => PeerMsg # Null
    /\ PeerMsg # Null /\ PeerMsg.reply_options # Null =>
        /\ unanswered <= PeerMsg.max_push_throughput
        /\ At("reply") => unanswered = 0
        /\ At("push") =>
            unanswered + remaining <= PeerMsg.max_push_throughput

IndInv ==
    /\ TypeOK /\ NoncesAligned /\ DecryptsUnlessFuzzed
    /\ WriteShape /\ CutRecorded /\ KeyFirst /\ BurstShape

\* The invariant behind ReadsAligned.  By its place in the peer's stream a
\* chunk is the metadata, the ack, or belongs to a peer message, and the last
\* chunk of a message is followed by the first of another, or by nothing yet.
StreamShape(stream, read) ==
    \A i \in 1 .. Len(stream) :
        /\ read + i = 1 => stream[i].msg = "meta"
        /\ read + i = 2 => stream[i].msg \in {"ack", "nack"}
        /\ read + i <= 2 => stream[i].last
        /\ read + i > 2 => stream[i].msg \in PeerKinds
        /\ stream[i].last /\ i < Len(stream) => stream[i + 1].first

\* A worker that always receives has read exactly the handshake before it
\* reads a peer message, and is between two messages when acc is "none".
StageShape ==
    /\ pc \in {"greet", "greeted", "recv_metadata"} \/ At("metadata_sent") =>
            remote = 0 /\ acc = "none"
    /\ pc \in {"ack", "recv_ack"} \/ At("ack_sent") => remote = 1 /\ acc = "none"
    /\ pc = "respond" \/ At("reply") \/ At("push") => remote >= 2
    /\ acc = "none" /\ toFuzzer # << >> => toFuzzer[1].first

ReadInv == StreamShape(toFuzzer, remote) /\ (AlwaysReceives => StageShape)

=============================================================================
