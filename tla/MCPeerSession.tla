--------------------------- MODULE MCPeerSession ---------------------------
(***************************************************************************)
(* Profiles of PeerSession for TLC.                                        *)
(***************************************************************************)
EXTENDS PeerSession

Never == {FALSE}
Always == {TRUE}

AnyChunks == [split_chunks |-> BOOLEAN, split_bytes |-> BOOLEAN,
              incomplete_send |-> BOOLEAN]
PlainChunks == [split_chunks |-> Never, split_bytes |-> Never,
                incomplete_send |-> Never]

\* As p2p_fuzzer_default.conf: everything is fuzzed now and then, and the
\* peer's metadata and ack are always received.
DefaultProfile ==
    [chunk_options |-> AnyChunks,
     abort_before_connect |-> BOOLEAN, fuzz_public_key |-> BOOLEAN,
     abort_before_metadata |-> BOOLEAN, recv_metadata |-> Always,
     abort_before_ack |-> BOOLEAN, fuzz_ack |-> BOOLEAN, recv_ack |-> Always]

\* No fuzzing of the handshake at all.
ValidProfile ==
    [chunk_options |-> PlainChunks,
     abort_before_connect |-> Never, fuzz_public_key |-> Never,
     abort_before_metadata |-> Never, recv_metadata |-> Always,
     abort_before_ack |-> Never, fuzz_ack |-> Never, recv_ack |-> Always]

AnyReplies == [kind \in Repliable |-> BOOLEAN]

\* A burst of one or two messages, one per chunk, after every message.
Bursts ==
    [chunk_options |-> AnyChunks, messages_per_chunk |-> 1,
     max_push_throughput |-> 2, reply_options |-> AnyReplies]

\* Two messages per chunk.
Batches == [Bursts EXCEPT !.messages_per_chunk = 2, !.max_push_throughput = 3]

\* As Bursts, without replies.
PushOnly == [Bursts EXCEPT !.reply_options = Null]

Profile(h, p) == [handshake_fuzzing |-> h, peer_message_fuzzing |-> p]

\* The shipped configuration; two messages per chunk; a null handshake, with
\* and without peer messages; and a worker that only pushes.
AllProfiles ==
    {Profile(DefaultProfile, Bursts), Profile(ValidProfile, Batches),
     Profile(Null, Bursts), Profile(Null, Null), Profile(ValidProfile, PushOnly)}
=============================================================================
