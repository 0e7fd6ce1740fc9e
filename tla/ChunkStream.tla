---------------------------- MODULE ChunkStream ----------------------------
(***************************************************************************)
(* ChunkBuffer::read_chunk of p2p_fuzzer.rs reading BinaryChunks off a TCP *)
(* connection.  TCP hands bytes over in pieces of any size; read_chunk     *)
(* collects them in a fixed buffer and cuts off one chunk per call.        *)
(*                                                                         *)
(* A byte is a digit 0 .. Base - 1, so a chunk starts with its content     *)
(* length as two digits, CONTENT_LENGTH_MAX is Base^2 - 1 and the buffer   *)
(* holds Base^2 bytes: the program is the instance Base = 256.             *)
(*                                                                         *)
(* The other end, the target node, is external: it sends well-formed       *)
(* chunks, and it may close, break off in the middle of a chunk or reset.  *)
(***************************************************************************)
EXTENDS Integers, Sequences, SequencesExt

CONSTANTS
    Base,         \* values of a byte
    MaxContent,   \* bound: longest content the other end sends
    MaxChunks     \* bound: chunks the other end sends

Byte == 0 .. Base - 1
BufferSize == Base * Base
HEADER_LENGTH == 2
CONTENT_LENGTH_MAX == Base * Base - 1

ASSUME BaseAssumption == Base \in Nat /\ Base > 1
ASSUME MaxContentAssumption == MaxContent \in 0 .. CONTENT_LENGTH_MAX
ASSUME MaxChunksAssumption == MaxChunks \in Nat

VARIABLES
    sent,      \* chunks the other end has put on the connection
    broken,    \* it broke off in the middle of the last of them
    link,      \* "open", "closed" (end of stream) or "reset"
    wire,      \* bytes between the two ends
    data,      \* data[..len] of the ChunkBuffer
    pc,        \* "idle" between calls, "loop" inside one, "failed" after Err
    retry,     \* empty reads in this call
    got        \* chunks read_chunk has returned

vars == <<sent, broken, link, wire, data, pc, retry, got>>

\* BinaryChunk::from_content.
FromContent(content) ==
    <<Len(content) \div Base, Len(content) % Base>> \o content

Contents == UNION {[1 .. n -> Byte] : n \in 0 .. MaxContent}

\* The length field at the front of the buffer, and the raw length it asks for.
ChunkLen == data[1] * Base + data[2]
RawLen == ChunkLen + HEADER_LENGTH

\* Mutant: a chunk is only seen once a byte follows it.
HasChunkLate == Len(data) >= HEADER_LENGTH /\ Len(data) > RawLen

HasChunk == Len(data) >= HEADER_LENGTH /\ Len(data) >= RawLen

Init ==
    /\ sent = << >> /\ broken = FALSE /\ link = "open" /\ wire = << >>
    /\ data = << >> /\ pc = "idle" /\ retry = 0 /\ got = << >>

----------------------------------------------------------------------------
(* The other end.                                                          *)

PeerSend(content) ==
    /\ link = "open" /\ ~broken
    /\ Len(sent) < MaxChunks
    /\ sent' = Append(sent, FromContent(content))
    /\ wire' = wire \o FromContent(content)
    /\ UNCHANGED <<broken, link, data, pc, retry, got>>

PeerBreakOff(content, k) ==
    /\ link = "open" /\ ~broken
    /\ Len(sent) < MaxChunks
    /\ sent' = Append(sent, FromContent(content))
    /\ broken' = TRUE
    /\ wire' = wire \o SubSeq(FromContent(content), 1, k)
    /\ UNCHANGED <<link, data, pc, retry, got>>

PeerClose ==
    /\ link = "open"
    /\ link' = "closed"
    /\ UNCHANGED <<sent, broken, wire, data, pc, retry, got>>

\* A reset throws away what has not been read.
PeerReset ==
    /\ link = "open"
    /\ link' = "reset"
    /\ wire' = << >>
    /\ UNCHANGED <<sent, broken, data, pc, retry, got>>

----------------------------------------------------------------------------
(* read_chunk.                                                             *)

ReadChunk ==
    /\ pc = "idle"
    /\ pc' = "loop"
    /\ retry' = 0
    /\ UNCHANGED <<sent, broken, link, wire, data, got>>

\* Mutant: the rest of the buffer is not moved to the front.
ReturnChunkNoShift ==
    /\ pc = "loop"
    /\ HasChunk
    /\ got' = Append(got, SubSeq(data, 1, RawLen))
    /\ data' = SubSeq(data, 1, Len(data) - RawLen)
    /\ pc' = "idle"
    /\ UNCHANGED <<sent, broken, link, wire, retry>>

\* A whole chunk is buffered: it is cut off, the rest moves to the front.
ReturnChunk ==
    /\ pc = "loop"
    /\ HasChunk
    /\ got' = Append(got, SubSeq(data, 1, RawLen))
    /\ data' = SubSeq(data, RawLen + 1, Len(data))
    /\ pc' = "idle"
    /\ UNCHANGED <<sent, broken, link, wire, retry>>

\* stream.read(&mut data[len..]) delivers n bytes.
ReadSome(n) ==
    /\ pc = "loop"
    /\ ~HasChunk
    /\ data' = data \o SubSeq(wire, 1, n)
    /\ wire' = SubSeq(wire, n + 1, Len(wire))
    /\ UNCHANGED <<sent, broken, link, pc, retry, got>>

\* The numbers of bytes a read may deliver.
Readable == 1 .. Min({Len(wire), BufferSize - Len(data)})

\* read returns 0: at the end of the stream, or for want of room.
ReadsNothing ==
    /\ pc = "loop"
    /\ ~HasChunk
    /\ \/ link = "closed" /\ wire = << >>
       \/ Len(data) = BufferSize

\* Mutant: the retries are never counted.
EmptyReadRetryForever ==
    /\ ReadsNothing
    /\ data = << >>
    /\ retry' = retry
    /\ UNCHANGED <<sent, broken, link, wire, data, pc, got>>

\* An empty read of an empty buffer is retried after 200 ms, three times.
EmptyReadRetry ==
    /\ ReadsNothing
    /\ data = << >>
    /\ retry <= 2
    /\ retry' = retry + 1
    /\ UNCHANGED <<sent, broken, link, wire, data, pc, got>>

EmptyReadFails ==
    /\ ReadsNothing
    /\ data = << >>
    /\ retry > 2
    /\ pc' = "failed"
    /\ UNCHANGED <<sent, broken, link, wire, data, retry, got>>

\* An empty read with bytes in the buffer: the loop goes round unchanged.
EmptyReadIgnored ==
    /\ ReadsNothing
    /\ data # << >>
    /\ UNCHANGED vars

\* read returns an error: the ? operator passes it on.
ReadError ==
    /\ pc = "loop"
    /\ ~HasChunk
    /\ link = "reset"
    /\ pc' = "failed"
    /\ UNCHANGED <<sent, broken, link, wire, data, retry, got>>

----------------------------------------------------------------------------
Peer ==
    \/ \E c \in Contents : PeerSend(c)
    \/ \E c \in Contents : \E k \in 1 .. Len(c) + 1 : PeerBreakOff(c, k)
    \/ PeerClose
    \/ PeerReset

Reader ==
    \/ ReadChunk
    \/ ReturnChunk
    \/ \E n \in Readable : ReadSome(n)
    \/ EmptyReadRetry
    \/ EmptyReadFails
    \/ EmptyReadIgnored
    \/ ReadError

Next == Peer \/ Reader

Spec == Init /\ [][Next]_vars

\* The task polls the socket as long as it has something to do.
FairSpec == Spec /\ WF_vars(Reader)

----------------------------------------------------------------------------
(* Properties.                                                             *)

\* The buffer never holds more than data has room for.
TypeOK ==
    /\ link \in {"open", "closed", "reset"}
    /\ broken \in BOOLEAN
    /\ wire \in Seq(Byte)
    /\ data \in Seq(Byte) /\ Len(data) <= BufferSize
    /\ pc \in {"idle", "loop", "failed"}
    /\ retry \in 0 .. 3

\* read_chunk returns the chunks that were sent, whole and in order: however
\* TCP cuts the stream, it never loses or repeats a byte and never takes
\* content for a length field.
ChunksInOrder == IsPrefix(got, sent)

\* The first k chunks are each no longer than the buffer.  The longest chunk
\* there is, with CONTENT_LENGTH_MAX bytes, is a byte longer.
Fit(k) == \A i \in 1 .. k : Len(sent[i]) <= BufferSize

\* A chunk that was sent whole is returned in the end if it and those before
\* it are no longer than the buffer, and only then: a chunk of the greatest
\* length, which BinaryChunk allows, fills the buffer before its last byte,
\* and read_chunk then reads nothing for ever and returns no chunk any more.
ChunksArrive ==
    \A k \in 1 .. MaxChunks :
        /\ Len(sent) >= k /\ ~broken /\ Fit(k) ~>
               Len(got) >= k \/ link = "reset" \/ broken
        /\ [](Len(got) >= k => Fit(k))

\* When the other end closes between two chunks, read_chunk reports it, if
\* every chunk fitted the buffer.
CloseReported == link = "closed" /\ ~broken /\ Fit(Len(sent)) ~> pc = "failed"
=============================================================================
