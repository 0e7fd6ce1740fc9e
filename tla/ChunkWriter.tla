---------------------------- MODULE ChunkWriter ----------------------------
(***************************************************************************)
(* The sending side of p2p_fuzzer.rs: write_bytes_encrypted flips bits,    *)
(* cuts a message into chunks and encrypts each under the next nonce;      *)
(* write_bytes then puts every chunk on the stream, whole or in slices,    *)
(* and may stop after the first slice.                                     *)
(*                                                                         *)
(* The i-th byte of a message is the number i, and -i once a bit of it has *)
(* been flipped.  An option is the set of the outcomes gen_bool may have:  *)
(* {FALSE} for probability 0, {TRUE} for 1, BOOLEAN otherwise.  Sleeps     *)
(* change nothing and are left out.  Everything up to the first write runs *)
(* without an await and is one step; each write_all is another.            *)
(***************************************************************************)
EXTENDS Integers, Sequences, FiniteSets, SequencesExt, TLC

CONSTANTS
    MACBYTES,             \* bytes encryption adds
    CONTENT_LENGTH_MAX,   \* longest content of a chunk
    MaxChunkSize,         \* max_chunk_size of the profile
    FlipShare,            \* one bit in at most this many bytes is flipped
    Options,              \* ChunkOptions
    MaxLen,               \* bound: longest message
    MaxNonce              \* bound: no message begins after so many chunks

ASSUME SizesAssumption ==
    /\ MACBYTES \in Nat /\ CONTENT_LENGTH_MAX \in Nat
    /\ CONTENT_LENGTH_MAX > MACBYTES
    /\ MaxChunkSize \in Nat \ {0} /\ FlipShare \in Nat \ {0}
    /\ MaxLen \in Nat /\ MaxNonce \in Nat

ASSUME OptionsAssumption ==
    Options \in [flip_bits : SUBSET BOOLEAN, split_chunks : SUBSET BOOLEAN,
                 split_bytes : SUBSET BOOLEAN, incomplete_send : SUBSET BOOLEAN]

HeaderBytes == 2
PlainMax == CONTENT_LENGTH_MAX - MACBYTES

VARIABLES
    pc,        \* "idle", "chunk" before a chunk, "slice" inside one, "failed"
    nonce,     \* the local nonce
    queue,     \* chunks encrypted and not yet written
    slices,    \* lengths of the slices of the current chunk still to write
    stop,      \* incomplete_send as drawn for the current chunk
    upto,      \* bytes of the current chunk on the stream
    wire,      \* chunks of the message on the stream: the chunk, whether it
               \* is short, and its draw of incomplete_send
    message,   \* the message, as encrypted
    before     \* chunks of earlier messages: what the peer has counted

vars == <<pc, nonce, queue, slices, stop, upto, wire, message, before>>

MinOf(a, b) == IF a < b THEN a ELSE b

Init ==
    /\ pc = "idle" /\ nonce = 0 /\ queue = << >> /\ slices = << >>
    /\ stop = FALSE /\ upto = 0 /\ wire = << >> /\ message = << >> /\ before = 0

----------------------------------------------------------------------------
(* Cutting a message.                                                      *)

\* Sum of the first i sizes.
Total(sizes, i) ==
    LET total[k \in 0 .. Len(sizes)] == IF k = 0 THEN 0 ELSE total[k - 1] + sizes[k]
    IN total[i]

\* The size lists the loops of gen_chunks and gen_byte_chunks can draw for
\* n bytes: while more than one byte remains a size in 1 .. min(remaining,
\* max) - 1, or 1 if max is, and a last 1 for a last byte.
SizeLists(n, max) ==
    LET remaining(l) == n - Total(l, Len(l))
        sizes(l) == IF max = 1 THEN {1} ELSE 1 .. MinOf(remaining(l), max) - 1
        more(lists) == UNION {{Append(l, s) : s \in sizes(l)} :
                              l \in {d \in lists : remaining(d) > 1}}
        drawn[k \in 0 .. n] == IF k = 0 THEN {<< >>} ELSE more(drawn[k - 1])
        done(lists) == {IF remaining(l) = 1 THEN Append(l, 1) ELSE l :
                        l \in {d \in lists : remaining(d) <= 1}}
    IN UNION {done(drawn[k]) : k \in 0 .. n}

Swap(list, i, j) ==
    [k \in DOMAIN list |->
        IF k = i THEN list[j] ELSE IF k = j THEN list[i] ELSE list[k]]

\* rand's shuffle: each place is exchanged with one of those up to it.
Shuffles(list) ==
    LET shuffled[k \in 0 .. Len(list)] ==
            IF k = 0 THEN {list}
            ELSE UNION {{Swap(l, k, j) : j \in 1 .. k} : l \in shuffled[k - 1]}
    IN shuffled[Len(list)]

\* gen_chunks: the shuffled sizes of the chunks of n bytes.
GenChunkSizes(n) ==
    UNION {Shuffles(l) : l \in SizeLists(n, MinOf(MaxChunkSize, PlainMax))}

\* Mutant: the room for the MAC is forgotten.
PlainChunkSizesNoMac(n) ==
    [i \in 1 .. (n + CONTENT_LENGTH_MAX - 1) \div CONTENT_LENGTH_MAX |->
        MinOf(CONTENT_LENGTH_MAX, n - (i - 1) * CONTENT_LENGTH_MAX)]

\* bytes.chunks(CONTENT_LENGTH_MAX - MACBYTES).
PlainChunkSizes(n) ==
    [i \in 1 .. (n + PlainMax - 1) \div PlainMax |->
        MinOf(PlainMax, n - (i - 1) * PlainMax)]

\* gen_byte_chunks: the shuffled sizes of the slices of a chunk of n bytes.
GenSliceSizes(n) == UNION {Shuffles(l) : l \in SizeLists(n, n + 1)}

\* Mutant: the nonce is incremented once per message.
EncryptedOneNonce(bytes, sizes) ==
    [i \in DOMAIN sizes |->
        [nonce |-> nonce,
         plain |-> SubSeq(bytes, Total(sizes, i - 1) + 1, Total(sizes, i))]]

\* Each piece of bytes is encrypted under the next nonce.
Encrypted(bytes, sizes) ==
    [i \in DOMAIN sizes |->
        [nonce |-> nonce + i - 1,
         plain |-> SubSeq(bytes, Total(sizes, i - 1) + 1, Total(sizes, i))]]

ContentSize(chunk) == Len(chunk.plain) + MACBYTES
RawSize(chunk) == ContentSize(chunk) + HeaderBytes

\* Which bytes of n may have a bit flipped when flip_bits is drawn.
FlipSets(n, flip) ==
    IF flip /\ n > 0
    THEN {F \in SUBSET (1 .. n) : Cardinality(F) <= (n - 1) \div FlipShare}
    ELSE {{}}

Flipped(n, F) == [i \in 1 .. n |-> IF i \in F THEN 0 - i ELSE i]

----------------------------------------------------------------------------
\* write_bytes_encrypted on a message of n bytes, up to its write loop.
WriteMsg(n) ==
    /\ pc = "idle"
    /\ nonce <= MaxNonce
    /\ \E flip \in Options.flip_bits, split \in Options.split_chunks :
       \E F \in FlipSets(n, flip) :
       \E sizes \in IF split THEN GenChunkSizes(n) ELSE {PlainChunkSizes(n)} :
            /\ queue' = Encrypted(Flipped(n, F), sizes)
            /\ nonce' = nonce + Len(sizes)
            /\ message' = Flipped(n, F)
    /\ pc' = "chunk"
    /\ before' = before + Len(wire)
    /\ wire' = << >>
    /\ UNCHANGED <<slices, stop, upto>>

\* The write loop is through: Ok.
WriteMsgDone ==
    /\ pc = "chunk"
    /\ queue = << >>
    /\ pc' = "idle"
    /\ UNCHANGED <<nonce, queue, slices, stop, upto, wire, message, before>>

\* write_bytes on the next chunk: the draws, before its first write_all.
WriteBytes ==
    /\ pc = "chunk"
    /\ queue # << >>
    /\ \E split \in Options.split_bytes :
       \E sizes \in IF split THEN GenSliceSizes(RawSize(Head(queue)))
                    ELSE {<<RawSize(Head(queue))>>} :
            slices' = sizes
    /\ \E incomplete \in Options.incomplete_send : stop' = incomplete
    /\ upto' = 0
    /\ wire' = Append(wire, [chunk |-> Head(queue), short |-> TRUE, cut |-> stop'])
    /\ queue' = Tail(queue)
    /\ pc' = "slice"
    /\ UNCHANGED <<nonce, message, before>>

\* Mutant: the loop ends after the first slice whatever was drawn.
WriteSliceOnce ==
    /\ pc = "slice"
    /\ slices # << >>
    /\ upto' = upto + Head(slices)
    /\ slices' = << >>
    /\ UNCHANGED <<pc, nonce, queue, stop, wire, message, before>>

\* One write_all; write_bytes returns after it if incomplete_send was drawn.
WriteSlice ==
    /\ pc = "slice"
    /\ slices # << >>
    /\ upto' = upto + Head(slices)
    /\ slices' = IF stop THEN << >> ELSE Tail(slices)
    /\ UNCHANGED <<pc, nonce, queue, stop, wire, message, before>>

WriteBytesDone ==
    /\ pc = "slice"
    /\ slices = << >>
    /\ wire' = [wire EXCEPT
                    ![Len(wire)].short = upto < RawSize(wire[Len(wire)].chunk)]
    /\ upto' = 0
    /\ stop' = FALSE
    /\ pc' = "chunk"
    /\ UNCHANGED <<nonce, queue, slices, message, before>>

\* write_all fails: the error is passed up and the session is over.
WriteFails ==
    /\ pc = "slice"
    /\ slices # << >>
    /\ pc' = "failed"
    /\ UNCHANGED <<nonce, queue, slices, stop, upto, wire, message, before>>

Step == WriteMsgDone \/ WriteBytes \/ WriteSlice \/ WriteBytesDone

Next == (\E n \in 0 .. MaxLen : WriteMsg(n)) \/ Step \/ WriteFails

Spec == Init /\ [][Next]_vars

----------------------------------------------------------------------------
(* Properties.                                                             *)

AllChunks == [i \in DOMAIN wire |-> wire[i].chunk] \o queue

\* Every variable has its type; no chunk is written beyond its end.
TypeOK ==
    /\ pc \in {"idle", "chunk", "slice", "failed"}
    /\ nonce \in Nat /\ before \in Nat
    /\ stop \in BOOLEAN
    /\ upto \in 0 .. IF wire = << >> THEN 0 ELSE RawSize(wire[Len(wire)].chunk)
    /\ \A i \in DOMAIN slices : slices[i] \in Nat \ {0}

\* A peer that counts the chunks of all messages decrypts each of them, and
\* what it then has is the message: cutting and shuffling the sizes loses,
\* repeats and reorders no byte, and the next nonce is free.
PayloadPreserved ==
    /\ \A i \in DOMAIN AllChunks : AllChunks[i].nonce = before + i - 1
    /\ nonce = before + Len(AllChunks)
    /\ FlattenSeq([i \in DOMAIN AllChunks |-> AllChunks[i].plain]) = message

\* from_content(...).unwrap() never panics, and no chunk is empty.
ChunksFit ==
    \A i \in DOMAIN AllChunks :
        ContentSize(AllChunks[i]) \in MACBYTES + 1 .. CONTENT_LENGTH_MAX

\* A chunk that write_bytes is done with is on the stream to its last byte,
\* whatever its slices were, unless incomplete_send was drawn for it.
ChunksWhole ==
    \A i \in DOMAIN wire :
        wire[i].short /\ (i < Len(wire) \/ pc \in {"idle", "chunk"}) =>
            wire[i].cut

----------------------------------------------------------------------------
(* The inductive invariant behind the properties.                          *)

Chunk == [nonce : Nat, plain : Seq(Int)]

Shape ==
    /\ pc \in {"idle", "chunk", "slice", "failed"}
    /\ nonce \in Nat /\ before \in Nat /\ upto \in Nat /\ stop \in BOOLEAN
    /\ queue \in Seq(Chunk)
    /\ wire \in Seq([chunk : Chunk, short : BOOLEAN, cut : BOOLEAN])
    /\ slices \in Seq(Nat \ {0})
    /\ pc = "idle" => queue = << >>

\* What is on the stream of the current chunk and the slices that are left
\* make up the chunk, unless the rest was dropped.
SlicesAddUp ==
    /\ pc \in {"idle", "chunk"} => upto = 0
    /\ pc \in {"slice", "failed"} =>
          LET last == wire[Len(wire)]
              reached == upto + Total(slices, Len(slices))
          IN /\ wire # << >> /\ last.cut = stop
             /\ reached <= RawSize(last.chunk)
             /\ ~ stop => reached = RawSize(last.chunk)

IndInv == Shape /\ SlicesAddUp /\ PayloadPreserved /\ ChunksFit /\ ChunksWhole
=============================================================================
