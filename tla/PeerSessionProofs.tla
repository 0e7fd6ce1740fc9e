------------------------- MODULE PeerSessionProofs -------------------------
(***************************************************************************)
(* Proofs about PeerSession, for every profile and every bound: the        *)
(* inductive invariant IndInv, and what follows from it.                   *)
(***************************************************************************)
EXTENDS PeerSession, SequenceTheorems, TLAPS

USE BoundsAssumption

\* The limits of a burst are positive.
LEMMA Throughput ==
    ASSUME profile \in Profiles, PeerMsg # Null
    PROVE  /\ PeerMsg.max_push_throughput \in Nat \ {0}
           /\ PeerMsg.messages_per_chunk \in Nat \ {0}
BY ThroughputAssumption DEF PeerMsg

\* A message is cut into at least one chunk.
LEMMA ChunkCountsPositive ==
    ASSUME NEW msg, NEW split, NEW k \in ChunkCounts(msg, split)
    PROVE  k \in Nat \ {0}
BY DEF ChunkCounts

\* Whether a chunk is written whole is a Boolean.
LEMMA WholeOutcomesBoolean ==
    ASSUME NEW o, NEW whole \in WholeOutcomes(o)
    PROVE  whole \in BOOLEAN
<1>1. PICK s \in o.split_bytes, i \in o.incomplete_send : whole = ~ (s /\ i)
  BY DEF WholeOutcomes
<1> QED
  BY <1>1

\* The initial state satisfies the invariant.
LEMMA InitInv == Init => IndInv
<1> SUFFICES ASSUME Init PROVE IndInv
  OBVIOUS
<1> USE DEF Init
<1>1. TypeOK
  <2>1. PlacesOK
    BY DEF PlacesOK, Places, Panics
  <2>2. FlagsOK
    BY Zenon DEF FlagsOK
  <2>3. CountersOK
    BY DEF CountersOK
  <2>4. StreamsOK
    BY DEF StreamsOK
  <2> QED
    BY <2>1, <2>2, <2>3, <2>4 DEF TypeOK
<1>2. NoncesAligned
  BY DEF NoncesAligned
<1>3. DecryptsUnlessFuzzed
  BY DEF DecryptsUnlessFuzzed
<1>4. WriteShape
  BY DEF WriteShape
<1>5. CutRecorded
  BY DEF CutRecorded
<1>6. KeyFirst
  BY DEF KeyFirst
<1>7. BurstShape
  <2>1. PeerMsg # Null => PeerMsg.max_push_throughput \in Nat
    BY Throughput
  <2> QED
    BY <2>1 DEF BurstShape, At
<1> QED
  BY <1>1, <1>2, <1>3, <1>4, <1>5, <1>6, <1>7 DEF IndInv
----------------------------------------------------------------------------
(* What each kind of step does to the invariant.                           *)

\* The end of a session: everything that counts is reset.
LEMMA ReturnInv ==
    ASSUME IndInv, NEW to \in {"connect", "backoff"} \cup Panics, Return(to),
           profile' = profile,
           \/ errors' = errors
           \/ ~ keyOk /\ errors' = errors \cup {"fuzzer"}
    PROVE  IndInv'
<1> USE DEF IndInv, TypeOK, Return, Fresh, Panics
<1>1. PlacesOK'
  BY DEF PlacesOK, Places, Panics
<1>2. FlagsOK'
  BY Zenon DEF FlagsOK
<1>3. CountersOK'
  BY DEF CountersOK
<1>4. StreamsOK'
  <2>1. toPeer' \in Seq(ToPeerChunk) /\ toFuzzer' \in Seq(ToFuzzerChunk)
    OBVIOUS
  <2>2. errors \in SUBSET {"peer", "fuzzer"}
    BY DEF StreamsOK
  <2>3. errors' \in SUBSET {"peer", "fuzzer"}
    BY <2>2, Zenon
  <2> QED
    BY <2>1, <2>3 DEF StreamsOK
<1>5. NoncesAligned'
  BY DEF NoncesAligned
<1>6. DecryptsUnlessFuzzed'
  BY DEF DecryptsUnlessFuzzed
<1>7. WriteShape'
  BY DEF WriteShape
<1>8. CutRecorded'
  BY DEF CutRecorded
<1>9. KeyFirst'
  BY DEF KeyFirst
<1>10. BurstShape'
  <2>1. PeerMsg' = PeerMsg
    BY DEF PeerMsg
  <2>2. PeerMsg # Null => PeerMsg.max_push_throughput \in Nat
    BY Throughput DEF PlacesOK
  <2> QED
    BY <2>1, <2>2 DEF BurstShape, At
<1> QED
  BY <1>1, <1>2, <1>3, <1>4, <1>5, <1>6, <1>7, <1>8, <1>9, <1>10
     DEF IndInv, TypeOK

\* The beginning of a session.
LEMMA ConnectInv == IndInv /\ Connect /\ UNCHANGED profile => IndInv'
<1> SUFFICES ASSUME IndInv, Connect, profile' = profile PROVE IndInv'
  OBVIOUS
<1> USE DEF IndInv, TypeOK, Connect, Fresh
<1>1. PlacesOK'
  BY DEF PlacesOK, Places, Panics
<1>2. FlagsOK'
  BY Zenon DEF FlagsOK
<1>3. CountersOK'
  BY DEF CountersOK
<1>4. StreamsOK'
  BY DEF StreamsOK
<1>5. NoncesAligned'
  BY DEF NoncesAligned
<1>6. DecryptsUnlessFuzzed'
  BY DEF DecryptsUnlessFuzzed
<1>7. WriteShape'
  BY DEF WriteShape
<1>8. CutRecorded'
  BY DEF CutRecorded
<1>9. KeyFirst'
  BY DEF KeyFirst
<1>10. BurstShape'
  <2>1. PeerMsg' = PeerMsg
    BY DEF PeerMsg
  <2>2. PeerMsg # Null => PeerMsg.max_push_throughput \in Nat
    BY Throughput DEF PlacesOK
  <2> QED
    BY <2>1, <2>2 DEF BurstShape, At
<1> QED
  BY <1>1, <1>2, <1>3, <1>4, <1>5, <1>6, <1>7, <1>8, <1>9, <1>10
     DEF IndInv, TypeOK

\* A step of the worker that touches neither the connection nor a nonce.
LEMMA MoveInv ==
    ASSUME IndInv, pc # "write", pc' \in Places \ {"write", "greet"},
           UNCHANGED <<after, keyOk, local, remote, sending, pending, acc>>,
           UNCHANGED <<channel, peerVars, profile>>,
           replies' \in Nat, remaining' \in Nat, unanswered' \in Nat,
           BurstShape'
    PROVE  IndInv'
<1> USE DEF IndInv, TypeOK, channel, peerVars
<1>1. PlacesOK'
  BY DEF PlacesOK, Places, Panics
<1>2. FlagsOK'
  BY Zenon DEF FlagsOK
<1>3. CountersOK'
  BY DEF CountersOK
<1>4. StreamsOK'
  BY DEF StreamsOK
<1>5. NoncesAligned'
  BY DEF NoncesAligned
<1>6. DecryptsUnlessFuzzed'
  BY DEF DecryptsUnlessFuzzed
<1>7. WriteShape'
  BY DEF WriteShape
<1>8. CutRecorded'
  BY DEF CutRecorded
<1>9. KeyFirst'
  BY DEF KeyFirst
<1>10. BurstShape'
  OBVIOUS
<1> QED
  BY <1>1, <1>2, <1>3, <1>4, <1>5, <1>6, <1>7, <1>8, <1>9, <1>10
     DEF IndInv, TypeOK

\* A message is encrypted.
LEMMA EncryptInv ==
    ASSUME IndInv, pc # "write", NEW msg \in Sendable,
           NEW next \in {"metadata_sent", "ack_sent", "reply", "push"},
           Encrypt(msg, next),
           UNCHANGED <<keyOk, remote, acc, channel, peerVars, profile>>,
           replies' \in Nat, remaining' \in Nat, unanswered' \in Nat,
           BurstShape'
    PROVE  IndInv'
<1> USE DEF IndInv, TypeOK, channel, peerVars
<1>a. PICK k \in Nat \ {0} : local' = local + k /\ pending' = k
  BY ChunkCountsPositive DEF Encrypt
<1>b. sending' = msg /\ after' = next /\ pc' = "write"
  BY DEF Encrypt
<1>1. PlacesOK'
  BY <1>b DEF PlacesOK, Places, Panics
<1>2. FlagsOK'
  BY Zenon DEF FlagsOK
<1>3. CountersOK'
  BY <1>a DEF CountersOK
<1>4. StreamsOK'
  BY DEF StreamsOK
<1>5. NoncesAligned'
  <2>1. pending = 0
    BY DEF WriteShape
  <2>2. Len(toPeer) \in Nat /\ peerIn \in Nat /\ local \in Nat
    BY DEF StreamsOK, CountersOK
  <2>3. conn = "open" => local = peerIn + Len(toPeer) + pending
    BY DEF NoncesAligned
  <2> HIDE DEF IndInv, TypeOK
  <2>4. conn = "open" => local' = peerIn + Len(toPeer) + pending'
    BY <1>a, <2>1, <2>2, <2>3
  <2> QED
    BY <2>4 DEF NoncesAligned, IndInv
<1>6. DecryptsUnlessFuzzed'
  BY DEF DecryptsUnlessFuzzed
<1>7. WriteShape'
  BY <1>a, <1>b DEF WriteShape, Sendable
<1>8. CutRecorded'
  BY DEF CutRecorded
<1>9. KeyFirst'
  BY <1>b DEF KeyFirst
<1>10. BurstShape'
  OBVIOUS
<1> QED
  BY <1>1, <1>2, <1>3, <1>4, <1>5, <1>6, <1>7, <1>8, <1>9, <1>10
     DEF IndInv, TypeOK

\* A chunk of the peer's is read.
LEMMA ConsumeInv ==
    ASSUME IndInv, pc \notin {"write", "greet"},
           pc' \in Places \ {"write", "greet"},
           toFuzzer # << >>, Consume, acc' \in {"none", "part", "junk"},
           UNCHANGED <<after, keyOk, local, sending, pending, remaining>>,
           UNCHANGED <<conn, greet, toPeer, cut, errors, peerVars, profile>>,
           replies' \in Nat, unanswered' \in Nat,
           BurstShape'
    PROVE  IndInv'
<1> USE DEF IndInv, TypeOK, peerVars, Consume
<1>1. PlacesOK'
  BY DEF PlacesOK, Places, Panics
<1>2. FlagsOK'
  BY Zenon DEF FlagsOK
<1>3. CountersOK'
  BY DEF CountersOK
<1>4. StreamsOK'
  BY DEF StreamsOK
<1>5. NoncesAligned'
  <2>1. /\ Len(toFuzzer') = Len(toFuzzer) - 1
        /\ \A i \in 1 .. Len(toFuzzer') : toFuzzer'[i] = toFuzzer[i + 1]
        /\ Len(toFuzzer) \in Nat
    BY DEF StreamsOK
  <2>2. /\ remote \in Nat /\ remote' = remote + 1 /\ peerOut' = peerOut
        /\ conn' = conn
    BY DEF CountersOK
  <2>3. ASSUME conn # "reset"
        PROVE  /\ \A i \in 1 .. Len(toFuzzer') :
                    toFuzzer'[i].nonce = remote' + i - 1
               /\ peerOut' = remote' + Len(toFuzzer')
    <3>1. \A i \in 1 .. Len(toFuzzer) : toFuzzer[i].nonce = remote + i - 1
      BY <2>3 DEF NoncesAligned
    <3>2. peerOut = remote + Len(toFuzzer)
      BY <2>3 DEF NoncesAligned
    <3>3. ASSUME NEW i \in 1 .. Len(toFuzzer')
          PROVE  toFuzzer'[i].nonce = remote' + i - 1
      <4>1. i + 1 \in 1 .. Len(toFuzzer) /\ toFuzzer'[i] = toFuzzer[i + 1]
        BY <2>1
      <4>2. toFuzzer[i + 1].nonce = remote + (i + 1) - 1
        BY <3>1, <4>1
      <4> QED
        BY <4>1, <4>2, <2>2
    <3> QED
      BY <3>2, <3>3, <2>1, <2>2
  <2>4. conn = "open" =>
            /\ \A i \in 1 .. Len(toPeer) : toPeer[i].nonce = peerIn + i - 1
            /\ local = peerIn + Len(toPeer) + pending
    BY DEF NoncesAligned
  <2> QED
    BY <2>2, <2>3, <2>4 DEF NoncesAligned
<1>6. DecryptsUnlessFuzzed'
  BY DEF DecryptsUnlessFuzzed
<1>7. WriteShape'
  BY DEF WriteShape
<1>8. CutRecorded'
  BY DEF CutRecorded
<1>9. KeyFirst'
  BY DEF KeyFirst
<1>10. BurstShape'
  OBVIOUS
<1> QED
  BY <1>1, <1>2, <1>3, <1>4, <1>5, <1>6, <1>7, <1>8, <1>9, <1>10
     DEF IndInv, TypeOK
\* A chunk goes out: it carries the first of the nonces its message took.
LEMMA WriteChunkInv == IndInv /\ WriteChunk /\ UNCHANGED profile => IndInv'
<1> SUFFICES ASSUME IndInv, WriteChunk, profile' = profile PROVE IndInv'
  OBVIOUS
<1> USE DEF IndInv, TypeOK, peerVars
<1>a. /\ pc = "write" /\ conn \in {"open", "closing", "broken"}
      /\ pending' = pending - 1
      /\ pc' = IF pending = 1 THEN after ELSE "write"
      /\ UNCHANGED <<after, keyOk, local, remote, sending, acc, replies>>
      /\ UNCHANGED <<remaining, unanswered, greet, toFuzzer, errors, peer>>
      /\ UNCHANGED <<peerIn, peerOut>>
  BY DEF WriteChunk
<1>b. pending \in Nat \ {0} /\ local \in Nat /\ pending <= local
      /\ sending \in Sendable
  BY <1>a DEF WriteShape, CountersOK, PlacesOK
<1>c. PICK whole \in BOOLEAN :
        IF conn = "open"
        THEN /\ toPeer' = Append(toPeer,
                    [msg |-> sending, nonce |-> local - pending,
                     last |-> pending = 1, whole |-> whole])
             /\ cut' = (cut \/ ~ whole)
             /\ UNCHANGED conn
        ELSE conn' = "reset" /\ UNCHANGED <<toPeer, cut>>
  BY WholeOutcomesBoolean DEF WriteChunk
<1> DEFINE chunk == [msg |-> sending, nonce |-> local - pending,
                     last |-> pending = 1, whole |-> whole]
<1>d. chunk \in ToPeerChunk
  BY <1>b DEF ToPeerChunk
<1>e. /\ chunk.nonce = local - pending
      /\ chunk.whole = whole
  OBVIOUS
<1>f. conn = "open" => toPeer' = Append(toPeer, chunk) /\ conn' = "open"
  BY <1>c
<1>g. conn # "open" => toPeer' = toPeer /\ conn' = "reset" /\ cut' = cut
  BY <1>c
<1>h. cut' \in BOOLEAN /\ (conn = "open" => (cut => cut') /\ (~ whole => cut'))
  BY <1>c DEF FlagsOK
<1> HIDE DEF chunk
<1>i. /\ conn = "open" =>
            /\ toPeer' \in Seq(ToPeerChunk)
            /\ Len(toPeer') = Len(toPeer) + 1
            /\ \A i \in 1 .. Len(toPeer) : toPeer'[i] = toPeer[i]
            /\ toPeer'[Len(toPeer) + 1] = chunk
      /\ Len(toPeer) \in Nat
  BY <1>d, <1>f, SMTT(30) DEF StreamsOK
<1>1. PlacesOK'
  BY <1>a, <1>b, <1>f, <1>g DEF PlacesOK, Places, Panics
<1>2. FlagsOK'
  BY <1>a, <1>h, Zenon DEF FlagsOK
<1>3. CountersOK'
  BY <1>a, <1>b DEF CountersOK
<1>4. StreamsOK'
  BY <1>a, <1>g, <1>i DEF StreamsOK
<1>5. NoncesAligned'
  <2>1. peerIn \in Nat
    BY DEF CountersOK
  <2>2. ASSUME conn = "open"
        PROVE  /\ \A i \in 1 .. Len(toPeer') : toPeer'[i].nonce = peerIn + i - 1
               /\ local = peerIn + Len(toPeer') + pending'
    <3>1. /\ \A i \in 1 .. Len(toPeer) : toPeer[i].nonce = peerIn + i - 1
          /\ local = peerIn + Len(toPeer) + pending
      BY <2>2 DEF NoncesAligned
    <3>2. toPeer'[Len(toPeer) + 1].nonce = peerIn + (Len(toPeer) + 1) - 1
      BY <1>b, <1>e, <1>i, <2>1, <2>2, <3>1
    <3>3. local = peerIn + Len(toPeer') + pending'
      <4>1. Len(toPeer') = Len(toPeer) + 1 /\ pending' = pending - 1
        BY <1>a, <1>i, <2>2
      <4> HIDE DEF IndInv, TypeOK
      <4> QED
        BY <1>b, <1>i, <2>1, <3>1, <4>1
    <3> QED
      BY <1>i, <2>2, <3>1, <3>2, <3>3
  <2> QED
    BY <1>a, <1>f, <1>g, <2>2 DEF NoncesAligned
<1>6. DecryptsUnlessFuzzed'
  BY <1>a, <1>f, <1>g, <1>h DEF DecryptsUnlessFuzzed
<1>7. WriteShape'
  BY <1>a, <1>b DEF WriteShape, PlacesOK, Sendable
<1>8. CutRecorded'
  <2>1. CASE conn = "open"
    <3> SUFFICES ASSUME NEW i \in 1 .. Len(toPeer')
                 PROVE  toPeer'[i].whole \/ cut'
      BY DEF CutRecorded
    <3>1. CASE i = Len(toPeer) + 1
      BY <1>e, <1>h, <1>i, <2>1, <3>1
    <3>2. CASE i \in 1 .. Len(toPeer)
      BY <1>h, <1>i, <2>1, <3>2 DEF CutRecorded
    <3> QED
      BY <1>i, <2>1, <3>1, <3>2
  <2>2. CASE conn # "open"
    BY <1>g, <2>2 DEF CutRecorded
  <2> QED
    BY <2>1, <2>2
<1>9. KeyFirst'
  BY <1>a DEF KeyFirst, PlacesOK
<1>10. BurstShape'
  BY <1>a DEF BurstShape, At, PeerMsg, PlacesOK
<1> QED
  BY <1>1, <1>2, <1>3, <1>4, <1>5, <1>6, <1>7, <1>8, <1>9, <1>10
     DEF IndInv, TypeOK
\* The connection message goes out; the key is chosen before anything can
\* have failed to decrypt.
LEMMA SendConnectionInv == IndInv /\ SendConnection /\ UNCHANGED profile => IndInv'
<1> SUFFICES ASSUME IndInv, SendConnection, profile' = profile PROVE IndInv'
  OBVIOUS
<1> USE DEF IndInv, TypeOK, peerVars
<1>a. PICK fuzz : keyOk' = ~ fuzz
  BY DEF SendConnection
<1>b. keyOk' \in BOOLEAN
  BY <1>a
<1> USE DEF SendConnection
<1>1. PlacesOK'
  BY DEF PlacesOK, Places, Panics
<1>2. FlagsOK'
  BY <1>b DEF FlagsOK
<1>3. CountersOK'
  BY DEF CountersOK
<1>4. StreamsOK'
  BY DEF StreamsOK
<1>5. NoncesAligned'
  BY DEF NoncesAligned
<1>6. DecryptsUnlessFuzzed'
  BY DEF DecryptsUnlessFuzzed, KeyFirst
<1>7. WriteShape'
  BY DEF WriteShape
<1>8. CutRecorded'
  BY DEF CutRecorded
<1>9. KeyFirst'
  BY DEF KeyFirst
<1>10. BurstShape'
  BY DEF BurstShape, At, PeerMsg
<1> QED
  BY <1>1, <1>2, <1>3, <1>4, <1>5, <1>6, <1>7, <1>8, <1>9, <1>10
     DEF IndInv, TypeOK

\* The peer's stream after it has sent the chunks of a message.
LEMMA StreamExtends ==
    ASSUME IndInv, conn = "open", NEW k \in Nat \ {0},
           NEW msg \in {"meta", "ack", "nack"} \cup PeerKinds, PeerSends(msg, k)
    PROVE  /\ toFuzzer' \in Seq(ToFuzzerChunk)
           /\ peerOut' \in Nat
           /\ \A i \in 1 .. Len(toFuzzer') : toFuzzer'[i].nonce = remote + i - 1
           /\ peerOut' = remote + Len(toFuzzer')
<1> USE DEF IndInv, TypeOK, worker
<1>a. /\ Len(toFuzzer) \in Nat /\ remote \in Nat /\ peerOut \in Nat
      /\ toFuzzer \in Seq(ToFuzzerChunk)
  BY DEF StreamsOK, CountersOK
<1>b. /\ PeerChunks(msg, k) \in Seq(ToFuzzerChunk)
      /\ Len(PeerChunks(msg, k)) = k
      /\ \A i \in 1 .. k : PeerChunks(msg, k)[i].nonce = peerOut + i - 1
  BY <1>a DEF PeerChunks, ToFuzzerChunk
<1>c. toFuzzer' = toFuzzer \o PeerChunks(msg, k) /\ peerOut' = peerOut + k
  BY DEF PeerSends
<1>d. /\ toFuzzer' \in Seq(ToFuzzerChunk)
      /\ Len(toFuzzer') = Len(toFuzzer) + k
      /\ \A i \in 1 .. Len(toFuzzer) : toFuzzer'[i] = toFuzzer[i]
      /\ \A i \in 1 .. Len(toFuzzer') : i > Len(toFuzzer) =>
            toFuzzer'[i] = PeerChunks(msg, k)[i - Len(toFuzzer)]
  <2> HIDE DEF IndInv, TypeOK
  <2>1. /\ toFuzzer' \in Seq(ToFuzzerChunk)
        /\ Len(toFuzzer') = Len(toFuzzer) + k
    <3>1. /\ toFuzzer \o PeerChunks(msg, k) \in Seq(ToFuzzerChunk)
          /\ Len(toFuzzer \o PeerChunks(msg, k))
                = Len(toFuzzer) + Len(PeerChunks(msg, k))
      BY <1>a, <1>b, ConcatProperties, Zenon
    <3> QED
      BY <1>b, <1>c, <3>1
  <2>2. ASSUME NEW i \in 1 .. Len(toFuzzer')
        PROVE  toFuzzer'[i] = IF i <= Len(toFuzzer) THEN toFuzzer[i]
                              ELSE PeerChunks(msg, k)[i - Len(toFuzzer)]
    BY <1>a, <1>b, <1>c, <2>1, ConcatProperties
  <2>3. 1 .. Len(toFuzzer) \subseteq 1 .. Len(toFuzzer')
    BY <1>a, <2>1
  <2>4. \A i \in 1 .. Len(toFuzzer) : toFuzzer'[i] = toFuzzer[i]
    BY <1>a, <2>2, <2>3
  <2>5. \A i \in 1 .. Len(toFuzzer') : i > Len(toFuzzer) =>
            toFuzzer'[i] = PeerChunks(msg, k)[i - Len(toFuzzer)]
    BY <1>a, <2>1, <2>2
  <2> QED
    BY <2>1, <2>4, <2>5
<1>e. /\ \A i \in 1 .. Len(toFuzzer) : toFuzzer[i].nonce = remote + i - 1
      /\ peerOut = remote + Len(toFuzzer)
  BY DEF NoncesAligned
<1>f. \A i \in 1 .. Len(toFuzzer') : toFuzzer'[i].nonce = remote + i - 1
  <2> SUFFICES ASSUME NEW i \in 1 .. Len(toFuzzer')
               PROVE  toFuzzer'[i].nonce = remote + i - 1
    OBVIOUS
  <2> HIDE DEF IndInv, TypeOK
  <2>1. CASE i \in 1 .. Len(toFuzzer)
    BY <1>d, <1>e, <2>1
  <2>2. CASE i > Len(toFuzzer)
    <3>1. i - Len(toFuzzer) \in 1 .. k
      BY <1>a, <1>d, <2>2
    <3>2. toFuzzer'[i].nonce = peerOut + (i - Len(toFuzzer)) - 1
      BY <1>b, <1>d, <2>2, <3>1
    <3> QED
      BY <1>a, <1>e, <3>1, <3>2
  <2> QED
    BY <1>a, <1>d, <2>1, <2>2
<1>g. peerOut' = remote + Len(toFuzzer')
  <2> HIDE DEF IndInv, TypeOK
  <2> QED
    BY <1>a, <1>c, <1>d, <1>e
<1>h. peerOut' \in Nat
  BY <1>a, <1>c
<1> HIDE DEF IndInv, TypeOK
<1> QED
  BY <1>d, <1>f, <1>g, <1>h

\* The peer sends the chunks of a message.
LEMMA PeerSendsInv ==
    ASSUME IndInv, conn = "open", NEW k \in Nat \ {0},
           NEW msg \in {"meta", "ack", "nack"} \cup PeerKinds, PeerSends(msg, k),
           UNCHANGED <<worker, conn, greet, toPeer, cut, errors, peer, peerIn>>,
           profile' = profile
    PROVE  IndInv'
<1>a. /\ toFuzzer' \in Seq(ToFuzzerChunk)
      /\ peerOut' \in Nat
      /\ \A i \in 1 .. Len(toFuzzer') : toFuzzer'[i].nonce = remote + i - 1
      /\ peerOut' = remote + Len(toFuzzer')
  BY StreamExtends
<1> USE DEF IndInv, TypeOK, worker
<1>1. PlacesOK'
  BY DEF PlacesOK, Places, Panics
<1>2. FlagsOK'
  BY Zenon DEF FlagsOK
<1>3. CountersOK'
  BY <1>a DEF CountersOK
<1>4. StreamsOK'
  BY <1>a DEF StreamsOK
<1>5. NoncesAligned'
  BY <1>a DEF NoncesAligned
<1>6. DecryptsUnlessFuzzed'
  BY DEF DecryptsUnlessFuzzed
<1>7. WriteShape'
  BY DEF WriteShape
<1>8. CutRecorded'
  BY DEF CutRecorded
<1>9. KeyFirst'
  BY DEF KeyFirst
<1>10. BurstShape'
  BY DEF BurstShape, At, PeerMsg
<1> QED
  BY <1>1, <1>2, <1>3, <1>4, <1>5, <1>6, <1>7, <1>8, <1>9, <1>10
     DEF IndInv, TypeOK

\* The peer closes: what was on its way to it is gone.
LEMMA ClosesInv ==
    ASSUME IndInv, conn = "open", NEW end \in {"closing", "broken"}, Closes(end),
           UNCHANGED <<worker, greet, cut, profile>>, peerIn' \in Nat,
           \/ UNCHANGED <<toFuzzer, peerOut>>
           \/ PeerSends("nack", 1),
           \/ errors' = errors
           \/ (~ keyOk \/ cut) /\ pc # "greet" /\ errors' = errors \cup {"peer"}
    PROVE  IndInv'
<1>a. /\ toFuzzer' \in Seq(ToFuzzerChunk)
      /\ peerOut' \in Nat
      /\ \A i \in 1 .. Len(toFuzzer') : toFuzzer'[i].nonce = remote + i - 1
      /\ peerOut' = remote + Len(toFuzzer')
  <2>1. CASE PeerSends("nack", 1)
    BY <2>1, StreamExtends
  <2>2. CASE UNCHANGED <<toFuzzer, peerOut>>
    BY <2>2 DEF IndInv, TypeOK, StreamsOK, CountersOK, NoncesAligned
  <2> QED
    BY <2>1, <2>2
<1>b. errors' \in SUBSET {"peer", "fuzzer"}
  <2>1. errors \in SUBSET {"peer", "fuzzer"}
    BY DEF IndInv, TypeOK, StreamsOK
  <2> QED
    BY <2>1, Zenon
<1> USE DEF IndInv, TypeOK, worker, Closes
<1>1. PlacesOK'
  BY DEF PlacesOK, Places, Panics
<1>2. FlagsOK'
  BY Zenon DEF FlagsOK
<1>3. CountersOK'
  BY <1>a DEF CountersOK
<1>4. StreamsOK'
  BY <1>a, <1>b DEF StreamsOK
<1>5. NoncesAligned'
  BY <1>a DEF NoncesAligned
<1>6. DecryptsUnlessFuzzed'
  BY DEF DecryptsUnlessFuzzed
<1>7. WriteShape'
  BY DEF WriteShape
<1>8. CutRecorded'
  BY DEF CutRecorded
<1>9. KeyFirst'
  BY DEF KeyFirst
<1>10. BurstShape'
  BY DEF BurstShape, At, PeerMsg
<1> QED
  BY <1>1, <1>2, <1>3, <1>4, <1>5, <1>6, <1>7, <1>8, <1>9, <1>10
     DEF IndInv, TypeOK

\* A chunk of the worker's is read by the peer.
LEMMA PeerReceiveInv ==
    ASSUME IndInv, conn = "open", toPeer # << >>, peerIn' = peerIn + 1,
           toPeer' = Tail(toPeer), conn' = conn,
           peer' \in {"off", "greeting", "metadata", "ack", "open"},
           UNCHANGED <<worker, greet, toFuzzer, cut, errors, peerOut, profile>>
    PROVE  IndInv'
<1> USE DEF IndInv, TypeOK, worker
<1>a. /\ toPeer' \in Seq(ToPeerChunk)
      /\ Len(toPeer') = Len(toPeer) - 1
      /\ \A i \in 1 .. Len(toPeer') : toPeer'[i] = toPeer[i + 1]
      /\ Len(toPeer) \in Nat
  BY DEF StreamsOK
<1>b. peerIn \in Nat /\ local \in Nat /\ pending \in Nat
  BY DEF CountersOK
<1>c. /\ \A i \in 1 .. Len(toPeer) : toPeer[i].nonce = peerIn + i - 1
      /\ local = peerIn + Len(toPeer) + pending
  BY DEF NoncesAligned
<1>d. ASSUME NEW i \in 1 .. Len(toPeer')
      PROVE  toPeer'[i].nonce = peerIn' + i - 1
  <2> HIDE DEF IndInv, TypeOK
  <2>1. i + 1 \in 1 .. Len(toPeer) /\ toPeer'[i] = toPeer[i + 1]
    BY <1>a
  <2>2. toPeer[i + 1].nonce = peerIn + (i + 1) - 1
    BY <1>c, <2>1
  <2> QED
    BY <1>b, <2>1, <2>2
<1>e. local' = peerIn' + Len(toPeer') + pending'
  <2>1. local' = local /\ pending' = pending
    OBVIOUS
  <2> HIDE DEF IndInv, TypeOK
  <2> QED
    BY <1>a, <1>b, <1>c, <2>1
<1>1. PlacesOK'
  BY DEF PlacesOK, Places, Panics
<1>2. FlagsOK'
  BY Zenon DEF FlagsOK
<1>3. CountersOK'
  BY <1>b DEF CountersOK
<1>4. StreamsOK'
  BY <1>a DEF StreamsOK
<1>5. NoncesAligned'
  BY <1>d, <1>e DEF NoncesAligned
<1>6. DecryptsUnlessFuzzed'
  BY DEF DecryptsUnlessFuzzed
<1>7. WriteShape'
  BY DEF WriteShape
<1>8. CutRecorded'
  BY <1>a DEF CutRecorded
<1>9. KeyFirst'
  BY DEF KeyFirst
<1>10. BurstShape'
  BY DEF BurstShape, At, PeerMsg
<1> QED
  BY <1>1, <1>2, <1>3, <1>4, <1>5, <1>6, <1>7, <1>8, <1>9, <1>10
     DEF IndInv, TypeOK
----------------------------------------------------------------------------
(* The theorems.                                                           *)

\* A step of the worker preserves the invariant.
LEMMA WorkerInv == IndInv /\ WorkerStep => IndInv'
<1> SUFFICES ASSUME IndInv, Worker, profile' = profile PROVE IndInv'
  BY DEF WorkerStep
<1>t. /\ PlacesOK /\ CountersOK /\ BurstShape
  BY DEF IndInv, TypeOK
<1>1. CASE Connect
  BY <1>1, ConnectInv
<1>2. CASE ReturnOk \/ ReturnErr \/ \E at \in Panics : Panic(at)
  BY <1>2, ReturnInv DEF ReturnOk, ReturnErr, Panic
<1>3. CASE DecryptError
  <2>1. toFuzzer # << >> /\ conn # "reset" /\ ~ Decrypts /\ Return("backoff")
        /\ errors' = errors \cup {"fuzzer"}
    BY <1>3 DEF DecryptError, ChunkReady
  <2>2. Head(toFuzzer) = toFuzzer[1] /\ 1 \in 1 .. Len(toFuzzer)
    BY <2>1 DEF IndInv, TypeOK, StreamsOK
  <2>3. toFuzzer[1].nonce = remote + 1 - 1 /\ remote \in Nat
    BY <2>1, <2>2 DEF IndInv, TypeOK, NoncesAligned, CountersOK
  <2>4. ~ keyOk
    BY <2>1, <2>2, <2>3 DEF Decrypts
  <2> QED
    BY <2>1, <2>4, ReturnInv
<1>4. CASE WriteChunk
  BY <1>4, WriteChunkInv
<1>5. CASE SendConnection
  BY <1>5, SendConnectionInv
<1>6. CASE Backoff \/ DrawRecvMetadata \/ DrawRecvAck \/ SkipResponse
            \/ StartBurst \/ BurstDone \/ ReadSpins
  <2> USE DEF PlacesOK, CountersOK, Places, Panics, channel, peerVars
  <2>1. CASE Backoff
    <3>1. BurstShape'
      BY <1>t, <2>1 DEF Backoff, BurstShape, At, PeerMsg
    <3> QED
      BY <1>t, <2>1, <3>1, MoveInv DEF Backoff
  <2>2. CASE DrawRecvMetadata
    <3>1. BurstShape'
      BY <1>t, <2>2 DEF DrawRecvMetadata, Draw, BurstShape, At, PeerMsg
    <3> QED
      BY <1>t, <2>2, <3>1, MoveInv DEF DrawRecvMetadata, Draw
  <2>3. CASE DrawRecvAck
    <3>1. BurstShape'
      BY <1>t, <2>3 DEF DrawRecvAck, Draw, BurstShape, At, PeerMsg
    <3> QED
      BY <1>t, <2>3, <3>1, MoveInv DEF DrawRecvAck, Draw
  <2>4. CASE SkipResponse
    <3>1. BurstShape'
      BY <1>t, <2>4 DEF SkipResponse, BurstShape, At, PeerMsg
    <3> QED
      BY <1>t, <2>4, <3>1, MoveInv DEF SkipResponse
  <2>5. CASE StartBurst
    <3>1. BurstShape'
      BY <1>t, <2>5 DEF StartBurst, BurstShape, At, PeerMsg
    <3>2. remaining' \in Nat
      BY <2>5 DEF StartBurst
    <3> QED
      BY <1>t, <2>5, <3>1, <3>2, MoveInv DEF StartBurst
  <2>6. CASE BurstDone
    <3>1. BurstShape'
      BY <1>t, <2>6 DEF BurstDone, BurstShape, At, PeerMsg
    <3> QED
      BY <1>t, <2>6, <3>1, MoveInv DEF BurstDone
  <2>7. CASE ReadSpins
    <3>1. pc # "write"
      BY <2>7 DEF ReadSpins, Reading
    <3>2. BurstShape'
      BY <1>t, <2>7 DEF ReadSpins, BurstShape, At, PeerMsg
    <3> QED
      BY <1>t, <2>7, <3>1, <3>2, MoveInv DEF ReadSpins
  <2> QED
    BY <1>6, <2>1, <2>2, <2>3, <2>4, <2>5, <2>6, <2>7
<1>7. CASE RecvConnection \/ SendAck \/ SendReply \/ PushBatch
  <2> USE DEF CountersOK
  <2>1. CASE RecvConnection
    <3>1. BurstShape'
      BY <1>t, <2>1 DEF RecvConnection, Encrypt, BurstShape, At, PeerMsg
    <3> QED
      BY <1>t, <2>1, <3>1, EncryptInv DEF RecvConnection, Sendable
  <2>2. CASE SendAck
    <3>1. PICK msg \in {"nackv0", "nack", "ack"} : Encrypt(msg, "ack_sent")
      BY <2>2 DEF SendAck
    <3>2. BurstShape'
      BY <1>t, <2>2, <3>1 DEF SendAck, Encrypt, BurstShape, At, PeerMsg
    <3> QED
      BY <1>t, <2>2, <3>1, <3>2, EncryptInv DEF SendAck, Sendable
  <2>3. CASE SendReply
    <3>1. BurstShape'
      BY <1>t, <2>3 DEF SendReply, Encrypt, BurstShape, At, PeerMsg
    <3> QED
      BY <1>t, <2>3, <3>1, EncryptInv DEF SendReply, Sendable
  <2>4. CASE PushBatch
    <3>1. PeerMsg # Null
      BY <1>t, <2>4 DEF PushBatch, BurstShape, At, PeerMsg
    <3>2. /\ remaining' \in Nat /\ unanswered' \in Nat
          /\ unanswered' + remaining' = unanswered + remaining
      BY <1>t, <2>4, <3>1, Throughput DEF PushBatch, PlacesOK
    <3>3. pc = "push" /\ pc' = "write" /\ after' = "push"
      BY <2>4 DEF PushBatch, Encrypt
    <3>4. ASSUME PeerMsg.reply_options # Null
          PROVE  /\ unanswered' + remaining' <= PeerMsg.max_push_throughput
                 /\ unanswered' <= PeerMsg.max_push_throughput
      <4>1. unanswered + remaining <= PeerMsg.max_push_throughput
        BY <1>t, <3>1, <3>3, <3>4 DEF BurstShape, At, PeerMsg
      <4>2. PeerMsg.max_push_throughput \in Nat
        BY <1>t, <3>1, Throughput DEF PlacesOK
      <4> QED
        BY <3>2, <4>1, <4>2
    <3>5. BurstShape'
      BY <3>1, <3>3, <3>4 DEF BurstShape, At, PeerMsg
    <3> QED
      BY <1>t, <2>4, <3>2, <3>3, <3>5, EncryptInv DEF PushBatch, Sendable
  <2> QED
    BY <1>7, <2>1, <2>2, <2>3, <2>4
<1>8. CASE RecvMetadata \/ RecvAck \/ RecvPart \/ HandleResponse
  <2> USE DEF PlacesOK, Places, Panics, CountersOK
  <2>1. CASE RecvMetadata
    <3>1. BurstShape'
      BY <1>t, <2>1 DEF RecvMetadata, RecvHandshake, BurstShape, At, PeerMsg
    <3> QED
      BY <1>t, <2>1, <3>1, ConsumeInv
         DEF RecvMetadata, RecvHandshake, ChunkReady
  <2>2. CASE RecvAck
    <3>1. BurstShape'
      BY <1>t, <2>2 DEF RecvAck, RecvHandshake, BurstShape, At, PeerMsg
    <3> QED
      BY <1>t, <2>2, <3>1, ConsumeInv DEF RecvAck, RecvHandshake, ChunkReady
  <2>3. CASE RecvPart
    <3>1. BurstShape'
      BY <1>t, <2>3 DEF RecvPart, BurstShape, At, PeerMsg
    <3> QED
      BY <1>t, <2>3, <3>1, ConsumeInv DEF RecvPart, ChunkReady
  <2>4. CASE HandleResponse
    <3>1. replies' \in Nat
      BY <2>4 DEF HandleResponse, ReplyCounts
    <3>2. BurstShape'
      <4>1. PeerMsg' = PeerMsg
        BY DEF PeerMsg
      <4>2. PeerMsg # Null /\ PeerMsg.max_push_throughput \in Nat
        BY <1>t, <2>4, Throughput DEF HandleResponse, ChunkReady, Reading
      <4>3. unanswered' = 0 /\ pc' = "reply"
        BY <2>4 DEF HandleResponse
      <4> QED
        BY <4>1, <4>2, <4>3 DEF BurstShape, At
    <3> QED
      BY <1>t, <2>4, <3>1, <3>2, ConsumeInv DEF HandleResponse, ChunkReady
  <2> QED
    BY <1>8, <2>1, <2>2, <2>3, <2>4
<1>9. CASE ConnectFails \/ WriteFails \/ AbortBeforeConnect
            \/ AbortBeforeMetadata \/ RecvConnectionFails \/ AbortBeforeAck
            \/ ReadFails \/ RecvTooShort \/ ResponsePanics \/ PushPanics
            \/ NoPeerMessages
  BY <1>2, <1>9 DEF ConnectFails, WriteFails, AbortBeforeConnect,
        AbortBeforeMetadata, RecvConnectionFails, AbortBeforeAck, ReadFails,
        RecvTooShort, ResponsePanics, PushPanics, NoPeerMessages, Panics
<1> QED
  BY <1>1, <1>3, <1>4, <1>5, <1>6, <1>7, <1>8, <1>9 DEF Worker

\* A step of the peer preserves the invariant.
LEMMA PeerInv == IndInv /\ PeerStep => IndInv'
<1> SUFFICES ASSUME IndInv, Peer, profile' = profile PROVE IndInv'
  BY DEF PeerStep
<1>1. CASE PeerClose
  <2>1. peerIn' \in Nat
    BY <1>1 DEF PeerClose, IndInv, TypeOK, CountersOK
  <2> QED
    BY <1>1, <2>1, ClosesInv DEF PeerClose
<1>2. CASE PeerConnection
  <2> USE <1>2 DEF PeerConnection, worker, IndInv, TypeOK
  <2>1. PlacesOK' /\ CountersOK' /\ StreamsOK'
    BY DEF PlacesOK, CountersOK, StreamsOK
  <2>2. FlagsOK'
    BY Zenon DEF FlagsOK
  <2>3. NoncesAligned' /\ DecryptsUnlessFuzzed' /\ WriteShape'
    BY DEF NoncesAligned, DecryptsUnlessFuzzed, WriteShape
  <2>4. CutRecorded' /\ KeyFirst' /\ BurstShape'
    BY DEF CutRecorded, KeyFirst, BurstShape, At, PeerMsg
  <2> QED
    BY <2>1, <2>2, <2>3, <2>4
<1>3. CASE PeerReceive
  <2>1. peerIn \in Nat /\ PlacesOK
    BY DEF IndInv, TypeOK, CountersOK
  <2>2. conn = "open" /\ toPeer # << >> /\ peerIn' = peerIn + 1
        /\ UNCHANGED <<worker, greet, toFuzzer, cut, errors, peerOut>>
    BY <1>3 DEF PeerReceive
  <2>3. CASE Closes("closing")
    BY <2>1, <2>2, <2>3, ClosesInv
  <2>4. CASE /\ toPeer' = Tail(toPeer) /\ conn' = conn
             /\ peer' \in {peer, "ack", "open"}
    BY <2>1, <2>2, <2>4, PeerReceiveInv DEF PlacesOK
  <2> QED
    BY <1>3, <2>3, <2>4 DEF PeerReceive
<1>4. CASE PeerDecryptError
  <2>1. /\ conn = "open" /\ toPeer # << >> /\ ~ PeerDecrypts /\ Closes("closing")
        /\ errors' = errors \cup {"peer"}
        /\ UNCHANGED <<worker, greet, toFuzzer, cut, peerIn, peerOut>>
    BY <1>4 DEF PeerDecryptError
  <2>2. Head(toPeer) = toPeer[1] /\ 1 \in 1 .. Len(toPeer)
    BY <2>1 DEF IndInv, TypeOK, StreamsOK
  <2>3. toPeer[1].nonce = peerIn + 1 - 1 /\ peerIn \in Nat
    BY <2>1, <2>2 DEF IndInv, TypeOK, NoncesAligned, CountersOK
  <2>4. toPeer[1].whole \/ cut
    BY <2>2 DEF IndInv, CutRecorded
  <2>5. ~ keyOk \/ cut
    BY <2>1, <2>2, <2>3, <2>4 DEF PeerDecrypts
  <2>6. pc # "greet"
    BY <2>1 DEF IndInv, KeyFirst
  <2> QED
    BY <2>1, <2>3, <2>5, <2>6, ClosesInv
<1>5. CASE PeerMetadata \/ PeerAck
  <2>1. CASE PeerMetadata
    BY <2>1, PeerSendsInv DEF PeerMetadata
  <2>2. CASE PeerAck
    BY <2>2, PeerSendsInv DEF PeerAck
  <2> QED
    BY <1>5, <2>1, <2>2
<1>6. CASE PeerNack
  <2>1. peerIn' \in Nat
    BY <1>6 DEF PeerNack, IndInv, TypeOK, CountersOK
  <2> QED
    BY <1>6, <2>1, ClosesInv DEF PeerNack
<1>7. CASE PeerMessage
  <2>1. PICK kind \in PeerKinds, k \in 1 .. MaxSplit : PeerSends(kind, k)
    BY <1>7 DEF PeerMessage
  <2>2. k \in Nat \ {0}
    OBVIOUS
  <2> QED
    BY <1>7, <2>1, <2>2, PeerSendsInv DEF PeerMessage
<1> QED
  BY <1>1, <1>2, <1>3, <1>4, <1>5, <1>6, <1>7 DEF Peer
\* Every step preserves the invariant.
LEMMA NextInv == IndInv /\ [Next]_vars => IndInv'
<1> SUFFICES ASSUME IndInv, [Next]_vars PROVE IndInv'
  OBVIOUS
<1>1. CASE WorkerStep
  BY <1>1, WorkerInv
<1>2. CASE PeerStep
  BY <1>2, PeerInv
<1>3. CASE UNCHANGED vars
  <2> USE <1>3 DEF vars, worker, channel, peerVars, IndInv, TypeOK
  <2>1. PlacesOK' /\ CountersOK' /\ StreamsOK'
    BY DEF PlacesOK, CountersOK, StreamsOK
  <2>2. FlagsOK'
    BY Zenon DEF FlagsOK
  <2>3. NoncesAligned' /\ DecryptsUnlessFuzzed' /\ WriteShape'
    BY DEF NoncesAligned, DecryptsUnlessFuzzed, WriteShape
  <2>4. CutRecorded' /\ KeyFirst' /\ BurstShape'
    BY DEF CutRecorded, KeyFirst, BurstShape, At, PeerMsg
  <2> QED
    BY <2>1, <2>2, <2>3, <2>4
<1> QED
  BY <1>1, <1>2, <1>3 DEF Next

\* The invariant holds for every profile, every peer that follows the
\* protocol between closing at will, and every bound.
THEOREM IndInvHolds == Spec => []IndInv
BY InitInv, NextInv, PTL DEF Spec

\* Types, and the nonces of read_msg and write_bytes_encrypted: the two ends
\* of the connection count them alike, whatever is drawn, split or lost.
THEOREM SessionSafety == Spec => [](TypeOK /\ NoncesAligned)
<1>1. IndInv => TypeOK /\ NoncesAligned
  BY DEF IndInv
<1> QED
  BY <1>1, IndInvHolds, PTL

\* A decryption error is always of the fuzzer's own making.
THEOREM DecryptionSound == Spec => []DecryptsUnlessFuzzed
<1>1. IndInv => DecryptsUnlessFuzzed
  BY DEF IndInv
<1> QED
  BY <1>1, IndInvHolds, PTL

\* With reply_options fuzz_peer_messages pushes at most max_push_throughput
\* messages between two that handle_response receives, whatever
\* messages_per_chunk is.
THEOREM BurstBounded == Spec => []BurstBound
<1>1. IndInv => BurstBound
  BY DEF IndInv, BurstShape, BurstBound
<1> QED
  BY <1>1, IndInvHolds, PTL

----------------------------------------------------------------------------
(* The worker reads whole messages.                                        *)

\* The stream after its oldest chunk was read.
LEMMA ShapeTail ==
    ASSUME NEW s \in Seq(ToFuzzerChunk), NEW r \in Nat, s # << >>, StreamShape(s, r)
    PROVE  /\ StreamShape(Tail(s), r + 1)
           /\ s[1].last /\ Tail(s) # << >> => Tail(s)[1].first
<1>1. /\ Tail(s) \in Seq(ToFuzzerChunk) /\ Len(Tail(s)) = Len(s) - 1
      /\ Len(s) \in Nat /\ Len(s) > 0
      /\ \A i \in 1 .. Len(s) - 1 : Tail(s)[i] = s[i + 1]
  OBVIOUS
<1>2. ASSUME NEW i \in 1 .. Len(s) - 1
      PROVE  /\ (r + 1) + i = 1 => Tail(s)[i].msg = "meta"
             /\ (r + 1) + i = 2 => Tail(s)[i].msg \in {"ack", "nack"}
             /\ (r + 1) + i <= 2 => Tail(s)[i].last
             /\ (r + 1) + i > 2 => Tail(s)[i].msg \in PeerKinds
             /\ Tail(s)[i].last /\ i < Len(s) - 1 => Tail(s)[i + 1].first
  <2>1. /\ i + 1 \in 1 .. Len(s) /\ Tail(s)[i] = s[i + 1] /\ (r + 1) + i = r + (i + 1)
        /\ i < Len(s) - 1 => i + 1 < Len(s) /\ Tail(s)[i + 1] = s[(i + 1) + 1]
    BY <1>1
  <2> QED
    BY <2>1 DEF StreamShape
<1>3. s[1].last /\ Tail(s) # << >> => Tail(s)[1].first
  <2> SUFFICES ASSUME s[1].last, Tail(s) # << >> PROVE Tail(s)[1].first
    OBVIOUS
  <2>1. 1 \in 1 .. Len(s) /\ 1 < Len(s) /\ Tail(s)[1] = s[1 + 1]
    BY <1>1
  <2> QED
    BY <2>1 DEF StreamShape
<1> QED
  BY <1>1, <1>2, <1>3 DEF StreamShape

\* The stream after the peer has sent the chunks t of one more message.
LEMMA ShapeSend ==
    ASSUME NEW s \in Seq(ToFuzzerChunk), NEW t \in Seq(ToFuzzerChunk), NEW r \in Nat,
           t # << >>, t[1].first, StreamShape(s, r), StreamShape(t, r + Len(s))
    PROVE  /\ StreamShape(s \o t, r)
           /\ s # << >> => (s \o t)[1] = s[1]
           /\ s = << >> => (s \o t)[1].first
<1>1. /\ Len(s) \in Nat /\ Len(t) \in Nat /\ Len(t) > 0
      /\ Len(s \o t) = Len(s) + Len(t)
  OBVIOUS
<1>2. /\ \A i \in 1 .. Len(s) : (s \o t)[i] = s[i]
      /\ \A j \in 1 .. Len(t) : (s \o t)[Len(s) + j] = t[j]
  BY <1>1
<1>3. ASSUME NEW i \in 1 .. Len(s) + Len(t)
      PROVE  /\ r + i = 1 => (s \o t)[i].msg = "meta"
             /\ r + i = 2 => (s \o t)[i].msg \in {"ack", "nack"}
             /\ r + i <= 2 => (s \o t)[i].last
             /\ r + i > 2 => (s \o t)[i].msg \in PeerKinds
             /\ (s \o t)[i].last /\ i < Len(s) + Len(t) => (s \o t)[i + 1].first
  <2>1. CASE i \in 1 .. Len(s)
    <3>1. (s \o t)[i] = s[i]
      BY <1>2, <2>1
    <3>2. CASE i < Len(s)
      <4>1. i + 1 \in 1 .. Len(s) /\ (s \o t)[i + 1] = s[i + 1]
        BY <1>1, <1>2, <2>1, <3>2
      <4> QED
        BY <2>1, <3>1, <3>2, <4>1 DEF StreamShape
    <3>3. CASE i = Len(s)
      <4>1. (s \o t)[i + 1] = t[1]
        BY <1>1, <1>2, <3>3
      <4> QED
        BY <2>1, <3>1, <4>1 DEF StreamShape
    <3> QED
      BY <1>1, <2>1, <3>2, <3>3
  <2>2. CASE i > Len(s)
    <3> DEFINE j == i - Len(s)
    <3>1. j \in 1 .. Len(t) /\ i = Len(s) + j /\ r + i = (r + Len(s)) + j
      BY <1>1, <2>2
    <3>2. (s \o t)[i] = t[j]
      BY <1>2, <3>1
    <3>3. i < Len(s) + Len(t) => j < Len(t) /\ (s \o t)[i + 1] = t[j + 1]
      <4> SUFFICES ASSUME i < Len(s) + Len(t) PROVE j < Len(t) /\ (s \o t)[i + 1] = t[j + 1]
        OBVIOUS
      <4>1. j < Len(t) /\ j + 1 \in 1 .. Len(t) /\ i + 1 = Len(s) + (j + 1)
        BY <1>1, <2>2
      <4> QED
        BY <1>2, <4>1
    <3> HIDE DEF j
    <3> QED
      BY <3>1, <3>2, <3>3 DEF StreamShape
  <2> QED
    BY <1>1, <2>1, <2>2, SMTT(30)
<1>4. StreamShape(s \o t, r)
  BY <1>1, <1>3 DEF StreamShape
<1>5. s # << >> => (s \o t)[1] = s[1]
  BY <1>1, <1>2
<1>6. s = << >> => (s \o t)[1].first
  <2> SUFFICES ASSUME s = << >> PROVE (s \o t)[1].first
    OBVIOUS
  <2>1. (s \o t)[0 + 1] = t[1]
    BY <1>1, <1>2
  <2> QED
    BY <2>1
<1> QED
  BY <1>4, <1>5, <1>6

\* The profile never changes, and neither does what it asks for.
LEMMA SameOptions ==
    ASSUME profile' = profile
    PROVE  (AlwaysReceives' <=> AlwaysReceives) /\ options' = options
BY DEF AlwaysReceives, options, Handshake

\* Between two sessions nothing is under way.
LEMMA FreshReads ==
    ASSUME Fresh, pc' \in {"connect", "backoff", "greet"} \cup Panics
    PROVE  ReadInv'
<1>1. toFuzzer' = << >> /\ remote' = 0 /\ acc' = "none" /\ Len(<< >>) = 0
  BY DEF Fresh
<1>2. StreamShape(toFuzzer, remote)'
  BY <1>1 DEF StreamShape
<1>3. StageShape'
  BY <1>1 DEF StageShape, At, Panics
<1> QED
  BY <1>2, <1>3 DEF ReadInv

\* A step of the worker that reads nothing.
LEMMA StaysReads ==
    ASSUME ReadInv, UNCHANGED <<remote, toFuzzer, acc, profile>>,
           AlwaysReceives /\ StageShape => StageShape'
    PROVE  ReadInv'
BY SameOptions DEF ReadInv

\* A chunk is read: the one the worker waits for.
LEMMA ConsumeReads ==
    ASSUME IndInv, ReadInv, profile' = profile,
           RecvMetadata \/ RecvAck \/ RecvPart \/ HandleResponse
    PROVE  ReadInv'
<1>1. toFuzzer # << >> /\ toFuzzer' = Tail(toFuzzer) /\ remote' = remote + 1
  BY DEF RecvMetadata, RecvAck, RecvHandshake, RecvPart, HandleResponse, ChunkReady, Consume
<1>2. toFuzzer \in Seq(ToFuzzerChunk) /\ remote \in Nat
  BY DEF IndInv, TypeOK, StreamsOK, CountersOK
<1>3. /\ StreamShape(toFuzzer, remote)'
      /\ toFuzzer[1].last /\ toFuzzer' # << >> => toFuzzer'[1].first
  BY <1>1, <1>2, ShapeTail DEF ReadInv
<1>4. Head(toFuzzer) = toFuzzer[1] /\ 1 \in 1 .. Len(toFuzzer)
  BY <1>1, <1>2
<1>5. ASSUME AlwaysReceives PROVE StageShape'
  <2>1. StageShape
    BY <1>5 DEF ReadInv
  <2>2. CASE RecvMetadata
    <3>1. remote = 0 /\ acc = "none" /\ pc = "recv_metadata"
      BY <2>1, <2>2 DEF StageShape, RecvMetadata, RecvHandshake
    <3>2. toFuzzer[1].msg = "meta" /\ toFuzzer[1].last
      BY <1>4, <3>1 DEF ReadInv, StreamShape
    <3>3. pc' = "ack" /\ acc' = acc /\ remote' = 1
      BY <1>1, <1>4, <2>2, <3>1, <3>2 DEF RecvMetadata, RecvHandshake
    <3> QED
      BY <1>3, <3>1, <3>2, <3>3 DEF StageShape, At
  <2>3. CASE RecvAck
    <3>1. remote = 1 /\ acc = "none" /\ pc = "recv_ack"
      BY <2>1, <2>3 DEF StageShape, RecvAck, RecvHandshake
    <3>2. toFuzzer[1].msg \in {"ack", "nack"} /\ toFuzzer[1].last
      BY <1>4, <3>1 DEF ReadInv, StreamShape
    <3>3. pc' = "respond" /\ acc' = acc /\ remote' = 2
      BY <1>1, <1>4, <2>3, <3>1, <3>2 DEF RecvAck, RecvHandshake
    <3> QED
      BY <1>3, <3>1, <3>2, <3>3 DEF StageShape, At
  <2>4. CASE RecvPart
    <3>1. pc = "respond" /\ pc' = "respond" /\ acc' # "none"
      BY <2>4 DEF RecvPart
    <3> QED
      BY <1>1, <1>2, <2>1, <3>1 DEF StageShape, At
  <2>5. CASE HandleResponse
    <3>1. pc = "respond" /\ pc' = "reply" /\ toFuzzer[1].last
      BY <1>4, <2>5 DEF HandleResponse
    <3> QED
      BY <1>1, <1>2, <1>3, <2>1, <3>1 DEF StageShape, At
  <2> QED
    BY <2>2, <2>3, <2>4, <2>5
<1> QED
  BY <1>3, <1>5, SameOptions DEF ReadInv

\* A step of the worker keeps the alignment.
LEMMA WorkerReads == IndInv /\ ReadInv /\ WorkerStep => ReadInv'
<1> SUFFICES ASSUME IndInv, ReadInv, Worker, profile' = profile PROVE ReadInv'
  BY DEF WorkerStep
<1>t. PlacesOK
  BY DEF IndInv, TypeOK
<1>1. CASE Connect \/ ReturnOk \/ ReturnErr \/ (\E at \in Panics : Panic(at)) \/ DecryptError
  <2>1. Fresh /\ pc' \in {"connect", "backoff", "greet"} \cup Panics
    BY <1>1 DEF Connect, ReturnOk, ReturnErr, Panic, DecryptError, Return
  <2> QED
    BY <2>1, FreshReads
<1>2. CASE ConnectFails \/ WriteFails \/ AbortBeforeConnect
            \/ AbortBeforeMetadata \/ RecvConnectionFails \/ AbortBeforeAck
            \/ ReadFails \/ RecvTooShort \/ ResponsePanics \/ PushPanics
            \/ NoPeerMessages
  BY <1>1, <1>2 DEF ConnectFails, WriteFails, AbortBeforeConnect,
        AbortBeforeMetadata, RecvConnectionFails, AbortBeforeAck, ReadFails,
        RecvTooShort, ResponsePanics, PushPanics, NoPeerMessages, Panics
<1>3. CASE RecvMetadata \/ RecvAck \/ RecvPart \/ HandleResponse
  BY <1>3, ConsumeReads
<1>4. CASE Backoff \/ WriteChunk \/ SendConnection
  <2>1. UNCHANGED <<remote, toFuzzer, acc>>
    BY <1>4 DEF Backoff, WriteChunk, SendConnection, channel
  <2>2. StageShape => StageShape'
    BY <1>4, <1>t, <2>1 DEF Backoff, WriteChunk, SendConnection, StageShape, At, PlacesOK
  <2> QED
    BY <2>1, <2>2, StaysReads
<1>5. CASE DrawRecvMetadata \/ DrawRecvAck
  <2>1. UNCHANGED <<remote, toFuzzer, acc>>
    BY <1>5 DEF DrawRecvMetadata, DrawRecvAck, Draw, channel
  <2>2. ASSUME AlwaysReceives
        PROVE  \/ pc = "metadata_sent" /\ pc' = "recv_metadata"
               \/ pc = "ack_sent" /\ pc' = "recv_ack"
    BY <1>5, <2>2 DEF DrawRecvMetadata, DrawRecvAck, Draw, AlwaysReceives
  <2> QED
    BY <2>1, <2>2, StaysReads DEF StageShape, At
<1>6. CASE RecvConnection \/ SendAck \/ SendReply \/ PushBatch
  <2>1. UNCHANGED <<remote, toFuzzer, acc>>
    BY <1>6 DEF RecvConnection, SendAck, SendReply, PushBatch, channel
  <2>2. /\ pc' = "write"
        /\ \/ pc = "greeted" /\ after' = "metadata_sent"
           \/ pc = "ack" /\ after' = "ack_sent"
           \/ pc = "reply" /\ after' = "reply"
           \/ pc = "push" /\ after' = "push"
    BY <1>6 DEF RecvConnection, SendAck, SendReply, PushBatch, Encrypt
  <2> QED
    BY <2>1, <2>2, StaysReads DEF StageShape, At
<1>7. CASE SkipResponse \/ StartBurst \/ BurstDone
  <2>1. UNCHANGED <<remote, toFuzzer, acc>>
    BY <1>7 DEF SkipResponse, StartBurst, BurstDone, channel
  <2>2. /\ pc \in {"respond", "reply", "push"} /\ pc' \in {"respond", "reply", "push"}
    BY <1>7 DEF SkipResponse, StartBurst, BurstDone
  <2> QED
    BY <2>1, <2>2, StaysReads DEF StageShape, At
<1>8. CASE ReadSpins
  <2>1. UNCHANGED <<remote, toFuzzer, acc>> /\ pc' = "spinning"
    BY <1>8 DEF ReadSpins, channel
  <2> QED
    BY <2>1, StaysReads DEF StageShape, At
<1> QED
  BY <1>1, <1>2, <1>3, <1>4, <1>5, <1>6, <1>7, <1>8 DEF Worker

\* The peer sends a message that has its place in the stream.
LEMMA SendReads ==
    ASSUME IndInv, ReadInv, conn = "open", UNCHANGED <<pc, after, remote, acc, profile>>,
           NEW k \in Nat \ {0}, NEW msg \in {"meta", "ack", "nack"} \cup PeerKinds,
           PeerSends(msg, k),
           \/ peerOut = 0 /\ k = 1 /\ msg = "meta"
           \/ peerOut = 1 /\ k = 1 /\ msg \in {"ack", "nack"}
           \/ peerOut >= 2 /\ msg \in PeerKinds
    PROVE  ReadInv'
<1> DEFINE t == PeerChunks(msg, k)
<1>1. /\ toFuzzer \in Seq(ToFuzzerChunk) /\ remote \in Nat /\ peerOut \in Nat
      /\ Len(toFuzzer) \in Nat /\ peerOut = remote + Len(toFuzzer)
  BY DEF IndInv, TypeOK, StreamsOK, CountersOK, NoncesAligned
<1>2. /\ t \in Seq(ToFuzzerChunk) /\ Len(t) = k /\ t # << >> /\ t[1].first
      /\ \A i \in 1 .. k : t[i].msg = msg /\ (t[i].last <=> i = k)
  <2>1. t \in Seq(ToFuzzerChunk) /\ Len(t) = k
    BY <1>1 DEF PeerChunks, ToFuzzerChunk
  <2>2. \A i \in 1 .. k : t[i] = [msg |-> msg, nonce |-> peerOut + i - 1,
                                  first |-> i = 1, last |-> i = k]
    BY DEF PeerChunks
  <2> HIDE DEF t
  <2>3. ASSUME NEW i \in 1 .. k
        PROVE  t[i].msg = msg /\ (t[i].last <=> i = k) /\ (t[i].first <=> i = 1)
    <3> DEFINE chunk == [msg |-> msg, nonce |-> peerOut + i - 1, first |-> i = 1, last |-> i = k]
    <3>1. t[i] = chunk
      BY <2>2
    <3>2. chunk.msg = msg /\ (chunk.last <=> i = k) /\ (chunk.first <=> i = 1)
      OBVIOUS
    <3> HIDE DEF chunk
    <3> QED
      BY <3>1, <3>2
  <2>4. 1 \in 1 .. k
    OBVIOUS
  <2> QED
    BY <2>1, <2>3, <2>4
<1>3. StreamShape(t, remote + Len(toFuzzer))
  <2> HIDE DEF t
  <2>1. CASE \/ peerOut = 0 /\ k = 1 /\ msg = "meta"
             \/ peerOut = 1 /\ k = 1 /\ msg \in {"ack", "nack"}
    <3>1. /\ peerOut + 1 \in {1, 2} /\ (peerOut + 1 = 1 => msg = "meta")
          /\ (peerOut + 1 = 2 => msg \in {"ack", "nack"})
      BY <2>1
    <3>2. t[1].msg = msg /\ t[1].last /\ Len(t) = 1
      BY <1>2, <2>1
    <3>3. ASSUME NEW i \in 1 .. 1
          PROVE  /\ peerOut + i = 1 => t[i].msg = "meta"
                 /\ peerOut + i = 2 => t[i].msg \in {"ack", "nack"}
                 /\ ~ (peerOut + i > 2) /\ t[i].last /\ ~ (i < 1)
      <4>1. i = 1
        OBVIOUS
      <4> QED
        BY <3>1, <3>2, <4>1
    <3> QED
      BY <1>1, <3>2, <3>3 DEF StreamShape
  <2>2. CASE peerOut >= 2 /\ msg \in PeerKinds
    <3>1. ASSUME NEW i \in 1 .. k PROVE peerOut + i > 2 /\ t[i].msg \in PeerKinds
      BY <1>1, <1>2, <2>2
    <3>2. ASSUME NEW i \in 1 .. k PROVE ~ (t[i].last /\ i < k)
      BY <1>2
    <3> QED
      BY <1>1, <1>2, <3>1, <3>2 DEF StreamShape
  <2> QED
    BY <1>1, <2>1, <2>2
<1>4. toFuzzer' = toFuzzer \o t
  BY DEF PeerSends
<1> HIDE DEF t
<1>5. /\ StreamShape(toFuzzer \o t, remote)
      /\ toFuzzer # << >> => (toFuzzer \o t)[1] = toFuzzer[1]
      /\ toFuzzer = << >> => (toFuzzer \o t)[1].first
  BY <1>1, <1>2, <1>3, ShapeSend DEF ReadInv
<1>6. StageShape => StageShape'
  BY <1>4, <1>5 DEF StageShape, At
<1> QED
  BY <1>4, <1>5, <1>6, SameOptions DEF ReadInv

\* A step of the peer keeps it.
LEMMA PeerReads == IndInv /\ ReadInv /\ PeerStep => ReadInv'
<1> SUFFICES ASSUME IndInv, ReadInv, Peer, profile' = profile PROVE ReadInv'
  BY DEF PeerStep
<1>1. UNCHANGED <<pc, after, remote, acc>>
  BY DEF Peer, PeerClose, PeerConnection, PeerReceive, PeerDecryptError,
     PeerMetadata, PeerAck, PeerNack, PeerMessage, worker
<1>2. CASE toFuzzer' = toFuzzer
  BY <1>1, <1>2, StaysReads DEF StageShape, At
<1>3. CASE PeerMetadata \/ PeerAck \/ PeerNack
  BY <1>1, <1>3, SendReads DEF PeerMetadata, PeerAck, PeerNack
<1>4. CASE PeerMessage
  <2>1. PICK kind \in PeerKinds, k \in 1 .. MaxSplit : PeerSends(kind, k)
    BY <1>4 DEF PeerMessage
  <2>2. k \in Nat \ {0} /\ conn = "open" /\ peerOut >= 2
    BY <1>4 DEF PeerMessage
  <2> QED
    BY <1>1, <2>1, <2>2, SendReads
<1> QED
  BY <1>2, <1>3, <1>4 DEF Peer, PeerClose, PeerConnection, PeerReceive, PeerDecryptError

\* read_msg begins every peer message at its first chunk, for every profile
\* that has metadata and ack received: the handshake is read to its end, and
\* so is every message, however the peer cuts it into chunks.
THEOREM ReadsAreAligned == Spec => []ReadsAligned
<1>1. Init => ReadInv
  <2> SUFFICES ASSUME Init PROVE ReadInv
    OBVIOUS
  <2>1. toFuzzer = << >> /\ remote = 0 /\ acc = "none" /\ Len(<< >>) = 0 /\ pc = "connect"
    BY DEF Init
  <2> QED
    BY <2>1 DEF ReadInv, StreamShape, StageShape, At
<1>2. IndInv /\ ReadInv /\ [Next]_vars => ReadInv'
  <2> SUFFICES ASSUME IndInv, ReadInv, [Next]_vars PROVE ReadInv'
    OBVIOUS
  <2>1. CASE UNCHANGED vars
    BY <2>1, StaysReads DEF vars, worker, channel, StageShape, At
  <2> QED
    BY <2>1, WorkerReads, PeerReads DEF Next
<1>3. IndInv /\ ReadInv => ReadsAligned
  <2> SUFFICES ASSUME IndInv, ReadInv, AlwaysReceives, pc = "respond", acc = "none",
                      toFuzzer # << >>
               PROVE  Head(toFuzzer).first /\ Head(toFuzzer).msg \in PeerKinds
    BY DEF ReadsAligned
  <2>1. toFuzzer \in Seq(ToFuzzerChunk) /\ remote \in Nat
    BY DEF IndInv, TypeOK, StreamsOK, CountersOK
  <2>2. Head(toFuzzer) = toFuzzer[1] /\ 1 \in 1 .. Len(toFuzzer)
    BY <2>1
  <2>3. toFuzzer[1].first /\ remote >= 2
    BY DEF ReadInv, StageShape
  <2>4. toFuzzer[1].msg \in PeerKinds
    BY <2>1, <2>2, <2>3 DEF ReadInv, StreamShape
  <2> QED
    BY <2>2, <2>3, <2>4
<1> QED
  BY <1>1, <1>2, <1>3, IndInvHolds, PTL DEF Spec
=============================================================================
