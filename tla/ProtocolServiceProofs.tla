----------------------- MODULE ProtocolServiceProofs -----------------------
(***************************************************************************)
(* Proofs about ProtocolService for every number of connections, whatever   *)
(* their users call and however many requests they make.                    *)
(***************************************************************************)
EXTENDS ProtocolService, SequenceTheorems, TLAPS

----------------------------------------------------------------------------
(* The channels: requests and answers keep their numbers.                   *)

LEMMA MessageIds == (\A m \in Request : m.id \in Nat) /\ (\A m \in Response : m.id \in Nat)
  BY DEF Request, Response

\* io.tx.send.
LEMMA NumberedSend ==
    ASSUME NEW rs \in Seq(Response), NEW qs \in Seq(Request), NEW g \in Nat, NEW n \in Nat,
           NEW q \in Request, q.id = n + 1, Numbered(rs, qs, g, 0, n, TRUE)
    PROVE  /\ Append(qs, q) \in Seq(Request)
           /\ Numbered(rs, Append(qs, q), g, 1, n + 1, TRUE)
           /\ RequestKinds(Append(qs, q), n + 1, q.kind)
           /\ g = 0 => AnswerKinds(rs, n + 1, q.kind)
<1>1. /\ Append(qs, q) \in Seq(Request) /\ Len(Append(qs, q)) = Len(qs) + 1
      /\ \A j \in 1..Len(qs) : Append(qs, q)[j] = qs[j]
      /\ Append(qs, q)[Len(qs) + 1] = q
  OBVIOUS
<1>2. \A i \in 1..Len(rs) : rs[i].id \in Nat
  BY MessageIds
<1>3. \A j \in 1..Len(qs) : qs[j].id \in Nat
  BY MessageIds
<1>4. Len(rs) + Len(qs) = g /\ Len(rs) \in Nat /\ Len(qs) \in Nat
  BY DEF Numbered
<1>5. \A i \in 1..Len(rs) : rs[i].id + g + 1 = (n + 1) + i
  BY <1>2 DEF Numbered
<1>6. \A j \in 1..Len(qs) : qs[j].id + g + 1 = (n + 1) + Len(rs) + j
  BY <1>3, <1>4, SMTT(30) DEF Numbered
<1>7. ASSUME NEW j \in 1..Len(qs) + 1
      PROVE  /\ Append(qs, q)[j].id + g + 1 = (n + 1) + Len(rs) + j
             /\ Append(qs, q)[j].id = n + 1 => Append(qs, q)[j].kind = q.kind
  <2>1. CASE j = Len(qs) + 1
    BY <2>1, <1>1, <1>4
  <2>2. CASE j \in 1..Len(qs)
    BY <2>2, <1>1, <1>3, <1>4, <1>6
  <2> QED
    BY <2>1, <2>2, <1>4
<1>8. ASSUME NEW i \in 1..Len(rs), g = 0
      PROVE  rs[i].id # n + 1
  <2>1. rs[i].id \in Nat /\ rs[i].id + g + 1 = (n + 1) + i /\ i \in Nat
    BY <1>2, <1>4, <1>5
  <2> QED
    BY <2>1, <1>4, <1>8
<1>9. Numbered(rs, Append(qs, q), g, 1, n + 1, TRUE)
  BY <1>1, <1>4, <1>5, <1>7 DEF Numbered
<1>10. RequestKinds(Append(qs, q), n + 1, q.kind)
  BY <1>1, <1>7 DEF RequestKinds
<1> QED
  BY <1>1, <1>8, <1>9, <1>10 DEF AnswerKinds

\* io.rx.try_receive has a message.
LEMMA NumberedReceive ==
    ASSUME NEW rs \in Seq(Response), NEW qs \in Seq(Request), NEW g \in Nat, NEW n \in Nat,
           NEW lives \in BOOLEAN, rs # <<>>, Numbered(rs, qs, g, 1, n, lives)
    PROVE  /\ Tail(rs) \in Seq(Response) /\ Head(rs) \in Response
           /\ Numbered(Tail(rs), qs, g, 0, n, lives)
           /\ Head(rs).id + g = n
<1>1. /\ Tail(rs) \in Seq(Response) /\ Len(Tail(rs)) = Len(rs) - 1
      /\ Head(rs) = rs[1] /\ Head(rs) \in Response /\ Len(rs) \in Nat /\ Len(rs) > 0
      /\ \A i \in 1..Len(rs) - 1 : Tail(rs)[i] = rs[i + 1]
  OBVIOUS
<1>2. \A i \in 1..Len(rs) : rs[i].id \in Nat
  BY MessageIds
<1>3. \A j \in 1..Len(qs) : qs[j].id \in Nat
  BY MessageIds
<1>4. ASSUME NEW i \in 1..Len(rs) - 1
      PROVE  Tail(rs)[i].id + g = n + i
  <2>1. i + 1 \in 1..Len(rs) /\ Tail(rs)[i] = rs[i + 1]
    BY <1>1
  <2>2. rs[i + 1].id + g + 1 = n + (i + 1) /\ rs[i + 1].id \in Nat
    BY <1>2, <2>1 DEF Numbered
  <2> QED
    BY <1>1, <2>1, <2>2, SMTT(30)
<1>5. ASSUME NEW j \in 1..Len(qs)
      PROVE  qs[j].id + g = n + (Len(rs) - 1) + j
  <2>1. qs[j].id + g + 1 = n + Len(rs) + j /\ qs[j].id \in Nat /\ j \in Nat
    BY <1>3 DEF Numbered
  <2>2. Len(rs) \in Nat
    OBVIOUS
  <2> QED
    BY <2>1, <2>2
<1>6. ASSUME lives
      PROVE  (Len(rs) - 1) + Len(qs) = g
  <2>1. Len(rs) + Len(qs) = g + 1 /\ Len(qs) \in Nat
    BY <1>6 DEF Numbered
  <2> QED
    BY <1>1, <2>1
<1>7. Head(rs).id + g = n
  <2>1. rs[1].id + g + 1 = n + 1 /\ rs[1].id \in Nat
    BY <1>1, <1>2 DEF Numbered
  <2> QED
    BY <1>1, <2>1, SMTT(30)
<1>8. Numbered(Tail(rs), qs, g, 0, n, lives)
  BY <1>1, <1>2, <1>3, <1>4, <1>5, <1>6 DEF Numbered
<1> QED
  BY <1>1, <1>7, <1>8

\* What is said of answers is still true of those after the first.
LEMMA TailSays ==
    ASSUME NEW rs \in Seq(Response), rs # <<>>, NEW n, NEW kind
    PROVE  /\ SaysContext(Tail(rs)) => SaysContext(rs)
           /\ AnswerKinds(rs, n, kind) => AnswerKinds(Tail(rs), n, kind)
<1>1. /\ Tail(rs) \in Seq(Response) /\ Len(Tail(rs)) = Len(rs) - 1
      /\ Len(rs) \in Nat /\ Len(rs) > 0
      /\ \A i \in 1..Len(rs) - 1 : Tail(rs)[i] = rs[i + 1]
  OBVIOUS
<1> QED
  BY <1>1 DEF SaysContext, AnswerKinds

\* io.rx.try_receive fails.
LEMMA NumberedGiveUp ==
    ASSUME NEW qs \in Seq(Request), NEW g \in Nat, NEW n \in Nat,
           NEW lives \in BOOLEAN, Numbered(<<>>, qs, g, 1, n, lives)
    PROVE  Numbered(<<>>, qs, g + 1, 0, n, lives)
<1>1. \A j \in 1..Len(qs) : qs[j].id \in Nat
  BY MessageIds
<1>2. Len(<<>>) = 0 /\ Len(qs) \in Nat
  OBVIOUS
<1>3. \A j \in 1..Len(qs) : qs[j].id + (g + 1) + 0 = n + 0 + j
  BY <1>1, <1>2 DEF Numbered
<1>4. lives => 0 + Len(qs) = g + 1
  BY <1>2 DEF Numbered
<1> QED
  BY <1>2, <1>3, <1>4 DEF Numbered

\* The sub-process answers the first request.
LEMMA NumberedProcess ==
    ASSUME NEW rs \in Seq(Response), NEW qs \in Seq(Request), NEW g \in Nat, NEW n \in Nat,
           NEW a \in 0..1, NEW lives \in BOOLEAN, qs # <<>>, Numbered(rs, qs, g, a, n, TRUE),
           NEW m \in Response, m.id = Head(qs).id
    PROVE  /\ Tail(qs) \in Seq(Request) /\ Append(rs, m) \in Seq(Response)
           /\ Numbered(Append(rs, m), Tail(qs), g, a, n, lives)
<1>1. /\ Tail(qs) \in Seq(Request) /\ Len(Tail(qs)) = Len(qs) - 1
      /\ Head(qs) = qs[1] /\ Len(qs) \in Nat /\ Len(qs) > 0
      /\ \A i \in 1..Len(qs) - 1 : Tail(qs)[i] = qs[i + 1]
  OBVIOUS
<1>2. /\ Append(rs, m) \in Seq(Response) /\ Len(Append(rs, m)) = Len(rs) + 1
      /\ \A i \in 1..Len(rs) : Append(rs, m)[i] = rs[i]
      /\ Append(rs, m)[Len(rs) + 1] = m /\ Len(rs) \in Nat
  OBVIOUS
<1>3. \A i \in 1..Len(rs) : rs[i].id \in Nat
  BY MessageIds
<1>4. \A j \in 1..Len(qs) : qs[j].id \in Nat
  BY MessageIds
<1>5. qs[1].id + g + a = n + Len(rs) + 1
  BY <1>1, <1>2 DEF Numbered
<1>6. ASSUME NEW i \in 1..Len(rs) + 1
      PROVE  Append(rs, m)[i].id + g + a = n + i
  <2>1. CASE i = Len(rs) + 1
    BY <2>1, <1>1, <1>2, <1>4, <1>5
  <2>2. CASE i \in 1..Len(rs)
    BY <2>2, <1>2, <1>3 DEF Numbered
  <2> QED
    BY <2>1, <2>2, <1>2
<1>7. \A j \in 1..Len(qs) - 1 : Tail(qs)[j].id + g + a = n + (Len(rs) + 1) + j
  BY <1>1, <1>2, <1>4 DEF Numbered
<1>8. Len(rs) + Len(qs) = g + a /\ (Len(rs) + 1) + (Len(qs) - 1) = g + a
  <2>1. Len(rs) + Len(qs) = g + a
    BY DEF Numbered
  <2> QED
    BY <1>1, <1>2, <2>1
<1> QED
  BY <1>1, <1>2, <1>6, <1>7, <1>8 DEF Numbered

----------------------------------------------------------------------------
(* The invariant, connection by connection.                                 *)

\* What the invariant says of one connection.
Part(c) ==
    /\ out[c].result \in {"ok", "error", "unexpected"} => out[c].id + gave_up[c] = sent[c].n
    /\ c \in Readers /\ out[c].result = "unexpected" => gave_up[c] > 0
    /\ c \in Readers /\ pc[c] \in {"idle", "ready", "calling"} /\ proc[c] = "serving" => c \in index
    /\ pc[c] = "waiting" => ~wrote
    /\ UnusedClean(c) /\ Consecutive(c) /\ KindsMatch(c) /\ ContextSaid(c)

LEMMA IndInvParts == IndInv <=> TypeOK /\ \A c \in Conns : Part(c)
  BY DEF IndInv, Part, AnswersShifted, PooledHaveContext, NoWaiterForgotten, Conns

\* The same of the next state.
LEMMA NextParts == ASSUME TypeOK', \A c \in Conns : Part(c)' PROVE IndInv'
  BY DEF IndInv, Part, AnswersShifted, PooledHaveContext, NoWaiterForgotten, Conns

LEMMA InitInv == Init => IndInv
<1> SUFFICES ASSUME Init PROVE IndInv
  OBVIOUS
<1>1. FlagsOK
  BY Zenon DEF Init, FlagsOK
<1>2. TypeOK
  BY <1>1 DEF Init, TypeOK, PCs, NoCall, NoOutcome
<1>3. ASSUME NEW c \in Conns PROVE Part(c)
  <2>1. /\ pc[c] = "none" /\ sent[c].n = 0 /\ out[c].result = "none" /\ gave_up[c] = 0
        /\ req[c] = <<>> /\ resp[c] = <<>> /\ proc[c] = "none" /\ Len(<<>>) = 0
    BY DEF Init, NoCall, NoOutcome
  <2>2. Consecutive(c)
    BY <2>1 DEF Consecutive, Numbered, Awaited, Calling
  <2>3. KindsMatch(c) /\ ContextSaid(c) /\ UnusedClean(c)
    BY <2>1 DEF KindsMatch, RequestKinds, AnswerKinds, ContextSaid, SaysContext, UnusedClean
  <2> QED
    BY <2>1, <2>2, <2>3 DEF Part
<1> QED
  BY <1>2, <1>3, IndInvParts

\* A connection is not disturbed by what happens to another one, except that
\* its thread may be woken and that the first write may be done.
LEMMA OthersKeep ==
    ASSUME NEW d \in Conns, Part(d),
           pc'[d] = pc[d] \/ (pc[d] = "waiting" /\ pc'[d] = "woken"),
           pc'[d] = "waiting" /\ ~wrote => ~wrote',
           sent'[d] = sent[d], out'[d] = out[d], gave_up'[d] = gave_up[d],
           req'[d] = req[d], resp'[d] = resp[d], proc'[d] = proc[d],
           d \in index /\ proc[d] = "serving" => d \in index'
    PROVE  Part(d)'
<1>1. Consecutive(d)'
  BY DEF Part, Consecutive, Awaited, Calling
<1>2. KindsMatch(d)' /\ ContextSaid(d)' /\ UnusedClean(d)'
  BY DEF Part, KindsMatch, ContextSaid, UnusedClean
<1> QED
  BY <1>1, <1>2 DEF Part

\* What the invariant says of the values of one connection.
LEMMA TypesOf ==
    ASSUME TypeOK, NEW c \in Conns
    PROVE  /\ pc[c] \in PCs /\ sent[c].n \in Nat /\ out[c].id \in Nat /\ gave_up[c] \in Nat
           /\ req[c] \in Seq(Request) /\ resp[c] \in Seq(Response)
           /\ sent[c].kind \in ProtocolMessage \cup {"none"}
           /\ proc[c] \in {"none", "starting", "serving", "signalled", "exited"}
  BY DEF TypeOK

----------------------------------------------------------------------------
(* Steps that only move the thread of a connection.                         *)

LEMMA MoveKeepsInv ==
    ASSUME IndInv, NEW c \in Conns, NEW l \in PCs \ (Calling \cup {"none", "closed", "accept"}),
           pc[c] \notin Calling, Goto(c, l),
           l \in {"idle", "ready"} /\ c \in Readers /\ proc[c] = "serving" => c \in index,
           l = "waiting" => ~wrote,
           UNCHANGED <<sent, out, gave_up, release, wrote, req, resp, runner>>
    PROVE  IndInv'
<1>1. TypeOK /\ Part(c) /\ \A d \in Conns : Part(d)
  BY IndInvParts
<1>2. TypeOK'
  BY <1>1 DEF TypeOK, FlagsOK, Goto, runner
<1>3. pc'[c] = l /\ \A d \in Conns : d # c => pc'[d] = pc[d]
  BY <1>1 DEF TypeOK, Goto
<1>4. Part(c)'
  <2>1. Consecutive(c)'
    BY <1>1, <1>3 DEF Part, Consecutive, Awaited, runner
  <2>2. KindsMatch(c)' /\ ContextSaid(c)' /\ UnusedClean(c)'
    BY <1>1, <1>3 DEF Part, KindsMatch, ContextSaid, UnusedClean, runner, Calling
  <2> QED
    BY <1>1, <1>3, <2>1, <2>2 DEF Part, runner, Calling
<1>5. ASSUME NEW d \in Conns, d # c PROVE Part(d)'
  BY <1>1, <1>3, <1>5, OthersKeep DEF runner
<1> QED
  BY <1>2, <1>4, <1>5, NextParts

LEMMA SpawnKeepsInv ==
    ASSUME IndInv, NEW c \in Conns, Spawn(c)
    PROVE  IndInv'
<1>1. TypeOK /\ Part(c) /\ \A d \in Conns : Part(d)
  BY IndInvParts
<1>2. TypeOK'
  BY <1>1 DEF TypeOK, FlagsOK, Goto, Spawn, PCs
<1>3. /\ pc'[c] = "accept" /\ proc'[c] = "starting"
      /\ \A d \in Conns : d # c => pc'[d] = pc[d] /\ proc'[d] = proc[d]
  BY <1>1 DEF TypeOK, Goto, Spawn
<1>4. UnusedClean(c)' /\ resp'[c] = <<>> /\ req'[c] = <<>> /\ Len(<<>>) = 0
  BY <1>1 DEF Part, UnusedClean, Spawn
<1>5. Part(c)'
  <2>1. Consecutive(c)'
    BY <1>3, <1>4 DEF Consecutive, Numbered, Awaited, Calling, UnusedClean
  <2>2. KindsMatch(c)' /\ ContextSaid(c)'
    BY <1>3, <1>4 DEF KindsMatch, RequestKinds, AnswerKinds, ContextSaid
  <2> QED
    BY <1>1, <1>3, <1>4, <2>1, <2>2 DEF Part, Spawn
<1>6. ASSUME NEW d \in Conns, d # c PROVE Part(d)'
  BY <1>1, <1>3, <1>6, OthersKeep DEF Spawn
<1> QED
  BY <1>2, <1>5, <1>6, NextParts

LEMMA SetReleaseKeepsInv ==
    ASSUME IndInv, NEW c \in Conns, SetReleaseOnReturnToPool(c)
    PROVE  IndInv'
<1>1. TypeOK /\ \A d \in Conns : Part(d)
  BY IndInvParts
<1>2. FlagsOK'
  BY <1>1, Zenon DEF TypeOK, FlagsOK, SetReleaseOnReturnToPool
<1>3. TypeOK'
  BY <1>1, <1>2 DEF TypeOK, SetReleaseOnReturnToPool, runner
<1>4. ASSUME NEW d \in Conns PROVE Part(d)'
  BY <1>1, OthersKeep DEF SetReleaseOnReturnToPool, runner
<1> QED
  BY <1>3, <1>4, NextParts

LEMMA PutBackKeepsInv ==
    ASSUME IndInv, NEW c \in Conns, PutBack(c)
    PROVE  IndInv'
<1>1. TypeOK /\ Part(c) /\ \A d \in Conns : Part(d)
  BY IndInvParts
<1>2. TypeOK'
  BY <1>1 DEF TypeOK, FlagsOK, Goto, PutBack, PCs, NoOutcome, runner
<1>3. /\ pc[c] = "ready" /\ pc'[c] \in {"stop", "idle"} /\ out'[c].result = "none"
      /\ \A d \in Conns : d # c => pc'[d] = pc[d] /\ out'[d] = out[d]
  BY <1>1 DEF TypeOK, Goto, PutBack, NoOutcome
<1>4. Part(c)'
  <2>1. Consecutive(c)'
    BY <1>1, <1>3 DEF Part, Consecutive, Awaited, PutBack, runner, Calling
  <2>2. KindsMatch(c)' /\ ContextSaid(c)' /\ UnusedClean(c)'
    BY <1>1, <1>3 DEF Part, KindsMatch, ContextSaid, UnusedClean, PutBack, runner
  <2> QED
    BY <1>1, <1>3, <2>1, <2>2 DEF Part, PutBack, runner
<1>5. ASSUME NEW d \in Conns, d # c PROVE Part(d)'
  BY <1>1, <1>3, <1>5, OthersKeep DEF PutBack, runner
<1> QED
  BY <1>2, <1>4, <1>5, NextParts

----------------------------------------------------------------------------
(* Calls.                                                                   *)

\* Where a call may end.  A read-only runner gets into the pool only after its
\* context was initialised, and to its user only from a call of that user.
LEMMA AfterPlaces ==
    ASSUME NEW c, NEW l \in Calling, NEW result
    PROVE  /\ After(c, l, result) \in {"init", "stop", "idle", "ready", "terminate"}
           /\ After(c, l, result) = "idle" => l = "initing" /\ result = "ok"
           /\ c \in Readers /\ After(c, l, result) = "ready" => l = "calling"
  BY DEF After, Calling, Failed

\* What a call at l asks for.
Asks(l, kind) ==
    /\ kind \in ProtocolMessage
    /\ l = "configuring" => kind = "ChangeRuntimeConfiguration"
    /\ l = "initing" => kind = "InitProtocolContext"
    /\ l = "stopping" => kind = "Shutdown"

LEMMA SendKeepsInv ==
    ASSUME IndInv, NEW c \in Conns, NEW l \in Calling, NEW kind, Asks(l, kind),
           pc[c] \notin Calling, Send(c, kind, l),
           l = "calling" /\ c \in Readers /\ proc[c] = "serving" => c \in index
    PROVE  IndInv'
<1>1. TypeOK /\ Part(c) /\ \A d \in Conns : Part(d)
  BY IndInvParts
<1>2. CASE proc[c] = "serving"
  <2> DEFINE q == [kind |-> kind, id |-> sent[c].n + 1]
  <2>1. /\ pc' = [pc EXCEPT ![c] = l]
        /\ sent' = [sent EXCEPT ![c] = [kind |-> kind, n |-> sent[c].n + 1]]
        /\ req' = [req EXCEPT ![c] = Append(req[c], q)]
        /\ out' = [out EXCEPT ![c] = NoOutcome]
        /\ UNCHANGED <<gave_up, release, wrote, resp, proc, index, listening>>
    BY <1>2 DEF Send, Goto, runner
  <2>2. q \in Request /\ q.id = sent[c].n + 1 /\ q.kind = kind /\ sent[c].n \in Nat
    BY <1>1, TypesOf DEF Asks, Request
  <2>3. Numbered(resp[c], req[c], gave_up[c], 0, sent[c].n, TRUE)
    BY <1>1, <1>2 DEF Part, Consecutive, Awaited, Numbered
  <2>4. /\ Append(req[c], q) \in Seq(Request)
        /\ Numbered(resp[c], Append(req[c], q), gave_up[c], 1, sent[c].n + 1, TRUE)
        /\ RequestKinds(Append(req[c], q), sent[c].n + 1, kind)
        /\ gave_up[c] = 0 => AnswerKinds(resp[c], sent[c].n + 1, kind)
    <3>1. /\ resp[c] \in Seq(Response) /\ req[c] \in Seq(Request) /\ gave_up[c] \in Nat
      BY <1>1, TypesOf
    <3> HIDE DEF q
    <3> QED
      BY <2>2, <2>3, <3>1, NumberedSend
  <2>5. TypeOK'
    BY <1>1, <2>1, <2>2, <2>4 DEF TypeOK, FlagsOK, PCs, NoOutcome, Asks
  <2>6. /\ pc'[c] = l /\ sent'[c].n = sent[c].n + 1 /\ sent'[c].kind = kind
        /\ req'[c] = Append(req[c], q) /\ out'[c].result = "none"
        /\ \A d \in Conns : d # c => /\ pc'[d] = pc[d] /\ sent'[d] = sent[d]
                                     /\ req'[d] = req[d] /\ out'[d] = out[d]
    BY <1>1, <2>1 DEF TypeOK, NoOutcome
  <2>7. Part(c)'
    <3>1. Consecutive(c)'
      BY <1>2, <2>1, <2>4, <2>6, ZenonT(60) DEF Consecutive, Awaited, Numbered
    <3>2. KindsMatch(c)'
      BY <2>1, <2>4, <2>6 DEF KindsMatch, Asks
    <3>3. ContextSaid(c)' /\ UnusedClean(c)'
      BY <1>1, <2>1, <2>6 DEF Part, ContextSaid, UnusedClean, Calling
    <3> QED
      BY <1>1, <1>2, <2>1, <2>6, <3>1, <3>2, <3>3 DEF Part, Calling
  <2>8. ASSUME NEW d \in Conns, d # c PROVE Part(d)'
    BY <1>1, <2>1, <2>6, <2>8, OthersKeep
  <2> QED
    BY <2>5, <2>7, <2>8, NextParts
<1>3. CASE proc[c] # "serving"
  <2>1. /\ pc' = [pc EXCEPT ![c] = After(c, l, "ipc")]
        /\ out' = [out EXCEPT ![c] = [result |-> "ipc", id |-> 0]]
        /\ UNCHANGED <<sent, req, gave_up, release, wrote, resp, proc, index, listening>>
    BY <1>3 DEF Send, Goto, runner
  <2>2. After(c, l, "ipc") \in {"init", "stop", "idle", "ready", "terminate"}
    BY AfterPlaces
  <2>3. TypeOK'
    BY <1>1, <2>1, <2>2 DEF TypeOK, FlagsOK, PCs, Outcomes
  <2>4. /\ pc'[c] \in {"init", "stop", "idle", "ready", "terminate"} /\ out'[c].result = "ipc"
        /\ \A d \in Conns : d # c => pc'[d] = pc[d] /\ out'[d] = out[d]
    BY <1>1, <2>1, <2>2 DEF TypeOK
  <2>5. Part(c)'
    <3>1. Consecutive(c)'
      BY <1>1, <2>1, <2>4 DEF Part, Consecutive, Awaited, Calling
    <3>2. KindsMatch(c)' /\ ContextSaid(c)' /\ UnusedClean(c)'
      BY <1>1, <2>1, <2>4 DEF Part, KindsMatch, ContextSaid, UnusedClean
    <3> QED
      BY <1>1, <1>3, <2>1, <2>4, <3>1, <3>2 DEF Part
  <2>6. ASSUME NEW d \in Conns, d # c PROVE Part(d)'
    BY <1>1, <2>1, <2>4, <2>6, OthersKeep
  <2> QED
    BY <2>3, <2>5, <2>6, NextParts
<1> QED
  BY <1>2, <1>3

LEMMA ReceiveFailsKeepsInv ==
    ASSUME IndInv, NEW c \in Conns, ReceiveFails(c)
    PROVE  IndInv'
<1>1. TypeOK /\ Part(c) /\ \A d \in Conns : Part(d)
  BY IndInvParts
<1> DEFINE l == After(c, pc[c], "ipc")
<1>2. /\ pc' = [pc EXCEPT ![c] = l] /\ pc[c] \in Calling /\ resp[c] = <<>>
      /\ gave_up' = [gave_up EXCEPT ![c] = gave_up[c] + 1]
      /\ out' = [out EXCEPT ![c] = [result |-> "ipc", id |-> 0]]
      /\ UNCHANGED <<sent, req, release, wrote, resp, proc, index, listening>>
  BY DEF ReceiveFails, Goto, runner
<1>3. /\ l \in {"init", "stop", "ready", "terminate"}
      /\ c \in Readers /\ l = "ready" => pc[c] = "calling"
  BY <1>2 DEF After, Failed, Calling
<1>4. TypeOK'
  BY <1>1, <1>2, <1>3 DEF TypeOK, FlagsOK, PCs, Outcomes
<1>5. /\ pc'[c] = l /\ out'[c].result = "ipc" /\ gave_up'[c] = gave_up[c] + 1
      /\ \A d \in Conns : d # c => pc'[d] = pc[d] /\ out'[d] = out[d] /\ gave_up'[d] = gave_up[d]
  BY <1>1, <1>2 DEF TypeOK
<1> HIDE DEF l
<1>6. Part(c)'
  <2>1. Numbered(<<>>, req[c], gave_up[c], 1, sent[c].n, proc[c] # "exited")
    BY <1>1, <1>2 DEF Part, Consecutive, Awaited
  <2>2. Numbered(<<>>, req[c], gave_up[c] + 1, 0, sent[c].n, proc[c] # "exited")
    BY <1>1, <2>1, TypesOf, NumberedGiveUp
  <2>3. Consecutive(c)'
    BY <1>2, <1>3, <1>5, <2>2 DEF Consecutive, Awaited, Calling
  <2>4. KindsMatch(c)' /\ ContextSaid(c)' /\ UnusedClean(c)'
    <3>1. gave_up[c] \in Nat
      BY <1>1, TypesOf
    <3> QED
      BY <1>1, <1>2, <1>3, <1>5, <3>1 DEF Part, KindsMatch, ContextSaid, UnusedClean
  <2> QED
    BY <1>1, <1>2, <1>3, <1>5, <2>3, <2>4 DEF Part
<1>7. ASSUME NEW d \in Conns, d # c PROVE Part(d)'
  BY <1>1, <1>2, <1>5, <1>7, OthersKeep
<1> QED
  BY <1>4, <1>6, <1>7, NextParts

LEMMA ReceiveKeepsInv ==
    ASSUME IndInv, NEW c \in Conns, Receive(c)
    PROVE  IndInv'
<1> DEFINE m == Head(resp[c])
           result == Result(sent[c].kind, m)
           l == After(c, pc[c], result)
<1>1. TypeOK /\ Part(c) /\ \A d \in Conns : Part(d)
  BY IndInvParts
<1>2. pc[c] \in Calling /\ resp[c] # <<>>
  BY DEF Receive
<1>3. /\ out' = [out EXCEPT ![c] = [result |-> result, id |-> m.id]]
      /\ resp' = [resp EXCEPT ![c] = Tail(resp[c])]
      /\ UNCHANGED <<sent, gave_up, release, req, proc, index, listening>>
  BY DEF Receive, runner
<1>4. /\ pc'[c] = l /\ pc' \in [Conns -> {l, "woken"} \cup PCs]
      /\ \A d \in Conns : d # c => /\ pc'[d] = pc[d] \/ (pc[d] = "waiting" /\ pc'[d] = "woken")
                                   /\ pc'[d] = "waiting" /\ ~wrote => ~wrote'
  BY <1>1, ZenonT(60) DEF Receive, WakeAll, Goto, TypeOK, FlagsOK
<1>5. FlagsOK'
  BY <1>1, Zenon DEF Receive, TypeOK, FlagsOK
<1>6. /\ Tail(resp[c]) \in Seq(Response) /\ m \in Response
      /\ Numbered(Tail(resp[c]), req[c], gave_up[c], 0, sent[c].n, proc[c] # "exited")
      /\ m.id + gave_up[c] = sent[c].n
  <2>1. Numbered(resp[c], req[c], gave_up[c], 1, sent[c].n, proc[c] # "exited")
    BY <1>1, <1>2 DEF Part, Consecutive, Awaited
  <2>2. /\ resp[c] \in Seq(Response) /\ req[c] \in Seq(Request) /\ gave_up[c] \in Nat
        /\ sent[c].n \in Nat
    BY <1>1, TypesOf
  <2> QED
    BY <1>2, <2>1, <2>2, NumberedReceive
<1>7. m.id \in Nat /\ m.result \in {"ok", "error"} /\ gave_up[c] \in Nat /\ sent[c].n \in Nat
  BY <1>1, <1>6, TypesOf DEF Response
<1>8. m = resp[c][1] /\ 1 \in 1..Len(resp[c])
  BY <1>1, <1>2, TypesOf
<1>9. result \in {"ok", "error", "unexpected"}
  BY <1>7 DEF Result
<1>10. /\ l \in {"init", "stop", "idle", "ready", "terminate"}
       /\ l = "idle" => pc[c] = "initing" /\ result = "ok"
       /\ c \in Readers /\ l = "ready" => pc[c] = "calling"
  BY <1>2, AfterPlaces
<1>11. /\ SaysContext(Tail(resp[c])) => SaysContext(resp[c])
       /\ AnswerKinds(resp[c], sent[c].n, sent[c].kind) => AnswerKinds(Tail(resp[c]), sent[c].n, sent[c].kind)
  BY <1>1, <1>2, TypesOf, TailSays
<1>12. ASSUME c \in Readers, result = "unexpected" PROVE gave_up[c] > 0
  <2> SUFFICES ASSUME gave_up[c] = 0 PROVE FALSE
    BY <1>7
  <2>1. m.id = sent[c].n
    BY <1>6, <1>7
  <2>2. m.kind = NodeMessage(sent[c].kind)
    BY <1>1, <1>8, <1>12, <2>1 DEF Part, KindsMatch, AnswerKinds
  <2> QED
    BY <1>7, <1>12, <2>2 DEF Result
<1>13. ASSUME c \in Readers, l = "idle", proc[c] = "serving" PROVE c \in index
  <2>1. sent[c].kind = "InitProtocolContext"
    BY <1>1, <1>10, <1>13 DEF Part, KindsMatch
  <2>2. m.kind = "InitProtocolContext" /\ m.result = "ok"
    BY <1>10, <1>13, <2>1 DEF Result, NodeMessage
  <2>3. SaysContext(resp[c])
    BY <1>8, <2>2 DEF SaysContext
  <2> QED
    BY <1>1, <1>13, <2>3 DEF Part, ContextSaid
<1> HIDE DEF l, result, m
<1>14. TypeOK'
  <2>1. pc' \in [Conns -> PCs]
    BY <1>4, <1>10 DEF PCs
  <2> QED
    BY <1>1, <1>3, <1>5, <1>6, <1>7, <1>9, <2>1 DEF TypeOK, Outcomes
<1>15. /\ out'[c] = [result |-> result, id |-> m.id] /\ resp'[c] = Tail(resp[c])
       /\ \A d \in Conns : d # c => out'[d] = out[d] /\ resp'[d] = resp[d]
  BY <1>1, <1>3 DEF TypeOK
<1>16. Part(c)'
  <2>1. Consecutive(c)'
    BY <1>3, <1>4, <1>6, <1>10, <1>15 DEF Consecutive, Awaited, Calling
  <2>2. KindsMatch(c)' /\ ContextSaid(c)' /\ UnusedClean(c)'
    BY <1>1, <1>3, <1>4, <1>10, <1>11, <1>15 DEF Part, KindsMatch, ContextSaid, UnusedClean
  <2> QED
    BY <1>1, <1>3, <1>4, <1>6, <1>10, <1>12, <1>13, <1>15, <2>1, <2>2 DEF Part
<1>17. ASSUME NEW d \in Conns, d # c PROVE Part(d)'
  BY <1>1, <1>3, <1>4, <1>15, <1>17, OthersKeep
<1> QED
  BY <1>14, <1>16, <1>17, NextParts

----------------------------------------------------------------------------
(* The end of a connection, and the sub-process.                            *)

LEMMA TerminateKeepsInv ==
    ASSUME IndInv, NEW c \in Conns, Terminate(c)
    PROVE  IndInv'
<1>1. TypeOK /\ \A d \in Conns : Part(d)
  BY IndInvParts
<1>2. FlagsOK'
  BY <1>1, Zenon DEF Terminate, Drop, TypeOK, FlagsOK
<1>3. /\ proc' \in [Conns -> {"none", "starting", "serving", "signalled", "exited"}]
      /\ \A d \in Conns : d # c => proc'[d] = proc[d]
  BY <1>1 DEF Terminate, TypeOK
<1>4. index' \subseteq index /\ listening' \subseteq listening
  BY DEF Terminate
<1>5. TypeOK'
  BY <1>1, <1>2, <1>3, <1>4 DEF Terminate, Drop, Goto, TypeOK, PCs, NoCall, NoOutcome
<1>6. /\ pc'[c] = "closed" /\ sent'[c].n = 0 /\ out'[c].result = "none" /\ gave_up'[c] = 0
      /\ req'[c] = <<>> /\ resp'[c] = <<>> /\ Len(<<>>) = 0
  BY <1>1 DEF Terminate, Drop, Goto, TypeOK, NoCall, NoOutcome
<1>7. Part(c)'
  <2>1. Consecutive(c)'
    BY <1>6 DEF Consecutive, Numbered, Awaited, Calling
  <2>2. KindsMatch(c)' /\ ContextSaid(c)' /\ UnusedClean(c)'
    BY <1>6 DEF KindsMatch, RequestKinds, AnswerKinds, ContextSaid, SaysContext, UnusedClean
  <2> QED
    BY <1>6, <2>1, <2>2 DEF Part
<1>8. ASSUME NEW d \in Conns, d # c PROVE Part(d)'
  <2>1. /\ pc'[d] = pc[d] /\ sent'[d] = sent[d] /\ out'[d] = out[d] /\ gave_up'[d] = gave_up[d]
        /\ req'[d] = req[d] /\ resp'[d] = resp[d] /\ wrote' = wrote
    BY <1>1, <1>8 DEF Terminate, Drop, Goto, TypeOK
  <2>2. d \in index /\ proc[d] = "serving" => d \in index'
    BY <1>3, <1>8 DEF Terminate
  <2> QED
    BY <1>1, <1>3, <1>8, <2>1, <2>2, OthersKeep
<1> QED
  BY <1>5, <1>7, <1>8, NextParts

LEMMA ConnectKeepsInv ==
    ASSUME IndInv, NEW c \in Conns, Connect(c)
    PROVE  IndInv'
<1>1. TypeOK /\ Part(c) /\ \A d \in Conns : Part(d)
  BY IndInvParts
<1>2. TypeOK'
  BY <1>1 DEF TypeOK, FlagsOK, Connect, node
<1>3. /\ pc[c] = "accept" /\ proc[c] = "starting" /\ proc'[c] = "serving"
      /\ \A d \in Conns : d # c => proc'[d] = proc[d]
  BY <1>1 DEF TypeOK, Connect
<1>4. resp[c] = <<>> /\ Len(<<>>) = 0
  BY <1>1, <1>3 DEF Part, UnusedClean
<1>5. Part(c)'
  <2>1. Consecutive(c)'
    BY <1>1, <1>3 DEF Part, Consecutive, Numbered, Awaited, Connect, node
  <2>2. KindsMatch(c)' /\ ContextSaid(c)' /\ UnusedClean(c)'
    BY <1>1, <1>3, <1>4 DEF Part, KindsMatch, ContextSaid, SaysContext, UnusedClean, Connect, node
  <2> QED
    BY <1>1, <1>3, <2>1, <2>2 DEF Part, Connect, node
<1>6. ASSUME NEW d \in Conns, d # c PROVE Part(d)'
  BY <1>1, <1>3, <1>6, OthersKeep DEF Connect, node
<1> QED
  BY <1>2, <1>5, <1>6, NextParts

LEMMA ExitKeepsInv ==
    ASSUME IndInv, NEW c \in Conns, Exit(c)
    PROVE  IndInv'
<1>1. TypeOK /\ Part(c) /\ \A d \in Conns : Part(d)
  BY IndInvParts
<1>2. TypeOK'
  BY <1>1 DEF TypeOK, FlagsOK, Exit, node
<1>3. /\ proc'[c] = "exited" /\ req'[c] = <<>> /\ Len(<<>>) = 0
      /\ \A d \in Conns : d # c => proc'[d] = proc[d] /\ req'[d] = req[d] /\ (d \in index => d \in index')
  BY <1>1 DEF TypeOK, Exit
<1>4. Part(c)'
  <2>1. /\ UNCHANGED <<pc, sent, gave_up, resp>>
        /\ \A i \in 1..Len(resp[c]) : resp[c][i].id + gave_up[c] + Awaited(c) = sent[c].n + i
    BY <1>1 DEF Part, Consecutive, Numbered, Exit, node
  <2>2. Awaited(c)' = Awaited(c)
    BY <2>1 DEF Awaited
  <2>3. Numbered(resp[c], <<>>, gave_up[c], Awaited(c), sent[c].n, FALSE)
    BY <1>3, <2>1 DEF Numbered
  <2>4. Consecutive(c)'
    BY <1>3, <2>1, <2>2, <2>3 DEF Consecutive
  <2>5. KindsMatch(c)' /\ ContextSaid(c)' /\ UnusedClean(c)'
    BY <1>1, <1>3 DEF Part, KindsMatch, RequestKinds, ContextSaid, UnusedClean, Exit, node
  <2> QED
    BY <1>1, <1>3, <2>4, <2>5 DEF Part, Exit, node
<1>5. ASSUME NEW d \in Conns, d # c PROVE Part(d)'
  BY <1>1, <1>3, <1>5, OthersKeep DEF Exit, node
<1> QED
  BY <1>2, <1>4, <1>5, NextParts

\* The answer of a read-only runner is of the kind its caller expects, when no
\* earlier one is outstanding: a caller that reads the context has one.
LEMMA ProcessAnswers ==
    ASSUME TypeOK, NEW c \in Conns, Part(c), proc[c] = "serving", req[c] # <<>>,
           c \in Readers, gave_up[c] = 0, Head(req[c]).id = sent[c].n, NEW result
    PROVE  Answer(c, Head(req[c]), result).kind = NodeMessage(sent[c].kind)
<1>1. /\ req[c] \in Seq(Request) /\ resp[c] \in Seq(Response) /\ Head(req[c]) = req[c][1]
      /\ 1 \in 1..Len(req[c]) /\ Len(resp[c]) \in Nat /\ Len(req[c]) \in Nat /\ Len(req[c]) > 0
  BY TypesOf
<1>2. Head(req[c]).kind = sent[c].kind
  BY <1>1 DEF Part, KindsMatch, RequestKinds
<1>3. Len(resp[c]) + Len(req[c]) = gave_up[c] + Awaited(c)
  BY DEF Part, Consecutive, Numbered
<1>4. Awaited(c) # 0
  <2>1. \A a, b \in Nat : b > 0 => a + b # 0 + 0
    OBVIOUS
  <2> QED
    BY <1>1, <1>3, <2>1
<1>5. pc[c] \in Calling
  BY <1>4 DEF Awaited
<1>6. sent[c].kind \in ContextGets => c \in index
  BY <1>5 DEF Part, KindsMatch, Calling, ContextGets
<1> QED
  BY <1>2, <1>6 DEF Answer

LEMMA ProcessKeepsInv ==
    ASSUME IndInv, NEW c \in Conns, Process(c)
    PROVE  IndInv'
<1>1. TypeOK /\ Part(c) /\ \A d \in Conns : Part(d)
  BY IndInvParts
<1> DEFINE q == Head(req[c])
<1>2. PICK result \in Results(c, q.kind) :
        /\ req' = [req EXCEPT ![c] = Tail(req[c])]
        /\ resp' = [resp EXCEPT ![c] = Append(resp[c], Answer(c, q, result))]
        /\ proc' = IF q.kind = "Shutdown" THEN [proc EXCEPT ![c] = "exited"] ELSE proc
        /\ index' = IF q.kind = "Shutdown" THEN index \ {c}
                    ELSE IF q.kind = "InitProtocolContext" /\ result = "ok" THEN index \cup {c}
                    ELSE index
        /\ listening' = IF q.kind = "Shutdown" THEN listening \ {c}
                        ELSE IF q.kind = "InitProtocolContextIpcServer" /\ result = "ok"
                             THEN listening \cup {c} ELSE listening
  BY DEF Process
<1>3. /\ proc[c] = "serving" /\ req[c] # <<>>
      /\ UNCHANGED <<pc, sent, out, gave_up, release, wrote>>
  BY DEF Process, node
<1>4. /\ req[c] \in Seq(Request) /\ resp[c] \in Seq(Response) /\ gave_up[c] \in Nat
      /\ sent[c].n \in Nat
  BY <1>1, TypesOf
<1>5. q \in Request
  BY <1>3, <1>4
<1> DEFINE m == Answer(c, q, result)
<1>6. /\ m \in Response /\ m.id = q.id
      /\ m.kind = "InitProtocolContext" /\ m.result = "ok" =>
            q.kind = "InitProtocolContext" /\ result = "ok"
  <2>1. result \in {"ok", "error"}
    BY DEF Results
  <2>2. q.kind \in ProtocolMessage /\ q.id \in Nat
    BY <1>5 DEF Request
  <2>3. NodeMessage("ContextGetKeyFromHistory") = "ContextGetKeyFromHistory"
    BY DEF NodeMessage
  <2>4. "ContextGetKeyFromHistory" \in ProtocolMessage
    BY DEF ProtocolMessage, ContextGets
  <2>5. m.kind \in {NodeMessage(k) : k \in ProtocolMessage}
    BY <2>2, <2>3, <2>4 DEF Answer
  <2>6. NodeMessage(q.kind) = "InitProtocolContext" => q.kind = "InitProtocolContext"
    BY DEF NodeMessage
  <2> HIDE DEF q
  <2>7. m = [kind |-> m.kind, id |-> q.id, result |-> m.result] /\ m.result \in {"ok", "error"}
    BY <2>1 DEF Answer
  <2> QED
    BY <2>1, <2>2, <2>5, <2>6, <2>7 DEF Answer, Response
<1>7. ASSUME c \in Readers, gave_up[c] = 0, m.id = sent[c].n
      PROVE  m.kind = NodeMessage(sent[c].kind)
  BY <1>1, <1>3, <1>6, <1>7, ProcessAnswers
<1> HIDE DEF m
<1>8. /\ Tail(req[c]) \in Seq(Request) /\ Append(resp[c], m) \in Seq(Response)
      /\ \A lives \in BOOLEAN :
            Numbered(Append(resp[c], m), Tail(req[c]), gave_up[c], Awaited(c), sent[c].n, lives)
  <2>1. Numbered(resp[c], req[c], gave_up[c], Awaited(c), sent[c].n, TRUE)
    BY <1>1, <1>3 DEF Part, Consecutive, Numbered
  <2>2. Awaited(c) \in 0..1
    BY DEF Awaited
  <2>3. m \in Response /\ m.id = Head(req[c]).id
    BY <1>6
  <2> QED
    BY <1>3, <1>4, <2>1, <2>2, <2>3, NumberedProcess
<1>9. TypeOK'
  BY <1>1, <1>2, <1>3, <1>8 DEF TypeOK, FlagsOK, m
<1>10. /\ req'[c] = Tail(req[c]) /\ resp'[c] = Append(resp[c], m)
       /\ \A d \in Conns : d # c => /\ req'[d] = req[d] /\ resp'[d] = resp[d] /\ proc'[d] = proc[d]
                                    /\ d \in index => d \in index'
  BY <1>1, <1>2 DEF TypeOK, m
<1>11. Part(c)'
  <2>1. Consecutive(c)'
    <3>1. Awaited(c)' = Awaited(c)
      BY <1>3 DEF Awaited
    <3> QED
      BY <1>3, <1>8, <1>10, <3>1 DEF Consecutive
  <2>2. proc'[c] = "serving" /\ c \in index => c \in index'
    BY <1>1, <1>2 DEF TypeOK
  <2>3. RequestKinds(req[c], sent[c].n, sent[c].kind) =>
            RequestKinds(Tail(req[c]), sent[c].n, sent[c].kind)
    <3>1. /\ Len(Tail(req[c])) = Len(req[c]) - 1 /\ Len(req[c]) \in Nat
          /\ \A i \in 1..Len(req[c]) - 1 : Tail(req[c])[i] = req[c][i + 1]
      BY <1>3, <1>4
    <3> QED
      BY <3>1 DEF RequestKinds
  <2>4. \A i \in 1..Len(Append(resp[c], m)) :
            Append(resp[c], m)[i] = m \/ (i \in 1..Len(resp[c]) /\ Append(resp[c], m)[i] = resp[c][i])
    BY <1>4
  <2>5. KindsMatch(c)'
    BY <1>1, <1>3, <1>7, <1>10, <2>3, <2>4 DEF Part, KindsMatch, AnswerKinds
  <2>6. ContextSaid(c)'
    <3> SUFFICES ASSUME c \in Readers, proc'[c] = "serving", SaysContext(Append(resp[c], m))
                 PROVE  c \in index'
      BY <1>10 DEF ContextSaid
    <3>1. CASE SaysContext(resp[c])
      BY <1>1, <1>3, <2>2, <3>1 DEF Part, ContextSaid
    <3>2. CASE m.kind = "InitProtocolContext" /\ m.result = "ok"
      BY <1>2, <1>6, <3>2
    <3> QED
      BY <2>4, <3>1, <3>2 DEF SaysContext
  <2>7. UnusedClean(c)'
    BY <1>1, <1>3 DEF Part, UnusedClean
  <2> QED
    BY <1>1, <1>3, <2>1, <2>2, <2>5, <2>6, <2>7 DEF Part
<1>12. ASSUME NEW d \in Conns, d # c PROVE Part(d)'
  BY <1>1, <1>3, <1>10, <1>12, OthersKeep
<1> QED
  BY <1>9, <1>11, <1>12, NextParts

----------------------------------------------------------------------------
(* Every step.                                                              *)

LEMMA CallsKeepInv ==
    ASSUME IndInv, NEW c \in Conns, Configure(c) \/ InitContext(c) \/ UserCall(c) \/ Shutdown(c)
    PROVE  IndInv'
<1>1. Part(c)
  BY IndInvParts
<1>2. CASE Configure(c)
  BY <1>2, SendKeepsInv DEF Configure, Calling, Asks, ProtocolMessage
<1>3. CASE InitContext(c)
  BY <1>3, SendKeepsInv DEF InitContext, Calling, Asks, ProtocolMessage
<1>4. CASE UserCall(c)
  <2>1. PICK kind \in Calls[c] : Send(c, kind, "calling")
    BY <1>4 DEF UserCall
  <2>2. kind \in ProtocolMessage
    BY ConnsAssumption
  <2>3. pc[c] = "ready"
    BY <1>4 DEF UserCall
  <2> QED
    BY <1>1, <2>1, <2>2, <2>3, SendKeepsInv DEF Calling, Asks, Part
<1>5. CASE Shutdown(c)
  BY <1>5, SendKeepsInv DEF Shutdown, Calling, Asks, ProtocolMessage
<1> QED
  BY <1>2, <1>3, <1>4, <1>5

LEMMA MovesKeepInv ==
    ASSUME IndInv, NEW c \in Conns,
           \/ Accept(c) \/ AcceptFails(c) \/ WaitForWrite(c) \/ SpuriousWakeup(c) \/ Get(c) \/ Reap(c)
    PROVE  IndInv'
<1>1. Part(c)
  BY IndInvParts
<1>2. CASE Accept(c)
  BY <1>2, MoveKeepsInv DEF Accept, PCs, Calling
<1>3. CASE AcceptFails(c)
  BY <1>3, MoveKeepsInv DEF AcceptFails, PCs, Calling
<1>4. CASE WaitForWrite(c)
  BY <1>4, MoveKeepsInv DEF WaitForWrite, PCs, Calling
<1>5. CASE SpuriousWakeup(c)
  BY <1>5, MoveKeepsInv DEF SpuriousWakeup, PCs, Calling
<1>6. CASE Get(c)
  BY <1>1, <1>6, MoveKeepsInv DEF Get, PCs, Calling, Part
<1>7. CASE Reap(c)
  BY <1>7, MoveKeepsInv DEF Reap, PCs, Calling
<1> QED
  BY <1>2, <1>3, <1>4, <1>5, <1>6, <1>7

LEMMA NextInv == IndInv /\ [Next]_vars => IndInv'
<1> SUFFICES ASSUME IndInv, [Next]_vars PROVE IndInv'
  OBVIOUS
<1>1. CASE Next
  <2>1. PICK c \in Conns :
          \/ Operation(c) \/ Spawn(c) \/ Configure(c) \/ UserCall(c) \/ SpuriousWakeup(c)
          \/ Get(c) \/ PutBack(c) \/ SetReleaseOnReturnToPool(c) \/ Reap(c)
          \/ Connect(c) \/ Process(c) \/ Exit(c)
    BY <1>1, Zenon DEF Next
  <2>2. CASE Operation(c)
    BY <2>2, CallsKeepInv, MovesKeepInv, ReceiveKeepsInv, ReceiveFailsKeepsInv, TerminateKeepsInv, Zenon
       DEF Operation
  <2> QED
    BY <2>1, <2>2, CallsKeepInv, MovesKeepInv, SpawnKeepsInv, PutBackKeepsInv, SetReleaseKeepsInv,
       ConnectKeepsInv, ProcessKeepsInv, ExitKeepsInv, Zenon
<1>2. CASE UNCHANGED vars
  <2>1. TypeOK /\ \A d \in Conns : Part(d)
    BY IndInvParts
  <2>2. TypeOK'
    BY <1>2, <2>1 DEF vars, node, runner, TypeOK, FlagsOK
  <2>3. ASSUME NEW d \in Conns PROVE Part(d)'
    BY <1>2, <2>1, OthersKeep DEF vars, node, runner
  <2> QED
    BY <2>2, <2>3, NextParts
<1> QED
  BY <1>1, <1>2

\* On every connection the answers to come and the requests to be answered are
\* numbered without a gap, whatever times out, crashes or is closed between.
THEOREM IndInvHolds == Spec => []IndInv
  BY InitInv, NextInv, PTL DEF Spec

\* An answer received is that of the request as many before the last one sent
\* as receives have timed out on the connection, for good; and a read-only
\* runner's answer is of an unexpected kind only after a time-out.
THEOREM ShiftIsExact == Spec => []AnswersShifted
<1>1. IndInv => AnswersShifted
  BY DEF IndInv
<1> QED
  BY <1>1, IndInvHolds, PTL

\* A read-only runner in the pool or in the hands of a user has its context.
THEOREM PoolIsInitialised == Spec => []PooledHaveContext
<1>1. IndInv => PooledHaveContext
  BY DEF IndInv
<1> QED
  BY <1>1, IndInvHolds, PTL

\* No thread sleeps on the condition variable once the first write succeeded,
\* whatever wakes it before and whichever writer comes first.
THEOREM NobodyOversleeps == Spec => []NoWaiterForgotten
<1>1. IndInv => NoWaiterForgotten
  BY DEF IndInv
<1> QED
  BY <1>1, IndInvHolds, PTL
=============================================================================
