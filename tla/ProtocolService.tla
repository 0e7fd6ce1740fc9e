-------------------------- MODULE ProtocolService --------------------------
(***************************************************************************)
(* Protocol runners and the node that uses them (tezos/wrapper).            *)
(*                                                                          *)
(* A connection is a controller in the node, a runner sub-process and an    *)
(* IPC channel each way (service.rs, runner.rs).  Connections to read-only  *)
(* runners live in a pool (pool.rs); a call takes one out and puts it back. *)
(* A call sends a request and receives one message, or gives up after a     *)
(* time-out; the runner goes on and answers nevertheless.  Read-only        *)
(* runners read the context of a writer over IPC (readonly_ipc.rs).         *)
(*                                                                          *)
(* A request is its kind and its number on the connection; an answer has    *)
(* the number of the request it answers, which the program does not.        *)
(***************************************************************************)
EXTENDS Naturals, Sequences, FiniteSets

CONSTANTS
    Writers, Readers,   \* connections; those of Readers are pooled
    Calls,              \* per connection, the kinds of requests its users make
    MaxRequests         \* bound: requests of each connection but the last

Conns == Writers \cup Readers

VARIABLES
    pc,         \* where the thread is that holds the connection, or who holds it
    sent,       \* the number of requests sent and the kind of the last
    out,        \* the outcome of a call, while its caller has the connection
    req, resp,  \* the IPC channels
    gave_up,    \* number of receives that timed out
    release,    \* ProtocolRunnerConnection::release_on_return_to_pool
    proc,       \* the sub-process
    index,      \* sub-processes with a context index
    listening,  \* sub-processes with a context IPC server
    wrote       \* AT_LEAST_ONE_WRITE_PROTOCOL_CONTEXT_WAS_SUCCESS_AT_FIRST_LOCK

node == <<pc, sent, out, gave_up, release, wrote>>
runner == <<proc, index, listening>>
vars == <<node, req, resp, runner>>

\* The requests of ProtocolController's methods.  Computed ones are answered
\* by the OCaml runtime, context gets by the context index of the runner.
BlockCalls == {"ApplyBlock", "AssertEncodingForProtocolData", "BeginApplication",
               "BeginConstruction", "ValidateOperation"}
HelperCalls == {"ComputePath", "JsonEncodeApplyBlockResultMetadata",
                "JsonEncodeApplyBlockOperationsMetadata", "ProtocolRpc",
                "HelpersPreapplyOperations", "HelpersPreapplyBlock"}
GenesisCalls == {"GenesisResultData"}
ContextGets == {"ContextGetKeyFromHistory", "ContextGetKeyValuesByPrefix", "ContextGetTreeByPrefix"}

ProtocolMessage == BlockCalls \cup HelperCalls \cup GenesisCalls \cup ContextGets \cup
    {"ChangeRuntimeConfiguration", "InitProtocolContext", "InitProtocolContextIpcServer", "Shutdown"}

\* The kind of NodeMessage a caller waits for; most are named like the call.
NodeMessage(kind) ==
    IF kind \in {"HelpersPreapplyOperations", "HelpersPreapplyBlock"} THEN "HelpersPreapply" ELSE kind

\* Outcomes of a call: a result, a ProtocolError, UnexpectedMessage, IpcError.
Outcomes == {"ok", "error", "unexpected", "ipc"}

Calling == {"configuring", "initing", "calling", "stopping"}
PCs == Calling \cup {"none", "accept", "acquired", "init", "waiting", "woken", "idle", "ready",
                     "stop", "terminate", "closed"}

ASSUME ConnsAssumption ==
    /\ Writers \cap Readers = {} /\ Calls \in [Conns -> SUBSET ProtocolMessage]
    /\ MaxRequests \in [Conns -> Nat]

NoCall == [kind |-> "none", n |-> 0]
NoOutcome == [result |-> "none", id |-> 0]

Init ==
    /\ pc = [c \in Conns |-> "none"] /\ proc = [c \in Conns |-> "none"]
    /\ sent = [c \in Conns |-> NoCall] /\ out = [c \in Conns |-> NoOutcome]
    /\ gave_up = [c \in Conns |-> 0]
    /\ req = [c \in Conns |-> <<>>] /\ resp = [c \in Conns |-> <<>>]
    /\ release = [c \in Conns |-> FALSE]
    /\ index = {} /\ listening = {} /\ wrote = FALSE

Goto(c, l) == pc' = [pc EXCEPT ![c] = l]

(***************************************************************************)
(* Creating a connection: ProtocolRunnerManager::create_connection.         *)
(***************************************************************************)
Spawn(c) ==
    /\ pc[c] = "none" \/ (pc[c] = "closed" /\ proc[c] = "exited")
    /\ Goto(c, "accept")
    /\ proc' = [proc EXCEPT ![c] = "starting"]
    /\ UNCHANGED <<sent, out, gave_up, release, wrote, req, resp, index, listening>>

\* The customizer of the pool then initialises a read-only runner.
Accept(c) ==
    /\ pc[c] = "accept" /\ proc[c] = "serving"
    /\ Goto(c, IF c \in Readers THEN "acquired" ELSE "idle")
    /\ UNCHANGED <<sent, out, gave_up, release, wrote, req, resp, runner>>

AcceptFails(c) ==
    /\ pc[c] = "accept" /\ proc[c] # "serving"
    /\ Goto(c, "terminate")
    /\ UNCHANGED <<sent, out, gave_up, release, wrote, req, resp, runner>>

(***************************************************************************)
(* Calls of ProtocolController.                                             *)
(***************************************************************************)

\* Mutant: on_acquire hands out a runner it could not initialise.
FailedIgnored(c) == IF c \in Readers THEN "idle" ELSE "ready"

\* An initialisation failed: on_acquire gives up the runner, a writer's user
\* gets the error.
Failed(c) == IF c \in Readers THEN "stop" ELSE "ready"

\* Where the code goes on after the call it is in, l, ended with a result.
After(c, l, result) ==
    CASE l = "configuring" -> IF result = "ok" THEN "init" ELSE Failed(c)
      [] l = "initing"     -> IF result # "ok" THEN Failed(c)
                              ELSE IF c \in Readers THEN "idle" ELSE "ready"
      [] l = "calling"     -> "ready"
      [] l = "stopping"    -> "terminate"

\* io.tx.send, then wait at l; it fails when the sub-process is gone.
Send(c, kind, l) ==
    /\ UNCHANGED <<gave_up, release, wrote, resp, runner>>
    /\ \/ /\ proc[c] = "serving"
          /\ Goto(c, l)
          /\ sent' = [sent EXCEPT ![c] = [kind |-> kind, n |-> @.n + 1]]
          /\ req' = [req EXCEPT ![c] = Append(@, [kind |-> kind, id |-> sent[c].n + 1])]
          /\ out' = [out EXCEPT ![c] = NoOutcome]
       \/ /\ proc[c] # "serving"
          /\ Goto(c, After(c, l, "ipc"))
          /\ out' = [out EXCEPT ![c] = [result |-> "ipc", id |-> 0]]
          /\ UNCHANGED <<sent, req>>

\* init_protocol_for_read, and init_protocol_for_write, which is the first
\* call of a writer's user (bound: and not made again on that connection).
Configure(c) ==
    /\ pc[c] = "acquired" \/ (pc[c] = "ready" /\ c \in Writers /\ sent[c].n = 0)
    /\ Send(c, "ChangeRuntimeConfiguration", "configuring")

InitContext(c) ==
    /\ pc[c] = "woken" \/ (pc[c] = "init" /\ (wrote \/ c \in Writers))
    /\ Send(c, "InitProtocolContext", "initing")

\* cvar.wait, called with the lock held under which the flag was found unset.
WaitForWrite(c) ==
    /\ pc[c] = "init" /\ c \in Readers /\ ~wrote
    /\ Goto(c, "waiting")
    /\ UNCHANGED <<sent, out, gave_up, release, wrote, req, resp, runner>>

\* Condvar::wait may return without a notification; the flag is not looked at.
SpuriousWakeup(c) ==
    /\ pc[c] = "waiting"
    /\ Goto(c, "woken")
    /\ UNCHANGED <<sent, out, gave_up, release, wrote, req, resp, runner>>

\* A user of the connection; the context server comes after the context.
UserCall(c) ==
    /\ pc[c] = "ready" /\ sent[c].n \in 1..(MaxRequests[c] - 1)
    /\ \E kind \in Calls[c] :
          /\ kind = "InitProtocolContextIpcServer" =>
                sent[c].kind = "InitProtocolContext" /\ out[c].result = "ok"
          /\ Send(c, kind, "calling")

\* Mutant: the waiting threads are not notified.
WakeNobody(c, l) == Goto(c, l)

\* notify_all, and the thread itself goes on at l.
WakeAll(c, l) ==
    pc' = [d \in Conns |-> IF d = c THEN l ELSE IF pc[d] = "waiting" THEN "woken" ELSE pc[d]]

\* A message of another kind than the caller waits for is UnexpectedMessage.
Result(kind, message) ==
    IF message.kind = NodeMessage(kind) THEN message.result ELSE "unexpected"

\* io.rx.try_receive has a message.
Receive(c) ==
    LET result == Result(sent[c].kind, Head(resp[c]))
        writes == pc[c] = "initing" /\ c \in Writers /\ result = "ok" /\ ~wrote
    IN  /\ pc[c] \in Calling /\ resp[c] # <<>>
        /\ out' = [out EXCEPT ![c] = [result |-> result, id |-> Head(resp[c]).id]]
        /\ resp' = [resp EXCEPT ![c] = Tail(@)]
        /\ IF writes THEN WakeAll(c, After(c, pc[c], result)) ELSE Goto(c, After(c, pc[c], result))
        /\ wrote' = (wrote \/ writes)
        /\ UNCHANGED <<sent, gave_up, release, req, runner>>

\* Mutant: a time-out takes the late answer off the channel as well.
ReceiveFailsOnce(c) ==
    /\ pc[c] \in Calling /\ resp[c] = <<>>
    /\ req' = [req EXCEPT ![c] = <<>>]
    /\ gave_up' = [gave_up EXCEPT ![c] = @ + 1]
    /\ out' = [out EXCEPT ![c] = [result |-> "ipc", id |-> 0]]
    /\ Goto(c, After(c, pc[c], "ipc"))
    /\ UNCHANGED <<sent, release, wrote, resp, runner>>

\* io.rx.try_receive fails: the time is over, or the sub-process is gone.
ReceiveFails(c) ==
    /\ pc[c] \in Calling /\ resp[c] = <<>>
    /\ gave_up' = [gave_up EXCEPT ![c] = @ + 1]
    /\ out' = [out EXCEPT ![c] = [result |-> "ipc", id |-> 0]]
    /\ Goto(c, After(c, pc[c], "ipc"))
    /\ UNCHANGED <<sent, release, wrote, req, resp, runner>>

(***************************************************************************)
(* The pool, and the end of a connection.                                   *)
(***************************************************************************)
Get(c) ==
    /\ pc[c] = "idle"
    /\ Goto(c, "ready")
    /\ UNCHANGED <<sent, out, gave_up, release, wrote, req, resp, runner>>

SetReleaseOnReturnToPool(c) ==
    /\ pc[c] = "ready" /\ ~release[c]
    /\ release' = [release EXCEPT ![c] = TRUE]
    /\ UNCHANGED <<pc, sent, out, gave_up, wrote, req, resp, runner>>

HasBroken(c) == release[c] \/ proc[c] = "exited"

PutBack(c) ==
    /\ pc[c] = "ready"
    /\ Goto(c, IF HasBroken(c) THEN "stop" ELSE "idle")
    /\ out' = [out EXCEPT ![c] = NoOutcome]
    /\ UNCHANGED <<sent, gave_up, release, wrote, req, resp, runner>>

\* idle_timeout or max_lifetime is over.
Reap(c) ==
    /\ pc[c] = "idle"
    /\ Goto(c, "stop")
    /\ UNCHANGED <<sent, out, gave_up, release, wrote, req, resp, runner>>

\* terminate_subprocess: shutdown, then wait_and_terminate_ref.
Shutdown(c) ==
    /\ pc[c] = "stop"
    /\ Send(c, "Shutdown", "stopping")

\* The connection is dropped, and its channels with it.
Drop(c) ==
    /\ Goto(c, "closed")
    /\ sent' = [sent EXCEPT ![c] = NoCall] /\ out' = [out EXCEPT ![c] = NoOutcome]
    /\ gave_up' = [gave_up EXCEPT ![c] = 0] /\ release' = [release EXCEPT ![c] = FALSE]
    /\ req' = [req EXCEPT ![c] = <<>>] /\ resp' = [resp EXCEPT ![c] = <<>>]

\* Mutant: the connection waits for a sub-process that does not end.
TerminateWaits(c) ==
    /\ pc[c] = "terminate" /\ proc[c] = "exited"
    /\ Drop(c)
    /\ UNCHANGED <<runner, wrote>>

\* The sub-process has ended, or is sent SIGINT, or killed when that fails,
\* or left alone when that fails too.  Then the connection is dropped.
Terminate(c) ==
    /\ pc[c] = "terminate"
    /\ Drop(c)
    /\ \/ proc' = proc
       \/ proc[c] # "exited" /\ \E p \in {"signalled", "exited"} : proc' = [proc EXCEPT ![c] = p]
    /\ index' = {d \in index : proc'[d] # "exited"}
    /\ listening' = {d \in listening : proc'[d] # "exited"}
    /\ UNCHANGED wrote

(***************************************************************************)
(* The sub-process.                                                         *)
(***************************************************************************)
Connect(c) ==
    /\ proc[c] = "starting" /\ pc[c] = "accept"
    /\ proc' = [proc EXCEPT ![c] = "serving"]
    /\ UNCHANGED <<node, req, resp, index, listening>>

\* It crashes, or ends at SIGINT or when the node's end is closed.
Exit(c) ==
    /\ proc[c] \notin {"none", "exited"}
    /\ proc' = [proc EXCEPT ![c] = "exited"]
    /\ index' = index \ {c} /\ listening' = listening \ {c}
    /\ req' = [req EXCEPT ![c] = <<>>]
    /\ UNCHANGED <<node, resp>>

\* ReadonlyIpcBackend finds a server of the writer's context.
ContextServed == \E w \in Writers : proc[w] = "serving" /\ w \in listening

\* The results an answer may have.  Whether a user's call succeeds matters to
\* nobody but the user, and "ok" stands for either.
Results(c, kind) ==
    CASE kind = "ChangeRuntimeConfiguration" -> {"ok", "error"}
      [] kind = "InitProtocolContext" ->
             IF c \in Writers \/ ContextServed THEN {"ok", "error"} ELSE {"error"}
      [] kind = "InitProtocolContextIpcServer" ->
             IF c \in listening THEN {"error"} ELSE {"ok", "error"}
      [] OTHER -> {"ok"}

\* The answer without a context index has the kind of the first of the three.
Answer(c, request, result) ==
    IF request.kind \in ContextGets /\ c \notin index
    THEN [kind |-> "ContextGetKeyFromHistory", id |-> request.id, result |-> "error"]
    ELSE [kind |-> NodeMessage(request.kind), id |-> request.id, result |-> result]

\* process_protocol_commands: one command.
Process(c) ==
    /\ proc[c] = "serving" /\ req[c] # <<>> /\ pc[c] # "closed"
    /\ \E result \in Results(c, Head(req[c]).kind) :
        LET kind == Head(req[c]).kind
        IN  /\ req' = [req EXCEPT ![c] = Tail(@)]
            /\ resp' = [resp EXCEPT ![c] = Append(@, Answer(c, Head(req[c]), result))]
            /\ proc' = IF kind = "Shutdown" THEN [proc EXCEPT ![c] = "exited"] ELSE proc
            /\ index' = IF kind = "Shutdown" THEN index \ {c}
                        ELSE IF kind = "InitProtocolContext" /\ result = "ok" THEN index \cup {c}
                        ELSE index
            /\ listening' = IF kind = "Shutdown" THEN listening \ {c}
                            ELSE IF kind = "InitProtocolContextIpcServer" /\ result = "ok"
                                 THEN listening \cup {c} ELSE listening
    /\ UNCHANGED node

(***************************************************************************)
(* The specification.  A thread inside an operation goes on and its timers  *)
(* run out.  Of a runner nothing is assumed: it need not answer, nor end    *)
(* when it is told to, since terminate_or_kill only sends a signal.         *)
(***************************************************************************)
Operation(c) ==
    \/ Accept(c) \/ AcceptFails(c) \/ (pc[c] = "acquired" /\ Configure(c))
    \/ InitContext(c) \/ WaitForWrite(c) \/ Receive(c) \/ ReceiveFails(c)
    \/ Shutdown(c) \/ Terminate(c)

Next == \E c \in Conns :
    \/ Operation(c) \/ Spawn(c) \/ Configure(c) \/ UserCall(c) \/ SpuriousWakeup(c)
    \/ Get(c) \/ PutBack(c) \/ SetReleaseOnReturnToPool(c) \/ Reap(c)
    \/ Connect(c) \/ Process(c) \/ Exit(c)

Spec == Init /\ [][Next]_vars
FairSpec == Spec /\ \A c \in Conns : WF_vars(Operation(c))

(***************************************************************************)
(* Properties.                                                              *)
(***************************************************************************)
Request == [kind : ProtocolMessage, id : Nat]
Response == [kind : {NodeMessage(k) : k \in ProtocolMessage}, id : Nat, result : {"ok", "error"}]
FlagsOK == release \in [Conns -> BOOLEAN] /\ wrote \in BOOLEAN

\* Places, outcomes, messages and sub-processes are of their kinds.
TypeOK ==
    /\ pc \in [Conns -> PCs]
    /\ sent \in [Conns -> [kind : ProtocolMessage \cup {"none"}, n : Nat]]
    /\ out \in [Conns -> [result : Outcomes \cup {"none"}, id : Nat]]
    /\ gave_up \in [Conns -> Nat]
    /\ req \in [Conns -> Seq(Request)] /\ resp \in [Conns -> Seq(Response)]
    /\ FlagsOK
    /\ proc \in [Conns -> {"none", "starting", "serving", "signalled", "exited"}]
    /\ index \subseteq Conns /\ listening \subseteq Conns

\* A call that timed out shifts every later answer on its connection by one:
\* the answer to be received next is that of the request so many before the
\* current one as receives have failed.  Nothing ever brings them in step again.
\* Only for such a shift is an answer of a read-only runner of another kind
\* than its caller expects.
AnswersShifted ==
    /\ \A c \in Conns : out[c].result \in {"ok", "error", "unexpected"}
                          => out[c].id + gave_up[c] = sent[c].n
    /\ \A c \in Readers : out[c].result = "unexpected" => gave_up[c] > 0

\* A read-only runner that the pool gives out has a context, while it runs.
PooledHaveContext ==
    \A c \in Readers : pc[c] \in {"idle", "ready", "calling"} /\ proc[c] = "serving" => c \in index

\* Nobody waits for a write that has happened.
NoWaiterForgotten == \A c \in Conns : pc[c] = "waiting" => ~wrote

\* Every operation of the pool on a read-only runner ends with a connection
\* that can be used or is gone, unless it waits for the first write.
OperationsEnd ==
    \A c \in Readers : pc[c] \notin {"none", "waiting"} ~> pc[c] \in {"idle", "ready", "waiting", "closed"}

(***************************************************************************)
(* The inductive invariant behind the three invariants above.               *)
(***************************************************************************)

\* An answer is awaited.
Awaited(c) == IF pc[c] \in Calling THEN 1 ELSE 0

\* Nothing was sent on a connection that is not in use yet, or no longer.
UnusedClean(c) ==
    pc[c] \in {"none", "closed", "accept"} =>
        sent[c].n = 0 /\ gave_up[c] = 0 /\ req[c] = <<>> /\ resp[c] = <<>>

\* The answers to be received and the requests to be answered are numbered
\* consecutively, up to the n-th.  While the runner lives they are as many as
\* were given up, and the one that is awaited.
Numbered(answers, requests, given_up, awaited, n, lives) ==
    /\ \A i \in 1..Len(answers) : answers[i].id + given_up + awaited = n + i
    /\ \A j \in 1..Len(requests) : requests[j].id + given_up + awaited = n + Len(answers) + j
    /\ lives => Len(answers) + Len(requests) = given_up + awaited

Consecutive(c) ==
    Numbered(resp[c], req[c], gave_up[c], Awaited(c), sent[c].n, proc[c] # "exited")

\* The n-th request has the kind its caller expects, and so has its answer.
RequestKinds(requests, n, kind) ==
    \A j \in 1..Len(requests) : requests[j].id = n => requests[j].kind = kind
AnswerKinds(answers, n, kind) ==
    \A i \in 1..Len(answers) : answers[i].id = n => answers[i].kind = NodeMessage(kind)

\* The last request is of the kind its caller expects, and so is its answer if
\* a read-only runner gives it and nothing was given up before.
KindsMatch(c) ==
    /\ pc[c] = "configuring" => sent[c].kind = "ChangeRuntimeConfiguration"
    /\ pc[c] = "initing" => sent[c].kind = "InitProtocolContext"
    /\ pc[c] = "stopping" => sent[c].kind = "Shutdown"
    /\ RequestKinds(req[c], sent[c].n, sent[c].kind)
    /\ c \in Readers /\ gave_up[c] = 0 => AnswerKinds(resp[c], sent[c].n, sent[c].kind)

\* A read-only runner that said it has a context has one.
SaysContext(answers) ==
    \E i \in 1..Len(answers) :
        answers[i].kind = "InitProtocolContext" /\ answers[i].result = "ok"
ContextSaid(c) ==
    c \in Readers /\ proc[c] = "serving" /\ SaysContext(resp[c]) => c \in index

IndInv ==
    /\ TypeOK /\ AnswersShifted /\ PooledHaveContext /\ NoWaiterForgotten
    /\ \A c \in Conns : UnusedClean(c) /\ Consecutive(c) /\ KindsMatch(c) /\ ContextSaid(c)
=============================================================================
