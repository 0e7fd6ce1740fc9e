------------------------- MODULE MCProtocolService -------------------------
(* Instances of ProtocolService for TLC: one writer and one or two readers. *)
EXTENDS ProtocolService

\* Calls of different kinds, one of which needs the context, and the start of
\* the context server.
SomeCalls == [c \in Conns |-> IF c \in Writers THEN {"InitProtocolContextIpcServer"}
                              ELSE {"HelpersPreapplyBlock", "ContextGetTreeByPrefix"}]

\* A reader gets its context and makes two calls; a writer gets its context
\* and starts the server.
Requests == [c \in Conns |-> IF c \in Readers THEN 4 ELSE 3]
=============================================================================
