---------------------------- MODULE MCWorkingTree ----------------------------
(* A small instance of WorkingTree: one value, two names, paths of length two. *)
EXTENDS WorkingTree

MCNames == <<1, 2>>
MCKeys == {<<>>, <<1>>, <<1, 2>>}
MCContexts == [p \in {"writer", "reader"} |-> IF p = "writer" THEN {"wc"} ELSE {"rc"}]
MCTrees == [p \in {"writer", "reader"} |-> IF p = "writer" THEN {"wt"} ELSE {}]
=============================================================================
