------------------------------ MODULE MCTiming ------------------------------
(* Two blocks, actions with and without a key and an irmin time, times at  *)
(* the bounds of the ranges.                                               *)
EXTENDS Timing, TLC

MCActions == {[kind |-> "add", root |-> "data", tezedge |-> 1, irmin |-> 0 - 1],
              [kind |-> "mem", root |-> "", tezedge |-> 3, irmin |-> 0]}
MCCommits == {[tezedge |-> 10, irmin |-> 0]}

MCMaxMessages == [InitTiming |-> 2, SetBlock |-> 4, SetOperation |-> 1, Checkout |-> 1,
                  Commit |-> 2, Action |-> 1]

BlockSymmetry == Permutations(Blocks)
=============================================================================
