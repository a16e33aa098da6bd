------------------------- MODULE MCExecutionObserver ------------------------
(* ExecutionObserver for TLC: a small block tree with two forks, a head that *)
(* claims a known parent and a number that does not follow, and a head whose *)
(* number is where the successor of the greatest block number wraps to.      *)
EXTENDS ExecutionObserver

Block(n, h, p) == [number |-> n, hash |-> h, parent |-> p]

MCNodeHeads ==
    { Block(0, "a", "g"), Block(1, "b", "a"), Block(2, "c", "b"),
      Block(1, "d", "a"), Block(2, "e", "d"), Block(3, "f", "b"),
      Block(0, "w", "f"), Block(3, "x", "c") }
=============================================================================
