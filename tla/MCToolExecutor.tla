--------------------------- MODULE MCToolExecutor ---------------------------
(* ToolExecutor with one slot per gate, short queues and a few sessions. *)
EXTENDS ToolExecutor, TLC

CONSTANTS r1, r2, w1, w2, w3, noValue

TwoReads    == {r1, r2}
TwoWrites   == {w1, w2}
ThreeWrites == {w1, w2, w3}

MixedSymmetry == Permutations(TwoReads) \cup Permutations(TwoWrites)
=============================================================================
