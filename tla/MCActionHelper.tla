--------------------------- MODULE MCActionHelper ---------------------------
(* ActionHelper on a small host: one unit, two operations, three connections. *)
EXTENDS ActionHelper, TLC

CONSTANTS c1, c2, c3, o1, o2, u1, noValue, anyInvocation

TwoConn == {c1, c2}
ThreeConn == {c1, c2, c3}
MCOp   == {o1, o2}
MCUnit == {u1}

First  == [op |-> o1, unit |-> u1, active |-> "active", inv |-> anyInvocation]
Reused == [op |-> o1, unit |-> u1, active |-> "inactive", inv |-> anyInvocation]
Second == [op |-> o2, unit |-> u1, active |-> "active", inv |-> 0]

\* Duplicates and retries of o1 around o2; or o1 reused with other arguments.
RetryBody == {First, Second}
ReuseBody == {First, Reused}

Symmetry == Permutations(ThreeConn)
=============================================================================
