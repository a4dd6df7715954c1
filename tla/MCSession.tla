----------------------------- MODULE MCSession ------------------------------
(* Session with one request of the control plane. *)
EXTENDS Session

CONSTANTS q1, noValue

OneRequest == {q1}
=============================================================================
