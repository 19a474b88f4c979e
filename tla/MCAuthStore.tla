----------------------------- MODULE MCAuthStore -----------------------------
(***************************************************************************)
(* Two threads of one process that apply plans.                            *)
(***************************************************************************)
EXTENDS AuthStore

CONSTANTS w1, w2, t1, t2, p1

OneProcess == [w \in Writers |-> p1]
=============================================================================
