-------------------------- MODULE MCChainerQueue ---------------------------
(* Instance of ChainerQueue for TLC: three chained requests, a buffer of   *)
(* one: one request in the chainer, one buffered, one blocked on the send. *)
EXTENDS ChainerQueue

CONSTANTS r1, r2, r3

MCReq == {r1, r2, r3}
=============================================================================
