------------------------------ MODULE MCV1Server ------------------------------
(* Two requests on one identity, a channel of one slot so that a handler *)
(* blocks on a full channel, and one restart by the start script.         *)
EXTENDS V1Server

CONSTANTS r1, r2, u1

MCReq == {r1, r2}
MCUid == {u1}
==============================================================================
