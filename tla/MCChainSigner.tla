--------------------------- MODULE MCChainSigner ---------------------------
(* Instance of ChainSigner for TLC: three requests, two identities.        *)
EXTENDS ChainSigner, TLC

CONSTANTS r1, r2, r3, u1, u2

MCReq == {r1, r2, r3}
MCUid == {u1, u2}

\* u1 is registered with the genesis signature; u2's stored signature is
\* corrupt (zero-length), so every chained request of u2 takes the error
\* path inside the transaction.
MCInitSig == (u1 :> Zero) @@ (u2 :> Empty)

\* The smallest instance of a fork: two requests of one identity.
MCReq2 == {r1, r2}
MCUid1 == {u1}
MCInitSig1 == u1 :> Zero

=============================================================================
