---------------------------- MODULE MCConfigLoad ----------------------------
(* Small inputs for ConfigLoad: two devices, two tokens, and file contents *)
(* chosen so that every branch of Load is taken: configurations with and   *)
(* without devices, keys, a valid secret and a valid stage; auth maps with *)
(* a well-formed and a short entry; identity lists that add a device,      *)
(* override a device and repeat a uuid.                                    *)
EXTENDS ConfigLoad, TLC

CONSTANTS d1, d2, t1, t2

MCDevice == {d1, d2}
MCToken == {t1, t2}

MCSourceContents ==
    {[devices |-> dv, keys |-> k, secret |-> s, staticKeys |-> st, env |-> e] :
        dv \in {[d \in {} |-> t1], d1 :> t1},
        k \in {{}, {d2}},
        s \in {"bad", "b16", "b12"},
        st \in BOOLEAN,
        e \in {"", "bogus"}}

MCAuthContents ==
    {[d \in {} |-> <<>>], d1 :> <<"key", t1>>, d2 :> <<"key", t1>>,
     d1 :> <<"key">>}

MCIdentityContents ==
    {<<>>,
     <<[uuid |-> d1, password |-> t2]>>,
     <<[uuid |-> d2, password |-> Blank]>>,
     <<[uuid |-> d1, password |-> t1], [uuid |-> d1, password |-> t2]>>}
=============================================================================
