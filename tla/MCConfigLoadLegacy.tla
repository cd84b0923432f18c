------------------------- MODULE MCConfigLoadLegacy -------------------------
(* Inputs for the legacy Config.Load: with and without devices, every     *)
(* secret shape, an empty, a valid, an unknown and a dotted Env, and a    *)
(* Niomon URL that is unset, the demo stage's, a host without dots and an *)
(* IP address; a configured key URL or none.                              *)
EXTENDS ConfigLoadLegacy

MCSourceContents ==
    {[devices |-> dv, secret |-> s, env |-> e, niomon |-> n,
      keyService |-> k, verify |-> NoURL] :
        dv \in BOOLEAN,
        s \in Secret,
        e \in {<<"">>, <<"dev">>, <<"bogus">>, <<"dev", "x">>},
        n \in {NoURL, NiomonURL(<<"demo">>), <<"http://localhost:8080/">>,
               <<"http://10", "0", "0", "1:8080/">>},
        k \in {NoURL, KeyURL(<<"dev">>)}}
=============================================================================
