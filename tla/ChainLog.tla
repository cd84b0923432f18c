----------------------------- MODULE ChainLog -----------------------------
(***************************************************************************)
(* What the chaining route promises, without handlers, transactions,      *)
(* timeouts or crashes: the authentication service publishes UPPs, and    *)
(* each identity's stored chain is an append-only log.  An entry           *)
(* <<u, p, s>> says that the signature s of a UPP of identity u was        *)
(* stored as u's last signature, p being the signature it was chained to.  *)
(* A signature is appended only after its UPP was published, only once,   *)
(* and always to the current last signature of its identity.              *)
(***************************************************************************)
CONSTANTS
    Uid,        \* the device identities
    Req,        \* the signatures of the UPPs that may be built
    InitSig     \* InitSig[u]: u's last signature at registration

VARIABLES
    tip,        \* tip[u]: u's last stored signature
    log,        \* the set of entries <<u, p, s>> appended so far
    published   \* the UPPs the authentication service stored

logVars == <<tip, log, published>>

\* The signatures that were appended, of any identity.
Appended == {e[3] : e \in log}

Init ==
    /\ tip = InitSig
    /\ log = {}
    /\ published = {}

\* The authentication service stores the UPP with signature s.
Publish(s) ==
    /\ published' = published \cup {s}
    /\ UNCHANGED <<tip, log>>

\* The published signature s becomes the last signature of u, linked to
\* the one it replaces.
Append(u, s) ==
    /\ s \in published
    /\ s \notin Appended
    /\ log' = log \cup {<<u, tip[u], s>>}
    /\ tip' = [tip EXCEPT ![u] = s]
    /\ UNCHANGED published

Next == \E s \in Req : Publish(s) \/ \E u \in Uid : Append(u, s)

Spec == Init /\ [][Next]_logVars
=============================================================================
