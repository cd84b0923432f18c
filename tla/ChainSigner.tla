---------------------------- MODULE ChainSigner ----------------------------
(***************************************************************************)
(* The signing core of the UBIRCH client: HTTP requests on the chaining    *)
(* route POST /{uuid} and on the update route POST /{uuid}/{operation}.    *)
(*                                                                         *)
(* A chained request runs, inside the per-identity transaction of the      *)
(* context manager (StartTransaction / EndTransaction), the steps          *)
(*   read the chain tip (GetSignature) -> build and sign a chained UPP     *)
(*   (GetChainedUPP) -> send it to the authentication service (SendUPP)    *)
(*   -> commit the new tip iff the backend answered 2xx (SetSignature)     *)
(* An update request builds a signed UPP and sends it, outside any lock.   *)
(*                                                                         *)
(* Data is abstracted: the signature of the UPP built for request r is     *)
(* the model value r itself (ECDSA signatures of distinct UPPs differ),    *)
(* Zero stands for the 64 zero bytes of a genesis previous-signature and   *)
(* Empty for a zero-length stored signature.  The backend is the set of    *)
(* UPPs it stored; its answer may be lost to a timeout or a network        *)
(* error after it stored the UPP.  The process may crash and is restarted  *)
(* by the start script; the stored tip survives, the transactions of the   *)
(* crashed process are rolled back.                                        *)
(***************************************************************************)
EXTENDS Naturals, FiniteSets

CONSTANTS
    Req,        \* the HTTP requests of a behaviour
    Uid,        \* the registered device identities
    Zero,       \* 64 zero bytes: the previous-signature of a genesis UPP
    Empty,      \* a zero-length signature
    InitSig,    \* InitSig[u]: the signature u is stored with at registration
    None,       \* no value (no lock holder, no UPP built yet)
    MaxCrash    \* bound on the number of process crashes

\* Every value a stored or a previous signature can take.
Sig == {Zero, Empty} \cup Req

ASSUME ConstAssumption ==
    /\ Zero # Empty
    /\ {Zero, Empty, None} \cap (Req \cup Uid) = {}
    /\ None \notin {Zero, Empty}
    /\ InitSig \in [Uid -> {Zero, Empty}]
    /\ MaxCrash \in Nat

\* HTTP status codes the authentication service answers with (2xx, 4xx, 5xx).
BackendCode == {200, 400, 500}

\* What becomes of the backend's answer: delivered, or lost after the
\* backend handled the request (client timeout, connection error, the
\* caller cancelling the request context).
Fate == {"delivered", "timeout", "neterr"}

\* Codes a request is rejected with before any UPP is built:
\* 404 malformed UUID or unknown operation, 500 GetAuthToken failed
\* (unknown UUID), 401 wrong X-Auth-Token, 400 no valid hash in the body.
RejectCode == {400, 401, 404, 500}

PC == {"idle", "waitLock", "locked", "sending", "ending", "signing", "done"}

VARIABLES
    pc,         \* pc[r]: where the handler goroutine of request r is
    uid,        \* uid[r]: the identity r was authenticated for
    prev,       \* prev[r]: the previous-signature in r's chained UPP
    code,       \* code[r]: the status SendUPP derived from the backend
    resp,       \* resp[r]: the status r was answered with (0: none)
    lock,       \* lock[u]: the request holding u's transaction
    tip,        \* tip[u]: the stored signature of u (the chain tip)
    accepted,   \* requests whose UPP the backend stored
    committed,  \* requests whose signature was stored as the chain tip
    crashes     \* number of crashes so far

vars == <<pc, uid, prev, code, resp, lock, tip, accepted, committed, crashes>>

TypeOK ==
    /\ pc \in [Req -> PC]
    /\ uid \in [Req -> Uid \cup {None}]
    /\ prev \in [Req -> Sig \cup {None}]
    /\ code \in [Req -> BackendCode \cup {0, 504}]
    /\ resp \in [Req -> BackendCode \cup RejectCode \cup {0, 504}]
    /\ lock \in [Uid -> Req \cup {None}]
    /\ tip \in [Uid -> Sig]
    /\ accepted \subseteq Req
    /\ committed \subseteq Req
    /\ crashes \in 0..MaxCrash

Init ==
    /\ pc = [r \in Req |-> "idle"]
    /\ uid = [r \in Req |-> None]
    /\ prev = [r \in Req |-> None]
    /\ code = [r \in Req |-> 0]
    /\ resp = [r \in Req |-> 0]
    /\ lock = [u \in Uid |-> None]
    /\ tip = InitSig
    /\ accepted = {}
    /\ committed = {}
    /\ crashes = 0

\* checkSignatureLen: a stored signature must be 64 bytes long.
ValidSignatureLen(s) == s # Empty

\* Mutant of SendUPPCode: a failed connection reported as 502.
SendUPPCodeBadGateway(v, f) ==
    CASE f = "delivered" -> v
      [] f = "timeout"   -> 504
      [] f = "neterr"    -> 502

\* The status SendUPP answers with: the backend's status when its answer
\* arrived, 504 on a timeout, 500 on any other error.
SendUPPCode(v, f) ==
    CASE f = "delivered" -> v
      [] f = "timeout"   -> 504
      [] f = "neterr"    -> 500

\* The backend stores a UPP exactly when it answers 2xx.
BackendStores(r, v) ==
    accepted' = IF v = 200 THEN accepted \cup {r} ELSE accepted

\* Request r leaves its handler with status c.
Answer(r, c) ==
    /\ pc' = [pc EXCEPT ![r] = "done"]
    /\ resp' = [resp EXCEPT ![r] = c]

-----------------------------------------------------------------------------
(* Mutants: each is a plausible bug in the operation it replaces, used to  *)
(* confirm that a property can detect that bug.                            *)

\* StartTransaction that does not serialize (a plain read instead of
\* SELECT ... FOR UPDATE): the transaction is taken while another holds it.
StartTransactionNoWait(r) ==
    /\ pc[r] = "waitLock"
    /\ lock' = [lock EXCEPT ![uid[r]] = r]
    /\ pc' = [pc EXCEPT ![r] = "locked"]
    /\ UNCHANGED <<uid, prev, code, resp, tip, accepted, committed, crashes>>

\* GetSignature error path that returns without EndTransaction.
SignChainedNoReleaseOnError(r) ==
    /\ pc[r] = "locked"
    /\ \/ /\ ValidSignatureLen(tip[uid[r]])
          /\ prev' = [prev EXCEPT ![r] = tip[uid[r]]]
          /\ pc' = [pc EXCEPT ![r] = "sending"]
          /\ UNCHANGED resp
       \/ /\ ~ValidSignatureLen(tip[uid[r]])
          /\ Answer(r, 500)
          /\ UNCHANGED prev
    /\ UNCHANGED <<uid, code, lock, tip, accepted, committed, crashes>>

\* success taken as "SendUPP returned no error": every delivered backend
\* answer, 4xx and 5xx included, commits the tip.
EndTransactionCommitOnAnyAnswer(r) ==
    /\ pc[r] = "ending"
    /\ lock' = [lock EXCEPT ![uid[r]] = None]
    /\ \/ /\ code[r] \in BackendCode
          /\ tip' = [tip EXCEPT ![uid[r]] = r]
          /\ committed' = committed \cup {r}
          /\ Answer(r, code[r])
       \/ /\ code[r] \notin BackendCode
          /\ Answer(r, code[r])
          /\ UNCHANGED <<tip, committed>>
    /\ UNCHANGED <<uid, prev, code, accepted, crashes>>

\* The error of the SetSignature write is dropped: the caller gets 200.
EndTransactionIgnoreWriteError(r) ==
    /\ pc[r] = "ending"
    /\ lock' = [lock EXCEPT ![uid[r]] = None]
    /\ \/ /\ code[r] = 200
          /\ tip' = [tip EXCEPT ![uid[r]] = r]
          /\ committed' = committed \cup {r}
          /\ Answer(r, 200)
       \/ /\ code[r] = 200
          /\ Answer(r, 200)
          /\ UNCHANGED <<tip, committed>>
       \/ /\ code[r] # 200
          /\ Answer(r, code[r])
          /\ UNCHANGED <<tip, committed>>
    /\ UNCHANGED <<uid, prev, code, accepted, crashes>>

\* The failure path returns the backend's answer without EndTransaction.
EndTransactionKeepLockOnFailure(r) ==
    /\ pc[r] = "ending"
    /\ \/ /\ code[r] = 200
          /\ lock' = [lock EXCEPT ![uid[r]] = None]
          /\ tip' = [tip EXCEPT ![uid[r]] = r]
          /\ committed' = committed \cup {r}
          /\ Answer(r, 200)
       \/ /\ code[r] = 200
          /\ lock' = [lock EXCEPT ![uid[r]] = None]
          /\ Answer(r, 500)
          /\ UNCHANGED <<tip, committed>>
       \/ /\ code[r] # 200
          /\ Answer(r, code[r])
          /\ UNCHANGED <<lock, tip, committed>>
    /\ UNCHANGED <<uid, prev, code, accepted, crashes>>

-----------------------------------------------------------------------------
(* ChainingService.HandleRequest up to the call of SendChainedUpp.         *)

\* The UUID, the auth token or the hash is not valid: r is answered with
\* the error status of the first check that fails.
RejectRequest(r) ==
    /\ pc[r] = "idle"
    /\ \E c \in RejectCode : Answer(r, c)
    /\ UNCHANGED <<uid, prev, code, lock, tip, accepted, committed, crashes>>

\* All checks pass: r calls SendChainedUpp for identity u.
ReceiveChained(r) ==
    /\ pc[r] = "idle"
    /\ \E u \in Uid :
         /\ pc' = [pc EXCEPT ![r] = "waitLock"]
         /\ uid' = [uid EXCEPT ![r] = u]
    /\ UNCHANGED <<prev, code, resp, lock, tip, accepted, committed, crashes>>

(* SendChainedUpp: the body of the per-identity transaction.               *)

\* StartTransaction(uid): wait for and take u's transaction.
StartTransaction(r) ==
    /\ pc[r] = "waitLock"
    /\ lock[uid[r]] = None
    /\ lock' = [lock EXCEPT ![uid[r]] = r]
    /\ pc' = [pc EXCEPT ![r] = "locked"]
    /\ UNCHANGED <<uid, prev, code, resp, tip, accepted, committed, crashes>>

\* GetSignature reads the tip; a tip of the wrong length is an error that
\* ends the transaction without commit (500).  Otherwise the chained UPP
\* with the tip as previous-signature is built and signed.
SignChained(r) ==
    /\ pc[r] = "locked"
    /\ \/ /\ ValidSignatureLen(tip[uid[r]])
          /\ prev' = [prev EXCEPT ![r] = tip[uid[r]]]
          /\ pc' = [pc EXCEPT ![r] = "sending"]
          /\ UNCHANGED <<resp, lock>>
       \/ /\ ~ValidSignatureLen(tip[uid[r]])
          /\ Answer(r, 500)
          /\ lock' = [lock EXCEPT ![uid[r]] = None]
          /\ UNCHANGED prev
    /\ UNCHANGED <<uid, code, tip, accepted, committed, crashes>>

\* SendUPP: the backend handles the UPP and answers v; the answer reaches
\* the client or is lost (fate f).
SendChained(r) ==
    /\ pc[r] = "sending"
    /\ \E v \in BackendCode, f \in Fate :
         /\ BackendStores(r, v)
         /\ code' = [code EXCEPT ![r] = SendUPPCode(v, f)]
    /\ pc' = [pc EXCEPT ![r] = "ending"]
    /\ UNCHANGED <<uid, prev, resp, lock, tip, committed, crashes>>

\* EndTransaction(uid, success): on a 2xx answer SetSignature stores r's
\* signature as the new tip; the write may fail (500).  On any other
\* answer nothing is stored and the backend's status is returned.  The
\* transaction is released on every path.
EndTransaction(r) ==
    /\ pc[r] = "ending"
    /\ lock' = [lock EXCEPT ![uid[r]] = None]
    /\ \/ /\ code[r] = 200
          /\ tip' = [tip EXCEPT ![uid[r]] = r]
          /\ committed' = committed \cup {r}
          /\ Answer(r, 200)
       \/ /\ code[r] = 200
          /\ Answer(r, 500)
          /\ UNCHANGED <<tip, committed>>
       \/ /\ code[r] # 200
          /\ Answer(r, code[r])
          /\ UNCHANGED <<tip, committed>>
    /\ UNCHANGED <<uid, prev, code, accepted, crashes>>

-----------------------------------------------------------------------------
(* SigningService.HandleRequest: the update route.                         *)

\* All checks (UUID, auth token, operation, hash) pass.
ReceiveSigned(r) ==
    /\ pc[r] = "idle"
    /\ \E u \in Uid :
         /\ pc' = [pc EXCEPT ![r] = "signing"]
         /\ uid' = [uid EXCEPT ![r] = u]
    /\ UNCHANGED <<prev, code, resp, lock, tip, accepted, committed, crashes>>

\* Signer.Sign: build a signed UPP with the operation's hint and send it;
\* the tip is neither read nor written.
SignAndSend(r) ==
    /\ pc[r] = "signing"
    /\ \E v \in BackendCode, f \in Fate :
         /\ BackendStores(r, v)
         /\ Answer(r, SendUPPCode(v, f))
    /\ UNCHANGED <<uid, prev, code, lock, tip, committed, crashes>>

-----------------------------------------------------------------------------
(* The process dies and the start script runs it again: every request in   *)
(* flight loses its connection, open transactions are rolled back, the     *)
(* stored tips and what the backend stored remain.                         *)
Crash ==
    /\ crashes < MaxCrash
    /\ crashes' = crashes + 1
    /\ pc' = [r \in Req |-> IF pc[r] \in {"idle", "done"} THEN pc[r] ELSE "done"]
    /\ lock' = [u \in Uid |-> None]
    /\ UNCHANGED <<uid, prev, code, resp, tip, accepted, committed>>

Next ==
    \/ \E r \in Req :
         \/ RejectRequest(r)
         \/ ReceiveChained(r)
         \/ StartTransaction(r)
         \/ SignChained(r)
         \/ SendChained(r)
         \/ EndTransaction(r)
         \/ ReceiveSigned(r)
         \/ SignAndSend(r)
    \/ Crash

\* Every handler goroutine that can take a step eventually takes it; the
\* backend call ends by the client timeout.  Arrivals and crashes are not
\* fair.  Weak fairness of StartTransaction suffices: finitely many
\* requests each release the transaction, after which it stays free.
Fairness ==
    \A r \in Req :
        /\ WF_vars(StartTransaction(r))
        /\ WF_vars(SignChained(r))
        /\ WF_vars(SendChained(r))
        /\ WF_vars(EndTransaction(r))
        /\ WF_vars(SignAndSend(r))

Spec == Init /\ [][Next]_vars /\ Fairness

-----------------------------------------------------------------------------
(* Properties.                                                             *)

\* The requests of identity u whose signature became the tip.
CommittedOf(u) == {r \in committed : uid[r] = u}

\* Chain integrity of the stored chain (spec properties 1 and 3): for each
\* identity the committed chained UPPs form one chain from the
\* registration signature to the tip.  No two of them carry the same
\* previous-signature (no fork), each links to the registration signature
\* or to another committed UPP of the same identity, and the tip is a
\* committed signature (or the registration one) that no committed UPP
\* links to.  Violated if two chained requests of one identity can read
\* the same tip, or a tip is stored out of order.
ChainLinked ==
    \A u \in Uid :
        /\ \A r1, r2 \in CommittedOf(u) : r1 # r2 => prev[r1] # prev[r2]
        /\ \A r \in CommittedOf(u) : prev[r] \in {InitSig[u]} \cup CommittedOf(u)
        /\ tip[u] \in {InitSig[u]} \cup CommittedOf(u)
        /\ \A r \in CommittedOf(u) : prev[r] # tip[u]

\* The critical rule of the chaining route: a signature becomes the chain
\* tip only after the backend stored its UPP (EndTransaction commits only
\* on a 2xx answer of SendUPP).
CommitOnlyAfterAccept == committed \subseteq accepted

\* What the callers of the chaining route hold is one chain per identity:
\* no two requests of one identity that were both answered 200 carry the
\* same previous-signature.  A 200 whose signature was not stored as the
\* tip (a dropped SetSignature error) lets the next request of that
\* identity chain to the same signature, and both callers hold a receipt.
ReceiptsNoFork ==
    \A r1, r2 \in Req :
        /\ r1 # r2 /\ uid[r1] = uid[r2]
        /\ prev[r1] # None /\ prev[r2] # None
        /\ resp[r1] = 200 /\ resp[r2] = 200
        => prev[r1] # prev[r2]

\* Every request that arrived is eventually answered or loses its
\* connection in a crash: no transaction is left held.
AllAnswered == \A r \in Req : pc[r] # "idle" ~> pc[r] = "done"

\* What the backend published is one chain per identity (spec section 4.6:
\* "no published but not persisted states"): no two chained UPPs of one
\* identity that the backend stored share a previous-signature.
PublishedNoFork ==
    \A r1, r2 \in accepted :
        (r1 # r2 /\ prev[r1] # None /\ uid[r1] = uid[r2]) => prev[r1] # prev[r2]

-----------------------------------------------------------------------------
(* Refinement of the abstract chain log.                                   *)

\* The stored links: every committed request with its identity and the
\* signature its UPP was chained to.
StoredLinks == {<<uid[r], prev[r], r>> : r \in committed}

Abs == INSTANCE ChainLog WITH log <- StoredLinks, published <- accepted

\* The chaining route implements the append-only log of ChainLog: every
\* step of the handlers, the backend and a crash either leaves the stored
\* chains and the backend's record alone, publishes a UPP, or appends one
\* published, never appended signature to its identity's chain at the
\* stored tip.  Violated by a commit that does not wait for a 2xx answer,
\* by two transactions of one identity chaining to the same tip, or by a
\* commit of a stale tip.
RefinesChainLog == Abs!Spec
=============================================================================
