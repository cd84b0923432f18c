------------------------- MODULE ChainSignerProofs -------------------------
(***************************************************************************)
(* Proofs about the signing core, for every set of requests and            *)
(* identities and every crash bound.                                       *)
(***************************************************************************)
EXTENDS ChainSigner, TLAPS

USE ConstAssumption

-----------------------------------------------------------------------------
(* Type correctness.                                                       *)

\* A request inside a handler, past the request checks, has an identity.
UidSet ==
    \A r \in Req :
        pc[r] \in {"waitLock", "locked", "sending", "ending", "signing"} => uid[r] \in Uid

\* TypeOK is not inductive alone: the handler steps index tip and lock by
\* uid[r], which is an identity only past the request checks.
TypeInv == TypeOK /\ UidSet

\* Each action keeps the type; one step per action of Next.
LEMMA TypeStep == TypeInv /\ [Next]_vars => TypeInv'
<1> SUFFICES ASSUME TypeOK, UidSet, [Next]_vars PROVE TypeInv'
    BY DEF TypeInv
<1>1. ASSUME NEW r \in Req, RejectRequest(r) PROVE TypeInv'
    BY <1>1 DEF TypeInv, TypeOK, UidSet, RejectRequest, Answer, RejectCode, PC
<1>2. ASSUME NEW r \in Req, ReceiveChained(r) PROVE TypeInv'
    BY <1>2 DEF TypeInv, TypeOK, UidSet, ReceiveChained, PC
<1>3. ASSUME NEW r \in Req, StartTransaction(r) PROVE TypeInv'
    BY <1>3 DEF TypeInv, TypeOK, UidSet, StartTransaction, PC
<1>4. ASSUME NEW r \in Req, SignChained(r) PROVE TypeInv'
    <2>1. uid[r] \in Uid /\ tip[uid[r]] \in Sig
        BY <1>4 DEF SignChained, TypeOK, UidSet
    <2>2. CASE ValidSignatureLen(tip[uid[r]])
              /\ prev' = [prev EXCEPT ![r] = tip[uid[r]]]
              /\ pc' = [pc EXCEPT ![r] = "sending"]
              /\ UNCHANGED <<resp, lock>>
        BY <1>4, <2>1, <2>2 DEF TypeInv, TypeOK, UidSet, SignChained, PC
    <2>3. CASE ~ValidSignatureLen(tip[uid[r]])
              /\ Answer(r, 500)
              /\ lock' = [lock EXCEPT ![uid[r]] = None]
              /\ UNCHANGED prev
        BY <1>4, <2>1, <2>3 DEF TypeInv, TypeOK, UidSet, SignChained, Answer, PC, BackendCode
    <2>4. QED
        BY <1>4, <2>2, <2>3 DEF SignChained
<1>5. ASSUME NEW r \in Req, SendChained(r) PROVE TypeInv'
    <2>1. PICK v \in BackendCode, f \in Fate :
               /\ BackendStores(r, v)
               /\ code' = [code EXCEPT ![r] = SendUPPCode(v, f)]
        BY <1>5 DEF SendChained
    <2>2. SendUPPCode(v, f) \in BackendCode \cup {0, 504}
        BY DEF SendUPPCode, Fate, BackendCode
    <2>3. QED
        BY <1>5, <2>1, <2>2 DEF TypeInv, TypeOK, UidSet, SendChained, BackendStores, PC
<1>6. ASSUME NEW r \in Req, EndTransaction(r) PROVE TypeInv'
    <2>1. /\ uid[r] \in Uid
          /\ lock' = [lock EXCEPT ![uid[r]] = None]
          /\ UNCHANGED <<uid, prev, code, accepted, crashes>>
        BY <1>6 DEF EndTransaction, TypeOK, UidSet
    <2>2. CASE /\ code[r] = 200
               /\ tip' = [tip EXCEPT ![uid[r]] = r]
               /\ committed' = committed \cup {r}
               /\ Answer(r, 200)
        BY <2>1, <2>2 DEF TypeInv, TypeOK, UidSet, Answer, PC, Sig, BackendCode
    <2>3. CASE /\ Answer(r, 500)
               /\ UNCHANGED <<tip, committed>>
        BY <2>1, <2>3 DEF TypeInv, TypeOK, UidSet, Answer, PC, BackendCode
    <2>4. CASE /\ Answer(r, code[r])
               /\ UNCHANGED <<tip, committed>>
        BY <2>1, <2>4 DEF TypeInv, TypeOK, UidSet, Answer, PC
    <2>5. QED
        BY <1>6, <2>2, <2>3, <2>4 DEF EndTransaction
<1>7. ASSUME NEW r \in Req, ReceiveSigned(r) PROVE TypeInv'
    BY <1>7 DEF TypeInv, TypeOK, UidSet, ReceiveSigned, PC
<1>8. ASSUME NEW r \in Req, SignAndSend(r) PROVE TypeInv'
    <2>1. PICK v \in BackendCode, f \in Fate :
               /\ BackendStores(r, v)
               /\ Answer(r, SendUPPCode(v, f))
        BY <1>8 DEF SignAndSend
    <2>2. SendUPPCode(v, f) \in BackendCode \cup {0, 504}
        BY DEF SendUPPCode, Fate, BackendCode
    <2>3. QED
        BY <1>8, <2>1, <2>2 DEF TypeInv, TypeOK, UidSet, SignAndSend, BackendStores, Answer, PC
<1>9. CASE Crash
    BY <1>9 DEF TypeInv, TypeOK, UidSet, Crash, PC
<1>10. CASE UNCHANGED vars
    BY <1>10 DEF TypeInv, TypeOK, UidSet, vars
<1>11. QED
    BY <1>1, <1>2, <1>3, <1>4, <1>5, <1>6, <1>7, <1>8, <1>9, <1>10 DEF Next

\* The handlers, the backend and crashes only ever put values of the
\* declared kinds into the state: statuses among those SendUPP and the
\* request checks produce, tips among the signatures.
THEOREM TypeCorrect == Spec => []TypeOK
<1>1. Init => TypeInv
    BY DEF Init, TypeInv, TypeOK, UidSet, Sig, PC
<1>2. TypeInv => TypeOK
    BY DEF TypeInv
<1>3. QED
    BY <1>1, <1>2, TypeStep, PTL DEF Spec
-----------------------------------------------------------------------------
(* Chain integrity.                                                        *)

\* The phases of a chained request inside its transaction.
InTransaction == {"locked", "sending", "ending"}

\* A request inside the transaction of its identity is the holder of it.
LockInv ==
    \A r \in Req : pc[r] \in InTransaction => lock[uid[r]] = r

\* A request that signed and has not ended its transaction linked its UPP
\* to the current tip, and its signature is not yet committed.
InFlight ==
    \A r \in Req : pc[r] \in {"sending", "ending"} => prev[r] = tip[uid[r]]

\* Only a finished request can have its signature committed.
Fresh == \A r \in committed : pc[r] = "done"

\* ChainLinked is not inductive: a commit keeps it only because the
\* committing request holds the transaction (LockInv), linked its UPP to the
\* tip it commits over (InFlight) and was not committed before (Fresh).
ChainInv == TypeInv /\ LockInv /\ InFlight /\ Fresh /\ ChainLinked

\* A step that leaves the committed requests, their identities, their
\* previous-signatures and the tips alone keeps the chain.
LEMMA ChainFrame ==
    ASSUME ChainLinked,
           committed' = committed,
           tip' = tip,
           \A c \in committed : uid'[c] = uid[c] /\ prev'[c] = prev[c]
    PROVE  ChainLinked'
<1>1. \A u \in Uid : CommittedOf(u)' = CommittedOf(u)
    BY DEF CommittedOf
<1>2. \A u \in Uid : \A c \in CommittedOf(u) : prev'[c] = prev[c]
    BY DEF CommittedOf
<1>3. QED
    BY <1>1, <1>2 DEF ChainLinked

\* Committing the signature of the request that linked its UPP to the tip
\* extends the chain of its identity by one link and moves the tip to it.
LEMMA CommitKeepsChain ==
    ASSUME TypeInv, ChainLinked,
           NEW r \in Req, uid[r] \in Uid,
           prev[r] = tip[uid[r]], r \notin committed,
           tip' = [tip EXCEPT ![uid[r]] = r],
           committed' = committed \cup {r},
           uid' = uid, prev' = prev
    PROVE  ChainLinked'
<1> DEFINE w == uid[r]
<1>1. r \notin {InitSig[w]}
    BY ConstAssumption
<1>2. SUFFICES ASSUME NEW u \in Uid
               PROVE  /\ \A r1, r2 \in CommittedOf(u)' : r1 # r2 => prev'[r1] # prev'[r2]
                      /\ \A c \in CommittedOf(u)' : prev'[c] \in {InitSig[u]} \cup CommittedOf(u)'
                      /\ tip'[u] \in {InitSig[u]} \cup CommittedOf(u)'
                      /\ \A c \in CommittedOf(u)' : prev'[c] # tip'[u]
    BY DEF ChainLinked
<1>3. CASE u # w
    <2>1. CommittedOf(u)' = CommittedOf(u)
        BY <1>3 DEF CommittedOf
    <2>2. tip'[u] = tip[u]
        BY <1>3 DEF TypeInv, TypeOK
    <2>3. QED
        BY <2>1, <2>2 DEF ChainLinked
<1>4. CASE u = w
    <2>1. CommittedOf(u)' = CommittedOf(u) \cup {r}
        BY <1>4 DEF CommittedOf
    <2>2. tip'[u] = r
        BY <1>4 DEF TypeInv, TypeOK
    <2>3. r \notin CommittedOf(u)
        BY DEF CommittedOf
    <2>4. prev[r] \in {InitSig[u]} \cup CommittedOf(u)
        BY <1>4 DEF ChainLinked
    <2>5. \A c \in CommittedOf(u) : prev[c] # prev[r]
        BY <1>4 DEF ChainLinked
    <2>6. \A c \in CommittedOf(u) : prev[c] # r
        BY <1>1, <2>3 DEF ChainLinked
    <2>7. \A r1, r2 \in CommittedOf(u)' : r1 # r2 => prev'[r1] # prev'[r2]
        BY <2>1, <2>5 DEF ChainLinked
    <2>8. \A c \in CommittedOf(u)' : prev'[c] \in {InitSig[u]} \cup CommittedOf(u)'
        BY <2>1, <2>4 DEF ChainLinked
    <2>9. \A c \in CommittedOf(u)' : prev'[c] # tip'[u]
        BY <2>1, <2>2, <2>3, <2>4, <2>6, <1>1
    <2>10. QED
        BY <2>1, <2>2, <2>7, <2>8, <2>9
<1>5. QED
    BY <1>3, <1>4

\* The strengthened invariant is kept by every step.
LEMMA ChainStep == ChainInv /\ [Next]_vars => ChainInv'
<1> SUFFICES ASSUME TypeInv, LockInv, InFlight, Fresh, ChainLinked, [Next]_vars
             PROVE  LockInv' /\ InFlight' /\ Fresh' /\ ChainLinked'
    BY TypeStep DEF ChainInv
<1> USE DEF TypeInv, TypeOK, UidSet
<1>1. ASSUME NEW r \in Req, RejectRequest(r)
      PROVE  LockInv' /\ InFlight' /\ Fresh' /\ ChainLinked'
    <2>1. r \notin committed
        BY <1>1 DEF RejectRequest, Fresh
    <2>2. QED
        BY <1>1, <2>1, ChainFrame DEF RejectRequest, Answer, LockInv, InFlight, Fresh, InTransaction
<1>2. ASSUME NEW r \in Req, ReceiveChained(r)
      PROVE  LockInv' /\ InFlight' /\ Fresh' /\ ChainLinked'
    <2>1. r \notin committed
        BY <1>2 DEF ReceiveChained, Fresh
    <2>2. QED
        BY <1>2, <2>1, ChainFrame DEF ReceiveChained, LockInv, InFlight, Fresh, InTransaction
<1>3. ASSUME NEW r \in Req, StartTransaction(r)
      PROVE  LockInv' /\ InFlight' /\ Fresh' /\ ChainLinked'
    <2>1. \A x \in Req : pc[x] \in InTransaction => uid[x] # uid[r]
        BY <1>3 DEF StartTransaction, LockInv, InTransaction
    <2>2. LockInv'
        BY <1>3, <2>1 DEF StartTransaction, LockInv, InTransaction
    <2>3. QED
        BY <1>3, <2>2, ChainFrame DEF StartTransaction, InFlight, Fresh
<1>4. ASSUME NEW r \in Req, SignChained(r)
      PROVE  LockInv' /\ InFlight' /\ Fresh' /\ ChainLinked'
    <2>1. r \notin committed /\ lock[uid[r]] = r
        BY <1>4 DEF SignChained, Fresh, LockInv, InTransaction
    <2>2. CASE /\ prev' = [prev EXCEPT ![r] = tip[uid[r]]]
               /\ pc' = [pc EXCEPT ![r] = "sending"]
               /\ UNCHANGED <<resp, lock>>
        BY <1>4, <2>1, <2>2, ChainFrame DEF SignChained, LockInv, InFlight, Fresh, InTransaction
    <2>3. CASE /\ Answer(r, 500)
               /\ lock' = [lock EXCEPT ![uid[r]] = None]
               /\ UNCHANGED prev
        <3>1. \A x \in Req : pc[x] \in InTransaction /\ uid[x] = uid[r] => x = r
            BY <2>1 DEF LockInv
        <3>2. QED
            BY <1>4, <2>1, <2>3, <3>1, ChainFrame
            DEF SignChained, Answer, LockInv, InFlight, Fresh, InTransaction
    <2>4. QED
        BY <1>4, <2>2, <2>3 DEF SignChained
<1>5. ASSUME NEW r \in Req, SendChained(r)
      PROVE  LockInv' /\ InFlight' /\ Fresh' /\ ChainLinked'
    BY <1>5, ChainFrame DEF SendChained, BackendStores, LockInv, InFlight, Fresh, InTransaction
<1>6. ASSUME NEW r \in Req, EndTransaction(r)
      PROVE  LockInv' /\ InFlight' /\ Fresh' /\ ChainLinked'
    <2>1. /\ r \notin committed
          /\ prev[r] = tip[uid[r]]
          /\ \A x \in Req : pc[x] \in InTransaction /\ uid[x] = uid[r] => x = r
        BY <1>6 DEF EndTransaction, Fresh, InFlight, LockInv, InTransaction
    <2>2. /\ lock' = [lock EXCEPT ![uid[r]] = None]
          /\ pc' = [pc EXCEPT ![r] = "done"]
          /\ UNCHANGED <<uid, prev, code, accepted, crashes>>
        BY <1>6 DEF EndTransaction, Answer
    <2>3. LockInv'
        BY <2>1, <2>2 DEF LockInv, InTransaction
    <2>4. CASE /\ tip' = [tip EXCEPT ![uid[r]] = r]
               /\ committed' = committed \cup {r}
        <3>1. InFlight'
            BY <2>1, <2>2, <2>4 DEF InFlight, InTransaction
        <3>2. Fresh'
            BY <2>2, <2>4 DEF Fresh
        <3>3. ChainLinked'
            <4>1. uid[r] \in Uid
                BY <1>6 DEF EndTransaction
            <4>2. QED
                BY <2>1, <2>2, <2>4, <4>1, CommitKeepsChain
        <3>4. QED
            BY <2>3, <3>1, <3>2, <3>3
    <2>5. CASE UNCHANGED <<tip, committed>>
        BY <2>1, <2>2, <2>3, <2>5, ChainFrame DEF InFlight, Fresh, InTransaction
    <2>6. QED
        BY <1>6, <2>4, <2>5 DEF EndTransaction
<1>7. ASSUME NEW r \in Req, ReceiveSigned(r)
      PROVE  LockInv' /\ InFlight' /\ Fresh' /\ ChainLinked'
    <2>1. r \notin committed
        BY <1>7 DEF ReceiveSigned, Fresh
    <2>2. QED
        BY <1>7, <2>1, ChainFrame DEF ReceiveSigned, LockInv, InFlight, Fresh, InTransaction
<1>8. ASSUME NEW r \in Req, SignAndSend(r)
      PROVE  LockInv' /\ InFlight' /\ Fresh' /\ ChainLinked'
    BY <1>8, ChainFrame DEF SignAndSend, BackendStores, Answer, LockInv, InFlight, Fresh, InTransaction
<1>9. CASE Crash
    BY <1>9, ChainFrame DEF Crash, LockInv, InFlight, Fresh, InTransaction
<1>10. CASE UNCHANGED vars
    BY <1>10, ChainFrame DEF vars, LockInv, InFlight, Fresh
<1>11. QED
    BY <1>1, <1>2, <1>3, <1>4, <1>5, <1>6, <1>7, <1>8, <1>9, <1>10 DEF Next

\* Chain integrity of the stored chain for every number of requests and
\* identities: the per-identity transaction and the commit-after-2xx rule
\* of SendChainedUpp keep the committed chained UPPs of each identity one
\* linked chain ending at the stored tip, across crashes.
THEOREM ChainIntegrity == Spec => []ChainLinked
<1>1. Init => ChainInv
    BY DEF Init, ChainInv, TypeInv, TypeOK, UidSet, Sig, PC, LockInv, InFlight,
           Fresh, ChainLinked, CommittedOf, InTransaction
<1>2. ChainInv => ChainLinked
    BY DEF ChainInv
<1>3. QED
    BY <1>1, <1>2, ChainStep, PTL DEF Spec
-----------------------------------------------------------------------------
(* What the backend and the caller were told.                              *)

\* SendUPP reports 200 only when the backend answered 2xx, and a backend
\* that answers 2xx has stored the UPP.
CodeAccepted == \A r \in Req : code[r] = 200 => r \in accepted

\* A handler answers once, when it finishes.
RespShape == \A r \in Req : pc[r] # "done" => resp[r] = 0

\* A previous-signature is set only by GetSignature of a chained request.
PrevShape ==
    \A r \in Req : pc[r] \in {"idle", "waitLock", "locked", "signing"} => prev[r] = None

\* A 200 on the chaining route is given only with the commit of the
\* request's signature.
ReceiptImpliesCommitted ==
    \A r \in Req : (prev[r] # None /\ resp[r] = 200) => r \in committed

\* CommitOnlyAfterAccept and ReceiptImpliesCommitted are not inductive: a
\* commit needs the 200 of SendUPP to come from a stored UPP (CodeAccepted),
\* and a 200 of the update route must not count as a chained receipt
\* (PrevShape), nor a chained request be answered twice (RespShape).
ReceiptInv ==
    /\ TypeInv /\ CodeAccepted /\ RespShape /\ PrevShape
    /\ CommitOnlyAfterAccept /\ ReceiptImpliesCommitted

\* The parts of ReceiptInv other than the type, kept by every step.
ReceiptFacts ==
    /\ CodeAccepted /\ RespShape /\ PrevShape
    /\ CommitOnlyAfterAccept /\ ReceiptImpliesCommitted

\* The receipt invariant is kept by every step; one step per action.
LEMMA ReceiptStep == ReceiptInv /\ [Next]_vars => ReceiptInv'
<1> SUFFICES ASSUME TypeInv, ReceiptFacts, [Next]_vars
             PROVE  ReceiptFacts'
    BY TypeStep DEF ReceiptInv, ReceiptFacts
<1> USE DEF TypeInv, TypeOK, UidSet, ReceiptFacts, CodeAccepted, RespShape,
            PrevShape, CommitOnlyAfterAccept, ReceiptImpliesCommitted
<1>1. ASSUME NEW r \in Req, RejectRequest(r) PROVE ReceiptFacts'
    BY <1>1 DEF RejectRequest, Answer, RejectCode
<1>2. ASSUME NEW r \in Req, ReceiveChained(r) PROVE ReceiptFacts'
    BY <1>2 DEF ReceiveChained
<1>3. ASSUME NEW r \in Req, StartTransaction(r) PROVE ReceiptFacts'
    BY <1>3 DEF StartTransaction
<1>4. ASSUME NEW r \in Req, SignChained(r) PROVE ReceiptFacts'
    <2>1. CASE /\ prev' = [prev EXCEPT ![r] = tip[uid[r]]]
               /\ pc' = [pc EXCEPT ![r] = "sending"]
               /\ UNCHANGED <<resp, lock>>
        BY <1>4, <2>1 DEF SignChained
    <2>2. CASE /\ Answer(r, 500)
               /\ UNCHANGED prev
        BY <1>4, <2>2 DEF SignChained, Answer
    <2>3. QED
        BY <1>4, <2>1, <2>2 DEF SignChained
<1>5. ASSUME NEW r \in Req, SendChained(r) PROVE ReceiptFacts'
    <2>1. PICK v \in BackendCode, f \in Fate :
               /\ BackendStores(r, v)
               /\ code' = [code EXCEPT ![r] = SendUPPCode(v, f)]
        BY <1>5 DEF SendChained
    <2>2. SendUPPCode(v, f) = 200 => v = 200
        BY DEF SendUPPCode, Fate
    <2>3. accepted \subseteq accepted' /\ (v = 200 => r \in accepted')
        BY <2>1 DEF BackendStores
    <2>4. CodeAccepted'
        BY <1>5, <2>1, <2>2, <2>3 DEF SendChained
    <2>5. QED
        BY <1>5, <2>3, <2>4 DEF SendChained
<1>6. ASSUME NEW r \in Req, EndTransaction(r) PROVE ReceiptFacts'
    <2>1. /\ pc' = [pc EXCEPT ![r] = "done"]
          /\ UNCHANGED <<uid, prev, code, accepted, crashes>>
        BY <1>6 DEF EndTransaction, Answer
    <2>2. CASE /\ code[r] = 200
               /\ committed' = committed \cup {r}
               /\ Answer(r, 200)
        BY <1>6, <2>1, <2>2 DEF Answer
    <2>3. CASE /\ Answer(r, 500)
               /\ UNCHANGED committed
        BY <1>6, <2>1, <2>3 DEF Answer
    <2>4. CASE /\ code[r] # 200
               /\ Answer(r, code[r])
               /\ UNCHANGED committed
        BY <1>6, <2>1, <2>4 DEF Answer
    <2>5. QED
        BY <1>6, <2>2, <2>3, <2>4 DEF EndTransaction
<1>7. ASSUME NEW r \in Req, ReceiveSigned(r) PROVE ReceiptFacts'
    BY <1>7 DEF ReceiveSigned
<1>8. ASSUME NEW r \in Req, SignAndSend(r) PROVE ReceiptFacts'
    <2>1. PICK v \in BackendCode, f \in Fate :
               /\ BackendStores(r, v)
               /\ Answer(r, SendUPPCode(v, f))
        BY <1>8 DEF SignAndSend
    <2>2. accepted \subseteq accepted'
        BY <2>1 DEF BackendStores
    <2>3. prev[r] = None
        BY <1>8 DEF SignAndSend
    <2>4. QED
        BY <1>8, <2>1, <2>2, <2>3 DEF SignAndSend, Answer
<1>9. CASE Crash
    BY <1>9 DEF Crash
<1>10. CASE UNCHANGED vars
    BY <1>10 DEF vars
<1>11. QED
    BY <1>1, <1>2, <1>3, <1>4, <1>5, <1>6, <1>7, <1>8, <1>9, <1>10 DEF Next

\* The commit rule of EndTransaction: a signature becomes the chain tip
\* only after the authentication service stored its UPP, because SendUPP
\* reports 200 only for a delivered 2xx answer (a timeout or network error
\* after the backend stored the UPP reports 504 or 500 and commits nothing).
THEOREM CommitAfterAccept == Spec => []CommitOnlyAfterAccept
<1>1. Init => ReceiptInv
    BY DEF Init, ReceiptInv, TypeInv, TypeOK, UidSet, Sig, PC, CodeAccepted,
           RespShape, PrevShape, CommitOnlyAfterAccept, ReceiptImpliesCommitted
<1>2. ReceiptInv => CommitOnlyAfterAccept
    BY DEF ReceiptInv
<1>3. QED
    BY <1>1, <1>2, ReceiptStep, PTL DEF Spec

-----------------------------------------------------------------------------
(* Refinement of ChainLog.                                                 *)

\* Both inductive invariants hold in every reachable state.
LEMMA Invariants == Spec => [](ChainInv /\ ReceiptInv)
<1>1. Init => ChainInv /\ ReceiptInv
    BY DEF Init, ChainInv, ReceiptInv, TypeInv, TypeOK, UidSet, Sig, PC,
           LockInv, InFlight, Fresh, ChainLinked, CommittedOf, InTransaction,
           CodeAccepted, RespShape, PrevShape, CommitOnlyAfterAccept,
           ReceiptImpliesCommitted
<1>2. QED
    BY <1>1, ChainStep, ReceiptStep, PTL DEF Spec

\* A step that touches neither the committed requests' identities and
\* previous-signatures, nor the committed set, the tips or what the
\* backend stored, is a stuttering step of ChainLog.
LEMMA LogFrame ==
    ASSUME committed' = committed, tip' = tip, accepted' = accepted,
           \A c \in committed : uid'[c] = uid[c] /\ prev'[c] = prev[c]
    PROVE  UNCHANGED Abs!logVars
<1>1. StoredLinks' = StoredLinks
    BY DEF StoredLinks
<1>2. QED
    BY <1>1 DEF Abs!logVars

\* A step of the handlers that only stores a UPP at the backend publishes
\* it, or stutters when the backend did not store it.
LEMMA LogPublish ==
    ASSUME NEW r \in Req,
           committed' = committed, tip' = tip,
           \A c \in committed : uid'[c] = uid[c] /\ prev'[c] = prev[c],
           accepted' \in {accepted, accepted \cup {r}}
    PROVE  [Abs!Next]_Abs!logVars
<1>1. StoredLinks' = StoredLinks
    BY DEF StoredLinks
<1>2. CASE accepted' = accepted \cup {r}
    <2>1. Abs!Publish(r)
        BY <1>1, <1>2 DEF Abs!Publish
    <2>2. QED
        BY <2>1 DEF Abs!Next
<1>3. CASE accepted' = accepted
    BY <1>1, <1>3 DEF Abs!logVars
<1>4. QED
    BY <1>2, <1>3

\* Every step of the chaining and update routes, and a crash, is a step of
\* ChainLog under the refinement mapping, or leaves its state alone.
LEMMA RefineStep ==
    ChainInv /\ ReceiptInv /\ [Next]_vars => [Abs!Next]_Abs!logVars
<1> SUFFICES ASSUME ChainInv, ReceiptInv, [Next]_vars
             PROVE  [Abs!Next]_Abs!logVars
    OBVIOUS
<1> USE DEF ChainInv, ReceiptInv, TypeInv, TypeOK, UidSet
\* No committed request is in a handler: its identity and previous
\* signature stay as they are while another request moves.
<1>0. \A r \in Req : pc[r] # "done" => r \notin committed
    BY DEF Fresh
<1>1. ASSUME NEW r \in Req, RejectRequest(r) PROVE [Abs!Next]_Abs!logVars
    BY <1>1, LogFrame DEF RejectRequest
<1>2. ASSUME NEW r \in Req, ReceiveChained(r) PROVE [Abs!Next]_Abs!logVars
    BY <1>0, <1>2, LogFrame DEF ReceiveChained
<1>3. ASSUME NEW r \in Req, StartTransaction(r) PROVE [Abs!Next]_Abs!logVars
    BY <1>3, LogFrame DEF StartTransaction
<1>4. ASSUME NEW r \in Req, SignChained(r) PROVE [Abs!Next]_Abs!logVars
    BY <1>0, <1>4, LogFrame DEF SignChained
<1>5. ASSUME NEW r \in Req, SendChained(r) PROVE [Abs!Next]_Abs!logVars
    <2>1. PICK v \in BackendCode, f \in Fate :
               /\ BackendStores(r, v)
               /\ code' = [code EXCEPT ![r] = SendUPPCode(v, f)]
        BY <1>5 DEF SendChained
    <2>2. accepted' \in {accepted, accepted \cup {r}}
        BY <2>1 DEF BackendStores
    <2>3. /\ committed' = committed /\ tip' = tip
          /\ \A c \in committed : uid'[c] = uid[c] /\ prev'[c] = prev[c]
        BY <1>5 DEF SendChained
    <2>4. QED
        BY <2>2, <2>3, LogPublish
<1>6. ASSUME NEW r \in Req, EndTransaction(r) PROVE [Abs!Next]_Abs!logVars
    <2>1. /\ uid[r] \in Uid
          /\ r \notin committed
          /\ prev[r] = tip[uid[r]]
          /\ UNCHANGED <<uid, prev, code, accepted>>
        BY <1>0, <1>6 DEF EndTransaction, InFlight
    <2>2. CASE /\ code[r] = 200
               /\ tip' = [tip EXCEPT ![uid[r]] = r]
               /\ committed' = committed \cup {r}
        <3>3. r \in accepted
            BY <2>2 DEF CodeAccepted
        <3>4. r \notin Abs!Appended
            BY <2>1 DEF Abs!Appended, StoredLinks
        <3>5. StoredLinks' = StoredLinks \cup {<<uid[r], tip[uid[r]], r>>}
            BY <2>1, <2>2 DEF StoredLinks
        <3>6. Abs!Append(uid[r], r)
            BY <2>1, <2>2, <3>3, <3>4, <3>5 DEF Abs!Append
        <3>7. QED
            BY <2>1, <3>6 DEF Abs!Next
    <2>8. CASE UNCHANGED <<tip, committed>>
        BY <2>1, <2>8, LogFrame
    <2>9. QED
        BY <1>6, <2>2, <2>8 DEF EndTransaction
<1>7. ASSUME NEW r \in Req, ReceiveSigned(r) PROVE [Abs!Next]_Abs!logVars
    BY <1>0, <1>7, LogFrame DEF ReceiveSigned
<1>8. ASSUME NEW r \in Req, SignAndSend(r) PROVE [Abs!Next]_Abs!logVars
    <2>1. PICK v \in BackendCode, f \in Fate :
               /\ BackendStores(r, v)
               /\ Answer(r, SendUPPCode(v, f))
        BY <1>8 DEF SignAndSend
    <2>2. accepted' \in {accepted, accepted \cup {r}}
        BY <2>1 DEF BackendStores
    <2>3. /\ committed' = committed /\ tip' = tip
          /\ \A c \in committed : uid'[c] = uid[c] /\ prev'[c] = prev[c]
        BY <1>8 DEF SignAndSend
    <2>4. QED
        BY <2>2, <2>3, LogPublish
<1>9. CASE Crash
    BY <1>9, LogFrame DEF Crash
<1>10. CASE UNCHANGED vars
    BY <1>10, LogFrame DEF vars
<1>11. QED
    BY <1>1, <1>2, <1>3, <1>4, <1>5, <1>6, <1>7, <1>8, <1>9, <1>10 DEF Next

\* The chaining route implements ChainLog: the stored chains only grow by
\* appending, at the stored tip of an identity, the signature of a UPP the
\* authentication service stored and that was never appended before, for
\* every number of requests, identities and crashes.
THEOREM Refinement == Spec => RefinesChainLog
<1>1. Init => Abs!Init
    BY DEF Init, Abs!Init, StoredLinks
<1>2. QED
    BY <1>1, Invariants, RefineStep, PTL DEF Spec, RefinesChainLog, Abs!Spec

-----------------------------------------------------------------------------
(* Receipts.                                                               *)

\* A committed request has an identity: only a request inside a
\* transaction commits, and an identity once read is never cleared.
CommittedUid == \A r \in committed : uid[r] \in Uid

\* Every step keeps CommittedUid.
LEMMA CommittedUidStep ==
    ASSUME TypeInv, CommittedUid, [Next]_vars
    PROVE  CommittedUid'
<1>1. \A x \in Req : uid[x] \in Uid => uid'[x] \in Uid
    BY DEF Next, vars, RejectRequest, ReceiveChained, StartTransaction,
           SignChained, SendChained, EndTransaction, ReceiveSigned,
           SignAndSend, Crash, Answer, TypeInv, TypeOK
<1>2. \A x \in committed' : x \in committed \/ pc[x] = "ending"
    BY DEF Next, vars, RejectRequest, ReceiveChained, StartTransaction,
           SignChained, SendChained, EndTransaction, ReceiveSigned,
           SignAndSend, Crash, Answer
<1>3. \A x \in committed' : x \in Req
    BY TypeStep DEF TypeInv, TypeOK
<1>4. QED
    BY <1>1, <1>2, <1>3 DEF CommittedUid, TypeInv, TypeOK, UidSet

\* The callers of the chaining route never hold two receipts that fork a
\* chain: a 200 is given only together with the commit of the request's
\* signature (ReceiptImpliesCommitted), and the committed signatures of one
\* identity carry distinct previous-signatures (ChainLinked), across lock
\* contention, corrupt stored signatures, timeouts and crashes.
THEOREM ReceiptsDoNotFork == Spec => []ReceiptsNoFork
<1>1. Spec => []CommittedUid
    <2>1. Init => CommittedUid
        BY DEF Init, CommittedUid
    <2>2. TypeInv /\ CommittedUid /\ [Next]_vars => CommittedUid'
        BY CommittedUidStep
    <2>3. QED
        BY <2>1, <2>2, Invariants, PTL DEF Spec, ChainInv
<1>2. ASSUME ChainInv, ReceiptInv, CommittedUid PROVE ReceiptsNoFork
    <2> SUFFICES ASSUME NEW r1 \in Req, NEW r2 \in Req,
                        r1 # r2, uid[r1] = uid[r2],
                        prev[r1] # None, prev[r2] # None,
                        resp[r1] = 200, resp[r2] = 200
                 PROVE  prev[r1] # prev[r2]
        BY DEF ReceiptsNoFork
    <2>1. r1 \in committed /\ r2 \in committed
        BY <1>2 DEF ReceiptInv, ReceiptImpliesCommitted
    <2>2. uid[r1] \in Uid
        BY <1>2, <2>1 DEF CommittedUid
    <2>3. r1 \in CommittedOf(uid[r1]) /\ r2 \in CommittedOf(uid[r1])
        BY <2>1 DEF CommittedOf
    <2>4. QED
        BY <1>2, <2>2, <2>3 DEF ChainInv, ChainLinked
<1>3. QED
    BY <1>1, <1>2, Invariants, PTL

=============================================================================
