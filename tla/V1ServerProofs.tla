--------------------------- MODULE V1ServerProofs ---------------------------
(***************************************************************************)
(* Proofs about the v1 client under graceful operation: no kill, no      *)
(* failed SaveContext (MaxFault = 0) and no signal before main finished  *)
(* startup (EarlySignal = FALSE), for every number of requests,           *)
(* identities, restarts and every channel capacity.  Runs v1_kill_fork    *)
(* and v1_early_signal show that neither property holds without these    *)
(* two conditions.                                                        *)
(***************************************************************************)
EXTENDS V1Server, TLAPS

USE V1Assumption

\* The conditions of the graceful theorems.
Graceful == MaxFault = 0 /\ EarlySignal = FALSE

-----------------------------------------------------------------------------
(* The WaitGroup and the order of startup and shutdown.                    *)

\* wg.Add(1) of the signer has run and the signer has not called wg.Done.
SignerCount ==
    IF spc \in {"loop", "sending", "respond"} /\ mpc \notin {"goSigner", "addSigner"}
    THEN 1 ELSE 0

\* wg.Add(1) of the server has run and its wg.Done has not.
ServerCount == IF srv \in {"listening", "closed"} /\ mpc = "running" THEN 1 ELSE 0

\* While the process runs, its goroutines are where main's order of
\* startup and the shutdown sequence allow, and the WaitGroup counts the
\* signer and the server exactly while they run after their wg.Add.
StartupShape ==
    mpc # "down" =>
        /\ mpc = "goSigner" => spc = "none"
        /\ mpc \in {"goSigner", "addSigner", "serve"} => srv = "none"
        /\ mpc \in {"addSigner", "serve", "addServer"} =>
               spc \in {"loop", "sending", "respond"}
        /\ mpc = "addServer" => srv = "listening"
        /\ sdpc # "waiting" => mpc = "running"
        /\ ctxDone => sdpc \in {"wait", "save", "exit"}
        /\ srv = "closed" => ctxDone
        /\ wg = SignerCount + ServerCount
        /\ sdpc \in {"save", "exit"} => wg = 0

\* protocol.json holds the in-memory signatures once SaveContext ran, and
\* while the process is down (it ended only through os.Exit(0)).
SavedShape ==
    (mpc = "down" \/ sdpc = "exit") => saved = tip

\* While the process is down its goroutines are gone.
DownShape == mpc = "down" => spc = "none" /\ srv = "none" /\ queue = <<>>

\* TypeOK is not inductive: SignerTake reads tip[huid[r]] of the request at
\* the head of the channel, and the signer's later steps use smsg.
HandlerUid ==
    /\ \A r \in Req : hpc[r] = "enqueue" => huid[r] \in Uid
    /\ \A i \in 1..Len(queue) : huid[queue[i]] \in Uid
    /\ spc \in {"sending", "respond"} => smsg \in Req

TypeInv == TypeOK /\ HandlerUid

ExitInv == TypeInv /\ StartupShape /\ SavedShape /\ DownShape

-----------------------------------------------------------------------------
(* The signer's request and the channel.                                   *)

\* The requests in msgsToSign.
Queued == {queue[i] : i \in 1..Len(queue)}

\* A request that has not reached the channel is neither in it, nor in the
\* signer's hands, nor accepted.
Unsent ==
    \A r \in Req :
        hpc[r] \in {"idle", "enqueue"} =>
            /\ r \notin Queued /\ r \notin accepted
            /\ (spc \in {"sending", "respond"} => r # smsg)

\* No request in the channel was accepted, and each is there once.
QueueShape ==
    /\ \A i \in 1..Len(queue) : queue[i] \notin accepted
    /\ \A i, j \in 1..Len(queue) : i # j => queue[i] # queue[j]

\* The request being sent was chained to the current in-memory tip of its
\* identity and is not yet accepted, nor still in the channel.
SendingShape ==
    spc = "sending" =>
        /\ huid[smsg] \in Uid
        /\ smsg \notin accepted /\ smsg \notin Queued
        /\ prev[smsg] = tip[huid[smsg]]

TipInv == ExitInv /\ Unsent /\ QueueShape /\ SendingShape


-----------------------------------------------------------------------------
(* Proof of ExitPersistsAll.                                               *)

\* Without faults a SaveContext succeeds and there is no kill.
LEMMA NoFault ==
    ASSUME Graceful, TypeOK PROVE ~(faults < MaxFault)
BY DEF Graceful, TypeOK

\* Under graceful operation wg.Done() never finds a zero counter: the
\* server is closed and the signer quits only after cancel(), which comes
\* after main's second wg.Add(1).
LEMMA NoWaitGroupPanic ==
    ASSUME TypeOK, StartupShape, mpc # "down", ctxDone,
           srv = "closed" \/ spc = "loop"
    PROVE  wg > 0
<1>1. mpc = "running"
    BY DEF StartupShape
<1>2. SignerCount + ServerCount > 0
    BY <1>1 DEF SignerCount, ServerCount
<1>3. QED
    BY <1>2 DEF StartupShape, SignerCount, ServerCount

\* ExitInv is kept by every step of graceful operation; one step per
\* action, one sub-step per conjunct.
LEMMA ExitStep ==
    ASSUME Graceful PROVE ExitInv /\ [Next]_vars => ExitInv'
<1> SUFFICES ASSUME TypeOK, HandlerUid, StartupShape, SavedShape, DownShape,
                    [Next]_vars
             PROVE  ExitInv'
    BY DEF ExitInv, TypeInv
<1>0. ~(faults < MaxFault)
    BY NoFault
<1> USE DEF MainPC, SignerPC, ServerPC, ShutdownPC, HandlerPC

<1>1. CASE GoSigner
    <2>1. TypeOK'
        BY <1>1 DEF GoSigner, TypeOK
    <2>2. HandlerUid'
        BY <1>1 DEF GoSigner, TypeOK, HandlerUid
    <2>3. StartupShape'
        BY <1>1 DEF GoSigner, TypeOK, StartupShape, SignerCount, ServerCount
    <2>4. SavedShape'
        BY <1>1 DEF GoSigner, SavedShape
    <2>5. DownShape'
        BY <1>1 DEF GoSigner, DownShape
    <2>6. QED
        BY <2>1, <2>2, <2>3, <2>4, <2>5 DEF ExitInv, TypeInv
<1>2. CASE AddSigner
    <2>1. TypeOK'
        BY <1>2 DEF AddSigner, TypeOK, StartupShape, SignerCount, ServerCount
    <2>2. HandlerUid'
        BY <1>2 DEF AddSigner, TypeOK, HandlerUid
    <2>3. StartupShape'
        BY <1>2 DEF AddSigner, TypeOK, StartupShape, SignerCount, ServerCount
    <2>4. SavedShape'
        BY <1>2 DEF AddSigner, SavedShape
    <2>5. DownShape'
        BY <1>2 DEF AddSigner, DownShape
    <2>6. QED
        BY <2>1, <2>2, <2>3, <2>4, <2>5 DEF ExitInv, TypeInv
<1>3. CASE Serve
    <2>1. TypeOK'
        BY <1>3 DEF Serve, TypeOK
    <2>2. HandlerUid'
        BY <1>3 DEF Serve, TypeOK, HandlerUid
    <2>3. StartupShape'
        BY <1>3 DEF Serve, TypeOK, StartupShape, SignerCount, ServerCount
    <2>4. SavedShape'
        BY <1>3 DEF Serve, SavedShape
    <2>5. DownShape'
        BY <1>3 DEF Serve, DownShape
    <2>6. QED
        BY <2>1, <2>2, <2>3, <2>4, <2>5 DEF ExitInv, TypeInv
<1>4. CASE AddServer
    <2>1. TypeOK'
        BY <1>4 DEF AddServer, TypeOK, StartupShape, SignerCount, ServerCount
    <2>2. HandlerUid'
        BY <1>4 DEF AddServer, TypeOK, HandlerUid
    <2>3. StartupShape'
        BY <1>4 DEF AddServer, TypeOK, StartupShape, SignerCount, ServerCount
    <2>4. SavedShape'
        BY <1>4 DEF AddServer, SavedShape
    <2>5. DownShape'
        BY <1>4 DEF AddServer, DownShape
    <2>6. QED
        BY <2>1, <2>2, <2>3, <2>4, <2>5 DEF ExitInv, TypeInv
<1>5. CASE CloseServer
    <2>1. TypeOK'
        BY <1>5 DEF CloseServer, TypeOK
    <2>2. HandlerUid'
        BY <1>5 DEF CloseServer, TypeOK, HandlerUid
    <2>3. StartupShape'
        BY <1>5 DEF CloseServer, TypeOK, StartupShape, SignerCount, ServerCount
    <2>4. SavedShape'
        BY <1>5 DEF CloseServer, SavedShape
    <2>5. DownShape'
        BY <1>5 DEF CloseServer, DownShape
    <2>6. QED
        BY <2>1, <2>2, <2>3, <2>4, <2>5 DEF ExitInv, TypeInv
<1>6. CASE ServerDone
    <2>a. ctxDone /\ mpc = "running"
        BY <1>6 DEF ServerDone, StartupShape
    <2>0. wg > 0
        BY <1>6, <2>a, NoWaitGroupPanic DEF ServerDone
    <2>b. /\ srv = "closed" /\ srv' = "finished" /\ wg' = wg - 1
          /\ UNCHANGED <<mpc, spc, sdpc, ctxDone, queue, smsg, hpc, huid, prev,
                         tip, saved, accepted, boots, faults>>
        <3>1. ~WaitGroupPanic
            BY <2>0 DEF WaitGroupPanic
        <3>2. QED
            BY <1>6, <3>1 DEF ServerDone
    <2>1. TypeOK'
        BY <2>0, <2>b DEF TypeOK
    <2>2. HandlerUid'
        BY <2>b DEF HandlerUid
    <2>3. StartupShape'
        BY <2>0, <2>a, <2>b DEF TypeOK, StartupShape, SignerCount, ServerCount
    <2>4. SavedShape'
        BY <2>a, <2>b DEF SavedShape
    <2>5. DownShape'
        BY <2>a, <2>b DEF DownShape
    <2>6. QED
        BY <2>1, <2>2, <2>3, <2>4, <2>5 DEF ExitInv, TypeInv
<1>7. CASE Signal
    <2>1. TypeOK'
        BY <1>7 DEF Signal, Graceful, TypeOK
    <2>2. HandlerUid'
        BY <1>7 DEF Signal, Graceful, TypeOK, HandlerUid
    <2>3. StartupShape'
        BY <1>7 DEF Signal, Graceful, TypeOK, StartupShape, SignerCount, ServerCount
    <2>4. SavedShape'
        BY <1>7 DEF Signal, Graceful, SavedShape
    <2>5. DownShape'
        BY <1>7 DEF Signal, Graceful, DownShape
    <2>6. QED
        BY <2>1, <2>2, <2>3, <2>4, <2>5 DEF ExitInv, TypeInv
<1>8. CASE Cancel
    <2>1. TypeOK'
        BY <1>8 DEF Cancel, TypeOK
    <2>2. HandlerUid'
        BY <1>8 DEF Cancel, TypeOK, HandlerUid
    <2>3. StartupShape'
        BY <1>8 DEF Cancel, TypeOK, StartupShape, SignerCount, ServerCount
    <2>4. SavedShape'
        BY <1>8 DEF Cancel, SavedShape
    <2>5. DownShape'
        BY <1>8 DEF Cancel, DownShape
    <2>6. QED
        BY <2>1, <2>2, <2>3, <2>4, <2>5 DEF ExitInv, TypeInv
<1>9. CASE Wait
    <2>1. TypeOK'
        BY <1>9 DEF Wait, TypeOK
    <2>2. HandlerUid'
        BY <1>9 DEF Wait, TypeOK, HandlerUid
    <2>3. StartupShape'
        BY <1>9 DEF Wait, TypeOK, StartupShape, SignerCount, ServerCount
    <2>4. SavedShape'
        BY <1>9 DEF Wait, SavedShape
    <2>5. DownShape'
        BY <1>9 DEF Wait, DownShape
    <2>6. QED
        BY <2>1, <2>2, <2>3, <2>4, <2>5 DEF ExitInv, TypeInv
<1>10. CASE SaveContext
    <2>1. TypeOK'
        BY <1>10, <1>0 DEF SaveContext, TypeOK
    <2>2. HandlerUid'
        BY <1>10, <1>0 DEF SaveContext, TypeOK, HandlerUid
    <2>3. StartupShape'
        BY <1>10, <1>0 DEF SaveContext, TypeOK, StartupShape, SignerCount, ServerCount
    <2>4. SavedShape'
        BY <1>10, <1>0 DEF SaveContext, SavedShape
    <2>5. DownShape'
        BY <1>10, <1>0 DEF SaveContext, DownShape
    <2>6. QED
        BY <2>1, <2>2, <2>3, <2>4, <2>5 DEF ExitInv, TypeInv
<1>11. CASE Exit
    <2>1. TypeOK'
        BY <1>11 DEF Exit, ProcessEnds, TypeOK
    <2>2. HandlerUid'
        BY <1>11 DEF Exit, ProcessEnds, TypeOK, HandlerUid
    <2>3. StartupShape'
        BY <1>11 DEF Exit, ProcessEnds, TypeOK, StartupShape, SignerCount, ServerCount
    <2>4. SavedShape'
        BY <1>11 DEF Exit, ProcessEnds, SavedShape
    <2>5. DownShape'
        BY <1>11 DEF Exit, ProcessEnds, DownShape
    <2>6. QED
        BY <2>1, <2>2, <2>3, <2>4, <2>5 DEF ExitInv, TypeInv
<1>12. CASE Kill
    <2>1. TypeOK'
        BY <1>12, <1>0 DEF Kill, TypeOK
    <2>2. HandlerUid'
        BY <1>12, <1>0 DEF Kill, TypeOK, HandlerUid
    <2>3. StartupShape'
        BY <1>12, <1>0 DEF Kill, TypeOK, StartupShape, SignerCount, ServerCount
    <2>4. SavedShape'
        BY <1>12, <1>0 DEF Kill, SavedShape
    <2>5. DownShape'
        BY <1>12, <1>0 DEF Kill, DownShape
    <2>6. QED
        BY <2>1, <2>2, <2>3, <2>4, <2>5 DEF ExitInv, TypeInv
<1>13. CASE Restart
    <2>1. TypeOK'
        <3>1. queue' \in Seq(Req) /\ Len(queue') <= QCap
            BY <1>13 DEF Restart, Boot
        <3>a. /\ mpc' \in MainPC /\ spc' \in SignerPC /\ srv' \in ServerPC
              /\ sdpc' \in ShutdownPC /\ ctxDone' \in BOOLEAN /\ wg' \in 0..2
              /\ smsg' \in Req \cup {None}
            <4>1. mpc' \in MainPC /\ spc' \in SignerPC /\ srv' \in ServerPC
                BY <1>13 DEF Restart, Boot, MainPC, SignerPC, ServerPC
            <4>2. sdpc' \in ShutdownPC /\ wg' \in 0..2 /\ smsg' \in Req \cup {None}
                BY <1>13 DEF Restart, Boot, ShutdownPC
            <4>3. ctxDone' \in BOOLEAN
                BY <1>13, Zenon DEF Restart, Boot
            <4>4. QED
                BY <4>1, <4>2, <4>3
        <3>b. /\ hpc' \in [Req -> HandlerPC] /\ huid' \in [Req -> Uid \cup {None}]
              /\ prev' \in [Req -> Sig \cup {None}]
            BY <1>13 DEF Restart, Boot, TypeOK
        <3>c. tip' \in [Uid -> Sig] /\ saved' \in [Uid -> Sig]
            BY <1>13 DEF Restart, Boot, TypeOK
        <3>d. accepted' \subseteq Req /\ boots' \in 0..MaxBoot /\ faults' \in 0..MaxFault
            BY <1>13 DEF Restart, Boot, TypeOK
        <3>2. QED
            BY <3>1, <3>a, <3>b, <3>c, <3>d DEF TypeOK
    <2>2. HandlerUid'
        BY <1>13 DEF Restart, Boot, TypeOK, HandlerUid
    <2>3. StartupShape'
        BY <1>13 DEF Restart, Boot, TypeOK, StartupShape, SignerCount, ServerCount
    <2>4. SavedShape'
        BY <1>13 DEF Restart, Boot, SavedShape
    <2>5. DownShape'
        BY <1>13 DEF Restart, Boot, DownShape
    <2>6. QED
        BY <2>1, <2>2, <2>3, <2>4, <2>5 DEF ExitInv, TypeInv
<1>14. CASE SignerTake
    <2>1. TypeOK'
        BY <1>14 DEF SignerTake, TypeOK, HandlerUid
    <2>2. HandlerUid'
        BY <1>14 DEF SignerTake, TypeOK, HandlerUid
    <2>3. StartupShape'
        BY <1>14 DEF SignerTake, TypeOK, StartupShape, SignerCount, ServerCount
    <2>4. SavedShape'
        BY <1>14 DEF SignerTake, SavedShape
    <2>5. DownShape'
        BY <1>14 DEF SignerTake, DownShape
    <2>6. QED
        BY <2>1, <2>2, <2>3, <2>4, <2>5 DEF ExitInv, TypeInv
<1>15. CASE SignerQuit
    <2>a. ctxDone /\ mpc = "running" /\ spc = "loop"
        BY <1>15 DEF SignerQuit, StartupShape
    <2>0. wg > 0
        BY <2>a, NoWaitGroupPanic
    <2>b. /\ spc' = "exited" /\ wg' = wg - 1
          /\ UNCHANGED <<mpc, srv, sdpc, ctxDone, queue, smsg, hpc, huid, prev,
                         tip, saved, accepted, boots, faults>>
        <3>1. ~WaitGroupPanic
            BY <2>0 DEF WaitGroupPanic
        <3>2. QED
            BY <1>15, <3>1 DEF SignerQuit
    <2>1. TypeOK'
        BY <2>0, <2>a, <2>b DEF TypeOK
    <2>2. HandlerUid'
        BY <2>a, <2>b DEF TypeOK, HandlerUid
    <2>3. StartupShape'
        BY <2>a, <2>b DEF TypeOK, StartupShape, SignerCount, ServerCount
    <2>4. SavedShape'
        BY <2>a, <2>b DEF SavedShape
    <2>5. DownShape'
        BY <2>a, <2>b DEF DownShape
    <2>6. QED
        BY <2>1, <2>2, <2>3, <2>4, <2>5 DEF ExitInv, TypeInv
<1>16. CASE SignerSend
    <2>1. TypeOK'
        <3>1. smsg \in Req
            BY <1>16 DEF SignerSend, HandlerUid
        <3>2. CASE /\ accepted' = accepted \cup {smsg}
                   /\ tip' = [tip EXCEPT ![huid[smsg]] = smsg]
            BY <1>16, <3>1, <3>2 DEF SignerSend, TypeOK, Sig
        <3>3. CASE UNCHANGED <<accepted, tip>>
            BY <1>16, <3>3 DEF SignerSend, TypeOK
        <3>4. CASE accepted' = accepted \cup {smsg} /\ UNCHANGED tip
            BY <1>16, <3>1, <3>4 DEF SignerSend, TypeOK
        <3>5. QED
            BY <1>16, <3>2, <3>3, <3>4 DEF SignerSend
    <2>2. HandlerUid'
        BY <1>16 DEF SignerSend, TypeOK, HandlerUid
    <2>3. StartupShape'
        BY <1>16 DEF SignerSend, TypeOK, StartupShape, SignerCount, ServerCount
    <2>4. SavedShape'
        BY <1>16 DEF SignerSend, SavedShape, TypeOK, StartupShape, SignerCount, ServerCount
    <2>5. DownShape'
        BY <1>16 DEF SignerSend, DownShape
    <2>6. QED
        BY <2>1, <2>2, <2>3, <2>4, <2>5 DEF ExitInv, TypeInv
<1>17. CASE SignerRespond
    <2>1. TypeOK'
        BY <1>17 DEF SignerRespond, TypeOK
    <2>2. HandlerUid'
        BY <1>17 DEF SignerRespond, TypeOK, HandlerUid
    <2>3. StartupShape'
        BY <1>17 DEF SignerRespond, TypeOK, StartupShape, SignerCount, ServerCount
    <2>4. SavedShape'
        BY <1>17 DEF SignerRespond, SavedShape
    <2>5. DownShape'
        BY <1>17 DEF SignerRespond, DownShape
    <2>6. QED
        BY <2>1, <2>2, <2>3, <2>4, <2>5 DEF ExitInv, TypeInv
<1>18. ASSUME NEW r \in Req, RejectRequest(r) PROVE ExitInv'
    <2>1. TypeOK'
        BY <1>18 DEF RejectRequest, TypeOK
    <2>2. HandlerUid'
        BY <1>18 DEF RejectRequest, TypeOK, HandlerUid
    <2>3. StartupShape'
        BY <1>18 DEF RejectRequest, TypeOK, StartupShape, SignerCount, ServerCount
    <2>4. SavedShape'
        BY <1>18 DEF RejectRequest, SavedShape
    <2>5. DownShape'
        BY <1>18 DEF RejectRequest, DownShape
    <2>6. QED
        BY <2>1, <2>2, <2>3, <2>4, <2>5 DEF ExitInv, TypeInv
<1>19. ASSUME NEW r \in Req, AcceptRequest(r) PROVE ExitInv'
    <2>1. TypeOK'
        BY <1>19 DEF AcceptRequest, TypeOK
    <2>2. HandlerUid'
        BY <1>19 DEF AcceptRequest, TypeOK, HandlerUid
    <2>3. StartupShape'
        BY <1>19 DEF AcceptRequest, TypeOK, StartupShape, SignerCount, ServerCount
    <2>4. SavedShape'
        BY <1>19 DEF AcceptRequest, SavedShape
    <2>5. DownShape'
        BY <1>19 DEF AcceptRequest, DownShape
    <2>6. QED
        BY <2>1, <2>2, <2>3, <2>4, <2>5 DEF ExitInv, TypeInv
<1>20. ASSUME NEW r \in Req, Enqueue(r) PROVE ExitInv'
    <2>1. TypeOK'
        BY <1>20 DEF Enqueue, TypeOK
    <2>2. HandlerUid'
        BY <1>20 DEF Enqueue, TypeOK, HandlerUid
    <2>3. StartupShape'
        BY <1>20 DEF Enqueue, TypeOK, StartupShape, SignerCount, ServerCount
    <2>4. SavedShape'
        BY <1>20 DEF Enqueue, SavedShape
    <2>5. DownShape'
        BY <1>20 DEF Enqueue, DownShape
    <2>6. QED
        BY <2>1, <2>2, <2>3, <2>4, <2>5 DEF ExitInv, TypeInv
<1>21. CASE UNCHANGED vars
    <2>1. TypeOK'
        BY <1>21 DEF vars, TypeOK
    <2>2. HandlerUid'
        BY <1>21 DEF vars, TypeOK, HandlerUid
    <2>3. StartupShape'
        BY <1>21 DEF vars, TypeOK, StartupShape, SignerCount, ServerCount
    <2>4. SavedShape'
        BY <1>21 DEF vars, SavedShape
    <2>5. DownShape'
        BY <1>21 DEF vars, DownShape
    <2>6. QED
        BY <2>1, <2>2, <2>3, <2>4, <2>5 DEF ExitInv, TypeInv
<1>22. QED
    BY <1>1, <1>2, <1>3, <1>4, <1>5, <1>6, <1>7, <1>8, <1>9, <1>10, <1>11, <1>12, <1>13, <1>14, <1>15, <1>16, <1>17, <1>18, <1>19, <1>20, <1>21
    DEF Next

\* The initial state satisfies ExitInv.
LEMMA InitExitInv == Init => ExitInv
<1> SUFFICES ASSUME Init PROVE ExitInv
    OBVIOUS
<1>1. TypeOK
    <2>1. queue \in Seq(Req) /\ Len(queue) <= QCap
        BY DEF Init
    <2>2. /\ mpc \in MainPC /\ spc \in SignerPC /\ srv \in ServerPC
          /\ sdpc \in ShutdownPC /\ wg \in 0..2 /\ smsg \in Req \cup {None}
        BY DEF Init, MainPC, SignerPC, ServerPC, ShutdownPC
    <2>3. ctxDone \in BOOLEAN
        BY Zenon DEF Init
    <2>4. /\ hpc \in [Req -> HandlerPC] /\ huid \in [Req -> Uid \cup {None}]
          /\ prev \in [Req -> Sig \cup {None}]
        BY DEF Init, HandlerPC
    <2>5. tip \in [Uid -> Sig] /\ saved \in [Uid -> Sig]
        BY DEF Init, Sig
    <2>6. accepted \subseteq Req /\ boots \in 0..MaxBoot /\ faults \in 0..MaxFault
        BY DEF Init
    <2>7. QED
        BY <2>1, <2>2, <2>3, <2>4, <2>5, <2>6 DEF TypeOK
<1>2. HandlerUid /\ StartupShape /\ SavedShape /\ DownShape
    BY DEF Init, HandlerUid, StartupShape, SavedShape, DownShape,
           SignerCount, ServerCount
<1>3. QED
    BY <1>1, <1>2 DEF ExitInv, TypeInv

\* Graceful shutdown persists everything: when the shutdown goroutine is
\* about to call os.Exit(0), protocol.json holds every signature the
\* signer goroutine committed, because wg.Wait() returns only after the
\* signer called wg.Done() and the signer commits nothing after that.
THEOREM GracefulExitPersistsAll ==
    ASSUME Graceful PROVE Spec => []ExitPersistsAll
<1>1. Init => ExitInv
    BY InitExitInv
<1>2. ExitInv => ExitPersistsAll
    BY DEF ExitInv, SavedShape, ExitPersistsAll
<1>3. QED
    BY <1>1, <1>2, ExitStep, PTL DEF Spec


-----------------------------------------------------------------------------------------------------------------------------------------------------
(* The request being sent.  The backend may store a UPP and answer after   *)
(* the client's timeout, so accepted UPPs need not form one chain; what    *)
(* the tip relies on is that the request the signer is sending was never  *)
(* sent before and names the current tip.                                  *)

\* The conjuncts of TipInv beyond ExitInv.
SendFacts == Unsent /\ QueueShape /\ SendingShape

\* A step that leaves the handlers, the channel, the signer's request and
\* the signatures alone, and does not start a send, keeps SendFacts.
LEMMA SendFrame ==
    ASSUME SendFacts,
           UNCHANGED <<hpc, huid, prev, tip, accepted, queue, smsg>>,
           spc' = spc \/ spc' \notin {"sending", "respond"}
    PROVE  SendFacts'
<1>1. Queued' = Queued
    BY DEF Queued
<1>2. QED
    BY <1>1 DEF SendFacts, Unsent, QueueShape, SendingShape

\* SendFacts is kept by every step of graceful operation.
LEMMA SendStep ==
    ASSUME Graceful PROVE TipInv /\ [Next]_vars => SendFacts'
<1> SUFFICES ASSUME TypeOK, HandlerUid, StartupShape, SavedShape, DownShape,
                    SendFacts, [Next]_vars
             PROVE  SendFacts'
    BY DEF TipInv, ExitInv, TypeInv, SendFacts
<1>0. ~(faults < MaxFault)
    BY NoFault
<1>1. CASE GoSigner
    BY <1>1, SendFrame DEF GoSigner
<1>2. CASE AddSigner \/ Serve \/ AddServer \/ CloseServer \/ Signal \/ Cancel
           \/ Wait
    BY <1>2, SendFrame DEF AddSigner, Serve, AddServer, CloseServer, Signal,
                           Cancel, Wait
<1>3. CASE ServerDone
    <2>1. ctxDone /\ mpc # "down" /\ srv = "closed"
        BY <1>3 DEF ServerDone, StartupShape
    <2>2. ~WaitGroupPanic
        <3>1. wg > 0
            BY <2>1, NoWaitGroupPanic
        <3>2. QED
            BY <3>1 DEF WaitGroupPanic
    <2>3. QED
        BY <1>3, <2>2, SendFrame DEF ServerDone
<1>4. CASE SignerQuit
    <2>1. ctxDone /\ mpc # "down" /\ spc = "loop"
        BY <1>4 DEF SignerQuit
    <2>2. ~WaitGroupPanic
        <3>1. wg > 0
            BY <2>1, NoWaitGroupPanic
        <3>2. QED
            BY <3>1 DEF WaitGroupPanic
    <2>3. QED
        BY <1>4, <2>2, SendFrame DEF SignerQuit
<1>5. CASE SaveContext
    BY <1>0, <1>5, SendFrame DEF SaveContext
<1>6. CASE Kill
    BY <1>0, <1>6 DEF Kill
<1>7. CASE Exit
    <2>1. /\ hpc' = [r \in Req |-> IF hpc[r] = "idle" THEN "idle" ELSE "done"]
          /\ spc' = "none" /\ queue' = <<>>
          /\ UNCHANGED <<huid, prev, tip, accepted>>
        BY <1>7 DEF Exit, ProcessEnds
    <2>2. Queued' = {}
        BY <2>1 DEF Queued
    <2>3. Unsent'
        BY <2>1, <2>2 DEF Unsent, SendFacts, TypeOK
    <2>4. QueueShape' /\ SendingShape'
        BY <2>1 DEF QueueShape, SendingShape
    <2>5. QED
        BY <2>3, <2>4 DEF SendFacts
<1>8. CASE Restart
    <2>1. /\ tip' = tip /\ spc' = "none" /\ queue' = <<>>
          /\ UNCHANGED <<hpc, huid, prev, accepted>>
        BY <1>8 DEF Restart, Boot, SavedShape
    <2>2. Queued' = {}
        BY <2>1 DEF Queued
    <2>3. QED
        BY <2>1, <2>2 DEF SendFacts, Unsent, QueueShape, SendingShape
<1>9. CASE SignerTake
    <2> DEFINE r == Head(queue)
    <2>1. /\ queue # <<>> /\ smsg' = r /\ prev' = [prev EXCEPT ![r] = tip[huid[r]]]
          /\ queue' = Tail(queue) /\ spc' = "sending"
          /\ UNCHANGED <<hpc, huid, tip, accepted>>
        BY <1>9 DEF SignerTake
    <2>2. /\ r \in Queued /\ r \notin accepted /\ huid[r] \in Uid /\ r \in Req
          /\ Queued' \subseteq Queued /\ r \notin Queued'
        <3>1. Len(queue) >= 1 /\ queue \in Seq(Req)
            BY <2>1 DEF TypeOK
        <3>2. /\ Len(Tail(queue)) = Len(queue) - 1
              /\ \A i \in 1..Len(queue) - 1 : Tail(queue)[i] = queue[i + 1]
            BY <3>1
        <3>3. r = queue[1]
            BY <3>1
        <3>4. r \in Queued /\ r \notin accepted /\ huid[r] \in Uid /\ r \in Req
            BY <3>1, <3>3 DEF Queued, QueueShape, SendFacts, HandlerUid
        <3>5. Queued' \subseteq Queued
            BY <2>1, <3>1, <3>2 DEF Queued
        <3>6. r \notin Queued'
            BY <2>1, <3>1, <3>2, <3>3 DEF Queued, QueueShape, SendFacts
        <3>7. QED
            BY <3>4, <3>5, <3>6
    <2>3. Unsent'
        BY <2>1, <2>2 DEF Unsent, SendFacts
    <2>4. QueueShape'
        <3>1. queue \in Seq(Req) /\ Len(queue) >= 1
            BY <2>1 DEF TypeOK
        <3>2. QED
            BY <2>1, <3>1 DEF QueueShape, SendFacts
    <2>5. SendingShape'
        BY <2>1, <2>2 DEF SendingShape, TypeOK
    <2>6. QED
        BY <2>3, <2>4, <2>5 DEF SendFacts
<1>10. CASE SignerSend
    <2>1. /\ spc = "sending" /\ spc' = "respond"
          /\ UNCHANGED <<hpc, huid, prev, queue, smsg>>
          /\ accepted' \subseteq accepted \cup {smsg}
        BY <1>10 DEF SignerSend
    <2>2. /\ smsg \in Req /\ smsg \notin Queued
          /\ hpc[smsg] \notin {"idle", "enqueue"}
        BY <2>1 DEF SendingShape, Unsent, SendFacts, HandlerUid
    <2>3. Queued' = Queued
        BY <2>1 DEF Queued
    <2>4. Unsent'
        BY <2>1, <2>2, <2>3 DEF Unsent, SendFacts
    <2>5. QueueShape'
        BY <2>1, <2>2 DEF QueueShape, SendFacts, Queued
    <2>6. SendingShape'
        BY <2>1 DEF SendingShape
    <2>7. QED
        BY <2>4, <2>5, <2>6 DEF SendFacts
<1>11. CASE SignerRespond
    <2>1. /\ spc = "respond" /\ spc' = "loop"
          /\ hpc' = [hpc EXCEPT ![smsg] = "done"]
          /\ UNCHANGED <<huid, prev, tip, accepted, queue>>
        BY <1>11 DEF SignerRespond
    <2>2. Queued' = Queued
        BY <2>1 DEF Queued
    <2>3. Unsent'
        BY <2>1, <2>2 DEF SendFacts, Unsent, TypeOK
    <2>4. QueueShape'
        BY <2>1, <2>2 DEF SendFacts, QueueShape
    <2>5. SendingShape'
        BY <2>1 DEF SendingShape
    <2>6. QED
        BY <2>3, <2>4, <2>5 DEF SendFacts
<1>12. ASSUME NEW r \in Req, RejectRequest(r) PROVE SendFacts'
    <2>1. /\ hpc' = [hpc EXCEPT ![r] = "done"]
          /\ UNCHANGED <<huid, prev, tip, accepted, queue, smsg, spc>>
        BY <1>12 DEF RejectRequest
    <2>2. Queued' = Queued
        BY <2>1 DEF Queued
    <2>3. Unsent'
        BY <2>1, <2>2 DEF SendFacts, Unsent, TypeOK
    <2>4. QueueShape'
        BY <2>1, <2>2 DEF SendFacts, QueueShape
    <2>5. SendingShape'
        BY <2>1, <2>2 DEF SendFacts, SendingShape
    <2>6. QED
        BY <2>3, <2>4, <2>5 DEF SendFacts
<1>13. ASSUME NEW r \in Req, AcceptRequest(r) PROVE SendFacts'
    <2>1. PICK u \in Uid :
            /\ hpc[r] = "idle"
            /\ huid' = [huid EXCEPT ![r] = u]
            /\ hpc' = [hpc EXCEPT ![r] = "enqueue"]
            /\ UNCHANGED <<prev, tip, accepted, queue, smsg, spc>>
        BY <1>13 DEF AcceptRequest
    <2>2. r \notin Queued /\ r \notin accepted /\ (spc \in {"sending", "respond"} => r # smsg)
        BY <2>1 DEF Unsent, SendFacts
    <2>3. Queued' = Queued
        BY <2>1 DEF Queued
    <2>4. QED
        BY <2>1, <2>2, <2>3 DEF SendFacts, Unsent, QueueShape, SendingShape, TypeOK, Queued
<1>14. ASSUME NEW r \in Req, Enqueue(r) PROVE SendFacts'
    <2>1. /\ hpc[r] = "enqueue" /\ queue' = Append(queue, r)
          /\ hpc' = [hpc EXCEPT ![r] = "wait"]
          /\ UNCHANGED <<huid, prev, tip, accepted, smsg, spc>>
        BY <1>14 DEF Enqueue
    <2>2. r \notin Queued /\ r \notin accepted /\ (spc \in {"sending", "respond"} => r # smsg)
        BY <2>1 DEF Unsent, SendFacts
    <2>3. queue \in Seq(Req)
        BY DEF TypeOK
    <2>4. Queued' = Queued \cup {r}
        BY <2>1, <2>3 DEF Queued
    <2>5. Unsent'
        BY <2>1, <2>2, <2>4 DEF Unsent, SendFacts, TypeOK
    <2>6. QueueShape'
        BY <2>1, <2>2, <2>3 DEF QueueShape, SendFacts, Queued
    <2>7. SendingShape'
        BY <2>1, <2>2, <2>4 DEF SendingShape, SendFacts
    <2>8. QED
        BY <2>5, <2>6, <2>7 DEF SendFacts
<1>15. CASE UNCHANGED vars
    BY <1>15, SendFrame DEF vars
<1>16. QED
    BY <1>1, <1>2, <1>3, <1>4, <1>5, <1>6, <1>7, <1>8, <1>9, <1>10, <1>11,
       <1>12, <1>13, <1>14, <1>15 DEF Next

\* Under graceful operation TipInv holds in every reachable state.
LEMMA TipInvariant ==
    ASSUME Graceful PROVE Spec => []TipInv
<1>1. Init => TipInv
    <2> SUFFICES ASSUME Init PROVE TipInv
        OBVIOUS
    <2>1. ExitInv
        BY InitExitInv
    <2>2. SendFacts
        BY DEF Init, SendFacts, Unsent, QueueShape, SendingShape, Queued
    <2>3. QED
        BY <2>1, <2>2 DEF TipInv, SendFacts
<1>2. TipInv /\ [Next]_vars => TipInv'
    BY ExitStep, SendStep DEF TipInv, SendFacts
<1>3. QED
    BY <1>1, <1>2, PTL DEF Spec

-----
(* The tip moves only at the signer's accepted send, to the UPP it sent,   *)
(* which names the old tip (SendingShape); a restart reloads protocol.json, *)
(* which equals the tip while the process is down (SavedShape).            *)
LEMMA TipStepHolds ==
    ASSUME TipInv, [Next]_vars
    PROVE  [TipStep]_vars
<1> USE DEF TipInv, ExitInv, TypeInv
<1>1. CASE tip' = tip
    BY <1>1 DEF TipStep
<1>2. CASE SignerSend /\ accepted' = accepted \cup {smsg}
                      /\ tip' = [tip EXCEPT ![huid[smsg]] = smsg]
    <2>1. smsg \in Req /\ huid[smsg] \in Uid
        BY <1>2 DEF SignerSend, HandlerUid, SendingShape
    <2>2. smsg \notin accepted /\ prev[smsg] = tip[huid[smsg]]
        BY <1>2 DEF SignerSend, SendingShape
    <2>3. prev' = prev
        BY <1>2 DEF SignerSend
    <2>4. QED
        BY <1>2, <2>1, <2>2, <2>3 DEF TipStep, TypeOK
<1>3. CASE Restart
    BY <1>3 DEF Restart, Boot, SavedShape, TipStep
<1>4. QED
    <2>1. CASE SignerSend
        BY <2>1, <1>1, <1>2 DEF SignerSend
    <2>2. CASE ~SignerSend /\ ~Restart
        <3>1. tip' = tip
            BY <2>2 DEF Next, vars, GoSigner, AddSigner, Serve, AddServer,
                   CloseServer, ServerDone, WaitGroupPanic, Signal, Cancel,
                   Wait, SaveContext, Exit, Kill, SignerTake, SignerQuit,
                   SignerRespond, RejectRequest, AcceptRequest, Enqueue
        <3>2. QED
            BY <3>1, <1>1
    <2>3. QED
        BY <2>1, <2>2, <1>3

\* Under graceful operation a restart never takes a chain back: every step
\* that changes an identity's in-memory last signature moves it to a UPP
\* the backend accepted in that step, chained to the signature it
\* replaces; LoadContext after os.Exit(0) reloads exactly the tips in use.
THEOREM GracefulTipAdvances ==
    ASSUME Graceful PROVE Spec => TipAdvances
<1>1. TipInv /\ [Next]_vars => [TipStep]_vars
    BY TipStepHolds
<1>2. QED
    BY <1>1, TipInvariant, PTL DEF Spec, TipAdvances


-----------------------------------------------------------------------------
(* Type correctness with faults and early signals.  TypeOK bounds the      *)
(* WaitGroup counter by 2; the bound holds because main's two wg.Add(1)    *)
(* run once each per boot, so before the first the counter is 0 and before *)
(* the second at most 1, whatever the shutdown goroutine did meanwhile.    *)
WgBound ==
    /\ mpc \in {"goSigner", "addSigner"} => wg = 0
    /\ mpc \in {"serve", "addServer"} => wg <= 1

FaultInv == TypeInv /\ WgBound

\* Every way the process ends (os.Exit, a kill, a failed save, a negative
\* WaitGroup counter) keeps FaultInv: the goroutines' state is reset and
\* the waiting handlers are done.
LEMMA EndsFaultInv ==
    ASSUME FaultInv, ProcessEnds,
           UNCHANGED <<sdpc, ctxDone, wg, huid, prev, tip, saved, accepted,
                       boots>>,
           faults' \in 0..MaxFault
    PROVE  FaultInv'
<1> USE DEF MainPC, SignerPC, ServerPC, HandlerPC
<1>1. TypeOK'
    BY DEF FaultInv, TypeInv, TypeOK, ProcessEnds
<1>2. HandlerUid'
    BY DEF FaultInv, TypeInv, HandlerUid, ProcessEnds
<1>3. WgBound'
    BY DEF WgBound, ProcessEnds
<1>4. QED
    BY <1>1, <1>2, <1>3 DEF FaultInv, TypeInv

\* FaultInv is kept by every step, faults and early signals included.
LEMMA FaultStep == FaultInv /\ [Next]_vars => FaultInv'
<1> SUFFICES ASSUME FaultInv, [Next]_vars PROVE FaultInv'
    OBVIOUS
<1> USE DEF MainPC, SignerPC, ServerPC, ShutdownPC, HandlerPC
<1>1. CASE GoSigner
    BY <1>1 DEF GoSigner, FaultInv, TypeInv, TypeOK, HandlerUid, WgBound
<1>2. CASE AddSigner \/ AddServer
    BY <1>2 DEF AddSigner, AddServer, FaultInv, TypeInv, TypeOK, HandlerUid,
                WgBound
<1>3. CASE Serve
    BY <1>3 DEF Serve, FaultInv, TypeInv, TypeOK, HandlerUid, WgBound
<1>4. CASE CloseServer
    <2>1. TypeOK'
        BY <1>4 DEF CloseServer, FaultInv, TypeInv, TypeOK
    <2>2. HandlerUid'
        BY <1>4 DEF CloseServer, FaultInv, TypeInv, TypeOK, HandlerUid
    <2>3. WgBound'
        BY <1>4 DEF CloseServer, FaultInv, WgBound
    <2>4. QED
        BY <2>1, <2>2, <2>3 DEF FaultInv, TypeInv
<1>5. CASE Signal
    <2>1. TypeOK'
        BY <1>5 DEF Signal, FaultInv, TypeInv, TypeOK
    <2>2. HandlerUid'
        BY <1>5 DEF Signal, FaultInv, TypeInv, TypeOK, HandlerUid
    <2>3. WgBound'
        BY <1>5 DEF Signal, FaultInv, WgBound
    <2>4. QED
        BY <2>1, <2>2, <2>3 DEF FaultInv, TypeInv
<1>6. CASE Cancel
    <2>1. TypeOK'
        BY <1>6 DEF Cancel, FaultInv, TypeInv, TypeOK
    <2>2. HandlerUid'
        BY <1>6 DEF Cancel, FaultInv, TypeInv, TypeOK, HandlerUid
    <2>3. WgBound'
        BY <1>6 DEF Cancel, FaultInv, WgBound
    <2>4. QED
        BY <2>1, <2>2, <2>3 DEF FaultInv, TypeInv
<1>7. CASE Wait
    <2>1. TypeOK'
        BY <1>7 DEF Wait, FaultInv, TypeInv, TypeOK
    <2>2. HandlerUid'
        BY <1>7 DEF Wait, FaultInv, TypeInv, TypeOK, HandlerUid
    <2>3. WgBound'
        BY <1>7 DEF Wait, FaultInv, WgBound
    <2>4. QED
        BY <2>1, <2>2, <2>3 DEF FaultInv, TypeInv
<1>8. CASE ServerDone \/ SignerQuit
    <2>1. CASE WaitGroupPanic
        BY <2>1, EndsFaultInv DEF WaitGroupPanic, FaultInv, TypeInv, TypeOK
    <2>2. CASE ~WaitGroupPanic
        BY <1>8, <2>2 DEF ServerDone, SignerQuit, FaultInv, TypeInv, TypeOK,
                          HandlerUid, WgBound
    <2>3. QED
        BY <2>1, <2>2
<1>9. CASE SaveContext
    <2>1. CASE sdpc' = "exit" /\ saved' = tip
        BY <1>9, <2>1 DEF SaveContext, FaultInv, TypeInv, TypeOK, HandlerUid,
                          WgBound
    <2>2. CASE faults < MaxFault /\ faults' = faults + 1 /\ ProcessEnds
        BY <1>9, <2>2, EndsFaultInv DEF SaveContext, FaultInv, TypeInv, TypeOK
    <2>3. QED
        BY <1>9, <2>1, <2>2 DEF SaveContext
<1>10. CASE Exit
    BY <1>10, EndsFaultInv DEF Exit, FaultInv, TypeInv, TypeOK
<1>11. CASE Kill
    BY <1>11, EndsFaultInv DEF Kill, FaultInv, TypeInv, TypeOK
<1>12. CASE Restart
    <2>1. TypeOK'
        <3>1. /\ queue' \in Seq(Req) /\ Len(queue') <= QCap
              /\ mpc' \in MainPC /\ spc' \in SignerPC /\ srv' \in ServerPC
              /\ sdpc' \in ShutdownPC /\ wg' \in 0..2
              /\ smsg' \in Req \cup {None}
            BY <1>12 DEF Restart, Boot
        <3>2. ctxDone' \in BOOLEAN
            BY <1>12, Zenon DEF Restart, Boot
        <3>3. /\ hpc' \in [Req -> HandlerPC]
              /\ huid' \in [Req -> Uid \cup {None}]
              /\ prev' \in [Req -> Sig \cup {None}]
              /\ tip' \in [Uid -> Sig] /\ saved' \in [Uid -> Sig]
              /\ accepted' \subseteq Req /\ boots' \in 0..MaxBoot
              /\ faults' \in 0..MaxFault
            BY <1>12 DEF Restart, Boot, FaultInv, TypeInv, TypeOK
        <3>4. QED
            BY <3>1, <3>2, <3>3 DEF TypeOK
    <2>2. HandlerUid' /\ WgBound'
        BY <1>12 DEF Restart, Boot, FaultInv, TypeInv, TypeOK, HandlerUid,
                     WgBound
    <2>3. QED
        BY <2>1, <2>2 DEF FaultInv, TypeInv
<1>13. CASE SignerTake
    <2>1. TypeOK'
        BY <1>13 DEF SignerTake, FaultInv, TypeInv, TypeOK, HandlerUid
    <2>2. HandlerUid'
        BY <1>13 DEF SignerTake, FaultInv, TypeInv, TypeOK, HandlerUid
    <2>3. WgBound'
        BY <1>13 DEF SignerTake, FaultInv, WgBound
    <2>4. QED
        BY <2>1, <2>2, <2>3 DEF FaultInv, TypeInv
<1>14. CASE SignerSend
    <2>1. smsg \in Req /\ huid[smsg] \in Uid \cup {None}
        BY <1>14 DEF SignerSend, FaultInv, TypeInv, TypeOK, HandlerUid
    <2>2. tip' \in [Uid -> Sig] /\ accepted' \subseteq Req
        BY <1>14, <2>1 DEF SignerSend, FaultInv, TypeInv, TypeOK, Sig
    <2>3. QED
        BY <1>14, <2>2 DEF SignerSend, FaultInv, TypeInv, TypeOK, HandlerUid,
                           WgBound
<1>15. CASE SignerRespond
    BY <1>15 DEF SignerRespond, FaultInv, TypeInv, TypeOK, HandlerUid, WgBound
<1>16. ASSUME NEW r \in Req, RejectRequest(r) PROVE FaultInv'
    <2>1. TypeOK'
        BY <1>16 DEF RejectRequest, FaultInv, TypeInv, TypeOK
    <2>2. HandlerUid'
        BY <1>16 DEF RejectRequest, FaultInv, TypeInv, TypeOK, HandlerUid
    <2>3. WgBound'
        BY <1>16 DEF RejectRequest, FaultInv, WgBound
    <2>4. QED
        BY <2>1, <2>2, <2>3 DEF FaultInv, TypeInv
<1>17. ASSUME NEW r \in Req, AcceptRequest(r) PROVE FaultInv'
    <2>1. TypeOK'
        BY <1>17 DEF AcceptRequest, FaultInv, TypeInv, TypeOK
    <2>2. HandlerUid'
        BY <1>17 DEF AcceptRequest, FaultInv, TypeInv, TypeOK, HandlerUid
    <2>3. WgBound'
        BY <1>17 DEF AcceptRequest, FaultInv, WgBound
    <2>4. QED
        BY <2>1, <2>2, <2>3 DEF FaultInv, TypeInv
<1>18. ASSUME NEW r \in Req, Enqueue(r) PROVE FaultInv'
    <2>1. TypeOK'
        BY <1>18 DEF Enqueue, FaultInv, TypeInv, TypeOK
    <2>2. HandlerUid'
        BY <1>18 DEF Enqueue, FaultInv, TypeInv, TypeOK, HandlerUid
    <2>3. WgBound'
        BY <1>18 DEF Enqueue, FaultInv, WgBound
    <2>4. QED
        BY <2>1, <2>2, <2>3 DEF FaultInv, TypeInv
<1>19. CASE UNCHANGED vars
    BY <1>19 DEF vars, FaultInv, TypeInv, TypeOK, HandlerUid, WgBound
<1>20. QED
    BY <1>1, <1>2, <1>3, <1>4, <1>5, <1>6, <1>7, <1>8, <1>9, <1>10, <1>11,
       <1>12, <1>13, <1>14, <1>15, <1>16, <1>17, <1>18, <1>19 DEF Next

\* The v1 client's state is well typed in every reachable state, for every
\* channel capacity, restart and fault budget, and with shutdown signals
\* at any time: in particular the WaitGroup counter never exceeds the two
\* goroutines main adds, and the channel never holds more than QCap
\* requests.
THEOREM TypeCorrect == Spec => []TypeOK
<1>1. Init => FaultInv
    <2> SUFFICES ASSUME Init PROVE FaultInv
        OBVIOUS
    <2>1. WgBound
        BY DEF Init, WgBound
    <2>2. QED
        BY <2>1, InitExitInv DEF FaultInv, ExitInv
<1>2. FaultInv => TypeOK
    BY DEF FaultInv, TypeInv
<1>3. QED
    BY <1>1, <1>2, FaultStep, PTL DEF Spec

=============================================================================
