------------------------------ MODULE V1Server ------------------------------
(***************************************************************************)
(* The v1 client (src/main/main.go, second program, and                   *)
(* src/main/api/ubirch_rest_api.go): HTTP handlers put each request on the *)
(* buffered channel msgsToSign and block on a response channel of their   *)
(* own; one signer goroutine takes the requests in order, chains each UPP *)
(* to the in-memory last signature of its identity, and answers.  The     *)
(* last signatures reach protocol.json only through SaveContext in the    *)
(* shutdown goroutine, after cancel() and wg.Wait().  The restart script  *)
(* (src/unnamed/part_000) starts the process again after it exits or is   *)
(* killed, and LoadContext reads protocol.json back.                      *)
(*                                                                         *)
(* The signer goroutine is not in the repository; it is modelled from the *)
(* spec's signing algorithm (commit the new signature only after the      *)
(* backend accepted the UPP), with a select between ctx.Done() and the    *)
(* channel at the head of its loop.                                       *)
(***************************************************************************)
EXTENDS Naturals, Sequences

CONSTANTS
    Req,        \* HTTP requests
    Uid,        \* device identities
    Zero,       \* the registered (all-zero) previous signature
    None,       \* no value yet
    QCap,       \* capacity of msgsToSign (100 in main)
    MaxBoot,    \* restarts by the start script
    MaxFault,   \* kills (SIGKILL, OOM, power loss) and failed SaveContexts
    EarlySignal \* SIGINT/SIGTERM may arrive before main has finished startup

Sig == {Zero} \cup Req

ASSUME V1Assumption ==
    /\ Zero \notin Req /\ None \notin Req \cup Uid /\ Zero # None
    /\ QCap \in Nat \ {0}
    /\ MaxBoot \in Nat /\ MaxFault \in Nat /\ EarlySignal \in BOOLEAN

MainPC == {"goSigner", "addSigner", "serve", "addServer", "running", "down"}
SignerPC == {"none", "loop", "sending", "respond", "exited"}
ServerPC == {"none", "listening", "closed", "finished"}
ShutdownPC == {"waiting", "cancel", "wait", "save", "exit"}
HandlerPC == {"idle", "enqueue", "wait", "done"}

VARIABLES
    mpc, spc, srv, sdpc,    \* main, signer, HTTP server, shutdown goroutines
    ctxDone,                \* the context of main has been cancelled
    wg,                     \* the WaitGroup counter
    queue,                  \* msgsToSign
    smsg,                   \* the request the signer is working on
    hpc, huid, prev,        \* per request: handler state, identity, prev sig
    tip,                    \* p.Signatures: in-memory last signature per uid
    saved,                  \* protocol.json: persisted last signature per uid
    accepted,               \* UPPs the backend stored
    boots, faults           \* restarts and faults so far

vars == <<mpc, spc, srv, sdpc, ctxDone, wg, queue, smsg, hpc, huid, prev,
          tip, saved, accepted, boots, faults>>

TypeOK ==
    /\ mpc \in MainPC /\ spc \in SignerPC /\ srv \in ServerPC
    /\ sdpc \in ShutdownPC /\ ctxDone \in BOOLEAN
    /\ wg \in 0..2
    /\ queue \in Seq(Req) /\ Len(queue) <= QCap
    /\ smsg \in Req \cup {None}
    /\ hpc \in [Req -> HandlerPC] /\ huid \in [Req -> Uid \cup {None}]
    /\ prev \in [Req -> Sig \cup {None}]
    /\ tip \in [Uid -> Sig] /\ saved \in [Uid -> Sig]
    /\ accepted \subseteq Req
    /\ boots \in 0..MaxBoot /\ faults \in 0..MaxFault

(* A fresh process right after LoadContext, shutdown goroutine started.   *)
Boot(loaded) ==
    /\ mpc' = "goSigner" /\ spc' = "none" /\ srv' = "none"
    /\ sdpc' = "waiting" /\ ctxDone' = FALSE /\ wg' = 0
    /\ queue' = <<>> /\ smsg' = None
    /\ tip' = loaded

Init ==
    /\ mpc = "goSigner" /\ spc = "none" /\ srv = "none"
    /\ sdpc = "waiting" /\ ctxDone = FALSE /\ wg = 0
    /\ queue = <<>> /\ smsg = None
    /\ tip = [u \in Uid |-> Zero]
    /\ hpc = [r \in Req |-> "idle"] /\ huid = [r \in Req |-> None]
    /\ prev = [r \in Req |-> None]
    /\ saved = [u \in Uid |-> Zero]
    /\ accepted = {} /\ boots = 0 /\ faults = 0

(* The process ends: every handler still waiting loses its connection.   *)
ProcessEnds ==
    /\ mpc' = "down"
    /\ hpc' = [r \in Req |-> IF hpc[r] = "idle" THEN "idle" ELSE "done"]
    /\ spc' = "none" /\ srv' = "none" /\ queue' = <<>> /\ smsg' = None

(* wg.Done() on a zero counter: "sync: negative WaitGroup counter"      *)
(* panics and the process dies.                                           *)
WaitGroupPanic ==
    /\ wg = 0
    /\ ProcessEnds
    /\ UNCHANGED <<sdpc, ctxDone, wg, huid, prev, tip, saved, accepted, boots,
                   faults>>

------------------------------------------------------------------------------
(* main: go signer(...); wg.Add(1); Serve(ctx, &wg); wg.Add(1).          *)
GoSigner ==
    /\ mpc = "goSigner"
    /\ mpc' = "addSigner" /\ spc' = "loop"
    /\ UNCHANGED <<srv, sdpc, ctxDone, wg, queue, smsg, hpc, huid, prev, tip,
                   saved, accepted, boots, faults>>

AddSigner ==
    /\ mpc = "addSigner"
    /\ mpc' = "serve" /\ wg' = wg + 1
    /\ UNCHANGED <<spc, srv, sdpc, ctxDone, queue, smsg, hpc, huid, prev, tip,
                   saved, accepted, boots, faults>>

Serve ==
    /\ mpc = "serve"
    /\ mpc' = "addServer" /\ srv' = "listening"
    /\ UNCHANGED <<spc, sdpc, ctxDone, wg, queue, smsg, hpc, huid, prev, tip,
                   saved, accepted, boots, faults>>

AddServer ==
    /\ mpc = "addServer"
    /\ mpc' = "running" /\ wg' = wg + 1
    /\ UNCHANGED <<spc, srv, sdpc, ctxDone, queue, smsg, hpc, huid, prev, tip,
                   saved, accepted, boots, faults>>

(* Serve's first goroutine: on ctx.Done(), server.Shutdown(ctx) with the  *)
(* cancelled context returns at once, without waiting for handlers.       *)
CloseServer ==
    /\ srv = "listening" /\ ctxDone /\ mpc # "down"
    /\ srv' = "closed"
    /\ UNCHANGED <<mpc, spc, sdpc, ctxDone, wg, queue, smsg, hpc, huid, prev,
                   tip, saved, accepted, boots, faults>>

(* Serve's second goroutine: ListenAndServe returns; defer wg.Done().     *)
ServerDone ==
    /\ srv = "closed" /\ mpc # "down"
    /\ \/ /\ wg > 0
          /\ srv' = "finished" /\ wg' = wg - 1
          /\ UNCHANGED <<mpc, spc, sdpc, ctxDone, queue, smsg, hpc, huid, prev,
                         tip, saved, accepted, boots, faults>>
       \/ WaitGroupPanic

------------------------------------------------------------------------------
(* shutdown: a signal, cancel(), wg.Wait(), SaveContext, os.Exit(0).      *)
Signal ==
    /\ sdpc = "waiting" /\ mpc # "down"
    /\ EarlySignal \/ mpc = "running"
    /\ sdpc' = "cancel"
    /\ UNCHANGED <<mpc, spc, srv, ctxDone, wg, queue, smsg, hpc, huid, prev,
                   tip, saved, accepted, boots, faults>>

Cancel ==
    /\ sdpc = "cancel" /\ mpc # "down"
    /\ sdpc' = "wait" /\ ctxDone' = TRUE
    /\ UNCHANGED <<mpc, spc, srv, wg, queue, smsg, hpc, huid, prev, tip,
                   saved, accepted, boots, faults>>

WaitNoGuard ==
    /\ sdpc = "wait" /\ mpc # "down"
    /\ sdpc' = "save"
    /\ UNCHANGED <<mpc, spc, srv, ctxDone, wg, queue, smsg, hpc, huid, prev,
                   tip, saved, accepted, boots, faults>>

Wait ==
    /\ sdpc = "wait" /\ mpc # "down" /\ wg = 0
    /\ sdpc' = "save"
    /\ UNCHANGED <<mpc, spc, srv, ctxDone, wg, queue, smsg, hpc, huid, prev,
                   tip, saved, accepted, boots, faults>>

(* p.SaveContext(); on an error the goroutine calls os.Exit(1) at once. *)
SaveContext ==
    /\ sdpc = "save" /\ mpc # "down"
    /\ \/ /\ sdpc' = "exit" /\ saved' = tip
          /\ UNCHANGED <<mpc, spc, srv, ctxDone, wg, queue, smsg, hpc, huid,
                         prev, tip, accepted, boots, faults>>
       \/ /\ faults < MaxFault
          /\ faults' = faults + 1
          /\ ProcessEnds
          /\ UNCHANGED <<sdpc, ctxDone, wg, huid, prev, tip, saved, accepted,
                         boots>>

Exit ==
    /\ sdpc = "exit" /\ mpc # "down"
    /\ ProcessEnds
    /\ UNCHANGED <<sdpc, ctxDone, wg, huid, prev, tip, saved, accepted, boots,
                   faults>>

(* The process is killed at an arbitrary point: nothing is saved.         *)
Kill ==
    /\ mpc # "down" /\ faults < MaxFault
    /\ faults' = faults + 1
    /\ ProcessEnds
    /\ UNCHANGED <<sdpc, ctxDone, wg, huid, prev, tip, saved, accepted, boots>>

RestartFresh ==
    /\ mpc = "down" /\ boots < MaxBoot
    /\ boots' = boots + 1
    /\ Boot([u \in Uid |-> Zero])
    /\ UNCHANGED <<hpc, huid, prev, saved, accepted, faults>>

(* The start script runs the client again; LoadContext reads the         *)
(* signatures of protocol.json.                                           *)
Restart ==
    /\ mpc = "down" /\ boots < MaxBoot
    /\ boots' = boots + 1
    /\ Boot(saved)
    /\ UNCHANGED <<hpc, huid, prev, saved, accepted, faults>>

------------------------------------------------------------------------------
(* The request checks of the handlers (assertContentType, checkAuth,     *)
(* getData): a failure answers the client at once.                        *)
RejectRequest(r) ==
    /\ hpc[r] = "idle" /\ srv = "listening" /\ mpc # "down"
    /\ hpc' = [hpc EXCEPT ![r] = "done"]
    /\ UNCHANGED <<mpc, spc, srv, sdpc, ctxDone, wg, queue, smsg, huid, prev,
                   tip, saved, accepted, boots, faults>>

(* signHash/signJSON -> sign: the checks pass for identity u.            *)
AcceptRequest(r) ==
    /\ hpc[r] = "idle" /\ srv = "listening" /\ mpc # "down"
    /\ \E u \in Uid : huid' = [huid EXCEPT ![r] = u]
    /\ hpc' = [hpc EXCEPT ![r] = "enqueue"]
    /\ UNCHANGED <<mpc, spc, srv, sdpc, ctxDone, wg, queue, smsg, prev, tip,
                   saved, accepted, boots, faults>>

EnqueueNoCapacity(r) ==
    /\ hpc[r] = "enqueue" /\ mpc # "down"
    /\ queue' = Append(queue, r)
    /\ hpc' = [hpc EXCEPT ![r] = "wait"]
    /\ UNCHANGED <<mpc, spc, srv, sdpc, ctxDone, wg, smsg, huid, prev, tip,
                   saved, accepted, boots, faults>>

(* srv.MessageHandler <- HTTPMessage{...}: blocks while the buffer is full.*)
Enqueue(r) ==
    /\ hpc[r] = "enqueue" /\ mpc # "down" /\ Len(queue) < QCap
    /\ queue' = Append(queue, r)
    /\ hpc' = [hpc EXCEPT ![r] = "wait"]
    /\ UNCHANGED <<mpc, spc, srv, sdpc, ctxDone, wg, smsg, huid, prev, tip,
                   saved, accepted, boots, faults>>

------------------------------------------------------------------------------
(* signer: select { case <-ctx.Done(): wg.Done(); return                  *)
(*                  case msg := <-msgsToSign: ... }                        *)
SignerTake ==
    /\ spc = "loop" /\ queue # <<>> /\ mpc # "down"
    /\ LET r == Head(queue)
       IN  /\ smsg' = r
           /\ prev' = [prev EXCEPT ![r] = tip[huid[r]]]
    /\ queue' = Tail(queue) /\ spc' = "sending"
    /\ UNCHANGED <<mpc, srv, sdpc, ctxDone, wg, hpc, huid, tip, saved,
                   accepted, boots, faults>>

SignerQuit ==
    /\ spc = "loop" /\ ctxDone /\ mpc # "down"
    /\ \/ /\ wg > 0
          /\ spc' = "exited" /\ wg' = wg - 1
          /\ UNCHANGED <<mpc, srv, sdpc, ctxDone, queue, smsg, hpc, huid, prev,
                         tip, saved, accepted, boots, faults>>
       \/ WaitGroupPanic

(* Send the chained UPP.  The backend may reject it, store it and answer  *)
(* in time (the new signature becomes the in-memory tip), or store it and  *)
(* answer after the client's timeout, when the signer sees an error and    *)
(* keeps the old tip.                                                      *)
SignerSend ==
    /\ spc = "sending" /\ mpc # "down"
    /\ \/ /\ accepted' = accepted \cup {smsg}
          /\ tip' = [tip EXCEPT ![huid[smsg]] = smsg]
       \/ /\ accepted' = accepted \cup {smsg}
          /\ UNCHANGED tip
       \/ UNCHANGED <<accepted, tip>>
    /\ spc' = "respond"
    /\ UNCHANGED <<mpc, srv, sdpc, ctxDone, wg, queue, smsg, hpc, huid, prev,
                   saved, boots, faults>>

SignerRespondNever ==
    /\ spc = "respond" /\ mpc # "down"
    /\ spc' = "loop" /\ smsg' = None
    /\ UNCHANGED <<mpc, srv, sdpc, ctxDone, wg, queue, hpc, huid, prev, tip,
                   saved, accepted, boots, faults>>

(* msg.Response <- resp, received by forwardBackendResponse.              *)
SignerRespond ==
    /\ spc = "respond" /\ mpc # "down"
    /\ hpc' = [hpc EXCEPT ![smsg] = "done"]
    /\ spc' = "loop" /\ smsg' = None
    /\ UNCHANGED <<mpc, srv, sdpc, ctxDone, wg, queue, huid, prev, tip,
                   saved, accepted, boots, faults>>
------------------------------------------------------------------------------
Next ==
    \/ GoSigner \/ AddSigner \/ Serve \/ AddServer \/ CloseServer \/ ServerDone
    \/ Signal \/ Cancel \/ Wait \/ SaveContext \/ Exit \/ Kill \/ Restart
    \/ SignerTake \/ SignerQuit \/ SignerSend \/ SignerRespond
    \/ \E r \in Req : RejectRequest(r) \/ AcceptRequest(r) \/ Enqueue(r)

(* Go schedules every runnable goroutine: each step of main, the server  *)
(* goroutines, the shutdown goroutine after the signal, the signer and a  *)
(* handler that can enqueue is eventually taken.  Signals, faults,         *)
(* restarts and new requests are not forced.                              *)
Fairness ==
    /\ WF_vars(GoSigner) /\ WF_vars(AddSigner) /\ WF_vars(Serve)
    /\ WF_vars(AddServer) /\ WF_vars(CloseServer) /\ WF_vars(ServerDone)
    /\ WF_vars(Cancel) /\ WF_vars(Wait) /\ WF_vars(SaveContext) /\ WF_vars(Exit)
    /\ WF_vars(SignerTake) /\ WF_vars(SignerQuit) /\ WF_vars(SignerSend)
    /\ WF_vars(SignerRespond)
    /\ \A r \in Req : WF_vars(Enqueue(r))

Spec == Init /\ [][Next]_vars /\ Fairness

------------------------------------------------------------------------------
(* The in-memory last signature of an identity only moves forward along  *)
(* its chain: a step that changes tip[u] (the signer's commit, or the     *)
(* LoadContext of a restart) sets it to a UPP the backend accepted in     *)
(* that very step, chained to the tip it replaces.  A restart that loads  *)
(* an older protocol.json than the signatures in use moves it back.       *)
TipStep ==
    \A u \in Uid :
        tip'[u] # tip[u] =>
            /\ tip'[u] \in accepted' \ accepted
            /\ prev'[tip'[u]] = tip[u]

(* Every step of the v1 client, restarts included, satisfies TipStep: no *)
(* LoadContext after a restart takes an identity's chain back.            *)
TipAdvances == [][TipStep]_vars

(* When the shutdown goroutine is about to call os.Exit, protocol.json   *)
(* holds every signature the signer committed: wg.Wait() made the       *)
(* SaveContext come after the signer's last commit.                      *)
ExitPersistsAll == sdpc = "exit" /\ mpc # "down" => saved = tip

(* Every request the handlers accepted is eventually answered, or its    *)
(* connection is dropped by the end of the process: no handler stays     *)
(* blocked on a full channel or on a response channel nobody writes.     *)
AllAnswered == \A r \in Req : hpc[r] \in {"enqueue", "wait"} ~> hpc[r] = "done"

==============================================================================
