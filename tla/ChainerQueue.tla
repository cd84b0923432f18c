---------------------------- MODULE ChainerQueue ----------------------------
(***************************************************************************)
(* The v2 client of src/main/protocol.go (second file, lines 136-336):     *)
(* chained requests are not signed by their handlers but handed to one     *)
(* chainer goroutine over the buffered channel chainingJobs (capacity      *)
(* RequestBufSize).  main starts                                           *)
(*   - the shutdown goroutine (a signal cancels ctx),                      *)
(*   - timeTrack (ranges over the unbuffered elapsedTime channel and       *)
(*     cancels timeTrackCtx when that channel is closed),                  *)
(*   - in an errgroup, the chainer (ranges over chainingJobs) and the HTTP *)
(*     server (Serve(ctx); its deferred close(chainingJobs) runs when      *)
(*     Serve returns),                                                     *)
(* then waits for the errgroup, for timeTrackCtx, and calls p.Deinit(),    *)
(* which persists the protocol context (the last signatures).             *)
(*                                                                         *)
(* The chainer, the ChainingService handler and HTTPServer.Serve of this  *)
(* version are not in the repository; they follow the specification      *)
(* (section 5: the handler blocks on a full buffer until it enqueued) and *)
(* net/http: Shutdown makes Serve return at once while handlers of open   *)
(* connections still run, a send on a closed channel panics (a handler    *)
(* panic is recovered by net/http, which drops the connection), and       *)
(* closing a channel makes a sender blocked on it panic.  The chainer     *)
(* closes elapsedTime when it returns: nothing else can, and main waits   *)
(* for timeTrack to see it closed.                                        *)
(***************************************************************************)
EXTENDS Naturals, Sequences

CONSTANTS
    Req,            \* the chained requests of a behaviour
    RequestBufSize  \* capacity of chainingJobs

ASSUME ChainerAssumption ==
    /\ RequestBufSize \in Nat \ {0}
    /\ Req # {}
    /\ "none" \notin Req

MainPC     == {"start", "groupWait", "timeTrackWait", "deinit", "exited"}
ServerPC   == {"none", "listening", "returned"}
ChainerPC  == {"none", "ranging", "chaining", "returned"}
HandlerPC  == {"idle", "enqueue", "waiting", "answered", "dropped", "panicked"}
Finished   == {"answered", "dropped", "panicked"}

VARIABLES
    mpc,            \* main goroutine
    cancelled,      \* ctx is done: the shutdown goroutine called cancel()
    srv,            \* the errgroup goroutine running httpServer.Serve(ctx)
    jobs,           \* chainingJobs: the buffered requests, oldest first
    jobsClosed,     \* close(chainingJobs) has run
    cpc,            \* the chainer goroutine
    job,            \* the request the chainer is chaining
    elapsedClosed,  \* close(elapsedTime) has run
    tracking,       \* timeTrack still ranges over elapsedTime
    hpc             \* hpc[r]: the handler goroutine of request r

vars == <<mpc, cancelled, srv, jobs, jobsClosed, cpc, job, elapsedClosed,
          tracking, hpc>>

TypeOK ==
    /\ mpc \in MainPC /\ cancelled \in BOOLEAN /\ srv \in ServerPC
    /\ jobs \in Seq(Req) /\ Len(jobs) <= RequestBufSize
    /\ jobsClosed \in BOOLEAN
    /\ cpc \in ChainerPC /\ job \in Req \cup {"none"}
    /\ elapsedClosed \in BOOLEAN /\ tracking \in BOOLEAN
    /\ hpc \in [Req -> HandlerPC]

Init ==
    /\ mpc = "start" /\ cancelled = FALSE /\ srv = "none"
    /\ jobs = <<>> /\ jobsClosed = FALSE
    /\ cpc = "none" /\ job = "none"
    /\ elapsedClosed = FALSE /\ tracking = FALSE
    /\ hpc = [r \in Req |-> "idle"]

-----------------------------------------------------------------------------
(* main: go shutdown, go timeTrack, make(chainingJobs), g.Go(chainer),     *)
(* endpoint set-up, g.Go(server).                                         *)
Start ==
    /\ mpc = "start"
    /\ mpc' = "groupWait" /\ cpc' = "ranging" /\ srv' = "listening"
    /\ tracking' = TRUE
    /\ UNCHANGED <<cancelled, jobs, jobsClosed, job, elapsedClosed, hpc>>

(* g.Wait() returns once the chainer and the server goroutine returned.   *)
GroupWait ==
    /\ mpc = "groupWait" /\ srv = "returned" /\ cpc = "returned"
    /\ mpc' = "timeTrackWait"
    /\ UNCHANGED <<cancelled, srv, jobs, jobsClosed, cpc, job, elapsedClosed,
                   tracking, hpc>>

(* <-timeTrackCtx.Done(), then p.Deinit() persists the context.           *)
TimeTrackWait ==
    /\ mpc = "timeTrackWait" /\ ~tracking
    /\ mpc' = "deinit"
    /\ UNCHANGED <<cancelled, srv, jobs, jobsClosed, cpc, job, elapsedClosed,
                   tracking, hpc>>

(* p.Deinit() persists the protocol context (the chainer, which alone    *)
(* commits signatures, has returned), then main returns and the process  *)
(* ends: the handlers still running lose their connections.              *)
Deinit ==
    /\ mpc = "deinit"
    /\ mpc' = "exited"
    /\ hpc' = [r \in Req |-> IF hpc[r] \in Finished THEN hpc[r] ELSE "dropped"]
    /\ UNCHANGED <<cancelled, srv, jobs, jobsClosed, cpc, job, elapsedClosed,
                   tracking>>

(* shutdown: a SIGINT or SIGTERM arrives and cancel() runs.               *)
Shutdown ==
    /\ mpc # "start" /\ ~cancelled
    /\ cancelled' = TRUE
    /\ UNCHANGED <<mpc, srv, jobs, jobsClosed, cpc, job, elapsedClosed,
                   tracking, hpc>>

(* The server goroutine: on ctx.Done Serve shuts the listener down and    *)
(* returns without waiting for running handlers; the deferred             *)
(* close(chainingJobs) runs.  ServerReturnNoClose is its mutant without  *)
(* the deferred close.                                                    *)
ServerReturnNoClose ==
    /\ srv = "listening" /\ cancelled
    /\ srv' = "returned"
    /\ UNCHANGED <<mpc, cancelled, jobs, jobsClosed, cpc, job, elapsedClosed,
                   tracking, hpc>>

ServerReturn ==
    /\ srv = "listening" /\ cancelled
    /\ srv' = "returned" /\ jobsClosed' = TRUE
    /\ UNCHANGED <<mpc, cancelled, jobs, cpc, job, elapsedClosed, tracking,
                   hpc>>

-----------------------------------------------------------------------------
(* chainer: for job := range chainingJobs { chain it, send the response,  *)
(* elapsedTime <- duration }; on return close(elapsedTime).               *)
ChainerTake ==
    /\ cpc = "ranging" /\ jobs # <<>>
    /\ cpc' = "chaining" /\ job' = Head(jobs) /\ jobs' = Tail(jobs)
    /\ UNCHANGED <<mpc, cancelled, srv, jobsClosed, elapsedClosed, tracking,
                   hpc>>

(* Sign the chained UPP, send it, commit the signature on a 2xx answer    *)
(* (ChainSigner models these steps); the handler gets the response,      *)
(* timeTrack the duration.                                                *)
ChainerRespond ==
    /\ cpc = "chaining"
    /\ hpc' = [hpc EXCEPT ![job] = IF @ = "waiting" THEN "answered" ELSE @]
    /\ cpc' = "ranging" /\ job' = "none"
    /\ UNCHANGED <<mpc, cancelled, srv, jobs, jobsClosed, elapsedClosed,
                   tracking>>

(* Mutant of ChainerReturn: a select on ctx.Done ends the loop early.   *)
ChainerReturnOnCancel ==
    /\ cpc = "ranging" /\ ((jobs = <<>> /\ jobsClosed) \/ cancelled)
    /\ cpc' = "returned" /\ elapsedClosed' = TRUE
    /\ UNCHANGED <<mpc, cancelled, srv, jobs, jobsClosed, job, tracking, hpc>>

(* The range ends once chainingJobs is closed and drained.                *)
ChainerReturn ==
    /\ cpc = "ranging" /\ jobs = <<>> /\ jobsClosed
    /\ cpc' = "returned" /\ elapsedClosed' = TRUE
    /\ UNCHANGED <<mpc, cancelled, srv, jobs, jobsClosed, job, tracking, hpc>>

(* timeTrack: the range over elapsedTime ends once it is closed; the      *)
(* deferred timeTrackCancel() lets main go on.                            *)
TimeTrackReturn ==
    /\ tracking /\ elapsedClosed
    /\ tracking' = FALSE
    /\ UNCHANGED <<mpc, cancelled, srv, jobs, jobsClosed, cpc, job,
                   elapsedClosed, hpc>>

-----------------------------------------------------------------------------
(* ChainingService: a request passes the checks and its handler is about *)
(* to send it to the chainer.  New connections are served until Serve     *)
(* returns.                                                               *)
Accept(r) ==
    /\ hpc[r] = "idle" /\ srv = "listening"
    /\ hpc' = [hpc EXCEPT ![r] = "enqueue"]
    /\ UNCHANGED <<mpc, cancelled, srv, jobs, jobsClosed, cpc, job,
                   elapsedClosed, tracking>>

(* Mutant of Enqueue: the send does not wait for room in the buffer.     *)
EnqueueNoCapacity(r) ==
    /\ hpc[r] = "enqueue" /\ ~jobsClosed
    /\ jobs' = Append(jobs, r)
    /\ hpc' = [hpc EXCEPT ![r] = "waiting"]
    /\ UNCHANGED <<mpc, cancelled, srv, jobsClosed, cpc, job, elapsedClosed,
                   tracking>>

(* chainingJobs <- r blocks while the buffer is full; on a closed channel *)
(* it panics and net/http drops the connection.                           *)
Enqueue(r) ==
    /\ hpc[r] = "enqueue"
    /\ \/ /\ ~jobsClosed /\ Len(jobs) < RequestBufSize
          /\ jobs' = Append(jobs, r)
          /\ hpc' = [hpc EXCEPT ![r] = "waiting"]
       \/ /\ jobsClosed
          /\ hpc' = [hpc EXCEPT ![r] = "panicked"]
          /\ UNCHANGED jobs
    /\ UNCHANGED <<mpc, cancelled, srv, jobsClosed, cpc, job, elapsedClosed,
                   tracking>>

(* The client gives up while the handler is blocked on the full buffer.   *)
ClientCancel(r) ==
    /\ hpc[r] = "enqueue" /\ ~jobsClosed /\ Len(jobs) = RequestBufSize
    /\ hpc' = [hpc EXCEPT ![r] = "dropped"]
    /\ UNCHANGED <<mpc, cancelled, srv, jobs, jobsClosed, cpc, job,
                   elapsedClosed, tracking>>

Next ==
    \/ Start \/ GroupWait \/ TimeTrackWait \/ Deinit \/ Shutdown
    \/ ServerReturn \/ ChainerTake \/ ChainerRespond \/ ChainerReturn
    \/ TimeTrackReturn
    \/ \E r \in Req : Accept(r) \/ Enqueue(r) \/ ClientCancel(r)

(* Go runs every runnable goroutine: main, the server goroutine once ctx  *)
(* is done, the chainer, timeTrack and a handler that can send.  Signals, *)
(* request arrivals and clients giving up are not forced.                 *)
Fairness ==
    /\ WF_vars(Start) /\ WF_vars(GroupWait) /\ WF_vars(TimeTrackWait)
    /\ WF_vars(Deinit) /\ WF_vars(ServerReturn)
    /\ WF_vars(ChainerTake) /\ WF_vars(ChainerRespond)
    /\ WF_vars(ChainerReturn)
    /\ WF_vars(TimeTrackReturn)
    /\ \A r \in Req : WF_vars(Enqueue(r))

Spec == Init /\ [][Next]_vars /\ Fairness

-----------------------------------------------------------------------------
(* The requests handed to the chainer and not yet answered.              *)
InFlight == {jobs[i] : i \in 1..Len(jobs)} \cup ({job} \ {"none"})

(* No request is lost or answered twice: a handler waits for its response *)
(* exactly while its request sits in chainingJobs or with the chainer.   *)
(* Broken if the chainer stops before the buffer is drained and main     *)
(* exits over the buffered jobs, or if a job is answered and kept.       *)
JobsAccountedFor == \A r \in Req : hpc[r] = "waiting" <=> r \in InFlight

(* Every request that made it into chainingJobs is answered, even when    *)
(* the server shuts down meanwhile: the chainer drains the closed buffer  *)
(* before it returns.                                                     *)
EnqueuedAnswered == \A r \in Req : hpc[r] = "waiting" ~> hpc[r] = "answered"

(* After a shutdown signal the client terminates: the server returns and  *)
(* closes chainingJobs, the chainer returns and closes elapsedTime,       *)
(* timeTrack returns, and main persists the context and exits.            *)
ShutdownCompletes == cancelled ~> mpc = "exited"
=============================================================================
