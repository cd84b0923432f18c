------------------------- MODULE ChainerQueueProofs -------------------------
(***************************************************************************)
(* Proofs about the v2 chaining buffer: the type invariant and            *)
(* JobsAccountedFor hold in every reachable state, for every set of       *)
(* requests and every buffer size.                                        *)
(***************************************************************************)
EXTENDS ChainerQueue, TLAPS

USE ChainerAssumption

(* No request is twice in chainingJobs, and the one the chainer holds is  *)
(* no longer in it.                                                       *)
NoDuplicate ==
    /\ \A i, j \in 1..Len(jobs) : i # j => jobs[i] # jobs[j]
    /\ \A i \in 1..Len(jobs) : jobs[i] # job

(* The chainer holds a request exactly while it is chaining, and once it *)
(* returned nothing is buffered and nothing more can be.                 *)
ChainerShape ==
    /\ mpc = "start" => cpc = "none"
    /\ (cpc = "chaining") <=> (job # "none")
    /\ cpc = "returned" => jobs = <<>> /\ jobsClosed
    /\ mpc \in {"timeTrackWait", "deinit", "exited"} => cpc = "returned"

(* The inductive invariant.                                               *)
IInv == TypeOK /\ NoDuplicate /\ ChainerShape /\ JobsAccountedFor

(* The buffer after a receive: the elements of Tail(s) are those of s at  *)
(* positions 2..Len(s), shifted by one.                                   *)
LEMMA TailElems ==
    ASSUME NEW S, NEW s \in Seq(S), s # <<>>
    PROVE  /\ Tail(s) \in Seq(S)
           /\ Len(Tail(s)) = Len(s) - 1
           /\ \A i \in 1..Len(Tail(s)) : Tail(s)[i] = s[i + 1]
    OBVIOUS

(* The initial state satisfies the inductive invariant.                   *)
LEMMA InitIInv == Init => IInv
<1> SUFFICES ASSUME Init PROVE IInv
    OBVIOUS
<1>1. TypeOK
    <2>1. jobs \in Seq(Req) /\ Len(jobs) <= RequestBufSize
        BY DEF Init
    <2>2. hpc \in [Req -> HandlerPC]
        BY DEF Init, HandlerPC
    <2>3. /\ mpc \in MainPC /\ srv \in ServerPC /\ cpc \in ChainerPC
          /\ job \in Req \cup {"none"}
        BY DEF Init, MainPC, ServerPC, ChainerPC
    <2>4. QED
        BY <2>1, <2>2, <2>3 DEF Init, TypeOK
<1>2. InFlight = {}
    BY DEF Init, InFlight
<1>3. JobsAccountedFor
    BY <1>2 DEF Init, JobsAccountedFor
<1>4. NoDuplicate /\ ChainerShape
    BY DEF Init, NoDuplicate, ChainerShape
<1>5. QED
    BY <1>1, <1>3, <1>4 DEF IInv

(* A step that moves neither a request nor a handler, and closes nothing  *)
(* the invariant depends on, keeps it.                                    *)
LEMMA Frame ==
    ASSUME IInv,
           jobs' = jobs, job' = job, hpc' = hpc, cpc' = cpc,
           mpc' \in MainPC, srv' \in ServerPC, cancelled' \in BOOLEAN,
           jobsClosed' \in BOOLEAN, elapsedClosed' \in BOOLEAN,
           tracking' \in BOOLEAN,
           cpc = "returned" => jobsClosed',
           mpc' \in {"timeTrackWait", "deinit", "exited"} => cpc = "returned",
           mpc' = "start" => mpc = "start"
    PROVE  IInv'
<1>1. TypeOK'
    BY DEF IInv, TypeOK
<1>2. InFlight' = InFlight
    BY DEF InFlight
<1>3. JobsAccountedFor'
    BY <1>2 DEF IInv, JobsAccountedFor
<1>4. NoDuplicate'
    BY DEF IInv, NoDuplicate
<1>5. ChainerShape'
    BY DEF IInv, ChainerShape
<1>6. QED
    BY <1>1, <1>3, <1>4, <1>5 DEF IInv

(* Every step keeps the inductive invariant.                              *)
LEMMA StepIInv == IInv /\ [Next]_vars => IInv'
<1> SUFFICES ASSUME IInv, [Next]_vars PROVE IInv'
    OBVIOUS
<1> USE DEF IInv, TypeOK, MainPC, ServerPC, ChainerPC, HandlerPC
<1>1. CASE Start
    <2>1. cpc = "none" /\ job = "none"
        BY <1>1 DEF Start, ChainerShape
    <2>2. InFlight' = InFlight
        BY <1>1 DEF Start, InFlight
    <2>3. QED
        BY <1>1, <2>1, <2>2 DEF Start, NoDuplicate, ChainerShape,
                                JobsAccountedFor
<1>2. CASE GroupWait
    BY <1>2, Frame DEF GroupWait, ChainerShape
<1>3. CASE TimeTrackWait
    BY <1>3, Frame DEF TimeTrackWait, ChainerShape
<1>4. CASE Deinit
    <2>1. jobs = <<>> /\ job = "none"
        BY <1>4 DEF Deinit, ChainerShape
    <2>2. InFlight = {} /\ InFlight' = {}
        BY <1>4, <2>1 DEF Deinit, InFlight
    <2>3. \A r \in Req : hpc[r] # "waiting"
        BY <2>2 DEF JobsAccountedFor
    <2>4. JobsAccountedFor'
        BY <1>4, <2>2, <2>3 DEF Deinit, JobsAccountedFor, Finished
    <2>5. QED
        BY <1>4, <2>4 DEF Deinit, NoDuplicate, ChainerShape, Finished
<1>5. CASE Shutdown
    BY <1>5, Frame DEF Shutdown, ChainerShape
<1>6. CASE ServerReturn
    BY <1>6, Frame DEF ServerReturn, ChainerShape
<1>7. CASE ChainerTake
    <2> DEFINE h == Head(jobs)
    <2>1. jobs # <<>> /\ job = "none" /\ h = jobs[1]
        BY <1>7 DEF ChainerTake, ChainerShape
    <2>2. /\ jobs' \in Seq(Req) /\ Len(jobs') = Len(jobs) - 1
          /\ \A i \in 1..Len(jobs') : jobs'[i] = jobs[i + 1]
        BY <1>7, <2>1, TailElems DEF ChainerTake
    <2>3. InFlight' = InFlight
        BY <1>7, <2>1, <2>2 DEF ChainerTake, InFlight
    <2>4. NoDuplicate'
        BY <1>7, <2>1, <2>2 DEF ChainerTake, NoDuplicate
    <2>5. TypeOK'
        BY <1>7, <2>1, <2>2 DEF ChainerTake
    <2>6. QED
        BY <1>7, <2>1, <2>3, <2>4, <2>5
           DEF ChainerTake, ChainerShape, JobsAccountedFor
<1>8. CASE ChainerRespond
    <2>1. job \in Req /\ job \in InFlight
        BY <1>8 DEF ChainerRespond, ChainerShape, InFlight
    <2>2. hpc[job] = "waiting"
        BY <2>1 DEF JobsAccountedFor
    <2>3. InFlight' = InFlight \ {job}
        BY <1>8, <2>1 DEF ChainerRespond, InFlight, NoDuplicate
    <2>4. hpc' = [hpc EXCEPT ![job] = "answered"]
        BY <1>8, <2>2 DEF ChainerRespond
    <2>5. JobsAccountedFor'
        BY <2>3, <2>4 DEF JobsAccountedFor
    <2>6. QED
        BY <1>8, <2>1, <2>4, <2>5 DEF ChainerRespond, NoDuplicate, ChainerShape
<1>9. CASE ChainerReturn
    <2>1. job = "none" /\ jobs = <<>>
        BY <1>9 DEF ChainerReturn, ChainerShape
    <2>2. InFlight' = InFlight
        BY <1>9 DEF ChainerReturn, InFlight
    <2>3. QED
        BY <1>9, <2>1, <2>2 DEF ChainerReturn, NoDuplicate, ChainerShape,
                                JobsAccountedFor
<1>10. CASE TimeTrackReturn
    BY <1>10, Frame DEF TimeTrackReturn, ChainerShape
<1>11. ASSUME NEW r \in Req, Accept(r) PROVE IInv'
    BY <1>11 DEF Accept, NoDuplicate, ChainerShape, JobsAccountedFor, InFlight
<1>12. ASSUME NEW r \in Req, Enqueue(r) PROVE IInv'
    <2>1. r \notin InFlight
        BY <1>12 DEF Enqueue, JobsAccountedFor
    <2>2. CASE ~jobsClosed /\ Len(jobs) < RequestBufSize
               /\ jobs' = Append(jobs, r)
               /\ hpc' = [hpc EXCEPT ![r] = "waiting"]
        <3>1. InFlight' = InFlight \cup {r}
            BY <1>12, <2>2 DEF Enqueue, InFlight
        <3>2. cpc # "returned"
            BY <2>2 DEF ChainerShape
        <3>3. NoDuplicate'
            BY <1>12, <2>1, <2>2 DEF Enqueue, NoDuplicate, InFlight
        <3>4. JobsAccountedFor'
            BY <2>1, <2>2, <3>1 DEF JobsAccountedFor
        <3>5. QED
            BY <1>12, <2>2, <3>2, <3>3, <3>4 DEF Enqueue, ChainerShape
    <2>3. CASE jobsClosed /\ hpc' = [hpc EXCEPT ![r] = "panicked"]
               /\ UNCHANGED jobs
        BY <1>12, <2>1, <2>3 DEF Enqueue, NoDuplicate, ChainerShape,
                                 JobsAccountedFor, InFlight
    <2>4. QED
        BY <1>12, <2>2, <2>3 DEF Enqueue
<1>13. ASSUME NEW r \in Req, ClientCancel(r) PROVE IInv'
    BY <1>13 DEF ClientCancel, NoDuplicate, ChainerShape, JobsAccountedFor,
                 InFlight
<1>14. CASE UNCHANGED vars
    BY <1>14 DEF vars, NoDuplicate, ChainerShape, JobsAccountedFor, InFlight
<1>15. QED
    BY <1>1, <1>2, <1>3, <1>4, <1>5, <1>6, <1>7, <1>8, <1>9, <1>10, <1>11,
       <1>12, <1>13, <1>14 DEF Next

(* Type correctness of the v2 chaining buffer: every handler, channel and *)
(* goroutine state stays in its type; in particular chainingJobs never    *)
(* holds more than RequestBufSize requests.                              *)
THEOREM ChainerTypeCorrect == Spec => []TypeOK
<1>1. IInv => TypeOK
    BY DEF IInv
<1>2. QED
    BY <1>1, InitIInv, StepIInv, PTL DEF Spec

(* No chained request is lost or answered twice by the chaining buffer   *)
(* (ChainingService, chainer, close(chainingJobs) at shutdown): a handler *)
(* waits exactly while its request is buffered or being chained.         *)
THEOREM NoJobLost == Spec => []JobsAccountedFor
<1>1. IInv => JobsAccountedFor
    BY DEF IInv
<1>2. QED
    BY <1>1, InitIInv, StepIInv, PTL DEF Spec
=============================================================================
