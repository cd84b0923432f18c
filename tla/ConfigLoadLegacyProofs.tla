----------------------- MODULE ConfigLoadLegacyProofs -----------------------
(***************************************************************************)
(* Proofs about the legacy Config.Load of src/main/config.go (module       *)
(* ConfigLoadLegacy), for every configuration config.json or the          *)
(* environment may hold.                                                   *)
(***************************************************************************)
EXTENDS ConfigLoadLegacy, TLAPS

\* Load is running exactly until it returns, and from the decoded source
\* to setDefaultURLs the configuration is the one the source holds.
IInv ==
    /\ world \in World
    /\ pc \in PCs /\ result \in Result
    /\ (pc = "done") = (result # "running")
    /\ pc \in {"decode", "check", "urls"} =>
           world.src # Garbled /\ cfg = world.src

---------------------------------------------------------------------------
\* Load starts with nothing established.
LEMMA InitIInv == Init => IInv
BY DEF Init, IInv, PCs, Result

\* A step that returns an error leaves nothing to check.
LEMMA FailIInv ==
    ASSUME IInv, Fail, pc # "done"
    PROVE  IInv'
BY DEF Fail, IInv, PCs, Result

\* Every step of Load keeps the invariant, one case per helper.
LEMMA StepIInv == IInv /\ [Next]_vars => IInv'
<1> SUFFICES ASSUME IInv, [Next]_vars PROVE IInv'
    OBVIOUS
<1> USE DEF IInv, PCs, Result
<1>1. CASE LoadSource
    BY <1>1, FailIInv DEF LoadSource
<1>2. CASE DecodeSecret
    BY <1>2, FailIInv DEF DecodeSecret, Goto
<1>3. CASE CheckMandatory
    BY <1>3, FailIInv DEF CheckMandatory, Goto
<1>4. CASE SetDefaultURLs
    <2>1. pc' = "done" /\ result' \in {"ok", "error", "panic"} /\ world' = world
        BY <1>4 DEF SetDefaultURLs, Fail
    <2>2. QED
        BY <2>1
<1>5. CASE UNCHANGED vars
    BY <1>5 DEF vars
<1>6. QED
    BY <1>1, <1>2, <1>3, <1>4, <1>5 DEF Next

\* Load is well typed for every configuration: between reading the source
\* and returning, the configuration it works on is one the source can
\* hold, and Load is running exactly until it returns.
THEOREM LegacyTypeCorrect == Spec => []TypeOK
<1>1. IInv => TypeOK
    BY DEF IInv, TypeOK, World, PCs
<1>2. QED
    BY <1>1, InitIInv, StepIInv, PTL DEF Spec

=============================================================================
