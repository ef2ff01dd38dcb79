----------------------- MODULE LibcurlHttpFetcher_proofs -----------------------
(***************************************************************************)
(* Proofs about LibcurlHttpFetcher for a resource of any size, any number  *)
(* of transfers and any number of broken connections.  IInv is inductive:  *)
(* what the delegate received, what was counted and where the connection   *)
(* stands agree at every return to the main loop, and a source is there    *)
(* exactly while a transfer is.                                            *)
(***************************************************************************)
EXTENDS LibcurlHttpFetcher, TLAPS

USE FetcherAssumption

\* An idle fetcher satisfies IInv.
LEMMA InitIInv == Init => IInv
<1> SUFFICES ASSUME Init PROVE IInv
  OBVIOUS
<1>1. 0 \in 0..Total /\ 0 \in 0..MaxTransfers /\ 0 \in 0..MaxDrops
  OBVIOUS
<1>2. TypeOK
  BY <1>1 DEF Init, TypeOK
<1>3. ContiguousAcrossResumes /\ CompleteWhenSizeKnown /\ BusyIsArmed
  BY DEF Init, ContiguousAcrossResumes, CompleteWhenSizeKnown, BusyIsArmed
<1>4. IdleIsQuiet /\ CallsAreConsistent
  BY DEF Init, IdleIsQuiet, CallsAreConsistent
<1> QED
  BY <1>2, <1>3, <1>4 DEF IInv

\* Every call, callback and event keeps IInv.
LEMMA NextIInv == IInv /\ [Next]_fetcherVars => IInv'
<1> SUFFICES ASSUME IInv, [Next]_fetcherVars PROVE IInv'
  OBVIOUS
<1>0. /\ TypeOK /\ ContiguousAcrossResumes /\ CompleteWhenSizeKnown
      /\ BusyIsArmed /\ IdleIsQuiet /\ CallsAreConsistent
  BY DEF IInv
<1>1. CASE BeginTransfer
  <2>1. TypeOK'
    <3>1. 0 \in 0..Total /\ transfers' \in 0..MaxTransfers
      BY <1>0, <1>1 DEF TypeOK, BeginTransfer
    <3> QED
      BY <1>0, <1>1, <3>1 DEF TypeOK, BeginTransfer
  <2>2. ContiguousAcrossResumes'
    BY <1>0, <1>1 DEF ContiguousAcrossResumes, BeginTransfer
  <2>3. CompleteWhenSizeKnown'
    BY <1>0, <1>1 DEF CompleteWhenSizeKnown, BeginTransfer
  <2>4. BusyIsArmed'
    BY <1>0, <1>1 DEF BusyIsArmed, BeginTransfer
  <2>5. IdleIsQuiet'
    BY <1>0, <1>1 DEF IdleIsQuiet, BeginTransfer
  <2>6. CallsAreConsistent'
    BY <1>0, <1>1 DEF CallsAreConsistent, BeginTransfer
  <2> QED
    BY <2>1, <2>2, <2>3, <2>4, <2>5, <2>6 DEF IInv
<1>2. CASE TerminateTransfer
  <2>1. TypeOK'
    BY <1>0, <1>2 DEF TypeOK, TerminateTransfer, CleanUp, curlVars
  <2>2. ContiguousAcrossResumes'
    BY <1>0, <1>2 DEF ContiguousAcrossResumes, TerminateTransfer
  <2>3. CompleteWhenSizeKnown'
    BY <1>0, <1>2 DEF CompleteWhenSizeKnown, TerminateTransfer
  <2>4. BusyIsArmed'
    BY <1>0, <1>2 DEF BusyIsArmed, TerminateTransfer
  <2>5. IdleIsQuiet'
    BY <1>0, <1>2 DEF IdleIsQuiet, TerminateTransfer, CleanUp
  <2>6. CallsAreConsistent'
    BY <1>0, <1>2 DEF CallsAreConsistent, TerminateTransfer
  <2> QED
    BY <2>1, <2>2, <2>3, <2>4, <2>5, <2>6 DEF IInv
<1>3. CASE Pause
  <2>1. TypeOK'
    BY <1>0, <1>3 DEF TypeOK, Pause, ownVars
  <2>2. ContiguousAcrossResumes'
    BY <1>0, <1>3 DEF ContiguousAcrossResumes, Pause, ownVars
  <2>3. CompleteWhenSizeKnown'
    BY <1>0, <1>3 DEF CompleteWhenSizeKnown, Pause, ownVars
  <2>4. BusyIsArmed'
    BY <1>0, <1>3 DEF BusyIsArmed, Pause, ownVars
  <2>5. IdleIsQuiet'
    BY <1>0, <1>3 DEF IdleIsQuiet, Pause, ownVars
  <2>6. CallsAreConsistent'
    BY <1>0, <1>3 DEF CallsAreConsistent, Pause, ownVars
  <2> QED
    BY <2>1, <2>2, <2>3, <2>4, <2>5, <2>6 DEF IInv
<1>4. CASE Unpause
  <2>1. TypeOK'
    BY <1>0, <1>4 DEF TypeOK, Unpause, ownVars
  <2>2. ContiguousAcrossResumes'
    BY <1>0, <1>4 DEF ContiguousAcrossResumes, Unpause, ownVars
  <2>3. CompleteWhenSizeKnown'
    BY <1>0, <1>4 DEF CompleteWhenSizeKnown, Unpause, ownVars
  <2>4. BusyIsArmed'
    BY <1>0, <1>4 DEF BusyIsArmed, Unpause
  <2>5. IdleIsQuiet'
    BY <1>0, <1>4 DEF IdleIsQuiet, Unpause
  <2>6. CallsAreConsistent'
    BY <1>0, <1>4 DEF CallsAreConsistent, BusyIsArmed, Unpause, ownVars
  <2> QED
    BY <2>1, <2>2, <2>3, <2>4, <2>5, <2>6 DEF IInv
<1>5. CASE UnpauseReturns
  <2>1. TypeOK'
    BY <1>0, <1>5 DEF TypeOK, UnpauseReturns, ownVars, curlVars, seenVars
  <2>2. ContiguousAcrossResumes'
    BY <1>0, <1>5
    DEF ContiguousAcrossResumes, UnpauseReturns, ownVars, curlVars, seenVars
  <2>3. CompleteWhenSizeKnown'
    BY <1>0, <1>5 DEF CompleteWhenSizeKnown, UnpauseReturns, ownVars, seenVars
  <2>4. BusyIsArmed'
    BY <1>0, <1>5 DEF BusyIsArmed, CallsAreConsistent, UnpauseReturns, ownVars
  <2>5. IdleIsQuiet'
    BY <1>0, <1>5 DEF IdleIsQuiet, CallsAreConsistent, UnpauseReturns, ownVars
  <2>6. CallsAreConsistent'
    BY <1>0, <1>5 DEF CallsAreConsistent, UnpauseReturns, ownVars, curlVars, seenVars
  <2> QED
    BY <2>1, <2>2, <2>3, <2>4, <2>5, <2>6 DEF IInv
<1>6. ASSUME NEW stated \in BOOLEAN, LibcurlWrite(stated) PROVE IInv'
  <2>1. TypeOK'
    BY <1>0, <1>6
    DEF TypeOK, ContiguousAcrossResumes, CallsAreConsistent, LibcurlWrite, SizeOfWhole
  <2>2. ContiguousAcrossResumes'
    BY <1>0, <1>6 DEF CallsAreConsistent, ContiguousAcrossResumes, LibcurlWrite
  <2>3. CompleteWhenSizeKnown'
    BY <1>0, <1>6 DEF CompleteWhenSizeKnown, CallsAreConsistent, LibcurlWrite
  <2>4. BusyIsArmed'
    BY <1>0, <1>6 DEF BusyIsArmed, LibcurlWrite
  <2>5. IdleIsQuiet'
    BY <1>0, <1>6 DEF IdleIsQuiet, LibcurlWrite
  <2>6. CallsAreConsistent'
    BY <1>0, <1>6 DEF TypeOK, CallsAreConsistent, LibcurlWrite, SizeOfWhole
  <2> QED
    BY <2>1, <2>2, <2>3, <2>4, <2>5, <2>6 DEF IInv
<1>7. CASE PerformContinues
  <2>1. TypeOK'
    BY <1>0, <1>7 DEF TypeOK, PerformContinues, SetupMainloopSources, curlVars, seenVars
  <2>2. ContiguousAcrossResumes'
    BY <1>0, <1>7 DEF ContiguousAcrossResumes, PerformContinues, curlVars, seenVars
  <2>3. CompleteWhenSizeKnown'
    BY <1>0, <1>7 DEF CompleteWhenSizeKnown, PerformContinues, seenVars
  <2>4. BusyIsArmed'
    BY <1>0, <1>7 DEF BusyIsArmed, PerformContinues, SetupMainloopSources
  <2>5. IdleIsQuiet'
    BY <1>0, <1>7 DEF IdleIsQuiet, CallsAreConsistent, PerformContinues
  <2>6. CallsAreConsistent'
    BY <1>0, <1>7 DEF CallsAreConsistent, PerformContinues, curlVars, seenVars
  <2> QED
    BY <2>1, <2>2, <2>3, <2>4, <2>5, <2>6 DEF IInv
<1>8. CASE PerformResumes
  <2>1. TypeOK'
    BY <1>0, <1>8 DEF TypeOK, PerformResumes, CleanUp, ResumeTransfer, seenVars
  <2>2. ContiguousAcrossResumes'
    BY <1>0, <1>8 DEF ContiguousAcrossResumes, PerformResumes, ResumeTransfer, seenVars
  <2>3. CompleteWhenSizeKnown'
    BY <1>0, <1>8 DEF CompleteWhenSizeKnown, PerformResumes, seenVars
  <2>4. BusyIsArmed'
    BY <1>0, <1>8 DEF BusyIsArmed, PerformResumes
  <2>5. IdleIsQuiet'
    BY <1>0, <1>8 DEF IdleIsQuiet, PerformResumes
  <2>6. CallsAreConsistent'
    BY <1>0, <1>8
    DEF TypeOK, CallsAreConsistent, PerformResumes, ResumeTransfer, HandleDone, seenVars
  <2> QED
    BY <2>1, <2>2, <2>3, <2>4, <2>5, <2>6 DEF IInv
<1>9. CASE PerformCompletes
  <2>1. TypeOK'
    BY <1>0, <1>9 DEF TypeOK, PerformCompletes, CleanUp, curlVars
  <2>2. ContiguousAcrossResumes'
    BY <1>0, <1>9 DEF ContiguousAcrossResumes, PerformCompletes
  <2>3. CompleteWhenSizeKnown'
    BY <1>0, <1>9
    DEF CompleteWhenSizeKnown, TypeOK, CallsAreConsistent, ContiguousAcrossResumes,
        PerformCompletes, Incomplete
  <2>4. BusyIsArmed'
    BY <1>0, <1>9 DEF BusyIsArmed, PerformCompletes
  <2>5. IdleIsQuiet'
    BY <1>0, <1>9 DEF IdleIsQuiet, PerformCompletes
  <2>6. CallsAreConsistent'
    BY <1>0, <1>9 DEF CallsAreConsistent, PerformCompletes, CleanUp
  <2> QED
    BY <2>1, <2>2, <2>3, <2>4, <2>5, <2>6 DEF IInv
<1>10. CASE DelegateReturns
  <2>1. TypeOK'
    BY <1>0, <1>10 DEF TypeOK, DelegateReturns, ownVars, curlVars, seenVars
  <2>2. ContiguousAcrossResumes'
    BY <1>0, <1>10
    DEF ContiguousAcrossResumes, DelegateReturns, ownVars, curlVars, seenVars
  <2>3. CompleteWhenSizeKnown'
    BY <1>0, <1>10 DEF CompleteWhenSizeKnown, DelegateReturns, ownVars, seenVars
  <2>4. BusyIsArmed'
    BY <1>0, <1>10 DEF BusyIsArmed, CallsAreConsistent, DelegateReturns, ownVars
  <2>5. IdleIsQuiet'
    BY <1>0, <1>10 DEF IdleIsQuiet, CallsAreConsistent, DelegateReturns, ownVars
  <2>6. CallsAreConsistent'
    BY <1>0, <1>10 DEF CallsAreConsistent, DelegateReturns, ownVars
  <2> QED
    BY <2>1, <2>2, <2>3, <2>4, <2>5, <2>6 DEF IInv
<1>11. CASE TimeoutCallback
  <2>1. TypeOK'
    BY <1>0, <1>11 DEF TypeOK, TimeoutCallback, CallCurlPerformOnce, curlVars, seenVars
  <2>2. ContiguousAcrossResumes'
    BY <1>0, <1>11 DEF ContiguousAcrossResumes, TimeoutCallback, curlVars, seenVars
  <2>3. CompleteWhenSizeKnown'
    BY <1>0, <1>11 DEF CompleteWhenSizeKnown, TimeoutCallback, seenVars
  <2>4. BusyIsArmed'
    BY <1>0, <1>11 DEF BusyIsArmed, TimeoutCallback, CallCurlPerformOnce
  <2>5. IdleIsQuiet'
    BY <1>0, <1>11 DEF IdleIsQuiet, TimeoutCallback, CallCurlPerformOnce
  <2>6. CallsAreConsistent'
    BY <1>0, <1>11
    DEF CallsAreConsistent, TimeoutCallback, CallCurlPerformOnce, curlVars, seenVars
  <2> QED
    BY <2>1, <2>2, <2>3, <2>4, <2>5, <2>6 DEF IInv
<1>12. CASE FDCallback
  <2>1. TypeOK'
    BY <1>0, <1>12 DEF TypeOK, FDCallback, CallCurlPerformOnce, curlVars, seenVars
  <2>2. ContiguousAcrossResumes'
    BY <1>0, <1>12 DEF ContiguousAcrossResumes, FDCallback, curlVars, seenVars
  <2>3. CompleteWhenSizeKnown'
    BY <1>0, <1>12 DEF CompleteWhenSizeKnown, FDCallback, seenVars
  <2>4. BusyIsArmed'
    BY <1>0, <1>12 DEF BusyIsArmed, FDCallback
  <2>5. IdleIsQuiet'
    BY <1>0, <1>12 DEF IdleIsQuiet, FDCallback, CallCurlPerformOnce
  <2>6. CallsAreConsistent'
    BY <1>0, <1>12
    DEF CallsAreConsistent, FDCallback, CallCurlPerformOnce, curlVars, seenVars
  <2> QED
    BY <2>1, <2>2, <2>3, <2>4, <2>5, <2>6 DEF IInv
<1>13. CASE ConnectionBreaks
  <2>1. TypeOK'
    BY <1>0, <1>13 DEF TypeOK, ConnectionBreaks, ownVars, seenVars
  <2>2. ContiguousAcrossResumes'
    BY <1>0, <1>13 DEF ContiguousAcrossResumes, ConnectionBreaks, ownVars, seenVars
  <2>3. CompleteWhenSizeKnown'
    BY <1>0, <1>13 DEF CompleteWhenSizeKnown, ConnectionBreaks, ownVars, seenVars
  <2>4. BusyIsArmed'
    BY <1>0, <1>13 DEF BusyIsArmed, ConnectionBreaks, ownVars
  <2>5. IdleIsQuiet'
    BY <1>0, <1>13 DEF IdleIsQuiet, ConnectionBreaks, ownVars
  <2>6. CallsAreConsistent'
    BY <1>0, <1>13 DEF CallsAreConsistent, ConnectionBreaks, ownVars, seenVars
  <2> QED
    BY <2>1, <2>2, <2>3, <2>4, <2>5, <2>6 DEF IInv
<1>14. CASE UNCHANGED fetcherVars
  BY <1>0, <1>14
  DEF IInv, TypeOK, ContiguousAcrossResumes, CompleteWhenSizeKnown, BusyIsArmed,
      IdleIsQuiet, CallsAreConsistent, fetcherVars, ownVars, curlVars, seenVars
<1> QED
  BY <1>1, <1>2, <1>3, <1>4, <1>5, <1>6, <1>7, <1>8, <1>9, <1>10, <1>11, <1>12, <1>13,
     <1>14
  DEF Next

\* The fetcher keeps its inductive invariant.
THEOREM Safety == Spec => []IInv
  BY InitIInv, NextIInv, PTL DEF Spec

\* The counters and offsets of a transfer stay within the resource.
THEOREM TypeCorrect == Spec => []TypeOK
<1>1. IInv => TypeOK
  BY DEF IInv
<1> QED
  BY <1>1, Safety, PTL

\* However often ResumeTransfer() is called, the delegate has received a prefix
\* of the resource and the next request starts at its end.
THEOREM Contiguous == Spec => []ContiguousAcrossResumes
<1>1. IInv => ContiguousAcrossResumes
  BY DEF IInv
<1> QED
  BY <1>1, Safety, PTL

\* CurlPerformOnce() never reports a transfer of known size that is incomplete.
THEOREM KnownSizeComplete == Spec => []CompleteWhenSizeKnown
<1>1. IInv => CompleteWhenSizeKnown
  BY DEF IInv
<1> QED
  BY <1>1, Safety, PTL

\* A transfer in progress never loses its timeout source.
THEOREM NeverForgotten == Spec => []BusyIsArmed
<1>1. IInv => BusyIsArmed
  BY DEF IInv
<1> QED
  BY <1>1, Safety, PTL

\* CleanUp() leaves no source behind, so CHECK(transfer_in_progress_) holds.
THEOREM QuietWhenIdle == Spec => []IdleIsQuiet
<1>1. IInv => IdleIsQuiet
  BY DEF IInv
<1> QED
  BY <1>1, Safety, PTL

\* LibcurlHttpFetcher implements the HttpFetcher interface: every step of it is
\* a step of the interface or changes nothing the delegate can see.
THEOREM ImplementsInterface == Spec => FetcherKeepsInterface
<1>1. Init => Interface!Init
  BY DEF Init, Interface!Init
<1>2. IInv /\ [Next]_fetcherVars => [Interface!Next]_(Interface!fetchVars)
  <2> SUFFICES ASSUME IInv, [Next]_fetcherVars
               PROVE  Interface!Next \/ UNCHANGED Interface!fetchVars
    OBVIOUS
  <2>0. TypeOK /\ ContiguousAcrossResumes /\ CallsAreConsistent
    BY DEF IInv
  <2>1. CASE BeginTransfer
    BY <2>1 DEF BeginTransfer, Interface!Next, Interface!BeginTransfer
  <2>2. CASE TerminateTransfer
    BY <2>2 DEF TerminateTransfer, Interface!Next, Interface!TerminateTransfer
  <2>3. CASE Pause
    BY <2>3 DEF Pause, ownVars, Interface!Next, Interface!Pause
  <2>4. CASE Unpause
    BY <2>4 DEF Unpause, ownVars, Interface!Next, Interface!Unpause
  <2>5. ASSUME NEW stated \in BOOLEAN, LibcurlWrite(stated) PROVE Interface!Next
    <3>1. inProgress /\ ~paused /\ received < Total
      BY <2>0, <2>5 DEF ContiguousAcrossResumes, CallsAreConsistent, LibcurlWrite
    <3>2. received' = received + 1 /\ UNCHANGED <<inProgress, paused, completed>>
      BY <2>5 DEF LibcurlWrite
    <3> QED
      BY <3>1, <3>2 DEF Interface!Next, Interface!ReceivedBytes
  <2>6. CASE PerformCompletes
    <3>1. inProgress /\ ~paused
      BY <2>0, <2>6 DEF CallsAreConsistent, PerformCompletes, HandleDone
    <3>2. inProgress' = FALSE /\ completed' = TRUE /\ UNCHANGED <<paused, received>>
      BY <2>6 DEF PerformCompletes
    <3> QED
      BY <3>1, <3>2 DEF Interface!Next, Interface!TransferComplete
  <2>7. CASE PerformResumes
    <3>1. inProgress /\ inProgress' = TRUE
      BY <2>0, <2>7 DEF CallsAreConsistent, PerformResumes, ResumeTransfer
    <3>2. inProgress' = inProgress
      BY <2>0, <3>1
    <3> QED
      BY <2>7, <3>2 DEF PerformResumes, seenVars, Interface!fetchVars
  <2>8. CASE UnpauseReturns \/ PerformContinues \/ DelegateReturns
    BY <2>8
    DEF UnpauseReturns, PerformContinues, DelegateReturns, ownVars, seenVars,
        Interface!fetchVars
  <2>9. CASE TimeoutCallback \/ FDCallback \/ ConnectionBreaks
    BY <2>9
    DEF TimeoutCallback, FDCallback, ConnectionBreaks, ownVars, seenVars,
        Interface!fetchVars
  <2>10. CASE UNCHANGED fetcherVars
    BY <2>10 DEF fetcherVars, ownVars, seenVars, Interface!fetchVars
  <2> QED
    BY <2>1, <2>2, <2>3, <2>4, <2>5, <2>6, <2>7, <2>8, <2>9, <2>10 DEF Next
<1> QED
  BY <1>1, <1>2, Safety, PTL DEF Spec, FetcherKeepsInterface, Interface!Spec

=============================================================================
