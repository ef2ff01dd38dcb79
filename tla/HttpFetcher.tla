----------------------------- MODULE HttpFetcher -----------------------------
(***************************************************************************)
(* update_engine/http_fetcher.h: what a fetcher promises its delegate.     *)
(* The bytes of the resource arrive in order, none twice, none while the   *)
(* delegate has paused the transfer; TransferComplete() ends a transfer    *)
(* once and is not called after TerminateTransfer().                       *)
(***************************************************************************)
EXTENDS Naturals

CONSTANT Total   \* the length of the resource

VARIABLES
  active,     \* between BeginTransfer() and the end of the transfer
  paused,     \* between Pause() and Unpause()
  received,   \* how many bytes the delegate was given, from the first one on
  completed   \* TransferComplete() was called for this transfer

fetchVars == <<active, paused, received, completed>>

Init == active = FALSE /\ paused = FALSE /\ received = 0 /\ completed = FALSE

BeginTransfer ==
  /\ ~active
  /\ active' = TRUE /\ paused' = FALSE /\ received' = 0 /\ completed' = FALSE

ReceivedBytes ==
  /\ active /\ ~paused
  /\ received < Total
  /\ received' = received + 1
  /\ UNCHANGED <<active, paused, completed>>

TransferComplete ==
  /\ active /\ ~paused
  /\ active' = FALSE
  /\ completed' = TRUE
  /\ UNCHANGED <<paused, received>>

TerminateTransfer ==
  /\ active
  /\ active' = FALSE
  /\ paused' = FALSE
  /\ UNCHANGED <<received, completed>>

Pause ==
  /\ active /\ ~paused
  /\ paused' = TRUE
  /\ UNCHANGED <<active, received, completed>>

Unpause ==
  /\ active /\ paused
  /\ paused' = FALSE
  /\ UNCHANGED <<active, received, completed>>

Next ==
  \/ BeginTransfer
  \/ ReceivedBytes
  \/ TransferComplete
  \/ TerminateTransfer
  \/ Pause
  \/ Unpause

Spec == Init /\ [][Next]_fetchVars

=============================================================================
