----------------------------- MODULE DurableCopy -----------------------------
(***************************************************************************)
(* What FilesystemCopierAction promises the rest of the update, with the   *)
(* threads, the mounts and the marker left out: it reports success for a   *)
(* delta update only over a faithful copy, never takes a report back, and  *)
(* a reported copy outlives a power failure.                               *)
(***************************************************************************)
VARIABLES
  content,   \* the partition holds a "copy" of the source or something "other"
  needed,    \* this attempt needs a copy (a delta update)
  verdict    \* "none" until the Action reports "success" or "failure"

Init ==
  /\ content \in {"copy", "other"}
  /\ needed \in BOOLEAN
  /\ verdict = "none"

\* Until it reports, the Action may do anything to the partition.
Work ==
  /\ verdict = "none" /\ needed
  /\ content' \in {"copy", "other"}
  /\ UNCHANGED <<needed, verdict>>

Succeed ==
  /\ verdict = "none"
  /\ needed => content = "copy"
  /\ verdict' = "success"
  /\ UNCHANGED <<content, needed>>

Fail ==
  /\ verdict = "none"
  /\ verdict' = "failure"
  /\ UNCHANGED <<content, needed>>

\* A new attempt; what was reported as copied has survived.
Restart ==
  /\ verdict' = "none"
  /\ needed' \in BOOLEAN
  /\ content' \in {"copy", "other"}
  /\ (verdict = "success" /\ needed) => content' = content

Next == Work \/ Succeed \/ Fail \/ Restart

Spec == Init /\ [][Next]_<<content, needed, verdict>>

=============================================================================
