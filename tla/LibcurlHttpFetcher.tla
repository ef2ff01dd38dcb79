------------------------- MODULE LibcurlHttpFetcher -------------------------
(***************************************************************************)
(* update_engine/libcurl_http_fetcher.{h,cc}: an HttpFetcher that drives   *)
(* libcurl from glib main-loop sources, one timeout and watches on         *)
(* libcurl's descriptors, and resumes a transfer that broke off.           *)
(*                                                                         *)
(* Everything runs on the main-loop thread; ctl is what is on its stack:   *)
(* "loop", "perform" (inside CurlPerformOnce()), "unpause" (inside         *)
(* curl_easy_pause(CURLPAUSE_CONT)), "delegate" (inside the delegate's     *)
(* TransferComplete()) or "aborted" (a CHECK failed).  libcurl and the     *)
(* server are external: a request made at an offset yields the bytes after *)
(* it until the server is done or the connection breaks.                   *)
(***************************************************************************)
EXTENDS Integers

CONSTANTS
  Total,          \* bytes of the resource
  MaxTransfers,   \* bound: calls of BeginTransfer()
  MaxDrops        \* bound: connections that break

ASSUME FetcherAssumption ==
  Total \in Nat /\ MaxTransfers \in Nat /\ MaxDrops \in Nat

VARIABLES
  ctl,
  inProgress,     \* transfer_in_progress_, curl_handle_ and curl_multi_handle_
  transferSize,   \* transfer_size_
  downloaded,     \* bytes_downloaded_
  resumeOffset,   \* resume_offset_
  timer,          \* timeout_source_ is attached
  watched,        \* io_channels_ is not empty
  sent,           \* external: offset the connection has reached
  broken,         \* external: the connection is broken
  handlePaused,   \* external: curl_easy_pause() state of the current handle
  paused,         \* the delegate called Pause() last, not Unpause()
  received,       \* history: the delegate has bytes 1..received of the resource,
  inOrder,        \*   each once and in order
  completed,      \* history: TransferComplete() was called
  transfers, drops

ownVars == <<inProgress, transferSize, downloaded, resumeOffset, timer, watched>>
curlVars == <<sent, broken, handlePaused>>
seenVars == <<paused, received, inOrder, completed>>
fetcherVars == <<ctl, ownVars, curlVars, seenVars, transfers, drops>>

Init ==
  /\ ctl = "loop"
  /\ inProgress = FALSE
  /\ transferSize = -1 /\ downloaded = 0 /\ resumeOffset = 0
  /\ timer = FALSE /\ watched = FALSE
  /\ sent = 0 /\ broken = FALSE /\ handlePaused = FALSE
  /\ paused = FALSE /\ received = 0 /\ inOrder = TRUE /\ completed = FALSE
  /\ transfers = 0 /\ drops = 0

-----------------------------------------------------------------------------

\* Mutant: CURLOPT_RESUME_FROM_LARGE is not set.
ResumeFromStart(offset) ==
  /\ resumeOffset' = IF offset > 0 THEN offset ELSE resumeOffset
  /\ sent' = 0 /\ broken' = FALSE /\ handlePaused' = FALSE
  /\ inProgress' = TRUE

\* ResumeTransfer(): new handles, CURLOPT_RESUME_FROM_LARGE when bytes have been
\* received; it goes on in CurlPerformOnce().
ResumeTransfer(offset) ==
  /\ resumeOffset' = IF offset > 0 THEN offset ELSE resumeOffset
  /\ sent' = offset /\ broken' = FALSE /\ handlePaused' = FALSE
  /\ inProgress' = TRUE

\* BeginTransfer(); its caller, an Action, has no transfer in progress.
BeginTransfer ==
  /\ ctl \in {"loop", "delegate"}
  /\ ~inProgress
  /\ transfers < MaxTransfers
  /\ transfers' = transfers + 1
  /\ transferSize' = -1
  /\ downloaded' = 0
  /\ resumeOffset' = 0
  /\ sent' = 0 /\ broken' = FALSE /\ handlePaused' = FALSE
  /\ inProgress' = TRUE
  /\ ctl' = "perform"
  /\ paused' = FALSE /\ received' = 0 /\ inOrder' = TRUE /\ completed' = FALSE
  /\ UNCHANGED <<timer, watched, drops>>

\* Mutant: CleanUp() forgets the timeout source.
CleanUpKeepsTimer ==
  /\ watched' = FALSE
  /\ UNCHANGED timer

\* CleanUp(): no source is left in the main loop (the handles: inProgress).
CleanUp ==
  /\ timer' = FALSE
  /\ watched' = FALSE

\* TerminateTransfer() and the destructor.
TerminateTransfer ==
  /\ ctl = "loop"
  /\ inProgress
  /\ CleanUp
  /\ inProgress' = FALSE
  /\ paused' = FALSE
  /\ UNCHANGED <<ctl, transferSize, downloaded, resumeOffset, curlVars, received, inOrder,
                 completed, transfers, drops>>

\* Mutant: Pause() does not tell libcurl.
PauseUntold ==
  /\ ctl \in {"loop", "perform", "unpause"}
  /\ inProgress /\ ~paused
  /\ paused' = TRUE
  /\ UNCHANGED <<ctl, ownVars, curlVars, received, inOrder, completed, transfers, drops>>

\* Pause(), from the main loop or from the delegate's ReceivedBytes().
Pause ==
  /\ ctl \in {"loop", "perform", "unpause"}
  /\ inProgress /\ ~paused
  /\ paused' = TRUE
  /\ handlePaused' = TRUE
  /\ UNCHANGED <<ctl, ownVars, sent, broken, received, inOrder, completed, transfers, drops>>

\* Unpause(): libcurl may call LibcurlWrite() before it returns.
Unpause ==
  /\ ctl = "loop"
  /\ inProgress /\ paused
  /\ paused' = FALSE
  /\ handlePaused' = FALSE
  /\ ctl' = "unpause"
  /\ UNCHANGED <<ownVars, sent, broken, received, inOrder, completed, transfers, drops>>

UnpauseReturns ==
  /\ ctl = "unpause"
  /\ ctl' = "loop"
  /\ UNCHANGED <<ownVars, curlVars, seenVars, transfers, drops>>

\* Mutant: the Content-Length of a resumed request is taken for the whole size.
SizeOfRest(stated) == IF stated THEN Total - resumeOffset ELSE transferSize

\* transfer_size_ once a body arrives: CURLINFO_CONTENT_LENGTH_DOWNLOAD, if the
\* server stated it, counts from the offset of this request.
SizeOfWhole(stated) == IF stated THEN resumeOffset + (Total - resumeOffset) ELSE transferSize

\* LibcurlWrite(), called by libcurl with the next byte of the connection.
LibcurlWrite(stated) ==
  /\ ctl \in {"perform", "unpause"}
  /\ ~handlePaused /\ sent < Total
  /\ sent' = sent + 1
  /\ transferSize' = SizeOfWhole(stated)
  /\ downloaded' = downloaded + 1
  /\ inOrder' = (inOrder /\ sent = received)
  /\ received' = received + 1
  /\ UNCHANGED <<ctl, inProgress, resumeOffset, timer, watched, broken, handlePaused,
                 paused, completed, transfers, drops>>

\* Mutant: the watches are set up, but not the timeout.
SetupWithoutTimeout ==
  /\ timer' = FALSE
  /\ watched' \in BOOLEAN

\* SetupMainloopSources(): a new timeout, and watches on the descriptors libcurl
\* waits for (none while it is paused or has no connection yet).
SetupMainloopSources ==
  /\ timer' = TRUE
  /\ watched' \in (IF handlePaused THEN {FALSE} ELSE BOOLEAN)

\* curl_multi_perform() reports no running handle.
HandleDone == ~handlePaused /\ (sent = Total \/ broken)

\* CurlPerformOnce() with the transfer still running.
PerformContinues ==
  /\ ctl = "perform"
  /\ ~HandleDone
  /\ SetupMainloopSources
  /\ ctl' = "loop"
  /\ UNCHANGED <<inProgress, transferSize, downloaded, resumeOffset, curlVars, seenVars,
                 transfers, drops>>

\* The connection ended before the last byte of a resource of known size.
Incomplete == transferSize >= 0 /\ downloaded < transferSize

\* CurlPerformOnce(): the handle is done, the transfer is not.
PerformResumes ==
  /\ ctl = "perform"
  /\ HandleDone
  /\ Incomplete
  /\ CleanUp
  /\ ResumeTransfer(downloaded)
  /\ UNCHANGED <<ctl, transferSize, downloaded, seenVars, transfers, drops>>

\* CurlPerformOnce(): the delegate's TransferComplete(this, true).
PerformCompletes ==
  /\ ctl = "perform"
  /\ HandleDone
  /\ ~Incomplete
  /\ CleanUp
  /\ inProgress' = FALSE
  /\ completed' = TRUE
  /\ ctl' = "delegate"
  /\ UNCHANGED <<transferSize, downloaded, resumeOffset, curlVars, paused, received, inOrder,
                 transfers, drops>>

DelegateReturns ==
  /\ ctl = "delegate"
  /\ ctl' = "loop"
  /\ UNCHANGED <<ownVars, curlVars, seenVars, transfers, drops>>

\* CurlPerformOnce() from a source: CHECK(transfer_in_progress_).
CallCurlPerformOnce == ctl' = IF inProgress THEN "perform" ELSE "aborted"

\* TimeoutCallback(): the source goes away with its callback.
TimeoutCallback ==
  /\ ctl = "loop"
  /\ timer
  /\ timer' = FALSE
  /\ CallCurlPerformOnce
  /\ UNCHANGED <<inProgress, transferSize, downloaded, resumeOffset, watched, curlVars,
                 seenVars, transfers, drops>>

\* FDCallback(): likewise for the watch; the timeout stays.
FDCallback ==
  /\ ctl = "loop"
  /\ watched
  /\ watched' = FALSE
  /\ CallCurlPerformOnce
  /\ UNCHANGED <<inProgress, transferSize, downloaded, resumeOffset, timer, curlVars,
                 seenVars, transfers, drops>>

\* External: the connection breaks.
ConnectionBreaks ==
  /\ inProgress /\ ~broken /\ sent < Total
  /\ drops < MaxDrops
  /\ drops' = drops + 1
  /\ broken' = TRUE
  /\ UNCHANGED <<ctl, ownVars, sent, handlePaused, seenVars, transfers>>

Next ==
  \/ BeginTransfer
  \/ TerminateTransfer
  \/ Pause
  \/ Unpause
  \/ UnpauseReturns
  \/ \E stated \in BOOLEAN : LibcurlWrite(stated)
  \/ PerformContinues
  \/ PerformResumes
  \/ PerformCompletes
  \/ DelegateReturns
  \/ TimeoutCallback
  \/ FDCallback
  \/ ConnectionBreaks

Spec == Init /\ [][Next]_fetcherVars

\* glib runs a due timeout, calls return, and libcurl hands over what the server
\* sends if it is called again and again.
Fairness ==
  /\ WF_fetcherVars(TimeoutCallback)
  /\ WF_fetcherVars(UnpauseReturns)
  /\ WF_fetcherVars(DelegateReturns)
  /\ WF_fetcherVars(PerformContinues \/ PerformResumes \/ PerformCompletes)
  /\ SF_fetcherVars(\E stated \in BOOLEAN : LibcurlWrite(stated))

FairSpec == Spec /\ Fairness

-----------------------------------------------------------------------------
(* Properties.                                                             *)

TypeOK ==
  /\ ctl \in {"loop", "perform", "unpause", "delegate", "aborted"}
  /\ {inProgress, timer, watched, broken, handlePaused, paused, inOrder, completed}
       \subseteq BOOLEAN
  /\ transferSize \in {-1} \cup 0..Total
  /\ {downloaded, resumeOffset, sent, received} \subseteq 0..Total
  /\ transfers \in 0..MaxTransfers /\ drops \in 0..MaxDrops

\* However often the connection breaks and wherever, the bytes handed to
\* ReceivedBytes() are the resource from its first byte on, none twice and none
\* left out, and the next request starts right after them.
ContiguousAcrossResumes ==
  /\ inOrder
  /\ received = downloaded
  /\ inProgress => sent = downloaded

\* A transfer whose size became known is reported only when all of it is there.
CompleteWhenSizeKnown ==
  (completed /\ transferSize >= 0) => received = Total

\* A transfer in progress always has its timeout in the main loop, so it cannot
\* be forgotten, whichever callback ran last and even while it is paused.
BusyIsArmed == (ctl = "loop" /\ inProgress) => timer

\* Without a transfer no source is left that would call into a fetcher without
\* handles: CurlPerformOnce()'s CHECK(transfer_in_progress_) holds.
IdleIsQuiet ==
  /\ (ctl = "loop" /\ ~inProgress) => ~timer /\ ~watched
  /\ ctl # "aborted"

\* What holds between the calls: a callback that is on the stack has a transfer,
\* the delegate is called after everything was cleaned up, the only handle's
\* pause state is the one the delegate asked for, a size that is known is the
\* right one, and no request starts beyond what was received.
CallsAreConsistent ==
  /\ ctl \in {"perform", "unpause"} => inProgress
  /\ ctl = "unpause" => timer
  /\ ctl = "delegate" => ~inProgress /\ ~timer /\ ~watched
  /\ inProgress => ~completed /\ (paused <=> handlePaused)
  /\ transferSize \in {-1, Total}
  /\ resumeOffset <= downloaded

\* However often the connection breaks and ResumeTransfer() asks again: what was delivered is a
\* prefix of the resource, a transfer whose size is known does not end before its last byte,
\* and main-loop sources are there exactly while a transfer needs them.  The conjunction is
\* inductive; no part of it is.
IInv ==
  /\ TypeOK
  /\ ContiguousAcrossResumes
  /\ CompleteWhenSizeKnown
  /\ BusyIsArmed
  /\ IdleIsQuiet
  /\ CallsAreConsistent

\* The interface as the delegate sees it.
Interface == INSTANCE HttpFetcher WITH active <- inProgress

\* The fetcher implements HttpFetcher: in particular a resume, which makes a new
\* and unpaused libcurl handle, never delivers to a delegate that has paused.
FetcherKeepsInterface == Interface!Spec

\* Every transfer ends, by TransferComplete() or TerminateTransfer(), if the
\* delegate does not pause it for ever.
TransferComesToAnEnd == <>[]~paused => (inProgress ~> ~inProgress)

=============================================================================
