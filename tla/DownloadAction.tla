--------------------------- MODULE DownloadAction ---------------------------
(***************************************************************************)
(* update_engine/download_action.{h,cc} with the FileWriters it writes     *)
(* through (file_writer.cc, decompressing_file_writer.cc) and the running  *)
(* hash (omaha_hash_calculator.cc), driven by any fetcher that keeps the   *)
(* HttpFetcher interface.                                                  *)
(*                                                                         *)
(* The resource is Total chunks.  A chunk may be damaged on its way, and a *)
(* write to the output may fail.  The hash is represented by what it       *)
(* covers: it matches the plan's hash iff it was updated with every chunk, *)
(* in order and undamaged.                                                 *)
(***************************************************************************)
EXTENDS Naturals

CONSTANT Total

ASSUME ChunksAssumption == Total \in Nat

VARIABLES
  active, paused, received, completed,   \* the fetcher, as in HttpFetcher
  stage,      \* "queued", "fetching", "over" (reported or stopped) or "aborted"
  input,      \* the plan in the input pipe: "none" (no pipe), "delta" or "full"
  writer,     \* writer_: "null", "direct" or "gzip"
  fd,         \* DirectFileWriter::fd_: "unused", "open" or "closed"
  intact,     \* every chunk received so far is undamaged
  hashed,     \* chunks the hash covers
  written,    \* chunks whose data is in the output in full
  leftover,   \* stream_.avail_in # 0 after an inflate() error
  report,     \* the argument of ActionComplete(), "none" before it
  output      \* the output object is set

fetcherVars == <<active, paused, received, completed>>
actionVars == <<stage, input, writer, fd, intact, hashed, written, leftover, report, output>>
downloadVars == <<fetcherVars, actionVars>>

Fetcher == INSTANCE HttpFetcher

Init ==
  /\ Fetcher!Init
  /\ stage = "queued"
  /\ input \in {"none", "delta", "full"}
  /\ writer = "null" /\ fd = "unused"
  /\ intact = TRUE /\ hashed = 0 /\ written = 0 /\ leftover = FALSE
  /\ report = "none" /\ output = FALSE

ActionComplete(success) ==
  /\ stage' = "over"
  /\ report' = IF success THEN "success" ELSE "failure"

Aborts ==
  /\ stage' = "aborted"
  /\ UNCHANGED report

\* PerformAction() without an input pipe: CHECK(HasInputObject()).
PerformWithoutInput ==
  /\ stage = "queued" /\ input = "none"
  /\ Aborts
  /\ UNCHANGED <<fetcherVars, input, writer, fd, intact, hashed, written, leftover, output>>

\* PerformAction(): choose the writer, open the output, begin the transfer.
PerformAction(opened) ==
  /\ stage = "queued" /\ input # "none"
  /\ writer' = IF input = "full" THEN "gzip" ELSE "direct"
  /\ IF opened
     THEN /\ fd' = "open"
          /\ stage' = "fetching"
          /\ Fetcher!BeginTransfer
          /\ UNCHANGED report
     ELSE ActionComplete(FALSE) /\ UNCHANGED <<fd, fetcherVars>>
  /\ UNCHANGED <<input, intact, hashed, written, leftover, output>>

\* Mutant: the direct writer reports a failed write() as written.
DirectWriteIgnoresErrors(ok) == TRUE

\* DirectFileWriter::Write() returns a negative number when write() fails.
DirectWriteReturns(ok) == ok

\* GzipDecompressingFileWriter::Write() returns -1 when an earlier call left
\* input behind, and never a negative number otherwise: neither an error of
\* inflate() nor one of next_->Write() is passed on.
GzipWriteReturns == ~leftover

\* writer_->Write() does not return an error.
WriteReturns(ok) == IF writer = "gzip" THEN GzipWriteReturns ELSE DirectWriteReturns(ok)

\* Mutant: the hash is updated before the write and after it.
HashTwice(ok) == hashed + 2

\* ReceivedBytes() updates the hash only after a successful write.
HashAfterWrite(ok) == IF WriteReturns(ok) THEN hashed + 1 ELSE hashed

\* What is left in stream_.avail_in: once the gzip stream is damaged, inflate()
\* may fail with or without consuming its input.
MayBeLeft(isIntact) ==
  IF writer = "gzip" /\ ~leftover /\ ~isIntact THEN BOOLEAN ELSE {leftover}

\* ReceivedBytes(): `damaged' is the chunk's fate on the wire, `ok' that of the
\* writes.  Nothing useful comes out of a damaged gzip stream.
ReceivedBytes(damaged, ok) ==
  /\ Fetcher!ReceivedBytes
  /\ stage = "fetching"
  /\ intact' = (intact /\ ~damaged)
  /\ leftover' \in MayBeLeft(intact')
  /\ written' = IF ok /\ (writer = "gzip" => intact') THEN written + 1 ELSE written
  /\ hashed' = HashAfterWrite(ok)
  /\ UNCHANGED <<stage, input, writer, fd, report, output>>

\* A damaged gzip stream that seems to end early: CHECK_EQ(0, stream_.avail_in).
ReceivedBytesAborts ==
  /\ Fetcher!ReceivedBytes
  /\ stage = "fetching" /\ writer = "gzip" /\ ~leftover
  /\ intact' = FALSE
  /\ Aborts
  /\ UNCHANGED <<input, writer, fd, hashed, written, leftover, output>>

\* Mutant: the hash is not compared.
HashMatchesAlways == TRUE

HashMatches == hashed = Total /\ intact

\* TransferComplete(): CHECK that the output closes, compare the hash, pass the
\* plan on, report.
TransferComplete(successful, closed) ==
  /\ Fetcher!TransferComplete
  /\ stage = "fetching"
  /\ fd' = "closed"
  /\ IF ~closed
     THEN Aborts /\ UNCHANGED <<writer, output>>
     ELSE /\ writer' = "null"
          /\ output' = (successful /\ HashMatches)
          /\ ActionComplete(successful /\ HashMatches)
  /\ UNCHANGED <<input, intact, hashed, written, leftover>>

\* TerminateProcessing(): close the output, then stop the fetcher.
TerminateProcessing(closed) ==
  /\ stage = "fetching"
  /\ fd' = "closed"
  /\ IF closed THEN /\ writer' = "null" /\ stage' = "over"
                    /\ Fetcher!TerminateTransfer
                    /\ UNCHANGED report
               ELSE Aborts /\ UNCHANGED <<writer, fetcherVars>>
  /\ UNCHANGED <<input, intact, hashed, written, leftover, output>>

Next ==
  \/ PerformWithoutInput
  \/ \E opened \in BOOLEAN : PerformAction(opened)
  \/ \E damaged, ok \in BOOLEAN : ReceivedBytes(damaged, ok)
  \/ ReceivedBytesAborts
  \/ \E successful, closed \in BOOLEAN : TransferComplete(successful, closed)
  \/ \E closed \in BOOLEAN : TerminateProcessing(closed)

Spec == Init /\ [][Next]_downloadVars

-----------------------------------------------------------------------------
(* Properties.                                                             *)

TypeOK ==
  /\ stage \in {"queued", "fetching", "over", "aborted"}
  /\ input \in {"none", "delta", "full"}
  /\ writer \in {"null", "direct", "gzip"}
  /\ fd \in {"unused", "open", "closed"}
  /\ active \in BOOLEAN /\ paused \in BOOLEAN /\ completed \in BOOLEAN
  /\ intact \in BOOLEAN /\ leftover \in BOOLEAN /\ output \in BOOLEAN
  /\ received \in 0..Total /\ hashed \in 0..Total /\ written \in 0..Total
  /\ report \in {"none", "success", "failure"}

\* download_action.h:72, "The hash must match for this action to succeed":
\* success, and a plan in the output pipe, mean that the whole resource arrived
\* undamaged, although a fetcher calls a broken transfer successful and a write
\* may fail on the way.
SuccessMeansAuthentic ==
  (report = "success" \/ output) => (received = Total /\ intact)

\* A delta update that was downloaded is in the output in full: a write that
\* fails is caught, if only by the hash that then lacks a chunk.
DirectSuccessMeansWritten ==
  (report = "success" /\ input = "delta") => written = Total

\* While the fetcher may call back there is an open writer to receive the bytes,
\* so neither writer_ nor fd_ is used after it was closed; and a transfer that
\* is over has none.
WriterOpenWhileActive ==
  stage # "aborted" => /\ active => writer # "null" /\ fd = "open"
                       /\ ~active => fd # "open"

\* The stage says what the fetcher and the writer are doing.
StageFits ==
  /\ stage = "queued" => /\ ~active /\ writer = "null" /\ fd = "unused"
                         /\ hashed = 0 /\ written = 0
  /\ stage = "fetching" => /\ active /\ fd = "open" /\ input # "none"
                           /\ writer = IF input = "full" THEN "gzip" ELSE "direct"
  /\ stage = "over" => ~active /\ fd # "open"
  /\ report # "none" => stage = "over"
  /\ output => report = "success"

\* The hash never gets ahead of what was received and, without a decompressor in
\* between, covers exactly what is in the output.
HashFollows ==
  /\ hashed <= received /\ written <= received
  /\ input # "full" => hashed = written

\* A download that reports success has received the whole resource undamaged and, for a delta
\* update, has written all of it; along the way the hash of TransferComplete() and the output
\* of BytesReceived() never get ahead of what the fetcher delivered.  The conjunction is
\* inductive.
IInv ==
  /\ TypeOK
  /\ StageFits
  /\ HashFollows
  /\ SuccessMeansAuthentic
  /\ DirectSuccessMeansWritten

=============================================================================
