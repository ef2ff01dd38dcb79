---------------------------- MODULE EngineHelpers ----------------------------
(***************************************************************************)
(* Two helpers of update_engine that its Actions and its delta generator   *)
(* call: Subprocess (subprocess.{h,cc}), which runs commands and calls     *)
(* back when they end, and the extents: extent_mapper.cc and               *)
(* graph_utils.cc, which list the blocks of a file as extents, and the     *)
(* ExtentWriters (extent_writer.{h,cc}, bzip_extent_writer.{h,cc}), which  *)
(* write a stream into them.                                               *)
(***************************************************************************)
EXTENDS Integers, Sequences, SequencesExt, FiniteSetsExt

CONSTANTS
  ExecTags,       \* what g_child_watch_add() answers, never twice
  NoTag,          \* no callback is running
  BlockBytes,     \* block_size_
  DeviceBlocks,   \* the blocks of the device are 0 .. DeviceBlocks - 1
  SparseHole,     \* kSparseHole
  TokenBytes,     \* what one piece of the compressed stream decompresses to
  OutputBuffer,   \* kOutputBufferLength
  MaxFileBlocks,  \* bound: the blocks of a file
  MaxTokens,      \* bound: the pieces of a compressed stream
  MaxWrite        \* bound: what one Write() is given

ASSUME HelpersAssumption ==
  /\ NoTag \notin ExecTags
  /\ {BlockBytes, DeviceBlocks, TokenBytes, OutputBuffer, MaxFileBlocks, MaxTokens,
      MaxWrite} \subseteq Nat \ {0}
  /\ SparseHole \notin 0..DeviceBlocks

VARIABLES procs, ext

-----------------------------------------------------------------------------
(* Subprocess.  records is callback_records_: a tag has no record, one with *)
(* a callback, or one whose callback is NULL.                              *)

SubprocessInit ==
  procs = [child |-> [t \in ExecTags |-> "unused"], records |-> [t \in ExecTags |-> "none"],
           inside |-> NoTag, calls |-> [t \in ExecTags |-> 0], cancelled |-> [t \in ExecTags |-> "no"]]

\* Exec(), also from within a callback; without a child nothing changes.
Exec(t) ==
  /\ procs.child[t] = "unused"
  /\ procs' = [procs EXCEPT !.child[t] = "running", !.records[t] = "set"]

\* The child exits; the main loop will see it (external).
ChildExits(t) ==
  /\ procs.child[t] = "running"
  /\ procs' = [procs EXCEPT !.child[t] = "exited"]

\* Mutant: the record is erased before the callback runs.
GChildExitedErasesFirst(t) ==
  /\ procs.inside = NoTag /\ procs.child[t] = "exited"
  /\ procs' = IF procs.records[t] = "set"
              THEN [procs EXCEPT !.inside = t, !.calls[t] = @ + 1, !.records[t] = "none"]
              ELSE [procs EXCEPT !.child[t] = "reaped", !.records[t] = "none"]

\* GChildExitedCallback() up to the callback, if there still is one.
GChildExitedCallback(t) ==
  /\ procs.inside = NoTag /\ procs.child[t] = "exited"
  /\ procs' = IF procs.records[t] = "set"
              THEN [procs EXCEPT !.inside = t, !.calls[t] = @ + 1]
              ELSE [procs EXCEPT !.child[t] = "reaped", !.records[t] = "none"]

\* The callback returns: the rest of GChildExitedCallback().
CallbackReturns ==
  /\ procs.inside # NoTag
  /\ procs' = [procs EXCEPT !.inside = NoTag, !.child[procs.inside] = "reaped",
                            !.records[procs.inside] = "none"]

\* CancelExec() of a tag that Exec() returned, at any time: operator[] makes a record
\* where there is none.
CancelExec(t) ==
  /\ procs.child[t] # "unused"
  /\ procs' = [procs EXCEPT !.records[t] = "null",
                            !.cancelled[t] = IF procs.calls[t] = 0 THEN "early" ELSE "late"]

SubprocessInFlight == \E t \in ExecTags : procs.records[t] = "set"

SubprocessNext ==
  \/ \E t \in ExecTags : Exec(t) \/ ChildExits(t) \/ GChildExitedCallback(t) \/ CancelExec(t)
  \/ CallbackReturns

\* The children somebody waits for: not cancelled, and their callback has not returned.
WaitedFor ==
  {t \in ExecTags : procs.child[t] \in {"running", "exited"} /\ procs.cancelled[t] = "no"}

\* A callback runs once, for a child that has exited, and never after CancelExec(); a child
\* is reaped without it only if it was cancelled; and SubprocessInFlight() tells whether
\* anybody waits, also from within a callback and after a cancellation that came too late.
CallbacksInTurn ==
  /\ \A t \in ExecTags :
       /\ procs.calls[t] \in {0, 1}
       /\ procs.cancelled[t] = "early" => procs.calls[t] = 0
       /\ procs.calls[t] = 1 => procs.child[t] \in {"exited", "reaped"}
       /\ procs.child[t] = "reaped" => procs.calls[t] = 1 \/ procs.cancelled[t] = "early"
  /\ SubprocessInFlight <=> WaitedFor # {}

-----------------------------------------------------------------------------
(* Extents: [start, num] with num > 0.                                     *)

Extent(start, num) == [start |-> start, num |-> num]

\* Mutant: an extent is continued by a block that is one too far.
AppendBlockLate(extents, block) ==
  IF extents # <<>> /\ Last(extents).start + Last(extents).num + 1 = block
  THEN [extents EXCEPT ![Len(extents)].num = @ + 1]
  ELSE Append(extents, Extent(block, 1))

\* AppendBlockToExtents(): the last extent is continued, or a new one begins.
AppendBlockToExtents(extents, block) ==
  IF extents # <<>> /\ Last(extents).start + Last(extents).num = block
  THEN [extents EXCEPT ![Len(extents)].num = @ + 1]
  ELSE Append(extents, Extent(block, 1))

\* The loop of ExtentsForFileFibmap() for one block: the current extent is kept apart.
FibmapBlock(f, block) ==
  IF f.current.num = 0 THEN [f EXCEPT !.current = Extent(block, 1)]
  ELSE IF f.current.start + f.current.num = block THEN [f EXCEPT !.current.num = @ + 1]
  ELSE [out |-> Append(f.out, f.current), current |-> Extent(block, 1)]

\* What ExtentsForFileFibmap() returns.
ExtentsForFileFibmap(f) == IF f.current.num > 0 THEN Append(f.out, f.current) ELSE f.out

\* The blocks that extents stand for, one after the other.
Blocks(extents) ==
  FlattenSeq([i \in DOMAIN extents |->
    [j \in 1..extents[i].num |->
       IF extents[i].start = SparseHole THEN SparseHole ELSE extents[i].start + j - 1]])

-----------------------------------------------------------------------------
(* The writers.  A stream consists of the bytes 1, 2, ...; the device is a  *)
(* function from offsets to the byte there, 0 for a zero, -1 for what was  *)
(* there before.  fd_ stays open; nothing else writes to it.               *)

ExtentsInit ==
  ext = [phase |-> "map", file |-> <<>>, fibmap |-> [out |-> <<>>, current |-> Extent(0, 0)],
         extents |-> <<>>, pad |-> FALSE, bzip |-> FALSE,
         index |-> 1, done |-> 0, mod |-> 0,
         count |-> 0, left |-> 0, sent |-> 0, given |-> 0, zeros |-> 0,
         tokens |-> 0, input |-> 0, fed |-> 0, pending |-> 0, broken |-> FALSE,
         dev |-> [o \in 0..DeviceBlocks * BlockBytes - 1 |-> -1]]

\* FIBMAP or the delta generator has one block more: one that the file does not have yet, or
\* block 0, FIBMAP's answer for a hole.
MapBlock(b) ==
  /\ ext.phase = "map" /\ Len(ext.file) < MaxFileBlocks
  /\ b = 0 \/ ~Contains(ext.file, b)
  /\ ext' = [ext EXCEPT !.file = Append(@, b), !.fibmap = FibmapBlock(@, b),
                        !.extents = AppendBlockToExtents(@, b)]

\* Init() of a chain of writers, with a sparse extent at any place or none (at = 0), for a
\* compressed stream of so many tokens and a trailer.
InitWriters(at, bzip, pad, tokens) ==
  /\ ext.phase = "map"
  /\ ext' = [ext EXCEPT !.phase = "open", !.bzip = bzip, !.pad = pad, !.tokens = tokens,
                        !.extents = IF at = 0 THEN @ ELSE InsertAt(@, at, Extent(SparseHole, 1))]

\* Write() of the writer below BzipExtentWriter is called with so many bytes.
WriteNext(e, n) == [e EXCEPT !.phase = "direct", !.count = n, !.left = n, !.given = @ + n]

\* The caller's Write(): bytes for DirectExtentWriter, or a piece of the compressed stream,
\* which BzipExtentWriter appends to input_buffer_.
Trailer == ext.tokens + 1
Write(n) ==
  /\ ext.phase = "open"
  /\ IF ext.bzip
     THEN /\ n > 0 /\ ext.fed + n <= Trailer
          /\ ext' = [ext EXCEPT !.phase = "bzip", !.input = @ + n, !.fed = @ + n]
     ELSE ext' = WriteNext(ext, n)

\* BZ2_bzDecompress() (external): it reads on until the output is full and a block is
\* pending, or the input is used up; the trailer yields nothing.
Decompress ==
  LET end == ext.fed = Trailer /\ ext.input > 0
      data == IF end THEN ext.input - 1 ELSE ext.input
      total == ext.pending + TokenBytes * data
      need == OutputBuffer - ext.pending
      taken == IF need < 0 THEN 0 ELSE (need \div TokenBytes) + 1
  IN  IF total <= OutputBuffer
      THEN [out |-> total, input |-> 0, pending |-> 0]
      ELSE [out |-> OutputBuffer, input |-> ext.input - taken,
            pending |-> ext.pending + TokenBytes * taken - OutputBuffer]

\* Mutant: the input that is not used up yet is thrown away.
BzipDropsInput ==
  /\ ext.phase = "bzip"
  /\ LET d == Decompress
         e == [ext EXCEPT !.input = 0, !.pending = d.pending]
     IN  ext' = IF d.out = 0 THEN [e EXCEPT !.phase = "open"] ELSE WriteNext(e, d.out)

\* One round of BzipExtentWriter::Write(): without new bytes the loop ends, otherwise they go
\* to the next writer.
BzipRound ==
  /\ ext.phase = "bzip"
  /\ LET d == Decompress
         e == [ext EXCEPT !.input = d.input, !.pending = d.pending]
     IN  ext' = IF d.out = 0 THEN [e EXCEPT !.phase = "open"] ELSE WriteNext(e, d.out)

\* BZ2_bzDecompress() finds the data damaged.
BzipFails ==
  /\ ext.phase = "bzip"
  /\ ext' = [ext EXCEPT !.phase = "failed", !.broken = TRUE]

Smaller(m, n) == IF m < n THEN m ELSE n

\* The bytes DirectExtentWriter::Write() puts into one extent in one go.
Room == ext.extents[ext.index].num * BlockBytes - ext.done
Chunk == Smaller(ext.left, Room)
Byte(i) == IF ext.zeros > 0 THEN 0 ELSE ext.sent + i

\* lseek64() and WriteAll(), of which an error may leave only the first n bytes.
Written(n) ==
  LET e == ext.extents[ext.index]
      from == e.start * BlockBytes + ext.done
  IN  IF e.start = SparseHole THEN ext.dev
      ELSE [o \in DOMAIN ext.dev |-> IF o \in from..from + n - 1 THEN Byte(o - from + 1) ELSE ext.dev[o]]

\* Mutant: the count of the last extent is kept for the next one.
NextExtentKeepsCount(e, n) ==
  IF e.done + n = e.extents[e.index].num * BlockBytes
  THEN [e EXCEPT !.index = @ + 1] ELSE [e EXCEPT !.done = @ + n]

\* The extent is filled, or not yet.
NextExtent(e, n) ==
  IF e.done + n = e.extents[e.index].num * BlockBytes
  THEN [e EXCEPT !.index = @ + 1, !.done = 0] ELSE [e EXCEPT !.done = @ + n]

\* One round of DirectExtentWriter::Write().
DirectRound ==
  /\ ext.phase = "direct" /\ ext.left > 0
  /\ IF ext.index > Len(ext.extents)
     THEN ext' = [ext EXCEPT !.phase = "failed"]
     ELSE ext' = NextExtent([ext EXCEPT !.dev = Written(Chunk), !.left = @ - Chunk,
                                        !.sent = IF ext.zeros > 0 THEN @ ELSE @ + Chunk], Chunk)

\* lseek64() or write() fails, after n bytes.
DirectError ==
  /\ ext.phase = "direct" /\ ext.left > 0 /\ ext.index <= Len(ext.extents)
  /\ ext.extents[ext.index].start # SparseHole
  /\ \E n \in 0..Chunk - 1 :
       ext' = [ext EXCEPT !.phase = "failed", !.broken = TRUE, !.dev = Written(n)]

\* Mutant: the bytes of the last Write() alone are counted.
PadCountLast(mod, count) == count % BlockBytes

\* bytes_written_mod_block_size_ after a Write() that succeeded.
PadCount(mod, count) == (mod + count) % BlockBytes

\* DirectExtentWriter::Write() returns true, through ZeroPadExtentWriter::Write(), to the
\* loop of BzipExtentWriter or to the caller, or to End().
DirectReturns ==
  /\ ext.phase = "direct" /\ ext.left = 0
  /\ ext' = [ext EXCEPT
               !.mod = IF ext.pad /\ ext.zeros = 0 THEN PadCount(@, ext.count) ELSE @,
               !.phase = IF ext.zeros > 0 THEN "ended"
                         ELSE IF ext.bzip /\ ext.input > 0 THEN "bzip" ELSE "open"]

\* BzipExtentWriter::EndImpl() refuses unused input.
BzipEnd == ext.bzip => ext.input = 0

\* End(): through BzipExtentWriter and ZeroPadExtentWriter, which fills the block.
End ==
  /\ ext.phase = "open"
  /\ LET zeros == IF ext.mod > 0 THEN BlockBytes - ext.mod ELSE 0
     IN  ext' = [ext EXCEPT
                   !.phase = IF ~BzipEnd THEN "failed"
                             ELSE IF zeros > 0 THEN "direct" ELSE "ended",
                   !.zeros = zeros, !.left = zeros]

ExtentsNext ==
  \/ \E b \in 0..DeviceBlocks - 1 : MapBlock(b)
  \/ \E at \in 0..Len(ext.extents) + 1, bzip, pad \in BOOLEAN :
       \E tokens \in IF bzip THEN 1..MaxTokens ELSE {0} : InitWriters(at, bzip, pad, tokens)
  \/ \E n \in 0..MaxWrite : Write(n)
  \/ BzipRound
  \/ BzipFails
  \/ DirectRound
  \/ DirectError
  \/ DirectReturns
  \/ End

\* Where byte k of the stream belongs, -1 if that is in a sparse extent.
Place(k) ==
  LET block == Blocks(ext.extents)[((k - 1) \div BlockBytes) + 1]
  IN  IF block = SparseHole THEN -1 ELSE (block * BlockBytes) + ((k - 1) % BlockBytes)

\* The device after n bytes of the stream and z zeros.
DeviceAfter(n, z) ==
  [o \in DOMAIN ext.dev |->
     LET here == {k \in 1..n + z : Place(k) = o}
     IN  IF here = {} THEN -1
         ELSE IF Max(here) <= n THEN Max(here) ELSE 0]

ZerosWritten == IF ext.zeros > 0 THEN ext.zeros - ext.left ELSE 0

\* The extents of a file, by either way to make them, stand for its blocks in order.  A
\* stream written in pieces of any size, compressed or not, through any chain of writers,
\* puts every byte in its place in these blocks and touches no other; Write() that returns
\* true has written all it was given, and returns false only on an error or when the
\* extents are full; a padded stream ends with a block, and there is always room to pad
\* it; and a compressed stream that was fed to its end comes out whole.
ExtentsHoldStream ==
  LET capacity == Len(Blocks(ext.extents)) * BlockBytes
  IN  /\ ext.phase = "map" =>
           /\ Blocks(ext.extents) = ext.file
           /\ ExtentsForFileFibmap(ext.fibmap) = ext.extents
      /\ ext.sent + ZerosWritten <= capacity
      /\ ext.phase # "failed" => ext.dev = DeviceAfter(ext.sent, ZerosWritten)
      /\ ext.phase \in {"open", "bzip", "ended"} => ext.sent = ext.given
      /\ (ext.phase = "failed" /\ ~ext.broken) => ext.zeros = 0 /\ ext.sent = capacity
      /\ ext.phase = "ended" =>
           /\ ext.pad => (ext.sent + ext.zeros) % BlockBytes = 0
           /\ ext.bzip /\ ext.fed = Trailer => ext.sent = TokenBytes * ext.tokens

=============================================================================
