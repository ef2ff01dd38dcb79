-------------------------- MODULE FilesystemCopier --------------------------
(***************************************************************************)
(* update_engine/filesystem_copier_action.{h,cc}: the Action that prepares  *)
(* the install partition of a delta update.  PerformAction() runs on the   *)
(* main thread and, unless the marker file shows a finished copy, starts a *)
(* helper thread that formats, mounts, copies, marks and unmounts.  The    *)
(* helper schedules CollectThread() on the main loop, which joins it and   *)
(* reports.  The machine may lose power at any time and the update engine  *)
(* then starts again on what the partition holds.                          *)
(*                                                                         *)
(* `disk' is the partition as the kernel shows it, `stable' what a power   *)
(* failure leaves: the kernel writes the changes back in order, at its own *)
(* pace, and all of them when it unmounts.                                 *)
(***************************************************************************)
EXTENDS SourceTree

CONSTANTS
  Marker,        \* the path of kCompleteFilesystemMarker
  NoPath,        \* no path
  MaxAttempts    \* bound: how often the engine is started

ASSUME MarkerAssumption ==
  /\ Marker \notin Excluded /\ Marker \notin Dirs /\ Marker # Root
  /\ NoPath \notin Entries \cup {Marker}
ASSUME BoundAssumption == MaxAttempts \in Nat \ {0}

VARIABLES
  main,        \* "idle", "loop" (helper started), "joining", "over"
  helper,      \* the helper thread's place in HelperThreadMain()
  life,        \* "alive", "aborted" (failed CHECK), "segv" (NULL dereference)
  plan,        \* the input object: "none", "delta" or "full"
  processor,   \* processor_ is not NULL
  isMounted,   \* is_mounted_
  success,     \* the helper's local; its return value once it has exited
  timer,       \* CollectThread() is scheduled on the main loop
  visited,     \* what the iterator has shown
  cur,         \* the regular file being written
  links,       \* hard_links: inode -> new path
  output,      \* who set the output object: "none", "main" or "helper"
  report,      \* the argument of ActionComplete(), "none" before it
  skipped,     \* skipped_copy_
  attempts,    \* starts of the engine
  disk,        \* the partition
  stable       \* the partition on the medium

mainVars == <<main, life, plan, processor, timer, report, skipped>>
copyVars == <<visited, cur, links>>
copierVars == <<mainVars, copyVars, helper, isMounted, success, output, attempts,
                disk, stable>>

Paths == Entries \cup {Marker}
Inodes == {Inode[e] : e \in Entries}

\* A partition: whether it holds a mountable filesystem, how much of each path
\* is there, and which path first created the file a path names.
Disk == [fs : BOOLEAN, has : [Paths -> {"absent", "torn", "whole"}], ino : [Paths -> Paths]]

Formatted == [fs |-> TRUE, has |-> [p \in Paths |-> "absent"], ino |-> [p \in Paths |-> p]]
Unformatted == [Formatted EXCEPT !.fs = FALSE]

Marked(d) == d.fs /\ d.has[Marker] # "absent"

\* A faithful copy: everything wanted is there in full, and two paths name one
\* file exactly when they do in the source.
Complete(d) ==
  /\ d.fs
  /\ \A e \in Wanted : d.has[e] = "whole"
  /\ \A e, f \in Wanted : d.ino[e] = d.ino[f] <=> Inode[e] = Inode[f]

\* The state of a new FilesystemCopierAction, enqueued but not performed.
FreshAction ==
  /\ main' = "idle" /\ helper' = "none" /\ life' = "alive"
  /\ processor' = TRUE /\ isMounted' = FALSE /\ success' = FALSE /\ timer' = FALSE
  /\ visited' = {} /\ cur' = NoPath /\ links' = [i \in Inodes |-> NoPath]
  /\ output' = "none" /\ report' = "none" /\ skipped' = FALSE

\* The partition is new, or holds a system this updater never copied.
Init ==
  /\ main = "idle" /\ helper = "none" /\ life = "alive"
  /\ plan \in {"none", "delta", "full"}
  /\ processor = TRUE /\ isMounted = FALSE /\ success = FALSE /\ timer = FALSE
  /\ visited = {} /\ cur = NoPath /\ links = [i \in Inodes |-> NoPath]
  /\ output = "none" /\ report = "none" /\ skipped = FALSE
  /\ attempts = 1
  /\ disk \in {Formatted, Unformatted}
  /\ stable = disk

-----------------------------------------------------------------------------
(* The main thread.                                                        *)

MainRuns(at) == life = "alive" /\ main = at

\* ActionComplete(): the processor detaches the Action.
Report(ok) ==
  /\ main' = "over"
  /\ report' = IF ok THEN "success" ELSE "failure"
  /\ processor' = FALSE

\* PerformAction() without an input object, or for a full update: the output
\* object is not set.
PerformWithoutCopy ==
  /\ MainRuns("idle")
  /\ plan # "delta"
  /\ Report(plan = "full")
  /\ UNCHANGED <<life, plan, timer, skipped, copyVars, helper, isMounted, success,
                 output, attempts, disk, stable>>

\* The mount point shows the marker.
FoundMarker(mounted) == mounted /\ Marked(disk)

\* Mutant: the helper is started although the probe could not be unmounted.
ProbeUnmountIgnored(mounted, unmounted) == TRUE

\* The early return after a failed Unmount() is not taken.
ProbeUnmounted(mounted, unmounted) == mounted => unmounted

\* PerformAction() for a delta update: mount, look for the marker, unmount, and
\* start the helper unless the copy is there already.
Perform(mounted, unmounted) ==
  /\ MainRuns("idle")
  /\ plan = "delta"
  /\ mounted => disk.fs
  /\ skipped' = FoundMarker(mounted)
  /\ output' = IF FoundMarker(mounted) THEN "main" ELSE output
  /\ isMounted' = (mounted /\ ~unmounted)
  /\ IF ~ProbeUnmounted(mounted, unmounted)
     THEN Report(FALSE) /\ UNCHANGED helper
     ELSE IF FoundMarker(mounted)
          THEN Report(TRUE) /\ UNCHANGED helper
          ELSE main' = "loop" /\ helper' = "format" /\ UNCHANGED <<report, processor>>
  /\ UNCHANGED <<life, plan, timer, copyVars, success, attempts, disk, stable>>

\* StopProcessing(): TerminateProcessing() only logs; processor_ becomes NULL.
StopProcessing ==
  /\ MainRuns("loop")
  /\ processor
  /\ processor' = FALSE
  /\ UNCHANGED <<main, life, plan, timer, report, skipped, copyVars, helper, isMounted,
                 success, output, attempts, disk, stable>>

\* The main loop runs CollectThread(), which blocks in pthread_join().
CollectThread ==
  /\ MainRuns("loop")
  /\ timer
  /\ main' = "joining"
  /\ timer' = FALSE
  /\ UNCHANGED <<life, plan, processor, report, skipped, copyVars, helper, isMounted,
                 success, output, attempts, disk, stable>>

\* Mutant: CollectThread() does not wait for the helper to exit.
HelperGoneUnjoined == TRUE

\* pthread_join() returns once the helper has.
HelperGone == helper = "exited"

\* The rest of CollectThread().
Collected ==
  /\ MainRuns("joining")
  /\ HelperGone
  /\ IF isMounted
     THEN life' = "aborted" /\ UNCHANGED <<main, report, processor>>
     ELSE IF ~processor
          THEN life' = "segv" /\ UNCHANGED <<main, report, processor>>
          ELSE Report(success) /\ UNCHANGED life
  /\ UNCHANGED <<plan, timer, skipped, copyVars, helper, isMounted, success, output,
                 attempts, disk, stable>>

-----------------------------------------------------------------------------
(* The helper thread.                                                      *)

HelperRuns(at) == life = "alive" /\ helper = at

\* mkfs.ext3 opens and overwrites the partition.
FormatBegins ==
  /\ HelperRuns("format")
  /\ helper' = "formatting"
  /\ disk' = Unformatted
  /\ stable' = Unformatted
  /\ UNCHANGED <<mainVars, copyVars, isMounted, success, output, attempts>>

\* SynchronousExec() returns with exit code 0 ...
FormatEnds ==
  /\ HelperRuns("formatting")
  /\ helper' = "mount"
  /\ success' = TRUE
  /\ disk' = Formatted
  /\ stable' = Formatted
  /\ UNCHANGED <<mainVars, copyVars, isMounted, output, attempts>>

\* ... or with another one, at once or halfway: the next step is Unmount().
FormatFails ==
  /\ HelperRuns("format") \/ HelperRuns("formatting")
  /\ helper' = "unmount"
  /\ success' = FALSE
  /\ UNCHANGED <<mainVars, copyVars, isMounted, output, attempts, disk, stable>>

\* Mount() of the new filesystem.
MountNew(ok) ==
  /\ HelperRuns("mount")
  /\ isMounted' = ok
  /\ success' = ok
  /\ helper' = IF ok THEN "walk" ELSE "unmount"
  /\ UNCHANGED <<mainVars, copyVars, output, attempts, disk, stable>>

\* CopySynchronously() leaves its loop: at the end of the walk, or on an error.
StopCopying(ok) ==
  /\ success' = ok
  /\ helper' = IF ok THEN "mark" ELSE "unmount"

\* Mutant: every path gets a copy of its own, as if st_nlink were 1.
LinkTargetNever(e) == NoPath

\* hard_links[st_ino] for a file with several names one of which was copied.
LinkTarget(e) == IF HardLinked(e) THEN links[Inode[e]] ELSE NoPath

\* A new path in the destination: a hard link to one copied earlier, or a
\* directory, symlink, node or still empty file of its own.
Create(e, how) ==
  IF LinkTarget(e) # NoPath
  THEN [disk EXCEPT !.has[e] = disk.has[LinkTarget(e)], !.ino[e] = disk.ino[LinkTarget(e)]]
  ELSE [disk EXCEPT !.has[e] = how, !.ino[e] = e]

Remember(e) ==
  IF e \notin Dirs /\ HardLinked(e) /\ LinkTarget(e) = NoPath
  THEN [links EXCEPT ![Inode[e]] = e] ELSE links

\* One iteration for a directory, a symlink, a node or a further name of a file:
\* created, then chmod() and lchown(), either of which may fail.
CopyEntry(e, ok) ==
  /\ HelperRuns("walk") /\ cur = NoPath
  /\ e \in NextEntries(visited)
  /\ e \in Files => LinkTarget(e) # NoPath
  /\ visited' = visited \cup {e}
  /\ disk' = Create(e, "whole")
  /\ links' = Remember(e)
  /\ IF ok THEN UNCHANGED <<success, helper>> ELSE StopCopying(FALSE)
  /\ UNCHANGED <<mainVars, cur, isMounted, output, attempts, stable>>

\* CopyFileSynchronously() creates the new file ...
CopyFileBegins(e) ==
  /\ HelperRuns("walk") /\ cur = NoPath
  /\ e \in NextEntries(visited) \cap Files
  /\ LinkTarget(e) = NoPath
  /\ visited' = visited \cup {e}
  /\ disk' = Create(e, "torn")
  /\ links' = Remember(e)
  /\ cur' = e
  /\ UNCHANGED <<mainVars, helper, isMounted, success, output, attempts, stable>>

\* ... and has written all of it.
CopyFileEnds ==
  /\ HelperRuns("walk") /\ cur # NoPath
  /\ disk' = [disk EXCEPT !.has[cur] = "whole"]
  /\ cur' = NoPath
  /\ UNCHANGED <<mainVars, visited, links, helper, isMounted, success, output, attempts,
                 stable>>

\* The source file is longer or shorter than lstat() said: a CHECK fails.
CopyFileAborts ==
  /\ HelperRuns("walk") /\ cur # NoPath
  /\ life' = "aborted"
  /\ UNCHANGED <<main, plan, processor, timer, report, skipped, copyVars, helper,
                 isMounted, success, output, attempts, disk, stable>>

\* Mutant: an I/O error ends the walk as if it were complete.
CopyErrorIgnored ==
  /\ HelperRuns("walk")
  /\ StopCopying(TRUE)
  /\ UNCHANGED <<mainVars, copyVars, isMounted, output, attempts, disk, stable>>

\* An error while iterating, creating, reading or writing (no space, say).
CopyError ==
  /\ HelperRuns("walk")
  /\ StopCopying(FALSE)
  /\ UNCHANGED <<mainVars, copyVars, isMounted, output, attempts, disk, stable>>

\* The iterator is at its end without an error.
CopyEnds ==
  /\ HelperRuns("walk") /\ cur = NoPath
  /\ NextEntries(visited) = {}
  /\ StopCopying(TRUE)
  /\ UNCHANGED <<mainVars, copyVars, isMounted, output, attempts, disk, stable>>

\* The marker is created, or an error of open() is ignored.
PlaceMarker(ok) ==
  /\ HelperRuns("mark")
  /\ helper' = "unmount"
  /\ disk' = IF ok /\ disk.has[Marker] = "absent"
             THEN [disk EXCEPT !.has[Marker] = "whole"] ELSE disk
  /\ UNCHANGED <<mainVars, copyVars, isMounted, success, output, attempts, stable>>

\* Mutant: umount() detaches the filesystem without writing it back.
UnmountDetached(ok) ==
  /\ HelperRuns("unmount")
  /\ IF ~isMounted
     THEN life' = "aborted" /\ UNCHANGED <<helper, isMounted, success>>
     ELSE /\ helper' = "finish"
          /\ isMounted' = ~ok
          /\ success' = (success /\ ok)
          /\ UNCHANGED life
  /\ UNCHANGED <<main, plan, processor, timer, report, skipped, copyVars, output,
                 attempts, disk, stable>>

\* Unmount(): CHECK(is_mounted_), then umount(), which writes everything back.
UnmountNew(ok) ==
  /\ HelperRuns("unmount")
  /\ IF ~isMounted
     THEN life' = "aborted" /\ UNCHANGED <<helper, isMounted, success, stable>>
     ELSE /\ helper' = "finish"
          /\ isMounted' = ~ok
          /\ success' = (success /\ ok)
          /\ stable' = IF ok THEN disk ELSE stable
          /\ UNCHANGED life
  /\ UNCHANGED <<main, plan, processor, timer, report, skipped, copyVars, output,
                 attempts, disk>>

\* Mutant: the helper returns without scheduling CollectThread().
FinishUnscheduled ==
  /\ HelperRuns("finish")
  /\ output' = "helper"
  /\ helper' = "exiting"
  /\ UNCHANGED <<mainVars, copyVars, isMounted, success, attempts, disk, stable>>

\* SetOutputObject() and g_timeout_add() ...
Finish ==
  /\ HelperRuns("finish")
  /\ output' = "helper"
  /\ timer' = TRUE
  /\ helper' = "exiting"
  /\ UNCHANGED <<main, life, plan, processor, report, skipped, copyVars, isMounted,
                 success, attempts, disk, stable>>

\* ... and the thread returns, perhaps after the main loop ran CollectThread().
HelperExits ==
  /\ HelperRuns("exiting")
  /\ helper' = "exited"
  /\ UNCHANGED <<mainVars, copyVars, isMounted, success, output, attempts, disk, stable>>

-----------------------------------------------------------------------------
(* The machine.                                                            *)

\* The kernel writes back what the mounted filesystem has changed.
WriteBack ==
  /\ stable # disk
  /\ stable' = disk
  /\ UNCHANGED <<mainVars, copyVars, helper, isMounted, success, output, attempts, disk>>

\* Power failure, or a reboot after the engine died or finished: the engine
\* starts over with a new Action and a new plan.
Restart ==
  /\ attempts < MaxAttempts
  /\ attempts' = attempts + 1
  /\ FreshAction
  /\ plan' \in {"none", "delta", "full"}
  /\ disk' = stable
  /\ UNCHANGED stable

MainNext ==
  \/ PerformWithoutCopy
  \/ \E mounted, unmounted \in BOOLEAN : Perform(mounted, unmounted)
  \/ StopProcessing
  \/ CollectThread
  \/ Collected

HelperNext ==
  \/ FormatBegins
  \/ FormatEnds
  \/ FormatFails
  \/ \E ok \in BOOLEAN : MountNew(ok) \/ PlaceMarker(ok) \/ UnmountNew(ok)
  \/ \E e \in Entries : CopyFileBegins(e) \/ \E ok \in BOOLEAN : CopyEntry(e, ok)
  \/ CopyFileEnds
  \/ CopyFileAborts
  \/ CopyError
  \/ CopyEnds
  \/ Finish
  \/ HelperExits

Next == MainNext \/ HelperNext \/ WriteBack \/ Restart

Spec == Init /\ [][Next]_copierVars

\* The kernel schedules both threads, and glib runs a due timeout.
FairSpec == Spec /\ WF_copierVars(MainNext) /\ WF_copierVars(HelperNext)

-----------------------------------------------------------------------------
(* Properties.                                                             *)

TypeOK ==
  /\ main \in {"idle", "loop", "joining", "over"}
  /\ helper \in {"none", "format", "formatting", "mount", "walk", "mark", "unmount",
                 "finish", "exiting", "exited"}
  /\ life \in {"alive", "aborted", "segv"}
  /\ plan \in {"none", "delta", "full"}
  /\ {processor, isMounted, success, timer, skipped} \subseteq BOOLEAN
  /\ visited \subseteq Wanted
  /\ cur \in Files \cup {NoPath}
  /\ links \in [Inodes -> Paths \cup {NoPath}]
  /\ output \in {"none", "main", "helper"}
  /\ report \in {"none", "success", "failure"}
  /\ attempts \in 1..MaxAttempts
  /\ disk \in Disk /\ stable \in Disk

\* The marker vouches for the copy: whatever fails, and whenever the power does,
\* a partition that shows the marker holds a faithful copy of the source.
MarkerMeansComplete == Marked(disk) => Complete(disk)

\* A delta update for which ActionComplete() reports success has a faithful copy
\* on the medium, unmounted, and hands its plan on: no failed step between
\* mkfs and umount is reported as a success.
SuccessMeansCopied ==
  (report = "success" /\ plan = "delta") =>
    /\ Complete(disk) /\ Complete(stable)
    /\ ~isMounted
    /\ output # "none"

\* The helper formats a partition only when the main thread's probe of it has
\* been unmounted again.
NeverFormatsMounted == helper \in {"format", "formatting"} => ~isMounted

\* The helper has run to its end when the Action reports, so that the processor
\* may destroy the Action or start the next one on the partition.
ReportedAfterHelper == report # "none" => helper \in {"none", "exited"}

\* What others may trust while the copier works and when it is done: the marker, the
\* report, and that the partition is neither mounted nor written to behind their back.
CopyIsTrustworthy ==
  /\ TypeOK
  /\ MarkerMeansComplete
  /\ SuccessMeansCopied
  /\ NeverFormatsMounted
  /\ ReportedAfterHelper

\* Every start of a copy comes to a report, unless a CHECK fails or the machine
\* is restarted: the helper always gets to CollectThread() and the join returns.
CopyComesToAnEnd ==
  main = "loop" ~> (main = "over" \/ life # "alive" \/ main = "idle")

\* What the Action promises, seen through whether the partition holds a copy.
Promise == INSTANCE DurableCopy WITH
  content <- IF Complete(disk) THEN "copy" ELSE "other",
  needed <- plan = "delta",
  verdict <- report

\* The copier, with its helper thread, marker, failing steps and power failures,
\* implements DurableCopy.
CopyIsDurable == Promise!Spec

\* filesystem_copier_action.h:67, "Returns true if we detected that a copy was
\* unneeded and thus skipped it": the copy is skipped only over a faithful copy.
SkippedIsUnneeded == skipped => Complete(disk)

=============================================================================
