------------------------- MODULE FilesystemIterator -------------------------
(***************************************************************************)
(* update_engine/filesystem_iterator.{h,cc}: the depth-first walk over the *)
(* source, with its stack of open directories, while other processes may   *)
(* remove entries.                                                         *)
(*                                                                         *)
(* pc is the place in the code: "shown" (the caller looks at the current   *)
(* entry), "increment" (entry of Increment(), also of its own recursive    *)
(* call), "next" (the loop of IncrementInternal()), "aborted" (its CHECK   *)
(* failed).                                                                *)
(***************************************************************************)
EXTENDS SourceTree, Sequences

CONSTANTS
  Dots,      \* "." and "..", which readdir() returns like any name
  Volatile,  \* the entries other processes may remove
  BadDirs    \* the directories in which readdir_r() or closedir() may fail

ASSUME IteratorAssumption ==
  /\ Dots \notin Entries \cup {Root}
  /\ Volatile \subseteq Entries
  /\ BadDirs \subseteq Dirs \cup {Root}

VARIABLES
  pc,
  names,     \* names_: the path of the current entry
  dirs,      \* dirs_: the open directories, each with the names not read yet
  isDir,     \* stbuf_ describes a directory on the root device
  isEnd,     \* is_end_
  isErr,     \* is_err_
  present,   \* the entries that exist
  shown      \* history: the entries shown to the caller

iterVars == <<pc, names, dirs, isDir, isEnd, isErr, present, shown>>

Last(s) == s[Len(s)]
Front(s) == SubSeq(s, 1, Len(s) - 1)

\* The entry GetPartialPath() names.
Current(path) == IF path = <<>> THEN Root ELSE Last(path)

\* S_ISDIR(st_mode) && st_dev == root_dev_, of an entry or of "." in a directory.
Descendable(e) == e \in (Dirs \cup {Root}) \ Foreign

Children(d) == {e \in present : Parent[e] = d}

\* The constructor: positioned on the root directory, unless lstat() of it fails.
Init ==
  /\ pc = "shown"
  /\ names = <<>>
  /\ dirs = <<>>
  /\ isDir = TRUE
  /\ isErr \in BOOLEAN /\ isEnd = isErr
  /\ present = Entries
  /\ shown = {}

\* RETURN_ERROR_IF_FALSE: the walk is over.
Fail ==
  /\ isEnd' = TRUE
  /\ isErr' = TRUE

\* IncrementInternal() begins with CHECK_EQ(dirs_.size(), names_.size() + 1).
IncrementInternal(ds, ns) == IF Len(ds) = Len(ns) + 1 THEN "next" ELSE "aborted"

\* The caller's loop goes on to the next entry.
CallIncrement ==
  /\ pc = "shown" /\ ~isEnd
  /\ pc' = "increment"
  /\ UNCHANGED <<names, dirs, isDir, isEnd, isErr, present, shown>>

\* opendir() of the current entry succeeds.
Descend ==
  /\ pc = "increment" /\ isDir
  /\ Current(names) \in present \cup {Root}
  /\ dirs' = Append(dirs, [dir |-> Current(names), left |-> Children(Current(names)) \cup {Dots}])
  /\ pc' = IncrementInternal(dirs', names)
  /\ UNCHANGED <<names, isDir, isEnd, isErr, present, shown>>

\* opendir() fails for another reason than ENOENT or ENOTDIR.
DescendFails ==
  /\ pc = "increment" /\ isDir
  /\ Fail
  /\ pc' = "shown"
  /\ UNCHANGED <<names, dirs, isDir, present, shown>>

\* Mutant: the current name is kept when there is nothing to descend into.
PassWithoutPop ==
  /\ pc = "increment"
  /\ ~isDir \/ Current(names) \notin present \cup {Root}
  /\ pc' = IncrementInternal(dirs, names)
  /\ UNCHANGED <<names, dirs, isDir, isEnd, isErr, present, shown>>

\* Nothing to descend into: not a directory of this device, or one that is gone
\* (ENOENT).  The root directory itself is never gone.
Pass ==
  /\ pc = "increment"
  /\ ~isDir \/ Current(names) \notin present \cup {Root}
  /\ names' = Front(names)
  /\ pc' = IncrementInternal(dirs, names')
  /\ UNCHANGED <<dirs, isDir, isEnd, isErr, present, shown>>

\* Mutant: an excluded entry is passed over without its own Increment().
AfterPositionNoRecursion(e) == "shown"

\* Where Increment() continues once IncrementInternal() has returned: a path with
\* an excluded prefix is passed over by a recursive call.
AfterPosition(e) == IF e \in Excluded THEN "increment" ELSE "shown"

\* readdir() skips a name that is gone.
ReadSkips(e) ==
  /\ pc = "next"
  /\ e \in Last(dirs).left \ (present \cup {Dots})
  /\ dirs' = Append(Front(dirs), [Last(dirs) EXCEPT !.left = @ \ {e}])
  /\ UNCHANGED <<pc, names, isDir, isEnd, isErr, present, shown>>

\* readdir() returns "." or "..": lstat() overwrites stbuf_, the loop goes on.
ReadDots ==
  /\ pc = "next"
  /\ Dots \in Last(dirs).left
  /\ dirs' = Append(Front(dirs), [Last(dirs) EXCEPT !.left = @ \ {Dots}])
  /\ Last(dirs).dir \in present \cup {Root}
  /\ isDir' = Descendable(Last(dirs).dir)
  /\ UNCHANGED <<pc, names, isEnd, isErr, present, shown>>

\* readdir() returns an entry and lstat() succeeds: it is the new position.
ReadEntry(e) ==
  /\ pc = "next"
  /\ e \in Last(dirs).left \cap present
  /\ dirs' = Append(Front(dirs), [Last(dirs) EXCEPT !.left = @ \ {e}])
  /\ names' = Append(names, e)
  /\ isDir' = Descendable(e)
  /\ pc' = AfterPosition(e)
  /\ shown' = IF AfterPosition(e) = "shown" /\ ~isEnd THEN shown \cup {e} ELSE shown
  /\ UNCHANGED <<isEnd, isErr, present>>

\* Mutant: lstat() of a name that is gone does not end the walk.
StatFailsSilently(e) ==
  /\ pc = "next"
  /\ e \in Last(dirs).left \ present
  /\ e # Dots
  /\ dirs' = Append(Front(dirs), [Last(dirs) EXCEPT !.left = @ \ {e}])
  /\ names' = Append(names, e)
  /\ pc' = AfterPosition(e)
  /\ shown' = IF AfterPosition(e) = "shown" THEN shown \cup {e} ELSE shown
  /\ UNCHANGED <<isDir, isEnd, isErr, present>>

\* readdir() returns a name that is gone by the time of lstat(): an error, with
\* the name left on names_ and stbuf_ as it was.  If the name is excluded,
\* Increment() still calls itself.
StatFails(e) ==
  /\ pc = "next"
  /\ e \in Last(dirs).left \ present
  /\ e # Dots
  /\ dirs' = Append(Front(dirs), [Last(dirs) EXCEPT !.left = @ \ {e}])
  /\ names' = Append(names, e)
  /\ Fail
  /\ pc' = AfterPosition(e)
  /\ UNCHANGED <<isDir, present, shown>>

\* "." cannot be stat'ed because the directory is gone.
StatDotsFails ==
  /\ pc = "next"
  /\ Dots \in Last(dirs).left /\ Last(dirs).dir \notin present \cup {Root}
  /\ dirs' = Append(Front(dirs), [Last(dirs) EXCEPT !.left = @ \ {Dots}])
  /\ names' = Append(names, Dots)
  /\ Fail
  /\ pc' = AfterPosition(Current(names))
  /\ UNCHANGED <<isDir, present, shown>>

\* readdir_r() or closedir() fails, with names_ at the directory being read.
ReadFails ==
  /\ pc = "next"
  /\ Last(dirs).dir \in BadDirs
  /\ Fail
  /\ pc' = AfterPosition(Current(names))
  /\ UNCHANGED <<names, dirs, isDir, present, shown>>

\* Mutant: is_end_ is not set after the last directory.
AscendForgetsEnd ==
  /\ pc = "next"
  /\ Last(dirs).left = {}
  /\ dirs' = Front(dirs)
  /\ IF Len(dirs) = 1
     THEN pc' = "shown" /\ UNCHANGED names
     ELSE names' = Front(names) /\ UNCHANGED pc
  /\ UNCHANGED <<isDir, isEnd, isErr, present, shown>>

\* No more names: closedir(), and up to the parent or to the end of the walk.
Ascend ==
  /\ pc = "next"
  /\ Last(dirs).left = {}
  /\ dirs' = Front(dirs)
  /\ IF Len(dirs) = 1
     THEN isEnd' = TRUE /\ pc' = "shown" /\ UNCHANGED names
     ELSE names' = Front(names) /\ UNCHANGED <<isEnd, pc>>
  /\ UNCHANGED <<isDir, isErr, present, shown>>

\* Another process removes a file or an empty directory.
Vanish(e) ==
  /\ e \in Volatile \cap present
  /\ Children(e) = {}
  /\ present' = present \ {e}
  /\ UNCHANGED <<pc, names, dirs, isDir, isEnd, isErr, shown>>

Step ==
  \/ CallIncrement
  \/ Descend
  \/ DescendFails
  \/ Pass
  \/ ReadDots
  \/ StatDotsFails
  \/ ReadFails
  \/ Ascend
  \/ \E e \in Entries : ReadSkips(e) \/ ReadEntry(e) \/ StatFails(e)

Next == Step \/ \E e \in Entries : Vanish(e)

Spec == Init /\ [][Next]_iterVars

\* The caller's loop keeps calling Increment() and the calls return.
FairSpec == Spec /\ WF_iterVars(Step)

-----------------------------------------------------------------------------
(* Properties.                                                             *)

TypeOK ==
  /\ pc \in {"shown", "increment", "next", "aborted"}
  /\ names \in Seq(Entries \cup {Dots})
  /\ dirs \in Seq([dir : Dirs \cup {Root}, left : SUBSET (Entries \cup {Dots})])
  /\ {isDir, isEnd, isErr} \subseteq BOOLEAN
  /\ present \subseteq Entries
  /\ shown \subseteq Entries

\* filesystem_iterator.cc:112, :136 and :141: the CHECKs on the stack hold, also
\* in the recursive call for an excluded name and after a failed lstat(): the
\* open directories are those of the path, and the last of them is the one whose
\* next name is read.
StackFollowsPath ==
  /\ pc # "aborted"
  /\ pc = "next" =>
       /\ Len(dirs) = Len(names) + 1
       /\ \A i \in 1..Len(dirs) : dirs[i].dir = (IF i = 1 THEN Root ELSE names[i - 1])

\* The entry the caller looks at is wanted: not below an excluded prefix (the
\* CHECK_NE of filesystem_copier_action.cc:254) and not below a mount point.
OnlyWantedShown == shown \subseteq Wanted

\* Wherever entries are excluded, vanish or fail, the iterator knows where it is and
\* shows nothing that it should pass over.
WalkKeepsItsPlace == TypeOK /\ StackFollowsPath /\ OnlyWantedShown

\* The walk as the copier sees it.
Walk == INSTANCE TreeWalk WITH
  visited <- shown,
  result <- IF isErr THEN "error" ELSE IF isEnd THEN "complete" ELSE "walking"

\* The iterator implements TreeWalk: it shows no entry twice, none before its
\* directory, and ends without an error only when nothing present was left out.
IterationIsTreeWalk == Walk!Spec

\* The loop over the iterator ends.
WalkEnds == <>(pc = "shown" /\ isEnd)

\* The iterator implements TreeWalk, and its walk comes to an end.
WalksTheTree == IterationIsTreeWalk /\ WalkEnds

=============================================================================
