\* The source itself holds the marker of an earlier update.
SPECIFICATION Spec
CONSTANTS
  Root = "/"
  Entries <- UpdatedSource
  Dirs = {"bin", "lost+found"}
  Files = {"bin/sh", "marker"}
  Parent <- MCParent
  Inode <- MCInode
  Excluded = {"lost+found"}
  Foreign = {}
  Marker = "marker"
  NoPath = NoPath
  MaxAttempts = 2
INVARIANT SkippedIsUnneeded
\* The Action stops once it has reported, and a failed CHECK ends the process.
CHECK_DEADLOCK FALSE
