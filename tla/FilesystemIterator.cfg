\* A nested, an excluded and a mounted directory; some entries may be removed.
SPECIFICATION FairSpec
CONSTANTS
  Root = "/"
  Entries <- MCEntries
  Dirs = {"etc", "lost+found", "proc"}
  Files = {"etc/x", "etc/y", "lost+found/1", "proc/1"}
  Parent <- MCParent
  Inode <- MCInode
  Excluded = {"lost+found", "lost+found/1"}
  Foreign = {"proc", "proc/1"}
  Dots = "."
  Volatile = {"etc", "etc/x", "etc/y", "lost+found", "lost+found/1"}
  BadDirs = {"/", "etc", "proc"}
\* The walk stops at its end.
CHECK_DEADLOCK FALSE
INVARIANTS
  WalkKeepsItsPlace
PROPERTIES
  WalksTheTree
