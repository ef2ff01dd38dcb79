\* Three attempts on a source that was never updated, with every failure.
SPECIFICATION FairSpec
CONSTANTS
  Root = "/"
  Entries <- PlainSource
  Dirs = {"bin", "lost+found"}
  Files = {"bin/sh", "sh"}
  Parent <- MCParent
  Inode <- MCInode
  Excluded = {"lost+found"}
  Foreign = {}
  Marker = "marker"
  NoPath = NoPath
  MaxAttempts = 3
\* The Action stops once it has reported, and a failed CHECK ends the process.
CHECK_DEADLOCK FALSE
INVARIANTS
  CopyIsTrustworthy
PROPERTIES
  CopyIsDurable
  CopyComesToAnEnd
