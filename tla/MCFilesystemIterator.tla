------------------------ MODULE MCFilesystemIterator ------------------------
(* A source with a nested directory, an excluded directory with an entry, and *)
(* a mount point with an entry below it.                                      *)
EXTENDS FilesystemIterator

MCEntries == {"etc", "etc/x", "etc/y", "lost+found", "lost+found/1", "proc", "proc/1"}
MCParent == [e \in MCEntries |->
  CASE e \in {"etc/x", "etc/y"} -> "etc"
    [] e = "lost+found/1" -> "lost+found"
    [] e = "proc/1" -> "proc"
    [] OTHER -> Root]
MCInode == [e \in MCEntries |-> e]
=============================================================================
