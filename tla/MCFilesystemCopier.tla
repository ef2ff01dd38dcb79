------------------------- MODULE MCFilesystemCopier -------------------------
(***************************************************************************)
(* A small source for the copier: a directory with a file that also has a  *)
(* name in the root directory, a symlink, lost+found, and (for one run)    *)
(* the marker an earlier update left behind.                               *)
(***************************************************************************)
EXTENDS FilesystemCopier

PlainSource == {"bin", "bin/sh", "sh", "init", "lost+found"}
UpdatedSource == {"bin", "bin/sh", "marker", "lost+found"}

MCParent == [e \in Entries |-> IF e = "bin/sh" THEN "bin" ELSE Root]
MCInode == [e \in Entries |-> IF e = "bin/sh" THEN "sh" ELSE e]
=============================================================================
