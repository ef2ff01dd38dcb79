----------------------------- MODULE SourceTree -----------------------------
(***************************************************************************)
(* The directory tree FilesystemCopierAction copies, as FilesystemIterator *)
(* shows it: paths, the directory each lies in, and what lstat() says of   *)
(* it.                                                                     *)
(***************************************************************************)
EXTENDS Integers, FiniteSets

CONSTANTS
  Root,      \* the directory the walk starts from, the empty partial path
  Entries,   \* every path below Root
  Dirs,      \* the directories among them
  Files,     \* the regular files among them; the rest are symlinks and nodes
  Parent,    \* Parent[e]: the directory e lies in
  Inode,     \* Inode[e]: st_ino
  Excluded,  \* the paths that start with an exclusion prefix
  Foreign    \* the entries on another device: mount points and what is below

ASSUME TreeAssumption ==
  /\ Root \notin Entries
  /\ Dirs \subseteq Entries /\ Files \subseteq Entries \ Dirs
  /\ Parent \in [Entries -> Dirs \cup {Root}]
  /\ DOMAIN Inode = Entries
  /\ \A e, f \in Entries : (e # f /\ Inode[e] = Inode[f]) => e \notin Dirs
  /\ Excluded \subseteq Entries
  /\ Foreign \subseteq Entries
  \* A prefix of a path is a prefix of every path below it.
  /\ \A e \in Entries : Parent[e] \in Excluded => e \in Excluded
  /\ \A e \in Entries : Parent[e] \in Foreign => e \in Foreign

\* What the walk has to visit: a mount point, but nothing below it.
Wanted == {e \in Entries \ Excluded : Parent[e] \notin Foreign}

\* The walk lists a directory only after it has visited it, and shows each
\* entry once.
NextEntries(visited) ==
  {e \in Wanted \ visited : Parent[e] \in visited \cup {Root}}

\* st_nlink > 1.
HardLinked(e) == \E f \in Entries \ {e} : Inode[f] = Inode[e]

\* Every path leads back to Root: the walk stops only when all is visited.
ASSUME ReachableAssumption ==
  \A visited \in SUBSET Wanted : NextEntries(visited) = {} => visited = Wanted

=============================================================================
