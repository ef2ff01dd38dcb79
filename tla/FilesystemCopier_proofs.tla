------------------------ MODULE FilesystemCopier_proofs ------------------------
(***************************************************************************)
(* Proofs about FilesystemCopier for every source tree and any number of   *)
(* attempts.  Two inductive invariants, one on top of the other.  Threads  *)
(* says where the main thread and the helper can be in relation to each    *)
(* other and to the mount; it needs no assumption.  Copying says what the  *)
(* partition holds at each of these places; it needs a source that does    *)
(* not contain the marker itself, without which the marker does not mean   *)
(* anything (the run of FilesystemCopierMarker.cfg shows that).            *)
(***************************************************************************)
EXTENDS FilesystemCopier, TLAPS

\* The threads: the helper exists only between PerformAction() and the report,
\* CollectThread() is scheduled and run only once the helper is done with the
\* partition, and the partition is mounted exactly while the helper copies.
Threads ==
  /\ helper = "none" => main \in {"idle", "over"}
  /\ helper # "none" => main # "idle" /\ plan = "delta"
  /\ main = "over" <=> report # "none"
  /\ main = "over" => helper \in {"none", "exited"}
  /\ main = "joining" \/ timer => helper \in {"exiting", "exited"}
  /\ helper \in {"format", "formatting", "mount"} => ~isMounted
  /\ helper \in {"walk", "mark"} => isMounted
  /\ helper \in {"exiting", "exited"} => output = "helper"

\* The names of a file: hard_links has the first name copied of each file that has
\* several, and every name copied so far is a name of that one file.
Linked ==
  /\ \A e \in visited : HardLinked(e) =>
       /\ links[Inode[e]] \in visited
       /\ Inode[links[Inode[e]]] = Inode[e]
       /\ disk.ino[e] = links[Inode[e]]
  /\ \A e \in visited : ~HardLinked(e) => disk.ino[e] = e
  /\ \A i \in Inodes : links[i] # NoPath => links[i] \in visited /\ Inode[links[i]] = i

\* The partition while the helper copies: a new filesystem without the marker, on which
\* everything visited is whole but the file being written.
Walking ==
  helper = "walk" =>
    /\ disk.fs /\ disk.has[Marker] = "absent"
    /\ cur # NoPath => cur \in visited
    /\ \A e \in visited : e # cur => disk.has[e] = "whole"
    /\ Linked

\* What the partition holds at the helper's other places, and on the medium.
Copying ==
  /\ MarkerMeansComplete
  /\ Marked(stable) => Complete(stable)
  /\ helper = "none" => stable = disk
  /\ helper \in {"none", "format", "formatting", "mount"} =>
       visited = {} /\ cur = NoPath /\ links = [i \in Inodes |-> NoPath]
  /\ helper = "mount" => disk = Formatted
  /\ Walking
  /\ helper = "mark" => success /\ Complete(disk)
  /\ helper = "unmount" /\ success => Complete(disk)
  /\ helper \in {"finish", "exiting", "exited"} /\ success =>
       Complete(disk) /\ stable = disk /\ ~isMounted
  /\ SuccessMeansCopied

IInv == TypeOK /\ Threads /\ Copying

-----------------------------------------------------------------------------
(* Threads.                                                                *)

\* Threads holds of a new Action.
LEMMA InitThreads == Init => Threads
  BY DEF Init, Threads

\* Every step of either thread and of the machine keeps Threads.
LEMMA NextThreads == TypeOK /\ Threads /\ [Next]_copierVars => Threads'
<1> SUFFICES ASSUME TypeOK, Threads, [Next]_copierVars PROVE Threads'
  OBVIOUS
<1>1. ASSUME PerformWithoutCopy PROVE Threads'
  BY <1>1 DEF Threads, PerformWithoutCopy, MainRuns, Report, mainVars, copyVars
<1>2. ASSUME NEW m \in BOOLEAN, NEW u \in BOOLEAN, Perform(m, u) PROVE Threads'
  BY <1>2 DEF Threads, Perform, MainRuns, Report, FoundMarker, ProbeUnmounted, mainVars, copyVars
<1>3. ASSUME StopProcessing PROVE Threads'
  BY <1>3 DEF Threads, StopProcessing, MainRuns, mainVars, copyVars
<1>4. ASSUME CollectThread PROVE Threads'
  BY <1>4 DEF Threads, CollectThread, MainRuns, mainVars, copyVars
<1>5. ASSUME Collected PROVE Threads'
  BY <1>5 DEF Threads, Collected, MainRuns, HelperGone, Report, mainVars, copyVars
<1>6. ASSUME FormatBegins PROVE Threads'
  BY <1>6 DEF Threads, FormatBegins, HelperRuns, mainVars, copyVars
<1>7. ASSUME FormatEnds PROVE Threads'
  BY <1>7 DEF Threads, FormatEnds, HelperRuns, mainVars, copyVars
<1>8. ASSUME FormatFails PROVE Threads'
  BY <1>8 DEF Threads, FormatFails, HelperRuns, mainVars, copyVars
<1>9. ASSUME NEW ok \in BOOLEAN, MountNew(ok) PROVE Threads'
  BY <1>9 DEF Threads, MountNew, HelperRuns, mainVars, copyVars
<1>10. ASSUME NEW e \in Entries, NEW ok \in BOOLEAN, CopyEntry(e, ok) PROVE Threads'
  BY <1>10 DEF Threads, CopyEntry, HelperRuns, StopCopying, mainVars, copyVars
<1>11. ASSUME NEW e \in Entries, CopyFileBegins(e) PROVE Threads'
  BY <1>11 DEF Threads, CopyFileBegins, HelperRuns, mainVars, copyVars
<1>12. ASSUME CopyFileEnds PROVE Threads'
  BY <1>12 DEF Threads, CopyFileEnds, HelperRuns, mainVars, copyVars
<1>13. ASSUME CopyFileAborts PROVE Threads'
  BY <1>13 DEF Threads, CopyFileAborts, HelperRuns, mainVars, copyVars
<1>14. ASSUME CopyError PROVE Threads'
  BY <1>14 DEF Threads, CopyError, HelperRuns, StopCopying, mainVars, copyVars
<1>15. ASSUME CopyEnds PROVE Threads'
  BY <1>15 DEF Threads, CopyEnds, HelperRuns, StopCopying, mainVars, copyVars
<1>16. ASSUME NEW ok \in BOOLEAN, PlaceMarker(ok) PROVE Threads'
  BY <1>16 DEF Threads, PlaceMarker, HelperRuns, mainVars, copyVars
<1>17. ASSUME NEW ok \in BOOLEAN, UnmountNew(ok) PROVE Threads'
  BY <1>17 DEF Threads, UnmountNew, HelperRuns, mainVars, copyVars
<1>18. ASSUME Finish PROVE Threads'
  BY <1>18 DEF Threads, Finish, HelperRuns, mainVars, copyVars
<1>19. ASSUME HelperExits PROVE Threads'
  BY <1>19 DEF Threads, HelperExits, HelperRuns, mainVars, copyVars
<1>20. ASSUME WriteBack PROVE Threads'
  BY <1>20 DEF Threads, WriteBack, mainVars, copyVars
<1>21. ASSUME Restart PROVE Threads'
  BY <1>21 DEF Threads, Restart, FreshAction, mainVars, copyVars
<1>22. CASE UNCHANGED copierVars
  BY <1>22 DEF Threads, copierVars, mainVars, copyVars
<1> QED
  BY <1>1, <1>2, <1>3, <1>4, <1>5, <1>6, <1>7, <1>8, <1>9, <1>10, <1>11, <1>12,
     <1>13, <1>14, <1>15, <1>16, <1>17, <1>18, <1>19, <1>20, <1>21, <1>22
  DEF Next, MainNext, HelperNext

-----------------------------------------------------------------------------
(* Types.                                                                  *)

\* What creating a path leaves on a partition: the path has a content and an inode, its own
\* or those of the name it is a link to, and nothing else changes.
LEMMA CreateIs ==
  ASSUME disk \in Disk, NEW e \in Entries, NEW how \in {"torn", "whole"},
         links \in [Inodes -> Paths \cup {NoPath}]
  PROVE  /\ Create(e, how) \in Disk
         /\ Create(e, how).fs = disk.fs
         /\ \A p \in Paths : p # e => /\ Create(e, how).has[p] = disk.has[p]
                                     /\ Create(e, how).ino[p] = disk.ino[p]
         /\ LinkTarget(e) = NoPath => Create(e, how).has[e] = how /\ Create(e, how).ino[e] = e
         /\ LinkTarget(e) # NoPath => /\ Create(e, how).has[e] = disk.has[LinkTarget(e)]
                                      /\ Create(e, how).ino[e] = disk.ino[LinkTarget(e)]
<1> DEFINE t == LinkTarget(e)
<1>1. e \in Paths /\ t \in Paths \cup {NoPath}
  BY DEF Paths, LinkTarget, Inodes
<1>2. disk = [fs |-> disk.fs, has |-> disk.has, ino |-> disk.ino]
  BY DEF Disk
<1>3. /\ disk.fs \in BOOLEAN /\ disk.has \in [Paths -> {"absent", "torn", "whole"}]
      /\ disk.ino \in [Paths -> Paths]
  BY DEF Disk
<1>4. CASE t = NoPath
  <2>1. Create(e, how) = [fs |-> disk.fs, has |-> [disk.has EXCEPT ![e] = how],
                          ino |-> [disk.ino EXCEPT ![e] = e]]
    BY <1>2, <1>4 DEF Create
  <2> QED
    BY <1>1, <1>3, <1>4, <2>1 DEF Disk
<1>5. CASE t # NoPath
  <2>1. Create(e, how) = [fs |-> disk.fs, has |-> [disk.has EXCEPT ![e] = disk.has[t]],
                          ino |-> [disk.ino EXCEPT ![e] = disk.ino[t]]]
    BY <1>2, <1>5 DEF Create
  <2> QED
    BY <1>1, <1>3, <1>5, <2>1 DEF Disk
<1> QED
  BY <1>4, <1>5

\* Writing to a path changes how much of it is there and nothing else.
LEMMA WriteIs ==
  ASSUME NEW d \in Disk, NEW p \in Paths, NEW how \in {"absent", "torn", "whole"}
  PROVE  /\ [d EXCEPT !.has[p] = how] \in Disk
         /\ [d EXCEPT !.has[p] = how].fs = d.fs
         /\ [d EXCEPT !.has[p] = how].ino = d.ino
         /\ [d EXCEPT !.has[p] = how].has[p] = how
         /\ \A q \in Paths : q # p => [d EXCEPT !.has[p] = how].has[q] = d.has[q]
<1>1. d = [fs |-> d.fs, has |-> d.has, ino |-> d.ino]
  BY DEF Disk
<1>2. [d EXCEPT !.has[p] = how] = [fs |-> d.fs, has |-> [d.has EXCEPT ![p] = how], ino |-> d.ino]
  BY <1>1
<1> QED
  BY <1>2 DEF Disk

\* A partition is what mkfs leaves, or what it leaves halfway.
LEMMA FormattedType == Formatted \in Disk /\ Unformatted \in Disk /\ ~Unformatted.fs /\ Formatted.fs
<1>1. Formatted \in Disk /\ Formatted.fs
  BY DEF Formatted, Disk
<1>2. ASSUME NEW d \in Disk PROVE [d EXCEPT !.fs = FALSE] \in Disk /\ ~[d EXCEPT !.fs = FALSE].fs
  BY DEF Disk
<1> QED
  BY <1>1, <1>2 DEF Unformatted

\* A partition mkfs has left, or left halfway, shows no marker.
LEMMA NewUnmarked ==
  ~Marked(Formatted) /\ ~Marked(Unformatted) /\ Formatted.has[Marker] = "absent"
  BY FormattedType DEF Marked, Formatted, Paths

\* Type correctness holds initially ...
LEMMA InitType == Init => TypeOK
<1> SUFFICES ASSUME Init PROVE TypeOK
  OBVIOUS
<1>1. disk \in Disk /\ stable \in Disk
  BY FormattedType DEF Init
<1>2. attempts \in 1..MaxAttempts
  BY BoundAssumption DEF Init
<1>3. links \in [Inodes -> Paths \cup {NoPath}] /\ visited \subseteq Wanted
  BY DEF Init
<1> QED
  BY <1>1, <1>2, <1>3 DEF Init, TypeOK

\* ... and is kept by every step.
LEMMA NextType == TypeOK /\ [Next]_copierVars => TypeOK'
<1> SUFFICES ASSUME TypeOK, [Next]_copierVars PROVE TypeOK'
  OBVIOUS
<1>1. ASSUME PerformWithoutCopy PROVE TypeOK'
  BY <1>1 DEF PerformWithoutCopy, MainRuns, Report, TypeOK, mainVars, copyVars
<1>2. ASSUME NEW m \in BOOLEAN, NEW u \in BOOLEAN, Perform(m, u) PROVE TypeOK'
  <2>1. FoundMarker(m) \in BOOLEAN /\ (m /\ ~u) \in BOOLEAN
    BY DEF FoundMarker, Marked
  <2> QED
    BY <1>2, <2>1 DEF Perform, MainRuns, Report, TypeOK, copyVars
<1>3. ASSUME StopProcessing PROVE TypeOK'
  BY <1>3 DEF StopProcessing, MainRuns, TypeOK, mainVars, copyVars
<1>4. ASSUME CollectThread PROVE TypeOK'
  BY <1>4 DEF CollectThread, MainRuns, TypeOK, mainVars, copyVars
<1>5. ASSUME Collected PROVE TypeOK'
  BY <1>5 DEF Collected, MainRuns, Report, TypeOK, mainVars, copyVars
<1>6. ASSUME FormatBegins PROVE TypeOK'
  BY <1>6, FormattedType DEF FormatBegins, HelperRuns, TypeOK, mainVars, copyVars
<1>7. ASSUME FormatEnds PROVE TypeOK'
  BY <1>7, FormattedType DEF FormatEnds, HelperRuns, TypeOK, mainVars, copyVars
<1>8. ASSUME FormatFails PROVE TypeOK'
  BY <1>8 DEF FormatFails, HelperRuns, TypeOK, mainVars, copyVars
<1>9. ASSUME NEW ok \in BOOLEAN, MountNew(ok) PROVE TypeOK'
  BY <1>9 DEF MountNew, HelperRuns, TypeOK, mainVars, copyVars
<1>10. ASSUME NEW e \in Entries, NEW ok \in BOOLEAN, CopyEntry(e, ok) PROVE TypeOK'
  <2>1. disk' \in Disk
    BY <1>10, CreateIs DEF CopyEntry, TypeOK
  <2>2. links' \in [Inodes -> Paths \cup {NoPath}]
    BY <1>10 DEF CopyEntry, Remember, TypeOK, Paths
  <2>3. visited' \subseteq Wanted /\ cur' \in Files \cup {NoPath}
    BY <1>10 DEF CopyEntry, NextEntries, TypeOK
  <2> QED
    BY <1>10, <2>1, <2>2, <2>3 DEF CopyEntry, HelperRuns, StopCopying, TypeOK, mainVars
<1>11. ASSUME NEW e \in Entries, CopyFileBegins(e) PROVE TypeOK'
  <2>1. disk' \in Disk
    BY <1>11, CreateIs DEF CopyFileBegins, TypeOK
  <2>2. links' \in [Inodes -> Paths \cup {NoPath}]
    BY <1>11 DEF CopyFileBegins, Remember, TypeOK, Paths
  <2>3. visited' \subseteq Wanted /\ cur' \in Files \cup {NoPath}
    BY <1>11 DEF CopyFileBegins, NextEntries, TypeOK
  <2> QED
    BY <1>11, <2>1, <2>2, <2>3 DEF CopyFileBegins, HelperRuns, TypeOK, mainVars
<1>12. ASSUME CopyFileEnds PROVE TypeOK'
  <2>1. disk' \in Disk
    BY <1>12, WriteIs, TreeAssumption DEF CopyFileEnds, TypeOK, Paths
  <2> QED
    BY <1>12, <2>1 DEF CopyFileEnds, HelperRuns, TypeOK, mainVars, copyVars
<1>13. ASSUME CopyFileAborts PROVE TypeOK'
  BY <1>13 DEF CopyFileAborts, HelperRuns, TypeOK, mainVars, copyVars
<1>14. ASSUME CopyError PROVE TypeOK'
  BY <1>14 DEF CopyError, HelperRuns, StopCopying, TypeOK, mainVars, copyVars
<1>15. ASSUME CopyEnds PROVE TypeOK'
  BY <1>15 DEF CopyEnds, HelperRuns, StopCopying, TypeOK, mainVars, copyVars
<1>16. ASSUME NEW ok \in BOOLEAN, PlaceMarker(ok) PROVE TypeOK'
  <2>1. disk' \in Disk
    BY <1>16, WriteIs, TreeAssumption DEF PlaceMarker, TypeOK, Paths
  <2> QED
    BY <1>16, <2>1 DEF PlaceMarker, HelperRuns, TypeOK, mainVars, copyVars
<1>17. ASSUME NEW ok \in BOOLEAN, UnmountNew(ok) PROVE TypeOK'
  BY <1>17 DEF UnmountNew, HelperRuns, TypeOK, mainVars, copyVars
<1>18. ASSUME Finish PROVE TypeOK'
  BY <1>18 DEF Finish, HelperRuns, TypeOK, mainVars, copyVars
<1>19. ASSUME HelperExits PROVE TypeOK'
  BY <1>19 DEF HelperExits, HelperRuns, TypeOK, mainVars, copyVars
<1>20. ASSUME WriteBack PROVE TypeOK'
  BY <1>20 DEF WriteBack, TypeOK, mainVars, copyVars
<1>21. ASSUME Restart PROVE TypeOK'
  <2>1. attempts' \in 1..MaxAttempts
    BY <1>21, BoundAssumption DEF Restart, TypeOK
  <2>2. links' \in [Inodes -> Paths \cup {NoPath}] /\ visited' \subseteq Wanted
    BY <1>21 DEF Restart, FreshAction
  <2> QED
    BY <1>21, <2>1, <2>2 DEF Restart, FreshAction, TypeOK
<1>22. CASE UNCHANGED copierVars
  BY <1>22 DEF TypeOK, copierVars, mainVars, copyVars
<1> QED
  BY <1>1, <1>2, <1>3, <1>4, <1>5, <1>6, <1>7, <1>8, <1>9, <1>10, <1>11, <1>12,
     <1>13, <1>14, <1>15, <1>16, <1>17, <1>18, <1>19, <1>20, <1>21, <1>22
  DEF Next, MainNext, HelperNext

-----------------------------------------------------------------------------
(* The partition.                                                          *)

\* Two names of one file are each hard linked, and neither is a directory.
LEMMA TwoNames ==
  ASSUME NEW e \in Entries, NEW f \in Entries, e # f, Inode[e] = Inode[f]
  PROVE  HardLinked(e) /\ HardLinked(f) /\ e \notin Dirs
  BY TreeAssumption DEF HardLinked

\* A hard link is made to a name visited before, of the same file.
LEMMA LinkTargetVisited ==
  ASSUME TypeOK, Linked, NEW e \in Wanted \ visited, LinkTarget(e) # NoPath
  PROVE  /\ LinkTarget(e) = links[Inode[e]] /\ LinkTarget(e) \in visited
         /\ Inode[LinkTarget(e)] = Inode[e]
         /\ HardLinked(e) /\ HardLinked(LinkTarget(e)) /\ e \notin Dirs
         /\ disk.ino[LinkTarget(e)] = links[Inode[e]]
<1>1. HardLinked(e) /\ LinkTarget(e) = links[Inode[e]]
  BY DEF LinkTarget
<1>2. e \in Entries /\ Inode[e] \in Inodes
  BY DEF Wanted, Inodes
<1>3. LinkTarget(e) \in visited /\ Inode[LinkTarget(e)] = Inode[e]
  BY <1>1, <1>2 DEF Linked
<1>4. LinkTarget(e) # e /\ LinkTarget(e) \in Entries
  BY <1>3 DEF TypeOK, Wanted
<1>5. HardLinked(LinkTarget(e)) /\ e \notin Dirs
  BY <1>2, <1>3, <1>4, TwoNames
<1> QED
  BY <1>1, <1>3, <1>5 DEF Linked

\* The new path joins the names of its file.
LEMMA CreateLinked ==
  ASSUME TypeOK, Linked, NEW e \in Wanted \ visited, NEW how \in {"torn", "whole"},
         visited' = visited \cup {e}, disk' = Create(e, how), links' = Remember(e)
  PROVE  Linked'
<1>1. e \in Entries /\ Inode[e] \in Inodes
  BY DEF Wanted, Inodes
<1>2. visited \subseteq Entries /\ \A f \in visited : f # e /\ f \in Paths /\ Inode[f] \in Inodes
  BY DEF TypeOK, Wanted, Paths, Inodes
<1>3. \A f \in visited : disk'.ino[f] = disk.ino[f]
  BY <1>1, <1>2, CreateIs DEF TypeOK
<1>4. CASE LinkTarget(e) # NoPath
  <2>1. links' = links
    BY <1>4 DEF Remember
  <2>2. disk'.ino[e] = links[Inode[e]] /\ HardLinked(e) /\ links[Inode[e]] \in visited
        /\ Inode[links[Inode[e]]] = Inode[e]
    BY <1>1, <1>4, CreateIs, LinkTargetVisited DEF TypeOK
  <2> QED
    BY <1>3, <2>1, <2>2 DEF Linked
<1>5. CASE LinkTarget(e) = NoPath /\ HardLinked(e)
  <2>1. links[Inode[e]] = NoPath /\ e \notin Dirs
    BY <1>1, <1>5, TreeAssumption DEF LinkTarget, HardLinked
  <2>2. links' = [links EXCEPT ![Inode[e]] = e]
    BY <1>5, <2>1 DEF Remember
  <2>3. disk'.ino[e] = e
    BY <1>1, <1>5, CreateIs DEF TypeOK
  <2>4. \A f \in visited : HardLinked(f) => Inode[f] # Inode[e]
    BY <1>2, <2>1, MarkerAssumption DEF Linked
  <2>5. /\ links'[Inode[e]] = e
        /\ \A i \in Inodes : i # Inode[e] => links'[i] = links[i]
    BY <1>1, <2>2 DEF TypeOK
  <2>6. \A f \in visited' : HardLinked(f) =>
          /\ links'[Inode[f]] \in visited'
          /\ Inode[links'[Inode[f]]] = Inode[f]
          /\ disk'.ino[f] = links'[Inode[f]]
    BY <1>2, <1>3, <2>3, <2>4, <2>5 DEF Linked
  <2>7. \A f \in visited' : ~HardLinked(f) => disk'.ino[f] = f
    BY <1>3, <1>5 DEF Linked
  <2>8. \A i \in Inodes : links'[i] # NoPath => links'[i] \in visited' /\ Inode[links'[i]] = i
    BY <2>5 DEF Linked
  <2> QED
    BY <2>6, <2>7, <2>8 DEF Linked
<1>6. CASE ~HardLinked(e)
  <2>1. links' = links /\ LinkTarget(e) = NoPath
    BY <1>6 DEF Remember, LinkTarget
  <2>2. disk'.ino[e] = e
    BY <1>1, <2>1, CreateIs DEF TypeOK
  <2> QED
    BY <1>3, <1>6, <2>1, <2>2 DEF Linked
<1> QED
  BY <1>4, <1>5, <1>6

\* Neither the marker nor what has been visited changes when a path is created.
LEMMA CreateKeepsOthers ==
  ASSUME TypeOK, Marker \notin Wanted, NEW e \in Wanted \ visited, NEW how \in {"torn", "whole"}
  PROVE  /\ Create(e, how).fs = disk.fs
         /\ Create(e, how).has[Marker] = disk.has[Marker]
         /\ \A f \in visited : Create(e, how).has[f] = disk.has[f]
<1>1. e \in Entries /\ Marker # e /\ Marker \in Paths
  BY DEF Wanted, Paths
<1>2. visited \subseteq Paths /\ e \notin visited
  BY DEF TypeOK, Wanted, Paths
<1>3. \A p \in Paths : p # e => Create(e, how).has[p] = disk.has[p]
  BY <1>1, CreateIs DEF TypeOK
<1>4. Create(e, how).fs = disk.fs
  BY <1>1, CreateIs DEF TypeOK
<1> QED
  BY <1>1, <1>2, <1>3, <1>4

\* A walk that has shown everything leaves a faithful copy.
LEMMA WalkCompletes ==
  ASSUME TypeOK, Linked, disk.fs, visited = Wanted,
         \A e \in Wanted : disk.has[e] = "whole"
  PROVE  Complete(disk)
<1> SUFFICES ASSUME NEW e \in Wanted, NEW f \in Wanted
             PROVE  disk.ino[e] = disk.ino[f] <=> Inode[e] = Inode[f]
  BY DEF Complete
<1>1. e \in Entries /\ f \in Entries
  BY DEF Wanted
<1>2. ASSUME Inode[e] = Inode[f], e # f PROVE disk.ino[e] = disk.ino[f]
  BY <1>1, <1>2, TwoNames DEF Linked
<1>3. ASSUME disk.ino[e] = disk.ino[f] PROVE Inode[e] = Inode[f]
  BY <1>3 DEF Linked
<1> QED
  BY <1>2, <1>3

\* Copying holds of a new Action on a partition without a marker.
LEMMA InitCopying == Init => Copying
  BY NewUnmarked DEF Init, Copying, Walking, MarkerMeansComplete, SuccessMeansCopied

\* Every step keeps Copying: the marker appears only when the copy is complete, and a
\* success is carried to the report only past an unmount that wrote everything back.
LEMMA NextCopying ==
  ASSUME Marker \notin Wanted
  PROVE  IInv /\ [Next]_copierVars => Copying'
<1> SUFFICES ASSUME IInv, [Next]_copierVars PROVE Copying'
  OBVIOUS
<1>0. TypeOK /\ Threads /\ Copying
  BY DEF IInv
<1>1. ASSUME PerformWithoutCopy PROVE Copying'
  BY <1>0, <1>1
  DEF Copying, Walking, Linked, MarkerMeansComplete, SuccessMeansCopied, Threads, PerformWithoutCopy, MainRuns, Report,
      mainVars, copyVars
<1>2. ASSUME NEW m \in BOOLEAN, NEW u \in BOOLEAN, Perform(m, u) PROVE Copying'
  BY <1>0, <1>2
  DEF Copying, Walking, Linked, MarkerMeansComplete, SuccessMeansCopied, Threads, Perform, MainRuns, Report, FoundMarker, ProbeUnmounted,
      mainVars, copyVars
<1>3. ASSUME StopProcessing PROVE Copying'
  BY <1>0, <1>3
  DEF Copying, Walking, Linked, MarkerMeansComplete, SuccessMeansCopied, Threads, StopProcessing, MainRuns,
      mainVars, copyVars
<1>4. ASSUME CollectThread PROVE Copying'
  BY <1>0, <1>4
  DEF Copying, Walking, Linked, MarkerMeansComplete, SuccessMeansCopied, Threads, CollectThread, MainRuns,
      mainVars, copyVars
<1>5. ASSUME Collected PROVE Copying'
  BY <1>0, <1>5
  DEF Copying, Walking, Linked, MarkerMeansComplete, SuccessMeansCopied, Threads, Collected, MainRuns, HelperGone, Report,
      mainVars, copyVars
<1>6. ASSUME FormatBegins PROVE Copying'
  BY <1>0, <1>6, NewUnmarked
  DEF Copying, Walking, Linked, MarkerMeansComplete, SuccessMeansCopied, Threads, FormatBegins, HelperRuns,
      mainVars, copyVars
<1>7. ASSUME FormatEnds PROVE Copying'
  BY <1>0, <1>7, NewUnmarked
  DEF Copying, Walking, Linked, MarkerMeansComplete, SuccessMeansCopied, Threads, FormatEnds, HelperRuns,
      mainVars, copyVars
<1>8. ASSUME FormatFails PROVE Copying'
  BY <1>0, <1>8
  DEF Copying, Walking, Linked, MarkerMeansComplete, SuccessMeansCopied, Threads, FormatFails, HelperRuns,
      mainVars, copyVars
<1>9. ASSUME NEW ok \in BOOLEAN, MountNew(ok) PROVE Copying'
  <2>1. /\ helper = "mount" /\ disk' = Formatted /\ disk' = disk /\ stable' = stable
        /\ visited' = {} /\ cur' = NoPath /\ links' = [i \in Inodes |-> NoPath]
    BY <1>0, <1>9 DEF MountNew, HelperRuns, Copying, copyVars
  <2>2. Linked'
    BY <2>1 DEF Linked
  <2>3. Walking' /\ MarkerMeansComplete'
    BY <2>1, <2>2, FormattedType, NewUnmarked DEF Walking, MarkerMeansComplete
  <2>4. helper' = "unmount" => ~success'
    BY <1>9 DEF MountNew
  <2> QED
    BY <1>0, <1>9, <2>1, <2>3, <2>4
    DEF Copying, SuccessMeansCopied, Threads, MountNew, mainVars
<1>10. ASSUME NEW e \in Entries, NEW ok \in BOOLEAN, CopyEntry(e, ok) PROVE Copying'
  <2>1. /\ helper = "walk" /\ cur = NoPath /\ e \in Wanted \ visited /\ Walking /\ Linked
        /\ disk' = Create(e, "whole") /\ visited' = visited \cup {e} /\ links' = Remember(e)
        /\ disk.fs /\ disk.has[Marker] = "absent" /\ \A f \in visited : disk.has[f] = "whole"
    BY <1>0, <1>10, MarkerAssumption DEF CopyEntry, HelperRuns, NextEntries, Copying, Walking, TypeOK, Wanted
  <2>2. Linked'
    BY <1>0, <2>1, CreateLinked
  <2>3. /\ disk'.fs /\ disk'.has[Marker] = "absent"
        /\ \A f \in visited : disk'.has[f] = "whole"
    BY <1>0, <2>1, CreateKeepsOthers
  <2>4. disk'.has[e] = "whole"
    <3>1. CASE LinkTarget(e) = NoPath
      BY <1>0, <2>1, <3>1, CreateIs DEF TypeOK
    <3>2. CASE LinkTarget(e) # NoPath
      <4>1. LinkTarget(e) \in visited
        BY <1>0, <2>1, <3>2, LinkTargetVisited
      <4>2. disk'.has[e] = disk.has[LinkTarget(e)]
        BY <1>0, <2>1, <3>2, CreateIs, ZenonT(40) DEF TypeOK
      <4> QED
        BY <2>1, <4>1, <4>2
    <3> QED
      BY <3>1, <3>2
  <2>5. Walking' /\ MarkerMeansComplete'
    BY <1>10, <2>1, <2>2, <2>3, <2>4 DEF Walking, MarkerMeansComplete, Marked, CopyEntry
  <2> QED
    BY <1>0, <1>10, <2>1, <2>5
    DEF Copying, SuccessMeansCopied, Threads, CopyEntry, StopCopying, mainVars
<1>11. ASSUME NEW e \in Entries, CopyFileBegins(e) PROVE Copying'
  <2>1. /\ helper = "walk" /\ cur = NoPath /\ e \in Wanted \ visited /\ Walking /\ Linked
        /\ disk' = Create(e, "torn") /\ visited' = visited \cup {e} /\ links' = Remember(e)
        /\ disk.fs /\ disk.has[Marker] = "absent" /\ \A f \in visited : disk.has[f] = "whole"
    BY <1>0, <1>11, MarkerAssumption DEF CopyFileBegins, HelperRuns, NextEntries, Copying, Walking, TypeOK, Wanted
  <2>2. Linked'
    BY <1>0, <2>1, CreateLinked
  <2>3. /\ disk'.fs /\ disk'.has[Marker] = "absent"
        /\ \A f \in visited : disk'.has[f] = "whole"
    BY <1>0, <2>1, CreateKeepsOthers
  <2>4. Walking' /\ MarkerMeansComplete'
    BY <1>11, <2>1, <2>2, <2>3 DEF Walking, MarkerMeansComplete, Marked, CopyFileBegins
  <2> QED
    BY <1>0, <1>11, <2>1, <2>4 DEF Copying, SuccessMeansCopied, Threads, CopyFileBegins, mainVars
<1>12. ASSUME CopyFileEnds PROVE Copying'
  <2>1. helper = "walk" /\ Walking /\ cur \in visited /\ cur \in Paths /\ cur # Marker
    BY <1>0, <1>12 DEF CopyFileEnds, HelperRuns, Copying, Walking, TypeOK, Paths, Wanted
  <2>2. /\ disk'.fs = disk.fs /\ disk'.ino = disk.ino /\ disk'.has[cur] = "whole"
        /\ \A q \in Paths : q # cur => disk'.has[q] = disk.has[q]
    BY <1>0, <1>12, <2>1, WriteIs DEF CopyFileEnds, TypeOK
  <2>3. Linked'
    BY <1>12, <2>1, <2>2 DEF CopyFileEnds, Walking, Linked
  <2>4. Marker \in Paths /\ visited \subseteq Paths
    BY <1>0 DEF Paths, TypeOK, Wanted
  <2>5. Walking' /\ MarkerMeansComplete'
    BY <1>12, <2>1, <2>2, <2>3, <2>4 DEF CopyFileEnds, Walking, MarkerMeansComplete, Marked
  <2> QED
    BY <1>0, <1>12, <2>1, <2>5 DEF Copying, SuccessMeansCopied, Threads, CopyFileEnds, mainVars
<1>13. ASSUME CopyFileAborts PROVE Copying'
  BY <1>0, <1>13
  DEF Copying, Walking, Linked, MarkerMeansComplete, SuccessMeansCopied, Threads, CopyFileAborts, HelperRuns,
      mainVars, copyVars
<1>14. ASSUME CopyError PROVE Copying'
  BY <1>0, <1>14
  DEF Copying, Walking, Linked, MarkerMeansComplete, SuccessMeansCopied, Threads, CopyError, HelperRuns, StopCopying, Marked,
      mainVars, copyVars
<1>15. ASSUME CopyEnds PROVE Copying'
  <2>1. visited = Wanted
    BY <1>0, <1>15, ReachableAssumption DEF CopyEnds, TypeOK
  <2>2. Complete(disk)
    BY <1>0, <1>15, <2>1, WalkCompletes, MarkerAssumption
    DEF CopyEnds, HelperRuns, Copying, Walking, Wanted
  <2> QED
    BY <1>0, <1>15, <2>2
    DEF Copying, Walking, Linked, MarkerMeansComplete, SuccessMeansCopied, Threads, CopyEnds, HelperRuns, StopCopying, mainVars, copyVars
<1>16. ASSUME NEW ok \in BOOLEAN, PlaceMarker(ok) PROVE Copying'
  <2>1. Complete(disk')
    BY <1>0, <1>16, WriteIs DEF PlaceMarker, HelperRuns, Copying, Complete, TypeOK, Paths, Wanted
  <2> QED
    BY <1>0, <1>16, <2>1
    DEF Copying, Walking, MarkerMeansComplete, SuccessMeansCopied, Threads, PlaceMarker, HelperRuns,
        mainVars, copyVars
<1>17. ASSUME NEW ok \in BOOLEAN, UnmountNew(ok) PROVE Copying'
  BY <1>0, <1>17
  DEF Copying, Walking, Linked, MarkerMeansComplete, SuccessMeansCopied, Threads, UnmountNew, HelperRuns,
      mainVars, copyVars
<1>18. ASSUME Finish PROVE Copying'
  BY <1>0, <1>18
  DEF Copying, Walking, Linked, MarkerMeansComplete, SuccessMeansCopied, Threads, Finish, HelperRuns,
      mainVars, copyVars
<1>19. ASSUME HelperExits PROVE Copying'
  BY <1>0, <1>19
  DEF Copying, Walking, Linked, MarkerMeansComplete, SuccessMeansCopied, Threads, HelperExits, HelperRuns,
      mainVars, copyVars
<1>20. ASSUME WriteBack PROVE Copying'
  BY <1>0, <1>20
  DEF Copying, Walking, Linked, MarkerMeansComplete, SuccessMeansCopied, Threads, WriteBack,
      mainVars, copyVars
<1>21. ASSUME Restart PROVE Copying'
  BY <1>0, <1>21
  DEF Copying, Walking, Linked, MarkerMeansComplete, SuccessMeansCopied, Threads, Restart, FreshAction,
      mainVars, copyVars
<1>22. CASE UNCHANGED copierVars
  BY <1>0, <1>22
  DEF Copying, Walking, Linked, MarkerMeansComplete, SuccessMeansCopied, Threads, copierVars,
      mainVars, copyVars
<1> QED
  BY <1>1, <1>2, <1>3, <1>4, <1>5, <1>6, <1>7, <1>8, <1>9, <1>10, <1>11, <1>12,
     <1>13, <1>14, <1>15, <1>16, <1>17, <1>18, <1>19, <1>20, <1>21, <1>22
  DEF Next, MainNext, HelperNext

-----------------------------------------------------------------------------
(* The theorems.                                                           *)

\* Types and threads, of every source: the variables keep their types, mkfs never runs on
\* a mounted partition, and ActionComplete() is called only once HelperThreadMain() has
\* returned or was never started.
THEOREM ThreadsSafety == Spec => [](TypeOK /\ NeverFormatsMounted /\ ReportedAfterHelper)
<1>1. Init => TypeOK /\ Threads
  BY InitType, InitThreads
<1>2. TypeOK /\ Threads /\ [Next]_copierVars => (TypeOK /\ Threads)'
  BY NextType, NextThreads
<1>3. TypeOK /\ Threads => NeverFormatsMounted /\ ReportedAfterHelper
  BY DEF TypeOK, Threads, NeverFormatsMounted, ReportedAfterHelper
<1> QED
  BY <1>1, <1>2, <1>3, PTL DEF Spec

\* The inductive invariant holds throughout when the source has no file of the marker's name.
LEMMA CopierInvariant ==
  ASSUME Marker \notin Wanted
  PROVE  Spec => []IInv
<1>1. Init => IInv
  BY InitType, InitThreads, InitCopying DEF IInv
<1>2. IInv /\ [Next]_copierVars => IInv'
  BY NextType, NextThreads, NextCopying DEF IInv
<1> QED
  BY <1>1, <1>2, PTL DEF Spec

\* Whatever fails and whenever the power does: a partition with the marker holds a faithful
\* copy, and a delta update reported as a success has one on the medium, unmounted.
THEOREM CopierSafety ==
  ASSUME Marker \notin Wanted
  PROVE  Spec => []CopyIsTrustworthy
<1>1. IInv => CopyIsTrustworthy
  BY DEF IInv, TypeOK, Threads, Copying, CopyIsTrustworthy, NeverFormatsMounted,
         ReportedAfterHelper
<1> QED
  BY <1>1, CopierInvariant, PTL

\* The copier's next reboot finds what it reported: every step of the two threads, of the
\* kernel and of a power failure is a step of DurableCopy or invisible to it.
THEOREM CopierIsDurable ==
  ASSUME Marker \notin Wanted
  PROVE  Spec => CopyIsDurable
<1> DEFINE held == IF Complete(disk) THEN "copy" ELSE "other"
           needs == plan = "delta"
<1>1. Init => Promise!Init
  BY DEF Init, Promise!Init
<1>2. IInv /\ [Next]_copierVars => [Promise!Next]_<<held, needs, report>>
  <2> SUFFICES ASSUME IInv, [Next]_copierVars
               PROVE  Promise!Next \/ UNCHANGED <<held, needs, report>>
    OBVIOUS
  <2>0. Threads /\ Copying /\ TypeOK
    BY DEF IInv
  <2>1. CASE PerformWithoutCopy
    <3>1. report = "none" /\ ~needs
      BY <2>0, <2>1 DEF Threads, PerformWithoutCopy, MainRuns
    <3>2. report' \in {"success", "failure"} /\ UNCHANGED <<held, needs>>
      BY <2>1 DEF PerformWithoutCopy, Report
    <3> QED
      BY <3>1, <3>2 DEF Promise!Next, Promise!Succeed, Promise!Fail
  <2>2. ASSUME NEW m \in BOOLEAN, NEW u \in BOOLEAN, Perform(m, u)
        PROVE  Promise!Next \/ UNCHANGED <<held, needs, report>>
    <3>1. report = "none" /\ UNCHANGED <<held, needs>>
      BY <2>0, <2>2 DEF Threads, Perform, MainRuns
    <3>2. CASE ~ProbeUnmounted(m, u)
      BY <2>2, <3>1, <3>2 DEF Perform, Report, Promise!Next, Promise!Fail
    <3>3. CASE ProbeUnmounted(m, u) /\ FoundMarker(m)
      <4>1. held = "copy"
        BY <2>0, <3>3 DEF Copying, MarkerMeansComplete, FoundMarker
      <4> QED
        BY <2>2, <3>1, <3>3, <4>1 DEF Perform, Report, Promise!Next, Promise!Succeed
    <3>4. CASE ProbeUnmounted(m, u) /\ ~FoundMarker(m)
      BY <2>2, <3>1, <3>4 DEF Perform
    <3> QED
      BY <3>2, <3>3, <3>4
  <2>3. CASE Collected
    <3>1. /\ report = "none" /\ needs /\ UNCHANGED <<held, needs>>
          /\ success => held = "copy"
      BY <2>0, <2>3 DEF Threads, Copying, Collected, MainRuns, HelperGone
    <3>2. report' = report \/ report' = IF success THEN "success" ELSE "failure"
      BY <2>3 DEF Collected, Report
    <3> QED
      BY <3>1, <3>2 DEF Promise!Next, Promise!Succeed, Promise!Fail
  <2>4. CASE StopProcessing \/ CollectThread \/ WriteBack
    BY <2>4 DEF StopProcessing, CollectThread, WriteBack, mainVars
  <2>5. CASE HelperNext
    <3>1. helper \notin {"none", "exited"}
      BY <2>5 DEF HelperNext, HelperRuns, FormatBegins, FormatEnds, FormatFails, MountNew,
                  PlaceMarker, UnmountNew, CopyFileBegins, CopyEntry, CopyFileEnds,
                  CopyFileAborts, CopyError, CopyEnds, Finish, HelperExits
    <3>2. report = "none" /\ needs
      BY <2>0, <3>1 DEF Threads
    <3>3. UNCHANGED <<plan, report>>
      BY <2>5 DEF HelperNext, FormatBegins, FormatEnds, FormatFails, MountNew,
                  PlaceMarker, UnmountNew, CopyFileBegins, CopyEntry, CopyFileEnds,
                  CopyFileAborts, CopyError, CopyEnds, Finish, HelperExits, mainVars
    <3> QED
      BY <3>2, <3>3 DEF Promise!Next, Promise!Work
  <2>6. CASE Restart
    <3>1. report' = "none"
      BY <2>6 DEF Restart, FreshAction
    <3>2. report = "success" /\ needs => held' = held
      BY <2>0, <2>6 DEF Copying, SuccessMeansCopied, Restart
    <3> QED
      BY <3>1, <3>2 DEF Promise!Next, Promise!Restart
  <2>7. CASE UNCHANGED copierVars
    BY <2>7 DEF copierVars, mainVars
  <2> QED
    BY <2>1, <2>2, <2>3, <2>4, <2>5, <2>6, <2>7 DEF Next, MainNext
<1> QED
  BY <1>1, <1>2, CopierInvariant, PTL DEF Spec, CopyIsDurable, Promise!Spec

=============================================================================
