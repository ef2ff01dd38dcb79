---------------------- MODULE FilesystemIterator_proofs ----------------------
(***************************************************************************)
(* Proofs about module FilesystemIterator, for every tree: the iterator    *)
(* never loses its place (its CHECKs hold, nothing excluded or below a     *)
(* mount point is shown), and it implements TreeWalk.  Both need that no   *)
(* directory that is excluded fails to be read: Increment() would call     *)
(* itself with that directory still open, and CHECK_EQ() would fail.       *)
(***************************************************************************)
EXTENDS FilesystemIterator, SequenceTheorems, TLAPS

\* An entry is the position of the walk, and the next step is Increment().
AtEntry == pc = "increment" \/ (pc = "shown" /\ ~isEnd)
Walking == AtEntry \/ pc = "next"

\* Where directory i of the stack is on the path.
Place(i) == IF i = 1 THEN Root ELSE names[i - 1]

\* The open directories are those of the path.
OnPath ==
  /\ AtEntry => Len(dirs) = Len(names)
  /\ pc = "next" => Len(dirs) = Len(names) + 1
  /\ Walking => \A i \in 1..Len(dirs) : dirs[i].dir = Place(i)

\* Only directories that were shown, or passed over as excluded, are opened, once; what is left
\* of them lies in them and was not shown.
Listed(d) ==
  /\ d.dir \notin Foreign /\ d.dir \in shown \cup Excluded \cup {Root}
  /\ \A e \in d.left \ {Dots} : Parent[e] = d.dir
  /\ d.left \cap shown = {}
Opened ==
  /\ \A i \in 1..Len(dirs) : Listed(dirs[i])
  /\ \A i, j \in 1..Len(dirs) : i # j /\ dirs[i].dir = dirs[j].dir => dirs[i].dir \in Excluded

\* The position, if it still exists: stbuf_ is about it, and nothing below it was shown.
Position(c) ==
  /\ isDir = Descendable(c)
  /\ c \in shown \cup Excluded \cup {Root}
  /\ \A f \in shown : Parent[f] # c
  /\ c \notin Excluded => \A i \in 1..Len(dirs) : dirs[i].dir # c
Positioned == AtEntry /\ Current(names) \in present \cup {Root} => Position(Current(names))

ShownOnce ==
  /\ shown \subseteq Wanted
  /\ \A f \in shown : Parent[f] \in shown \cup {Root}

\* Nobody removes a directory that is not empty.
Closed == \A e \in present : Parent[e] \in present \cup {Root}

Ends == (isErr => isEnd) /\ (isEnd /\ ~isErr => pc = "shown")

\* What is still to be shown is left in an open directory, or lies in the position.
Ahead(e) ==
  \/ \E i \in 1..Len(dirs) : e \in dirs[i].left
  \/ AtEntry /\ ~isEnd /\ Current(names) = Parent[e]
NothingForgotten == ~isErr => \A e \in NextEntries(shown) \cap present : Ahead(e)

IInv ==
  /\ TypeOK /\ pc # "aborted" /\ OnPath /\ Opened /\ Positioned /\ ShownOnce /\ Closed /\ Ends
  /\ NothingForgotten
-----------------------------------------------------------------------------
(* Stacks.                                                                 *)

\* A stack without its last element.
LEMMA FrontIs ==
  ASSUME NEW S, NEW s \in Seq(S), Len(s) # 0
  PROVE  /\ Front(s) \in Seq(S) /\ Len(Front(s)) = Len(s) - 1
         /\ \A i \in 1..(Len(s) - 1) : Front(s)[i] = s[i]
         /\ Last(s) \in S
<1>1. Len(s) \in Nat /\ \A i \in 1..Len(s) : s[i] \in S
  BY LenProperties, ElementOfSeq
<1>2. /\ 1 \in Int /\ Len(s) - 1 \in Int /\ Len(s) \in 1..Len(s)
      /\ \A i \in 1..(Len(s) - 1) : i \in 1..Len(s)
  BY <1>1
<1>3. \A i \in 1..(Len(s) - 1) : s[i] \in S
  BY <1>1, <1>2
<1>4. /\ Front(s) \in Seq(S)
      /\ Len(Front(s)) = IF 1 <= Len(s) - 1 THEN Len(s) - 1 - 1 + 1 ELSE 0
      /\ \A i \in 1..(Len(s) - 1 - 1 + 1) : Front(s)[i] = s[1 + i - 1]
  BY <1>2, <1>3, SubSeqProperties DEF Front
<1>5. /\ (IF 1 <= Len(s) - 1 THEN Len(s) - 1 - 1 + 1 ELSE 0) = Len(s) - 1
      /\ Len(s) - 1 - 1 + 1 = Len(s) - 1
      /\ \A i \in 1..(Len(s) - 1) : 1 + i - 1 = i
  <2>1. \A k \in Nat : k # 0 => /\ (IF 1 <= k - 1 THEN k - 1 - 1 + 1 ELSE 0) = k - 1
                               /\ k - 1 - 1 + 1 = k - 1
    OBVIOUS
  <2>2. \A i \in 1..(Len(s) - 1) : 1 + i - 1 = i
    OBVIOUS
  <2> QED
    BY <1>1, <2>1, <2>2, Zenon
<1>6. \A i \in 1..(Len(s) - 1) : Front(s)[i] = s[i]
  BY <1>4, <1>5
<1>7. Last(s) \in S
  BY <1>1, <1>2 DEF Last
<1> QED
  BY <1>4, <1>5, <1>6, <1>7

\* A stack with another last element.
LEMMA ReplaceLast ==
  ASSUME NEW S, NEW s \in Seq(S), Len(s) # 0, NEW x \in S
  PROVE  LET t == Append(Front(s), x)
         IN  /\ t \in Seq(S) /\ Len(t) = Len(s) /\ t[Len(s)] = x
             /\ \A i \in 1..Len(s) : i # Len(s) => t[i] = s[i]
<1> DEFINE f == Front(s)
           t == Append(f, x)
<1>1. /\ f \in Seq(S) /\ Len(f) = Len(s) - 1 /\ \A i \in 1..(Len(s) - 1) : f[i] = s[i]
  BY FrontIs
<1>2. Len(s) \in Nat
  BY LenProperties
<1> HIDE DEF f
<1>3. /\ t \in Seq(S) /\ Len(t) = Len(f) + 1 /\ t[Len(f) + 1] = x
      /\ \A i \in 1..Len(f) : t[i] = f[i]
  BY <1>1, AppendProperties
<1> HIDE DEF t
<1>4. Len(f) + 1 = Len(s) /\ \A i \in 1..Len(s) : i # Len(s) => i \in 1..Len(f)
  BY <1>1, <1>2
<1> QED
  BY <1>1, <1>3, <1>4 DEF t, f

\* A stack with one more element.
LEMMA AppendIs ==
  ASSUME NEW S, NEW s \in Seq(S), NEW x \in S
  PROVE  /\ Append(s, x) \in Seq(S) /\ Len(Append(s, x)) = Len(s) + 1
         /\ Append(s, x)[Len(s) + 1] = x
         /\ \A i \in 1..Len(s) : Append(s, x)[i] = s[i]
         /\ Append(s, x) # <<>> /\ Last(Append(s, x)) = x
BY AppendProperties, LenProperties DEF Last

\* What the type of the state says of each part.
OpenDirs == [dir : Dirs \cup {Root}, left : SUBSET (Entries \cup {Dots})]

\* The types of the two stacks, and what the last name is.
LEMMA CurrentIs ==
  ASSUME TypeOK
  PROVE  /\ Len(names) \in Nat /\ Len(dirs) \in Nat
         /\ \A i \in 1..Len(dirs) : dirs[i] \in OpenDirs
         /\ \A i \in 1..Len(names) : names[i] \in Entries \cup {Dots}
         /\ Len(names) = 0 => Current(names) = Root
         /\ Len(names) # 0 => Current(names) = names[Len(names)] /\ Current(names) # Root
<1>1. names \in Seq(Entries \cup {Dots}) /\ dirs \in Seq(OpenDirs)
  BY DEF TypeOK, OpenDirs
<1>2. Len(names) = 0 <=> names = <<>>
  BY <1>1, EmptySeq
<1>3. \A i \in 1..Len(names) : names[i] \in Entries \cup {Dots}
  BY <1>1, ElementOfSeq
<1>4. Len(names) \in Nat /\ Len(dirs) \in Nat
  BY <1>1, LenProperties
<1>5. Len(names) # 0 => Len(names) \in 1..Len(names)
  BY <1>4
<1>6. \A i \in 1..Len(dirs) : dirs[i] \in OpenDirs
  BY <1>1, ElementOfSeq
<1> QED
  BY <1>2, <1>3, <1>4, <1>5, <1>6, TreeAssumption, IteratorAssumption DEF Current, Last

\* A new iterator stands on the root, which is not shown yet.
LEMMA InitInv == Init => IInv
<1> SUFFICES ASSUME Init PROVE IInv
  OBVIOUS
<1>1. Len(dirs) = 0 /\ Len(names) = 0 /\ dirs \in Seq(OpenDirs) /\ names \in Seq(Entries \cup {Dots})
  BY EmptySeq DEF Init
<1>2. TypeOK
  BY <1>1, TreeAssumption DEF Init, TypeOK, OpenDirs
<1>3. Current(names) = Root /\ Descendable(Root) /\ Root \notin Excluded
  BY TreeAssumption DEF Init, Current, Descendable
<1>4. 1..0 = {}
  OBVIOUS
<1>5. OnPath /\ Opened
  BY <1>1, <1>4 DEF Init, OnPath, Opened, AtEntry, Walking
<1>6. Positioned
  BY <1>1, <1>3, <1>4 DEF Init, Positioned, Position
<1>7. ShownOnce /\ Ends
  BY DEF Init, ShownOnce, Ends
<1>8. Closed
  BY TreeAssumption DEF Init, Closed
<1>9. NothingForgotten
  <2> SUFFICES ASSUME ~isErr, NEW e \in NextEntries(shown) \cap present PROVE Ahead(e)
    BY DEF NothingForgotten
  <2>1. Parent[e] = Root
    BY DEF Init, NextEntries
  <2> QED
    BY <1>3, <2>1 DEF Init, Ahead, AtEntry
<1> QED
  BY <1>2, <1>5, <1>6, <1>7, <1>8, <1>9 DEF IInv, Init

-----------------------------------------------------------------------------
(* The steps.                                                              *)

\* readdir() takes one name from the directory at the end of the path.
LEMMA ReadTakes ==
  ASSUME IInv, pc = "next", NEW x,
         dirs' = Append(Front(dirs), [Last(dirs) EXCEPT !.left = @ \ {x}])
  PROVE  /\ Len(dirs) \in 1..Len(dirs) /\ Last(dirs) = dirs[Len(dirs)]
         /\ Last(dirs).dir = Current(names)
         /\ dirs' \in Seq(OpenDirs) /\ Len(dirs') = Len(dirs)
         /\ \A i \in 1..Len(dirs) :
              /\ dirs'[i].dir = dirs[i].dir
              /\ dirs'[i].left \subseteq dirs[i].left
              /\ dirs[i].left \ {x} \subseteq dirs'[i].left
         /\ x \notin dirs'[Len(dirs)].left
<1> DEFINE y == [Last(dirs) EXCEPT !.left = @ \ {x}]
<1>1. /\ TypeOK /\ dirs \in Seq(OpenDirs) /\ Len(dirs) = Len(names) + 1
      /\ \A i \in 1..Len(dirs) : dirs[i].dir = Place(i)
  BY DEF IInv, TypeOK, OpenDirs, OnPath, Walking
<1>2. /\ Len(dirs) \in Nat /\ Len(dirs) # 0 /\ Len(dirs) \in 1..Len(dirs)
      /\ Last(dirs) = dirs[Len(dirs)] /\ Last(dirs) \in OpenDirs
  BY <1>1, CurrentIs DEF Last
<1>3. y \in OpenDirs /\ y.dir = Last(dirs).dir /\ y.left = Last(dirs).left \ {x}
  BY <1>2 DEF OpenDirs
<1> HIDE DEF y
<1>4. /\ dirs' \in Seq(OpenDirs) /\ Len(dirs') = Len(dirs) /\ dirs'[Len(dirs)] = y
      /\ \A i \in 1..Len(dirs) : i # Len(dirs) => dirs'[i] = dirs[i]
  BY <1>1, <1>2, <1>3, ReplaceLast DEF y
<1>5. Place(Len(dirs)) = Current(names)
  <2>1. Len(names) = 0 => Len(dirs) = 1
    BY <1>1
  <2>2. Len(names) # 0 => Len(dirs) # 1 /\ Len(dirs) - 1 = Len(names)
    BY <1>1, CurrentIs
  <2> QED
    BY <1>1, <2>1, <2>2, CurrentIs DEF Place
<1> QED
  BY <1>1, <1>2, <1>3, <1>4, <1>5

\* A name is pushed on the path.
LEMMA PathGrows ==
  ASSUME IInv, pc = "next", NEW x \in Entries \cup {Dots}, names' = Append(names, x)
  PROVE  /\ names' \in Seq(Entries \cup {Dots}) /\ Len(names') = Len(dirs)
         /\ Current(names') = x
         /\ \A i \in 1..Len(dirs) : dirs[i].dir = IF i = 1 THEN Root ELSE names'[i - 1]
<1>1. /\ TypeOK /\ names \in Seq(Entries \cup {Dots}) /\ Len(dirs) = Len(names) + 1
      /\ \A i \in 1..Len(dirs) : dirs[i].dir = Place(i)
  BY DEF IInv, TypeOK, OnPath, Walking
<1>2. /\ names' \in Seq(Entries \cup {Dots}) /\ Len(names') = Len(names) + 1
      /\ names' # <<>> /\ Last(names') = x
      /\ \A i \in 1..Len(names) : names'[i] = names[i]
  BY <1>1, AppendIs
<1>3. \A i \in 1..Len(dirs) : i # 1 => i - 1 \in 1..Len(names)
  BY <1>1, CurrentIs
<1> QED
  BY <1>1, <1>2, <1>3 DEF Place, Current

\* The last name is taken from the path.
LEMMA PathShrinks ==
  ASSUME TypeOK, Len(names) # 0, names' = Front(names)
  PROVE  /\ names' \in Seq(Entries \cup {Dots}) /\ Len(names') = Len(names) - 1
         /\ \A i \in 1..Len(names) : Place(i) = IF i = 1 THEN Root ELSE names'[i - 1]
<1>1. /\ names' \in Seq(Entries \cup {Dots}) /\ Len(names') = Len(names) - 1
      /\ \A i \in 1..(Len(names) - 1) : names'[i] = names[i]
  BY FrontIs DEF TypeOK
<1>2. \A i \in 1..Len(names) : i # 1 => i - 1 \in 1..(Len(names) - 1)
  BY CurrentIs
<1> QED
  BY <1>1, <1>2 DEF Place

\* What is left of the open directories stays in order when nothing is shown.
LEMMA ReadKeepsOpened ==
  ASSUME IInv, pc = "next", NEW x, UNCHANGED shown,
         dirs' = Append(Front(dirs), [Last(dirs) EXCEPT !.left = @ \ {x}])
  PROVE  Opened'
<1>1. /\ Len(dirs') = Len(dirs)
      /\ \A i \in 1..Len(dirs) : dirs'[i].dir = dirs[i].dir /\ dirs'[i].left \subseteq dirs[i].left
  BY ReadTakes
<1>2. Opened
  BY DEF IInv
<1>3. \A i \in 1..Len(dirs) : Listed(dirs[i])'
  <2> SUFFICES ASSUME NEW i \in 1..Len(dirs) PROVE Listed(dirs[i])'
    OBVIOUS
  <2>1. /\ dirs'[i].dir = dirs[i].dir /\ dirs'[i].left \subseteq dirs[i].left
        /\ Listed(dirs[i])
    BY <1>1, <1>2 DEF Opened
  <2> QED
    BY <2>1 DEF Listed
<1> QED
  BY <1>1, <1>2, <1>3 DEF Opened

\* The caller goes on to the next entry.
LEMMA CallIncrementInv ==
  ASSUME IInv, CallIncrement
  PROVE  IInv'
<1>1. TypeOK'
  BY DEF IInv, TypeOK, CallIncrement
<1>2. AtEntry /\ AtEntry' /\ ~isErr
  BY DEF IInv, CallIncrement, AtEntry, Ends
<1>3. OnPath'
  BY <1>2 DEF IInv, CallIncrement, OnPath, Walking, Place
<1>4. Opened' /\ ShownOnce' /\ Closed'
  BY DEF IInv, CallIncrement, Opened, Listed, ShownOnce, Closed
<1>5. Positioned'
  BY <1>2 DEF IInv, CallIncrement, Positioned, Position, Current, Last
<1>6. Ends'
  BY <1>2 DEF IInv, CallIncrement, Ends
<1>7. NothingForgotten'
  BY <1>2 DEF IInv, CallIncrement, NothingForgotten, Ahead, Current, Last
<1> QED
  BY <1>1, <1>3, <1>4, <1>5, <1>6, <1>7 DEF IInv, CallIncrement

\* IncrementInternal() opens the directory that was shown last, or cannot.
LEMMA DescendInv ==
  ASSUME IInv, Descend
  PROVE  IInv'
<1> DEFINE c == Current(names)
           d == [dir |-> c, left |-> Children(c) \cup {Dots}]
<1>1. /\ TypeOK /\ dirs \in Seq(OpenDirs) /\ Len(dirs) \in Nat /\ Len(dirs) = Len(names)
      /\ \A i \in 1..Len(dirs) : dirs[i].dir = Place(i)
      /\ Position(c) /\ AtEntry /\ ~isErr = ~isEnd
  <2>1. AtEntry /\ Walking
    BY DEF Descend, AtEntry, Walking
  <2> QED
    BY <2>1, CurrentIs DEF IInv, TypeOK, OpenDirs, OnPath, Positioned, Descend, Ends
<1>0. PICK n \in Nat : n = Len(dirs) + 1
  BY <1>1
<1>2. c \in Dirs \cup {Root} /\ c \notin Foreign
  BY <1>1 DEF Position, Descend, Descendable
<1>3. d \in OpenDirs /\ d.dir = c /\ d.left = Children(c) \cup {Dots}
  <2> HIDE DEF c
  <2>1. Children(c) \cup {Dots} \subseteq Entries \cup {Dots}
    BY <1>1 DEF Children, TypeOK
  <2> QED
    BY <1>2, <2>1 DEF OpenDirs
<1> HIDE DEF d
<1>4. /\ dirs' \in Seq(OpenDirs) /\ Len(dirs') = n /\ dirs'[n] = d
      /\ \A i \in 1..Len(dirs) : dirs'[i] = dirs[i]
  <2>1. dirs' = Append(dirs, d)
    BY DEF Descend, d
  <2> QED
    BY <1>0, <1>1, <1>3, <2>1, AppendIs
<1>5. /\ n \in Nat /\ n \in 1..n /\ \A i \in 1..n : i = n \/ i \in 1..Len(dirs)
      /\ \A i \in 1..Len(dirs) : i \in 1..n /\ i # n
  BY <1>0, <1>1
<1>6. pc' = "next"
  BY <1>0, <1>1, <1>4 DEF Descend, IncrementInternal
<1>7. TypeOK'
  BY <1>1, <1>4, <1>6 DEF TypeOK, OpenDirs, Descend
<1>8. Place(n) = c
  <2>1. Len(names) # 0 => n # 1 /\ n - 1 = Len(names)
    BY <1>0, <1>1
  <2>2. Len(names) = 0 => n = 1
    BY <1>0, <1>1
  <2> QED
    BY <1>1, <2>1, <2>2, CurrentIs DEF Place
<1> HIDE DEF c
<1>9. OnPath'
  <2>1. \A i \in 1..n : dirs'[i].dir = Place(i)
    BY <1>1, <1>3, <1>4, <1>5, <1>8
  <2>2. \A i \in 1..n : Place(i)' = Place(i)
    BY DEF Place, Descend
  <2>3. ~AtEntry' /\ n = Len(names) + 1 /\ names' = names
    BY <1>0, <1>1, <1>6 DEF AtEntry, Descend
  <2> QED
    BY <1>4, <2>1, <2>2, <2>3 DEF OnPath
<1>10. Opened'
  <2>1. \A i \in 1..Len(dirs) : Listed(dirs[i])'
    BY <1>4 DEF IInv, Opened, Listed, Descend
  <2>2. Listed(dirs[n])'
    <3>1. c \in shown \cup Excluded \cup {Root} /\ \A f \in shown : Parent[f] # c
      BY <1>1 DEF Position
    <3>2. \A e \in Children(c) : Parent[e] = c
      BY DEF Children
    <3>3. Dots \notin shown
      BY <1>1, IteratorAssumption DEF TypeOK
    <3> QED
      BY <1>2, <1>3, <1>4, <3>1, <3>2, <3>3 DEF Listed, Descend
  <2>3. \A i \in 1..Len(dirs) : dirs[i].dir = c => c \in Excluded
    BY <1>1 DEF Position
  <2>4. \A i \in 1..n : Listed(dirs[i])'
    BY <1>5, <2>1, <2>2
  <2>5. \A i, j \in 1..n : i # j /\ dirs'[i].dir = dirs'[j].dir => dirs'[i].dir \in Excluded
    BY <1>3, <1>4, <1>5, <2>3 DEF IInv, Opened
  <2> QED
    BY <1>4, <2>4, <2>5 DEF Opened
<1>11. Positioned' /\ Ends' /\ ShownOnce' /\ Closed'
  BY <1>1, <1>6 DEF Positioned, AtEntry, IInv, Ends, ShownOnce, Closed, Descend
<1>12. NothingForgotten'
  <2> SUFFICES ASSUME ~isErr, NEW e \in NextEntries(shown) \cap present
               PROVE  Ahead(e)'
    BY DEF NothingForgotten, Descend
  <2>1. Ahead(e)
    BY DEF IInv, NothingForgotten
  <2>2. CASE \E i \in 1..Len(dirs) : e \in dirs[i].left
    BY <1>4, <1>5, <2>2 DEF Ahead
  <2>3. CASE c = Parent[e]
    <3>1. e \in d.left
      BY <1>3, <2>3 DEF Children
    <3> QED
      BY <1>4, <1>5, <3>1 DEF Ahead
  <2> QED
    BY <2>1, <2>2, <2>3 DEF Ahead, c
<1> QED
  BY <1>6, <1>7, <1>9, <1>10, <1>11, <1>12 DEF IInv

\* The last name is dropped: it was no directory, or nothing below it was left.
LEMMA PassInv ==
  ASSUME IInv, Pass
  PROVE  IInv'
<1>1. /\ TypeOK /\ Len(dirs) \in Nat /\ Len(dirs) = Len(names) /\ AtEntry /\ ~isErr = ~isEnd
      /\ \A i \in 1..Len(dirs) : dirs[i].dir = Place(i)
  BY CurrentIs DEF IInv, OnPath, Pass, AtEntry, Walking, Ends, TypeOK
<1>2. Current(names) \in present \cup {Root} => ~Descendable(Current(names))
  BY <1>1 DEF IInv, Positioned, Position, Pass
<1>3. Len(names) # 0
  BY <1>1, <1>2, CurrentIs, TreeAssumption DEF Descendable
<1>4. /\ names' \in Seq(Entries \cup {Dots}) /\ Len(names') = Len(names) - 1
      /\ \A i \in 1..Len(names) : Place(i) = IF i = 1 THEN Root ELSE names'[i - 1]
  BY <1>1, <1>3, PathShrinks DEF Pass
<1>5. Len(dirs) = Len(names') + 1 /\ pc' = "next"
  BY <1>1, <1>4 DEF Pass, IncrementInternal
<1>6. TypeOK'
  BY <1>1, <1>4, <1>5 DEF TypeOK, Pass
<1>7. OnPath'
  BY <1>1, <1>4, <1>5 DEF OnPath, AtEntry, Place, Pass
<1>8. Opened' /\ Positioned' /\ ShownOnce' /\ Closed' /\ Ends'
  BY <1>1, <1>5 DEF IInv, Opened, Listed, Positioned, AtEntry, ShownOnce, Closed, Ends, Pass
<1>9. NothingForgotten'
  <2> SUFFICES ASSUME ~isErr, NEW e \in NextEntries(shown) \cap present
               PROVE  Ahead(e)'
    BY DEF NothingForgotten, Pass
  <2>1. Ahead(e)
    BY DEF IInv, NothingForgotten
  <2>2. Current(names) # Parent[e]
    <3>1. e \in Entries /\ Parent[e] \notin Foreign /\ Parent[e] \in Dirs \cup {Root}
      BY TreeAssumption DEF NextEntries, Wanted
    <3>2. Parent[e] \in present \cup {Root}
      BY DEF IInv, Closed
    <3> QED
      BY <1>2, <3>1, <3>2 DEF Descendable
  <2> QED
    BY <2>1, <2>2 DEF Ahead, Pass
<1> QED
  BY <1>5, <1>6, <1>7, <1>8, <1>9 DEF IInv

\* A name that is gone, or "." or "..", is passed over.
LEMMA SkipInv ==
  ASSUME IInv, (\E e \in Entries : ReadSkips(e)) \/ ReadDots
  PROVE  IInv'
<1>1. PICK x : /\ dirs' = Append(Front(dirs), [Last(dirs) EXCEPT !.left = @ \ {x}])
               /\ x \notin present
  <2>1. CASE ReadDots
    BY <2>1, IteratorAssumption DEF ReadDots, IInv, TypeOK
  <2>2. CASE \E e \in Entries : ReadSkips(e)
    <3>1. PICK e \in Entries : ReadSkips(e)
      BY <2>2
    <3> QED
      BY <3>1 DEF ReadSkips
  <2> QED
    BY <2>1, <2>2
<1>2. /\ pc = "next" /\ pc' = "next" /\ isDir' \in BOOLEAN
      /\ UNCHANGED <<names, isEnd, isErr, present, shown>>
  <2>1. isDir \in BOOLEAN
    BY DEF IInv, TypeOK
  <2>2. CASE ReadDots
    BY <2>2 DEF ReadDots, Descendable
  <2>3. CASE \E e \in Entries : ReadSkips(e)
    BY <2>1, <2>3 DEF ReadSkips
  <2> QED
    BY <2>2, <2>3
<1>3. /\ dirs' \in Seq(OpenDirs) /\ Len(dirs') = Len(dirs)
      /\ \A i \in 1..Len(dirs) : /\ dirs'[i].dir = dirs[i].dir
                                 /\ dirs[i].left \ {x} \subseteq dirs'[i].left
  BY <1>1, <1>2, ReadTakes
<1>4. TypeOK'
  BY <1>2, <1>3 DEF IInv, TypeOK, OpenDirs
<1>5. OnPath'
  BY <1>2, <1>3 DEF IInv, OnPath, AtEntry, Walking, Place
<1>6. Opened'
  BY <1>1, <1>2, ReadKeepsOpened
<1>7. Positioned' /\ ShownOnce' /\ Closed' /\ Ends'
  BY <1>2 DEF IInv, Positioned, AtEntry, ShownOnce, Closed, Ends
<1>8. NothingForgotten'
  <2> SUFFICES ASSUME ~isErr, NEW e \in NextEntries(shown) \cap present
               PROVE  Ahead(e)'
    BY <1>2 DEF NothingForgotten
  <2>1. PICK i \in 1..Len(dirs) : e \in dirs[i].left
    BY <1>2 DEF IInv, NothingForgotten, Ahead, AtEntry
  <2>2. e \in dirs'[i].left
    BY <1>1, <1>3, <2>1
  <2> QED
    BY <1>3, <2>2 DEF Ahead
<1> QED
  BY <1>2, <1>4, <1>5, <1>6, <1>7, <1>8 DEF IInv

\* What readdir() finds was not shown before, and lies in a directory that was.
LEMMA EntryIsNew ==
  ASSUME IInv, NEW e \in Entries, ReadEntry(e)
  PROVE  /\ e \notin shown /\ e # Root /\ e # Dots
         /\ Parent[e] = Last(dirs).dir /\ Parent[e] \notin Foreign
         /\ \A i \in 1..Len(dirs) : dirs[i].dir = e => e \in Excluded
         /\ e \notin Excluded =>
              /\ e \in Wanted /\ Parent[e] \in shown \cup {Root} /\ Parent[e] # e
              /\ \A i \in 1..Len(dirs) : i # Len(dirs) => e \notin dirs[i].left
<1>1. /\ Len(dirs) \in 1..Len(dirs) /\ Last(dirs) = dirs[Len(dirs)] /\ e \in Last(dirs).left
  BY ReadTakes DEF ReadEntry
<1>2. e # Root /\ e # Dots
  BY TreeAssumption, IteratorAssumption
<1>3. \A i \in 1..Len(dirs) : Listed(dirs[i])
  BY DEF IInv, Opened
<1>4. /\ Parent[e] = Last(dirs).dir /\ Parent[e] \notin Foreign /\ e \notin shown
      /\ Parent[e] \in shown \cup Excluded \cup {Root}
  BY <1>1, <1>2, <1>3 DEF Listed
<1>5. \A i \in 1..Len(dirs) : dirs[i].dir = e => e \in Excluded
  BY <1>2, <1>3, <1>4 DEF Listed
<1>6. e \notin Excluded => e \in Wanted /\ Parent[e] \in shown \cup {Root} /\ Parent[e] # e
  BY <1>2, <1>4, TreeAssumption DEF Wanted
<1>7. ASSUME e \notin Excluded, NEW i \in 1..Len(dirs), i # Len(dirs), e \in dirs[i].left
      PROVE  FALSE
  <2>1. dirs[i].dir = Last(dirs).dir
    BY <1>2, <1>3, <1>4, <1>7 DEF Listed
  <2>2. Last(dirs).dir \in Excluded
    BY <1>1, <1>7, <2>1 DEF IInv, Opened
  <2> QED
    BY <1>4, <1>7, <2>2, TreeAssumption
<1> QED
  BY <1>2, <1>4, <1>5, <1>6, <1>7

\* readdir_r() finds an entry that was not read before; it is shown, or Increment() goes on.
LEMMA ReadEntryInv ==
  ASSUME IInv, NEW e \in Entries, ReadEntry(e)
  PROVE  IInv'
<1>1. /\ pc = "next" /\ e \in present /\ UNCHANGED <<isEnd, isErr, present>>
      /\ isDir' = Descendable(e) /\ isDir' \in BOOLEAN
      /\ dirs' = Append(Front(dirs), [Last(dirs) EXCEPT !.left = @ \ {e}])
      /\ names' = Append(names, e)
  BY DEF ReadEntry, Descendable
<1>2. /\ Len(dirs) \in 1..Len(dirs)
      /\ dirs' \in Seq(OpenDirs) /\ Len(dirs') = Len(dirs)
      /\ \A i \in 1..Len(dirs) : /\ dirs'[i].dir = dirs[i].dir
                                 /\ dirs'[i].left \subseteq dirs[i].left
                                 /\ dirs[i].left \ {e} \subseteq dirs'[i].left
      /\ e \notin dirs'[Len(dirs)].left
  BY <1>1, ReadTakes
<1>3. /\ names' \in Seq(Entries \cup {Dots}) /\ Len(names') = Len(dirs)
      /\ Current(names') = e
      /\ \A i \in 1..Len(dirs) : dirs[i].dir = IF i = 1 THEN Root ELSE names'[i - 1]
  BY <1>1, PathGrows
<1>4. \/ e \in Excluded /\ pc' = "increment" /\ shown' = shown
      \/ e \notin Excluded /\ pc' = "shown" /\ isEnd /\ shown' = shown
      \/ e \notin Excluded /\ pc' = "shown" /\ ~isEnd /\ shown' = shown \cup {e}
  BY DEF ReadEntry, AfterPosition
<1>5. /\ e \notin shown /\ e # Root /\ Parent[e] \notin Foreign
      /\ \A i \in 1..Len(dirs) : dirs[i].dir = e => e \in Excluded
      /\ e \notin Excluded =>
           /\ e \in Wanted /\ Parent[e] \in shown \cup {Root} /\ Parent[e] # e
           /\ \A i \in 1..Len(dirs) : i # Len(dirs) => e \notin dirs[i].left
  BY EntryIsNew
<1>6. /\ TypeOK /\ OnPath /\ Opened /\ ShownOnce /\ Closed /\ Ends /\ NothingForgotten
      /\ shown \subseteq Entries
  BY DEF IInv, TypeOK
<1>7. TypeOK'
  <2>1. pc' \in {"shown", "increment", "next", "aborted"} /\ shown' \subseteq Entries
    BY <1>4, <1>6
  <2> QED
    BY <1>1, <1>2, <1>3, <1>6, <2>1 DEF TypeOK, OpenDirs
<1>8. OnPath'
  <2>1. pc' # "next" /\ Len(dirs') = Len(names')
    BY <1>2, <1>3, <1>4
  <2>2. \A i \in 1..Len(dirs') : dirs'[i].dir = Place(i)'
    BY <1>2, <1>3 DEF Place
  <2> QED
    BY <2>1, <2>2 DEF OnPath
<1>9. Opened'
  <2>1. \A i \in 1..Len(dirs) : Listed(dirs[i])'
    <3> SUFFICES ASSUME NEW i \in 1..Len(dirs) PROVE Listed(dirs[i])'
      OBVIOUS
    <3>1. Listed(dirs[i])
      BY <1>6 DEF Opened
    <3>2. e \in shown' => e \notin dirs'[i].left
      BY <1>2, <1>4, <1>5
    <3>3. shown' \subseteq shown \cup {e} /\ shown \subseteq shown'
      BY <1>4
    <3>4. dirs'[i].dir = dirs[i].dir /\ dirs'[i].left \subseteq dirs[i].left
      BY <1>2
    <3> QED
      BY <3>1, <3>2, <3>3, <3>4 DEF Listed
  <2>2. \A i, j \in 1..Len(dirs) : i # j /\ dirs'[i].dir = dirs'[j].dir => dirs'[i].dir \in Excluded
    BY <1>2, <1>6 DEF Opened
  <2> QED
    BY <1>2, <2>1, <2>2 DEF Opened
<1>10. Positioned'
  <2> SUFFICES ASSUME AtEntry' PROVE Position(Current(names))'
    BY DEF Positioned
  <2>1. e \in Excluded \/ shown' = shown \cup {e}
    BY <1>1, <1>4 DEF AtEntry
  <2>2. \A f \in shown' : Parent[f] # e
    <3>1. \A f \in shown : Parent[f] # e
      BY <1>5, <1>6 DEF ShownOnce
    <3> QED
      BY <1>4, <1>5, <3>1
  <2>3. e \notin Excluded => \A i \in 1..Len(dirs') : dirs'[i].dir # e
    BY <1>2, <1>5
  <2> QED
    BY <1>1, <1>3, <2>1, <2>2, <2>3 DEF Position
<1>11. ShownOnce'
  BY <1>4, <1>5, <1>6 DEF ShownOnce
<1>12. Closed' /\ Ends'
  BY <1>1, <1>4, <1>6 DEF Closed, Ends
<1>13. NothingForgotten'
  <2> SUFFICES ASSUME ~isErr, NEW x \in NextEntries(shown') \cap present
               PROVE  Ahead(x)'
    BY <1>1 DEF NothingForgotten
  <2>1. ~isEnd /\ ~isEnd'
    BY <1>1, <1>6 DEF Ends
  <2>2. x \in Wanted /\ x \notin shown' /\ Parent[x] \in shown' \cup {Root}
    BY DEF NextEntries
  <2>3. x # e
    BY <1>4, <2>1, <2>2 DEF Wanted
  <2>4. CASE x \in NextEntries(shown)
    <3>1. PICK i \in 1..Len(dirs) : x \in dirs[i].left
      BY <1>1, <1>6, <2>4 DEF NothingForgotten, Ahead, AtEntry
    <3> QED
      BY <1>2, <2>3, <3>1 DEF Ahead
  <2>5. CASE x \notin NextEntries(shown)
    <3>1. Parent[x] = e /\ pc' = "shown"
      BY <1>4, <2>2, <2>5 DEF NextEntries
    <3> QED
      BY <1>3, <2>1, <3>1 DEF Ahead, AtEntry
  <2> QED
    BY <2>4, <2>5
<1> QED
  BY <1>4, <1>7, <1>8, <1>9, <1>10, <1>11, <1>12, <1>13 DEF IInv

\* lstat() of what readdir() has found fails: the walk is over, but an excluded name is
\* passed over by one more Increment().
LEMMA StatFailsInv ==
  ASSUME IInv, (\E e \in Entries : StatFails(e)) \/ StatDotsFails
  PROVE  IInv'
<1>1. PICK x \in Entries \cup {Dots} :
         /\ x \notin present \cup {Root}
         /\ dirs' = Append(Front(dirs), [Last(dirs) EXCEPT !.left = @ \ {x}])
         /\ names' = Append(names, x)
  <2>1. CASE StatDotsFails
    BY <2>1, IteratorAssumption DEF StatDotsFails, IInv, TypeOK
  <2>2. CASE \E e \in Entries : StatFails(e)
    <3>1. PICK e \in Entries : StatFails(e)
      BY <2>2
    <3> QED
      BY <3>1, TreeAssumption DEF StatFails
  <2> QED
    BY <2>1, <2>2
<1>2. /\ pc = "next" /\ pc' \in {"increment", "shown"} /\ isEnd' = TRUE /\ isErr' = TRUE
      /\ UNCHANGED <<isDir, present, shown>>
  BY DEF StatFails, StatDotsFails, AfterPosition, Fail
<1>3. /\ dirs' \in Seq(OpenDirs) /\ Len(dirs') = Len(dirs)
      /\ \A i \in 1..Len(dirs) : dirs'[i].dir = dirs[i].dir
  BY <1>1, <1>2, ReadTakes
<1>4. /\ names' \in Seq(Entries \cup {Dots}) /\ Len(names') = Len(dirs)
      /\ Current(names') = x
      /\ \A i \in 1..Len(dirs) : dirs[i].dir = IF i = 1 THEN Root ELSE names'[i - 1]
  BY <1>1, <1>2, PathGrows
<1>5. TypeOK'
  BY <1>2, <1>3, <1>4 DEF IInv, TypeOK, OpenDirs
<1>6. OnPath'
  <2>1. pc' # "next" /\ Len(dirs') = Len(names')
    BY <1>2, <1>3, <1>4
  <2>2. \A i \in 1..Len(dirs') : dirs'[i].dir = Place(i)'
    BY <1>3, <1>4 DEF Place
  <2> QED
    BY <2>1, <2>2 DEF OnPath
<1>7. Opened'
  BY <1>1, <1>2, ReadKeepsOpened
<1>8. Positioned'
  BY <1>1, <1>2, <1>4 DEF Positioned
<1>9. ShownOnce' /\ Closed' /\ Ends' /\ NothingForgotten'
  BY <1>2 DEF IInv, ShownOnce, Closed, Ends, NothingForgotten
<1> QED
  BY <1>2, <1>5, <1>6, <1>7, <1>8, <1>9 DEF IInv

\* The walk stops in its place with an error.  Were the directory that cannot be read
\* excluded, Increment() would go on from it.
LEMMA StopInv ==
  ASSUME IInv, BadDirs \cap Excluded = {}, DescendFails \/ ReadFails
  PROVE  IInv'
<1>1. /\ pc' = "shown" /\ isEnd' = TRUE /\ isErr' = TRUE
      /\ UNCHANGED <<names, dirs, isDir, present, shown>>
  <2>1. CASE DescendFails
    BY <2>1 DEF DescendFails, Fail
  <2>2. CASE ReadFails
    <3>1. /\ TypeOK /\ Len(dirs) = Len(names) + 1 /\ Last(dirs).dir = Place(Len(dirs))
      BY <2>2, CurrentIs DEF IInv, OnPath, Walking, ReadFails, Last
    <3>2. Place(Len(dirs)) = Current(names)
      <4>1. Len(names) = 0 => Len(dirs) = 1
        BY <3>1
      <4>2. Len(names) # 0 => Len(dirs) # 1 /\ Len(dirs) - 1 = Len(names)
        BY <3>1, CurrentIs
      <4> QED
        BY <3>1, <4>1, <4>2, CurrentIs DEF Place
    <3>3. AfterPosition(Current(names)) = "shown"
      BY <2>2, <3>1, <3>2 DEF ReadFails, AfterPosition
    <3> QED
      BY <2>2, <3>3 DEF ReadFails, Fail
  <2> QED
    BY <2>1, <2>2
<1>2. TypeOK'
  BY <1>1 DEF IInv, TypeOK
<1>3. OnPath' /\ Positioned'
  BY <1>1 DEF OnPath, Positioned, AtEntry, Walking
<1>4. Opened' /\ ShownOnce' /\ Closed' /\ Ends' /\ NothingForgotten'
  BY <1>1 DEF IInv, Opened, Listed, ShownOnce, Closed, Ends, NothingForgotten
<1> QED
  BY <1>1, <1>2, <1>3, <1>4 DEF IInv

\* When the root directory is read to its end, nothing that exists was left out.
LEMMA NothingLeft ==
  ASSUME IInv, pc = "next", Len(dirs) = 1, Last(dirs).left = {}, ~isErr
  PROVE  NextEntries(shown) \cap present = {}
<1> SUFFICES ASSUME NEW e \in NextEntries(shown) \cap present PROVE FALSE
  OBVIOUS
<1>1. PICK i \in 1..Len(dirs) : e \in dirs[i].left
  BY DEF IInv, NothingForgotten, Ahead, AtEntry
<1>2. i = 1 /\ Last(dirs) = dirs[1]
  BY DEF Last
<1> QED
  BY <1>1, <1>2

\* A directory was read to its end and is closed.
LEMMA AscendInv ==
  ASSUME IInv, Ascend
  PROVE  IInv'
<1>1. /\ TypeOK /\ Len(dirs) = Len(names) + 1 /\ Len(names) \in Nat /\ Len(dirs) \in Nat
      /\ dirs \in Seq(OpenDirs) /\ pc = "next" /\ UNCHANGED <<isDir, isErr, present, shown>>
      /\ \A i \in 1..Len(dirs) : dirs[i].dir = Place(i)
      /\ dirs' = Front(dirs) /\ Last(dirs).left = {}
  BY CurrentIs DEF IInv, TypeOK, OpenDirs, OnPath, Walking, Ascend
<1>2. Len(dirs) # 0
  BY <1>1
<1>3. /\ dirs' \in Seq(OpenDirs) /\ Len(dirs') = Len(dirs) - 1
      /\ \A i \in 1..(Len(dirs) - 1) : dirs'[i] = dirs[i]
  BY <1>1, <1>2, FrontIs
<1>4. \A i \in 1..(Len(dirs) - 1) : i \in 1..Len(dirs)
  BY <1>1
<1>5. Opened'
  <2>1. \A i \in 1..Len(dirs') : Listed(dirs[i])'
    BY <1>1, <1>3, <1>4 DEF IInv, Opened, Listed
  <2> QED
    BY <1>3, <1>4, <2>1 DEF IInv, Opened
<1>6. ShownOnce' /\ Closed'
  BY <1>1 DEF IInv, ShownOnce, Closed
<1>7. CASE Len(dirs) = 1
  <2>1. isEnd' = TRUE /\ pc' = "shown" /\ UNCHANGED names
    BY <1>7 DEF Ascend
  <2>2. TypeOK'
    BY <1>1, <1>3, <2>1 DEF TypeOK, OpenDirs
  <2>3. OnPath' /\ Positioned' /\ Ends'
    BY <2>1 DEF OnPath, Positioned, AtEntry, Walking, Ends
  <2>4. NothingForgotten'
    BY <1>1, <1>7, NothingLeft DEF NothingForgotten
  <2> QED
    BY <1>5, <1>6, <2>1, <2>2, <2>3, <2>4 DEF IInv
<1>8. CASE Len(dirs) # 1
  <2>1. names' = Front(names) /\ UNCHANGED <<isEnd, pc>>
    BY <1>8 DEF Ascend
  <2>2. Len(names) # 0
    BY <1>1, <1>8
  <2>3. /\ names' \in Seq(Entries \cup {Dots}) /\ Len(names') = Len(names) - 1
        /\ \A i \in 1..Len(names) : Place(i) = IF i = 1 THEN Root ELSE names'[i - 1]
    BY <1>1, <2>1, <2>2, PathShrinks
  <2>4. TypeOK'
    BY <1>1, <1>3, <2>1, <2>3 DEF TypeOK, OpenDirs
  <2>5. OnPath'
    <3>1. Len(dirs') = Len(names') + 1 /\ Len(dirs) - 1 = Len(names) /\ Len(dirs') = Len(names)
      BY <1>1, <1>3, <2>3
    <3>2. \A i \in 1..Len(dirs') : dirs'[i].dir = Place(i)'
      BY <1>1, <1>3, <1>4, <2>3, <3>1 DEF Place
    <3> QED
      BY <1>1, <2>1, <3>1, <3>2 DEF OnPath, AtEntry
  <2>6. Positioned' /\ Ends'
    BY <1>1, <2>1 DEF IInv, Positioned, AtEntry, Ends
  <2>7. NothingForgotten'
    <3> SUFFICES ASSUME ~isErr, NEW e \in NextEntries(shown) \cap present
                 PROVE  Ahead(e)'
      BY <1>1 DEF NothingForgotten
    <3>1. PICK i \in 1..Len(dirs) : e \in dirs[i].left
      BY <1>1 DEF IInv, NothingForgotten, Ahead, AtEntry
    <3>2. i # Len(dirs)
      BY <1>1, <3>1 DEF Last
    <3>3. i \in 1..(Len(dirs) - 1)
      BY <1>1, <3>2
    <3> QED
      BY <1>3, <3>1, <3>3 DEF Ahead
  <2> QED
    BY <1>1, <1>5, <1>6, <2>1, <2>4, <2>5, <2>6, <2>7 DEF IInv
<1> QED
  BY <1>7, <1>8

\* Another process removes an entry, at any moment.
LEMMA VanishInv ==
  ASSUME IInv, NEW e \in Entries, Vanish(e)
  PROVE  IInv'
<1>1. /\ present' = present \ {e} /\ Children(e) = {}
      /\ UNCHANGED <<pc, names, dirs, isDir, isEnd, isErr, shown>>
  BY DEF Vanish
<1>2. TypeOK'
  BY <1>1 DEF IInv, TypeOK
<1>3. OnPath' /\ Opened' /\ ShownOnce' /\ Ends'
  BY <1>1 DEF IInv, OnPath, AtEntry, Walking, Place, Opened, Listed, ShownOnce, Ends
<1>4. Positioned'
  BY <1>1 DEF IInv, Positioned, Position, AtEntry, Current, Last
<1>5. Closed'
  BY <1>1 DEF IInv, Closed, Children
<1>6. NothingForgotten'
  BY <1>1 DEF IInv, NothingForgotten, Ahead, AtEntry, Current, Last
<1> QED
  BY <1>1, <1>2, <1>3, <1>4, <1>5, <1>6 DEF IInv

\* Every step keeps the invariant, as long as excluded directories can be read.
LEMMA NextInv ==
  ASSUME IInv, BadDirs \cap Excluded = {}, [Next]_iterVars
  PROVE  IInv'
<1>1. CASE UNCHANGED iterVars
  BY <1>1 DEF iterVars, IInv, TypeOK, OnPath, AtEntry, Walking, Place, Opened, Listed, Positioned,
              Position, ShownOnce, Closed, Ends, NothingForgotten, Ahead, Current, Last
<1>2. CASE CallIncrement
  BY <1>2, CallIncrementInv
<1>3. CASE Descend
  BY <1>3, DescendInv
<1>4. CASE Pass
  BY <1>4, PassInv
<1>5. CASE (\E e \in Entries : ReadSkips(e)) \/ ReadDots
  BY <1>5, SkipInv
<1>6. CASE \E e \in Entries : ReadEntry(e)
  BY <1>6, ReadEntryInv
<1>7. CASE (\E e \in Entries : StatFails(e)) \/ StatDotsFails
  BY <1>7, StatFailsInv
<1>8. CASE DescendFails \/ ReadFails
  BY <1>8, StopInv
<1>9. CASE Ascend
  BY <1>9, AscendInv
<1>10. CASE \E e \in Entries : Vanish(e)
  BY <1>10, VanishInv
<1> QED
  BY <1>1, <1>2, <1>3, <1>4, <1>5, <1>6, <1>7, <1>8, <1>9, <1>10 DEF Next, Step

-----------------------------------------------------------------------------
(* The theorems.                                                           *)

\* The three CHECKs on the stack of open directories hold and nothing that is excluded or
\* below a mount point is shown, in every tree, whichever entries other processes remove
\* and whichever calls fail, as long as no excluded directory fails to be read.
THEOREM WalkSafety ==
  ASSUME BadDirs \cap Excluded = {}
  PROVE  Spec => []WalkKeepsItsPlace
<1>1. Init => IInv
  BY InitInv
<1>2. IInv /\ [Next]_iterVars => IInv'
  BY NextInv
<1>3. IInv => WalkKeepsItsPlace
  BY DEF IInv, WalkKeepsItsPlace, StackFollowsPath, OnPath, Walking, Place, OnlyWantedShown, ShownOnce
<1> QED
  BY <1>1, <1>2, <1>3, PTL DEF Spec

\* Every step of the iterator is a step of the abstract walk, or none.
LEMMA StepWalks ==
  ASSUME IInv, BadDirs \cap Excluded = {}, [Next]_iterVars
  PROVE  [Walk!Next]_<<shown, present, IF isErr THEN "error" ELSE IF isEnd THEN "complete" ELSE "walking">>
<1>1. isErr \in BOOLEAN /\ isEnd \in BOOLEAN /\ (isErr => isEnd) /\ (isEnd /\ ~isErr => pc = "shown")
  BY DEF IInv, TypeOK, Ends
<1>3. CASE \E e \in Entries : ReadEntry(e)
  <2>1. PICK e \in Entries : ReadEntry(e)
    BY <1>3
  <2>2. CASE e \notin Excluded /\ ~isEnd
    <3>1. e \in NextEntries(shown)
      BY <2>1, <2>2, EntryIsNew DEF NextEntries
    <3>2. shown' = shown \cup {e} /\ UNCHANGED <<isEnd, isErr, present>> /\ ~isErr
      BY <1>1, <2>1, <2>2 DEF ReadEntry, AfterPosition
    <3> QED
      BY <2>2, <3>1, <3>2 DEF Walk!Next, Walk!Show, Walk!NextEntries, NextEntries, Walk!Wanted, Wanted
  <2>3. CASE e \in Excluded \/ isEnd
    BY <2>1, <2>3 DEF ReadEntry, AfterPosition
  <2> QED
    BY <1>1, <2>2, <2>3
<1>4. CASE DescendFails \/ ReadFails \/ StatDotsFails \/ \E e \in Entries : StatFails(e)
  <2>1. pc # "shown" /\ isEnd' = TRUE /\ isErr' = TRUE /\ UNCHANGED <<present, shown>>
    BY <1>4 DEF DescendFails, ReadFails, StatDotsFails, StatFails, Fail
  <2> QED
    BY <1>1, <2>1 DEF Walk!Next, Walk!Error
<1>5. CASE Ascend
  <2>1. CASE Len(dirs) = 1
    <3>1. pc = "next" /\ isEnd' = TRUE /\ UNCHANGED <<isErr, present, shown>> /\ Last(dirs).left = {}
      BY <1>5, <2>1 DEF Ascend
    <3>2. ~isErr => NextEntries(shown) \cap present = {}
      BY <2>1, <3>1, NothingLeft
    <3> QED
      BY <1>1, <3>1, <3>2 DEF Walk!Next, Walk!Complete, Walk!NextEntries, NextEntries, Walk!Wanted, Wanted
  <2>2. CASE Len(dirs) # 1
    BY <1>5, <2>2 DEF Ascend
  <2> QED
    BY <2>1, <2>2
<1>6. CASE \E e \in Entries : Vanish(e)
  <2>1. present' \subseteq present /\ UNCHANGED <<isEnd, isErr, shown>>
    BY <1>6 DEF Vanish
  <2> QED
    BY <2>1 DEF Walk!Next, Walk!Vanish
<1>7. CASE CallIncrement \/ Descend \/ Pass \/ ReadDots \/ \E e \in Entries : ReadSkips(e)
  <2>1. UNCHANGED <<isEnd, isErr, present, shown>>
    BY <1>7 DEF CallIncrement, Descend, Pass, ReadDots, ReadSkips
  <2> QED
    BY <2>1
<1>8. CASE UNCHANGED iterVars
  BY <1>8 DEF iterVars
<1> QED
  BY <1>3, <1>4, <1>5, <1>6, <1>7, <1>8 DEF Next, Step

\* The iterator implements TreeWalk: every entry that is wanted is shown at most once and
\* after its directory, and the walk ends without an error only when nothing that still
\* exists was left out.
THEOREM WalksTree ==
  ASSUME BadDirs \cap Excluded = {}
  PROVE  Spec => IterationIsTreeWalk
<1>1. Init => IInv /\ Walk!Init
  BY InitInv DEF Init, Walk!Init
<1>2. IInv /\ [Next]_iterVars => IInv'
  BY NextInv
<1>3. IInv /\ [Next]_iterVars =>
        [Walk!Next]_<<shown, present, IF isErr THEN "error" ELSE IF isEnd THEN "complete" ELSE "walking">>
  BY StepWalks
<1> QED
  BY <1>1, <1>2, <1>3, PTL DEF Spec, IterationIsTreeWalk, Walk!Spec

=============================================================================
