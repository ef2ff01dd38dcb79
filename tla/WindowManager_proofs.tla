------------------------ MODULE WindowManager_proofs ------------------------
(***************************************************************************)
(* Proofs about the window manager and the events it follows.              *)
(*                                                                         *)
(* What the window manager knows of a window is late by the events that    *)
(* are on their way.  The inductive invariant IInv says how late: whatever *)
(* the server's window and the window manager's object disagree about, an  *)
(* event in the queue still tells, and no later one takes it back (Told).  *)
(* While the window manager starts, the windows that the query found and   *)
(* that it has not yet taken over account for the rest.  The argument has  *)
(* three parts: what one more event in the queue does to Told, what the    *)
(* handling of the first one does to it (Heard names what a handler must   *)
(* make of the object), and that each request and each handler is one of   *)
(* these.                                                                  *)
(***************************************************************************)
EXTENDS WindowManager, SequenceTheorems, TLAPS

-----------------------------------------------------------------------------
(* The inductive invariant.                                                *)

\* A window of the server, a Window object, and the events on their way.
Infos == [exists : BOOLEAN, parent : {None, Root, Elsewhere}, mapped : BOOLEAN,
          override : BOOLEAN, inputOnly : BOOLEAN, wmState : {None, "normal", "withdrawn"}]
Objects == [tracked : BOOLEAN, mapped : BOOLEAN, override : BOOLEAN, redirected : BOOLEAN]
Events ==
  [type : {"CreateNotify"}, window : Xids, parent : {Root}, override : BOOLEAN]
    \cup [type : {"DestroyNotify", "MapNotify", "MapRequest", "UnmapNotify", "FocusIn"},
          window : Xids]
    \cup [type : {"ConfigureNotify"}, window : Xids, above : Xids \cup {None}]
    \cup [type : {"ReparentNotify"}, window : Xids, parent : {Root, Elsewhere}]

\* A Stacker of windows: none of them is in it twice.
IsStack(s) == s \in Seq(Xids) /\ IsInjective(s)

\* The server and the window manager.
ServerFields == {"win", "order", "used", "focused", "selected", "events", "clients",
                 "stacking", "active"}
ManagerFields == {"client", "stacked", "mappedXids", "active", "actors", "managed"}
IsServer(s) ==
  /\ DOMAIN s = ServerFields
  /\ s.win \in [Xids -> Infos] /\ IsStack(s.order) /\ s.used \in SUBSET Xids
  /\ s.selected \in BOOLEAN /\ s.events \in Seq(Events)
IsManager(w) ==
  /\ DOMAIN w = ManagerFields
  /\ w.client \in [Xids -> Objects] /\ IsStack(w.stacked) /\ w.managed \in [Xids -> Nat]

\* What an event e tells of window x: it is of a type, that x went to another parent,
\* that it is not visible any more, that the root window has lost it.
Tells(e, type, x) == e.type = type /\ e.window = x
TellsLeft(e, x) == Tells(e, "ReparentNotify", x) /\ e.parent # Root
TellsHidden(e, x) == Tells(e, "UnmapNotify", x) \/ TellsLeft(e, x)
TellsGone(e, x) == Tells(e, "DestroyNotify", x) \/ TellsLeft(e, x)

\* A child of the root window, and one that is mapped.
Child(o) == o.exists /\ o.parent = Root
OnScreen(o) == Child(o) /\ o.mapped

\* None of the events from..to is of a type, or hides x.
NoneTells(E, type, x, from, to) == \A i \in from..to : ~Tells(E[i], type, x)
NoneHides(E, x, from, to) == \A i \in from..to : ~TellsHidden(E[i], x)

\* The last word on x among the first n events is that it is hidden; the window manager
\* holds it as unmapped after them.
Hidden(E, x, n) == \E j \in 1..n : TellsHidden(E[j], x) /\ NoneTells(E, "MapNotify", x, j + 1, n)
Quiet(E, x, k, n) == Hidden(E, x, n) \/ (~k.mapped /\ NoneTells(E, "MapNotify", x, 1, n))

\* The last word on x is that the root window lost it, or that it left; there is no
\* object for it after the events.
Gone(E, x, n) == \E j \in 1..n : TellsGone(E[j], x) /\ NoneTells(E, "CreateNotify", x, j + 1, n)
Left(E, x, n) == \E j \in 1..n : TellsLeft(E[j], x) /\ NoneTells(E, "CreateNotify", x, j + 1, n)
Unknown(E, x, k, n) == ~k.tracked /\ NoneTells(E, "CreateNotify", x, 1, n)

\* The last word on x is that it was mapped; an object it has is mapped already.
Shown(E, x, n) ==
  \E j \in 1..n : /\ Tells(E[j], "MapNotify", x) /\ NoneHides(E, x, j + 1, n)
                  /\ NoneTells(E, "CreateNotify", x, j + 1, n)
Seen(E, x, k, n) ==
  /\ k.tracked => k.mapped
  /\ NoneHides(E, x, 1, n) /\ NoneTells(E, "CreateNotify", x, 1, n)

\* For the events E, a window x that the server has as o and the window manager as k; f:
\* x was found and is yet to be taken over; q: the windows are yet to be queried; r: x
\* was reparented.  A window that is not visible: the events say so last.
HiddenIsTold(E, x, o, k, f) ==
  /\ ~OnScreen(o) => Quiet(E, x, k, Len(E))
  /\ f /\ o.exists /\ ~Child(o) => Hidden(E, x, Len(E))
\* A destroyed window was hidden before.
DestroyedInTurn(E, x, o, k) ==
  \A i \in 1..Len(E) : Tells(E[i], "DestroyNotify", x) => ~o.exists /\ Quiet(E, x, k, i - 1)
\* A window the root has lost: the events say so last, or there is no object.
GoneIsTold(E, x, o, k, f) ==
  /\ ~Child(o) => Gone(E, x, Len(E)) \/ Unknown(E, x, k, Len(E))
  /\ f /\ ~Child(o) => Gone(E, x, Len(E))
\* A child of the root has an object, or will get one.
ChildIsTold(E, x, o, k, f, q, r) ==
  /\ \A i \in 1..Len(E) : Tells(E[i], "ReparentNotify", x) => r
  /\ Child(o) /\ ~o.inputOnly /\ ~r
       => k.tracked \/ f \/ q \/ \E i \in 1..Len(E) : Tells(E[i], "CreateNotify", x)
\* A visible window: the events say so last, or the object does.
ShownIsTold(E, x, o, k, f, q) ==
  OnScreen(o) => \/ Shown(E, x, Len(E)) \/ Seen(E, x, k, Len(E))
                 \/ Left(E, x, Len(E)) \/ (~f /\ ~q /\ Unknown(E, x, k, Len(E)))
\* Everything the events tell of x.
Told(E, x, o, k, f, q, r) ==
  /\ HiddenIsTold(E, x, o, k, f) /\ DestroyedInTurn(E, x, o, k) /\ GoneIsTold(E, x, o, k, f)
  /\ ChildIsTold(E, x, o, k, f, q, r) /\ ShownIsTold(E, x, o, k, f, q)

\* The server and the objects c; the windows fnd are yet to be taken over, the windows
\* rep were reparented.
ServerInv(s, c, fnd, q, rep) ==
  /\ IsServer(s)
  /\ \A x \in Xids : Contains(s.order, x) <=> Child(s.win[x])
  /\ \A x \in Xids : s.win[x].exists \/ c[x].tracked => x \in s.used
  /\ \A i \in 1..Len(s.events) : s.events[i].window \in s.used
  /\ ~s.selected => s.events = <<>>
  /\ \A x \in Xids : c[x].tracked /\ s.win[x].exists => ~s.win[x].inputOnly
  /\ s.selected => \A x \in Xids :
       Told(s.events, x, s.win[x], c[x], Contains(fnd, x), q, x \in rep)

\* The window manager: its objects are in its order, and one consumer holds a window
\* exactly while its object is mapped.
ManagerInv(w) ==
  /\ IsManager(w)
  /\ \A x \in Xids : /\ w.client[x].tracked => Contains(w.stacked, x)
                     /\ w.client[x].mapped => w.client[x].tracked
                     /\ w.managed[x] = IF w.client[x].mapped THEN 1 ELSE 0

\* How far Init() has come.
PhaseInv(s, w, ph, fnd) ==
  /\ ph \in {"starting", "selected", "managing", "entered", "running"}
  /\ (ph = "starting") <=> ~s.selected
  /\ ph \in {"starting", "selected"} => \A x \in Xids : ~w.client[x].tracked
  /\ IsStack(fnd)
  /\ fnd # <<>> => ph \in {"managing", "entered"}
  /\ ph = "entered" => fnd # <<>> /\ Contains(w.stacked, Head(fnd))
  /\ \A x \in Xids : Contains(fnd, x) => ~w.client[x].tracked /\ x \in s.used

\* The whole.
WholeInv(s, w, ph, fnd, rep) ==
  /\ ServerInv(s, w.client, fnd, ph = "selected", rep)
  /\ ManagerInv(w) /\ PhaseInv(s, w, ph, fnd) /\ rep \in SUBSET Xids
IInv == WholeInv(server, wm, phase, found, reparented)

-----------------------------------------------------------------------------
(* Stacker: an item is present at most once.                                *)

\* A sequence without its i-th element.
LEMMA RemoveAtIs ==
  ASSUME NEW S, NEW s \in Seq(S), NEW i \in 1..Len(s)
  PROVE  /\ RemoveAt(s, i) \in Seq(S) /\ Len(RemoveAt(s, i)) = Len(s) - 1
         /\ \A j \in 1..(i - 1) : RemoveAt(s, i)[j] = s[j]
         /\ \A j \in i..(Len(s) - 1) : RemoveAt(s, i)[j] = s[j + 1]
<1> DEFINE a == SubSeq(s, 1, i - 1)
           b == SubSeq(s, i + 1, Len(s))
<1>1. Len(s) \in Nat /\ i \in Nat
  BY LenProperties
<1>2. a \in Seq(S) /\ Len(a) = i - 1 /\ \A j \in 1..(i - 1) : a[j] = s[j]
  BY <1>1, SubSeqProperties
<1>3. b \in Seq(S) /\ Len(b) = Len(s) - i /\ \A j \in 1..(Len(s) - i) : b[j] = s[i + j]
  BY <1>1, SubSeqProperties
<1> HIDE DEF a, b
<1>4. /\ a \o b \in Seq(S) /\ Len(a \o b) = Len(s) - 1
      /\ \A j \in 1..(i - 1) : (a \o b)[j] = a[j]
      /\ \A j \in i..(Len(s) - 1) : (a \o b)[j] = b[j - (i - 1)]
  <2>1. /\ a \o b \in Seq(S) /\ Len(a \o b) = Len(a) + Len(b)
        /\ \A j \in 1..(Len(a) + Len(b)) : (a \o b)[j] = IF j <= Len(a) THEN a[j] ELSE b[j - Len(a)]
    BY <1>2, <1>3, ConcatProperties
  <2>2. Len(a) + Len(b) = Len(s) - 1 /\ i >= 1 /\ i <= Len(s)
    BY <1>1, <1>2, <1>3
  <2>3. ASSUME NEW j \in 1..(i - 1) PROVE (a \o b)[j] = a[j]
    <3>1. j \in 1..(Len(a) + Len(b)) /\ j <= Len(a)
      BY <1>1, <1>2, <2>2
    <3> QED
      BY <2>1, <3>1
  <2>4. ASSUME NEW j \in i..(Len(s) - 1) PROVE (a \o b)[j] = b[j - (i - 1)]
    <3>1. j \in 1..(Len(a) + Len(b)) /\ ~(j <= Len(a)) /\ Len(a) = i - 1
      BY <1>1, <1>2, <2>2
    <3> QED
      BY <2>1, <3>1
  <2> QED
    BY <2>1, <2>2, <2>3, <2>4
<1>5. \A j \in i..(Len(s) - 1) : j - (i - 1) \in 1..(Len(s) - i) /\ i + (j - (i - 1)) = j + 1
  BY <1>1
<1>6. RemoveAt(s, i) = a \o b
  BY DEF RemoveAt, a, b
<1>7. \A j \in i..(Len(s) - 1) : (a \o b)[j] = s[j + 1]
  BY <1>3, <1>4, <1>5
<1> QED
  BY <1>2, <1>4, <1>6, <1>7

\* A sequence with an element more, the i-th.
LEMMA InsertAtIs ==
  ASSUME NEW S, NEW s \in Seq(S), NEW e \in S, NEW i \in 1..(Len(s) + 1)
  PROVE  /\ InsertAt(s, i, e) \in Seq(S) /\ Len(InsertAt(s, i, e)) = Len(s) + 1
         /\ InsertAt(s, i, e)[i] = e
         /\ \A j \in 1..(i - 1) : InsertAt(s, i, e)[j] = s[j]
         /\ \A j \in (i + 1)..(Len(s) + 1) : InsertAt(s, i, e)[j] = s[j - 1]
<1> DEFINE a == SubSeq(s, 1, i - 1)
           b == SubSeq(s, i, Len(s))
           c == a \o <<e>>
<1>1. Len(s) \in Nat /\ i \in Nat
  BY LenProperties
<1>2. a \in Seq(S) /\ Len(a) = i - 1 /\ \A j \in 1..(i - 1) : a[j] = s[j]
  BY <1>1, SubSeqProperties
<1>3. b \in Seq(S) /\ Len(b) = Len(s) + 1 - i /\ \A j \in 1..(Len(s) + 1 - i) : b[j] = s[i + j - 1]
  BY <1>1, SubSeqProperties
<1>4. <<e>> \in Seq(S) /\ Len(<<e>>) = 1 /\ <<e>>[1] = e
  OBVIOUS
<1> HIDE DEF a, b
<1>5. c \in Seq(S) /\ Len(c) = i /\ c[i] = e /\ \A j \in 1..(i - 1) : c[j] = s[j]
  BY <1>1, <1>2, <1>4, ConcatProperties
<1>6. InsertAt(s, i, e) = c \o b
  BY DEF InsertAt, a, b
<1> HIDE DEF c
<1>7. /\ c \o b \in Seq(S) /\ Len(c \o b) = Len(s) + 1
      /\ \A j \in 1..i : (c \o b)[j] = c[j]
      /\ \A j \in (i + 1)..(Len(s) + 1) : (c \o b)[j] = b[j - i]
  BY <1>1, <1>3, <1>5, ConcatProperties
<1>8. \A j \in (i + 1)..(Len(s) + 1) : j - i \in 1..(Len(s) + 1 - i) /\ i + (j - i) - 1 = j - 1
  BY <1>1
<1>9. \A j \in (i + 1)..(Len(s) + 1) : (c \o b)[j] = s[j - 1]
  BY <1>3, <1>7, <1>8
<1>10. i \in 1..i /\ \A j \in 1..(i - 1) : j \in 1..i
  BY <1>1
<1> QED
  BY <1>5, <1>6, <1>7, <1>9, <1>10

\* Without its i-th element, a sequence of different ones has the others, each once.
LEMMA RemoveAtApart ==
  ASSUME NEW S, NEW s \in Seq(S), NEW i \in 1..Len(s), IsInjective(s)
  PROVE  IsInjective(RemoveAt(s, i)) /\ ToSet(RemoveAt(s, i)) = ToSet(s) \ {s[i]}
<1> DEFINE r == RemoveAt(s, i)
           from(j) == IF j < i THEN j ELSE j + 1
<1>1. Len(s) \in Nat /\ DOMAIN s = 1..Len(s) /\ i \in Nat
  BY LenProperties
<1>2. /\ r \in Seq(S) /\ Len(r) = Len(s) - 1
      /\ \A j \in 1..(i - 1) : r[j] = s[j]
      /\ \A j \in i..(Len(s) - 1) : r[j] = s[j + 1]
  BY RemoveAtIs
<1> HIDE DEF r
<1>3. DOMAIN r = 1..(Len(s) - 1)
  BY <1>2, LenProperties
<1>4. \A j \in 1..(Len(s) - 1) : r[j] = s[from(j)] /\ from(j) \in 1..Len(s) /\ from(j) # i
  <2> TAKE j \in 1..(Len(s) - 1)
  <2>1. CASE j < i
    <3>1. j \in 1..(i - 1) /\ from(j) = j
      BY <1>1, <2>1
    <3> QED
      BY <1>1, <1>2, <2>1, <3>1
  <2>2. CASE ~(j < i)
    <3>1. j \in i..(Len(s) - 1) /\ from(j) = j + 1
      BY <1>1, <2>2
    <3> QED
      BY <1>1, <1>2, <3>1
  <2> QED
    BY <2>1, <2>2
<1>5. \A j, k \in 1..(Len(s) - 1) : from(j) = from(k) => j = k
  BY <1>1
<1>6. \A m \in 1..Len(s) : m # i => \E j \in 1..(Len(s) - 1) : from(j) = m
  <2> TAKE m \in 1..Len(s)
  <2> HAVE m # i
  <2> DEFINE j == IF m < i THEN m ELSE m - 1
  <2>1. j \in 1..(Len(s) - 1) /\ from(j) = m
    BY <1>1
  <2> QED
    BY <2>1
<1> HIDE DEF from
<1>7. IsInjective(r)
  BY <1>1, <1>3, <1>4, <1>5 DEF IsInjective
<1>8. ToSet(r) = ToSet(s) \ {s[i]}
  <2>1. ASSUME NEW x \in ToSet(r) PROVE x \in ToSet(s) \ {s[i]}
    BY <1>1, <1>3, <1>4, <2>1 DEF ToSet, IsInjective
  <2>2. ASSUME NEW x \in ToSet(s), x # s[i] PROVE x \in ToSet(r)
    <3>1. PICK m \in 1..Len(s) : x = s[m] /\ m # i
      BY <1>1, <2>2 DEF ToSet
    <3>2. PICK j \in 1..(Len(s) - 1) : from(j) = m
      BY <1>6, <3>1
    <3>3. r[j] = x
      BY <1>4, <3>1, <3>2
    <3> QED
      BY <1>3, <3>3 DEF ToSet
  <2> QED
    BY <2>1, <2>2
<1> QED
  BY <1>7, <1>8 DEF r

\* With a new element, a sequence of different ones has them and the new one, each once.
LEMMA InsertAtApart ==
  ASSUME NEW S, NEW s \in Seq(S), NEW e \in S, e \notin ToSet(s), NEW i \in 1..(Len(s) + 1), IsInjective(s)
  PROVE  IsInjective(InsertAt(s, i, e)) /\ ToSet(InsertAt(s, i, e)) = ToSet(s) \cup {e}
<1> DEFINE r == InsertAt(s, i, e)
           from(j) == IF j < i THEN j ELSE j - 1
<1>1. Len(s) \in Nat /\ DOMAIN s = 1..Len(s) /\ i \in Nat /\ i \in 1..(Len(s) + 1)
  BY LenProperties
<1>2. /\ r \in Seq(S) /\ Len(r) = Len(s) + 1 /\ r[i] = e
      /\ \A j \in 1..(i - 1) : r[j] = s[j]
      /\ \A j \in (i + 1)..(Len(s) + 1) : r[j] = s[j - 1]
  BY InsertAtIs
<1> HIDE DEF r
<1>3. DOMAIN r = 1..(Len(s) + 1)
  BY <1>2, LenProperties
<1>4. \A j \in 1..(Len(s) + 1) : j # i => r[j] = s[from(j)] /\ from(j) \in 1..Len(s)
  BY <1>1, <1>2
<1>5. \A j, k \in 1..(Len(s) + 1) : j # i /\ k # i /\ from(j) = from(k) => j = k
  BY <1>1
<1>6. \A m \in 1..Len(s) : \E j \in 1..(Len(s) + 1) : j # i /\ from(j) = m
  <2> TAKE m \in 1..Len(s)
  <2> DEFINE j == IF m < i THEN m ELSE m + 1
  <2>1. j \in 1..(Len(s) + 1) /\ j # i /\ from(j) = m
    BY <1>1
  <2> QED
    BY <2>1
<1> HIDE DEF from
<1>7. \A j \in 1..(Len(s) + 1) : j # i => r[j] \in ToSet(s)
  BY <1>1, <1>4 DEF ToSet
<1>8. IsInjective(r)
  <2> SUFFICES ASSUME NEW j \in DOMAIN r, NEW k \in DOMAIN r, r[j] = r[k] PROVE j = k
    BY DEF IsInjective
  <2>1. CASE j # i /\ k # i
    BY <1>1, <1>3, <1>4, <1>5, <2>1 DEF IsInjective
  <2>2. CASE j = i \/ k = i
    BY <1>2, <1>3, <1>7, <2>2
  <2> QED
    BY <2>1, <2>2
<1>9. ToSet(r) = ToSet(s) \cup {e}
  <2>1. ASSUME NEW x \in ToSet(r) PROVE x \in ToSet(s) \cup {e}
    BY <1>2, <1>3, <1>7, <2>1 DEF ToSet
  <2>2. ASSUME NEW x \in ToSet(s) PROVE x \in ToSet(r)
    <3>1. PICK m \in 1..Len(s) : x = s[m]
      BY <1>1, <2>2 DEF ToSet
    <3>2. PICK j \in 1..(Len(s) + 1) : j # i /\ from(j) = m
      BY <1>6, <3>1
    <3>3. r[j] = x
      BY <1>4, <3>1, <3>2
    <3> QED
      BY <1>3, <3>3 DEF ToSet
  <2>3. e \in ToSet(r)
    BY <1>1, <1>2, <1>3 DEF ToSet
  <2> QED
    BY <2>1, <2>2, <2>3
<1> QED
  BY <1>8, <1>9 DEF r

\* An item is contained if it is in the range.
LEMMA ContainsIs ==
  ASSUME NEW S, NEW s \in Seq(S), NEW x
  PROVE  Contains(s, x) <=> x \in ToSet(s)
<1>1. DOMAIN s = 1..Len(s)
  BY LenProperties
<1> QED
  BY <1>1 DEF Contains, ToSet

\* The position of an item that is present.
LEMMA GetIndexIs ==
  ASSUME NEW S, NEW s \in Seq(S), NEW x, Contains(s, x)
  PROVE  GetIndex(s, x) \in 1..Len(s) /\ s[GetIndex(s, x)] = x
<1>1. DOMAIN s = 1..Len(s)
  BY LenProperties
<1> QED
  BY <1>1 DEF Contains, GetIndex

\* Remove() takes out one item and leaves the others.
LEMMA TakeOutIs ==
  ASSUME NEW s, IsStack(s), NEW x
  PROVE  /\ IsStack(TakeOut(s, x))
         /\ \A y : Contains(TakeOut(s, x), y) <=> Contains(s, y) /\ y # x
<1>0. s \in Seq(Xids) /\ IsInjective(s)
  BY DEF IsStack
<1>1. CASE ~Contains(s, x)
  BY <1>1 DEF TakeOut
<1>2. CASE Contains(s, x)
  <2> DEFINE i == GetIndex(s, x)
  <2>1. i \in 1..Len(s) /\ s[i] = x
    BY <1>0, <1>2, GetIndexIs
  <2>2. TakeOut(s, x) = RemoveAt(s, i)
    BY <1>2 DEF TakeOut
  <2> HIDE DEF i
  <2>3. RemoveAt(s, i) \in Seq(Xids)
    BY <1>0, <2>1, RemoveAtIs
  <2>4. IsInjective(RemoveAt(s, i)) /\ ToSet(RemoveAt(s, i)) = ToSet(s) \ {x}
    BY <1>0, <2>1, RemoveAtApart
  <2> QED
    BY <1>0, <2>2, <2>3, <2>4, ContainsIs DEF IsStack
<1> QED
  BY <1>1, <1>2

\* Prepended and appended items.
LEMMA PrependIs ==
  ASSUME NEW s, IsStack(s), NEW x \in Xids, ~Contains(s, x)
  PROVE  /\ IsStack(<<x>> \o s)
         /\ \A y : Contains(<<x>> \o s, y) <=> Contains(s, y) \/ y = x
<1> DEFINE r == <<x>> \o s
<1>0. s \in Seq(Xids) /\ IsInjective(s) /\ Len(s) \in Nat /\ DOMAIN s = 1..Len(s)
  BY LenProperties DEF IsStack
<1>1. <<x>> \in Seq(Xids) /\ Len(<<x>>) = 1 /\ <<x>>[1] = x
  OBVIOUS
<1>2. /\ r \in Seq(Xids) /\ Len(r) = Len(s) + 1
      /\ \A i \in 1..(Len(s) + 1) : r[i] = IF i <= 1 THEN <<x>>[i] ELSE s[i - 1]
  BY <1>0, <1>1, ConcatProperties
<1> HIDE DEF r
<1>3. r[1] = x /\ DOMAIN r = 1..(Len(s) + 1)
  BY <1>0, <1>1, <1>2, LenProperties
<1>4. \A i \in 1..(Len(s) + 1) : i # 1 => r[i] = s[i - 1] /\ i - 1 \in 1..Len(s)
  BY <1>0, <1>2
<1>5. \A i \in 1..Len(s) : s[i] # x
  BY DEF Contains
<1>6. IsInjective(r)
  <2> SUFFICES ASSUME NEW i \in 1..(Len(s) + 1), NEW j \in 1..(Len(s) + 1), r[i] = r[j]
               PROVE  i = j
    BY <1>3 DEF IsInjective
  <2>1. CASE i = 1 \/ j = 1
    BY <1>3, <1>4, <1>5, <2>1
  <2>2. CASE i # 1 /\ j # 1
    <3>1. i - 1 = j - 1
      BY <1>0, <1>4, <2>2 DEF IsInjective
    <3> QED
      BY <1>0, <3>1
  <2> QED
    BY <2>1, <2>2
<1>7. ASSUME NEW y PROVE Contains(r, y) <=> Contains(s, y) \/ y = x
  <2>1. ASSUME NEW i \in 1..Len(s) PROVE r[i + 1] = s[i] /\ i + 1 \in 1..(Len(s) + 1)
    <3>1. i + 1 \in 1..(Len(s) + 1) /\ i + 1 # 1 /\ (i + 1) - 1 = i
      BY <1>0
    <3> QED
      BY <1>4, <3>1
  <2>2. Contains(r, y) => Contains(s, y) \/ y = x
    BY <1>2, <1>3, <1>4 DEF Contains
  <2>3. Contains(s, y) => Contains(r, y)
    BY <1>2, <2>1 DEF Contains
  <2>4. 1 \in 1..(Len(s) + 1)
    BY <1>0
  <2>5. Contains(r, x)
    BY <1>2, <1>3, <2>4 DEF Contains
  <2> QED
    BY <2>2, <2>3, <2>5
<1> QED
  BY <1>2, <1>6, <1>7 DEF IsStack, r

\* AddOnTop() adds an item that is not there yet.
LEMMA AddOnTopIs ==
  ASSUME NEW s, IsStack(s), NEW x \in Xids
  PROVE  /\ IsStack(AddOnTop(s, x))
         /\ \A y : Contains(AddOnTop(s, x), y) <=> Contains(s, y) \/ y = x
<1>1. CASE Contains(s, x)
  BY <1>1 DEF AddOnTop
<1>2. CASE ~Contains(s, x)
  <2>1. AddOnTop(s, x) = <<x>> \o s
    BY <1>2 DEF AddOnTop
  <2> QED
    BY <1>2, <2>1, PrependIs
<1> QED
  BY <1>1, <1>2

\* AddOnBottom() adds an item that is not there yet.
LEMMA AddOnBottomIs ==
  ASSUME NEW s, IsStack(s), NEW x \in Xids
  PROVE  /\ IsStack(AddOnBottom(s, x))
         /\ \A y : Contains(AddOnBottom(s, x), y) <=> Contains(s, y) \/ y = x
<1>0. s \in Seq(Xids) /\ IsInjective(s) /\ Len(s) \in Nat /\ DOMAIN s = 1..Len(s)
  BY LenProperties DEF IsStack
<1>1. CASE Contains(s, x)
  BY <1>1 DEF AddOnBottom
<1>2. CASE ~Contains(s, x)
  <2> DEFINE r == Append(s, x)
  <2>1. /\ r \in Seq(Xids) /\ Len(r) = Len(s) + 1 /\ r[Len(s) + 1] = x
        /\ \A i \in 1..Len(s) : r[i] = s[i]
    BY <1>0, AppendProperties
  <2>2. AddOnBottom(s, x) = r
    BY <1>2 DEF AddOnBottom
  <2> HIDE DEF r
  <2>3. DOMAIN r = 1..(Len(s) + 1)
    BY <2>1, LenProperties
  <2>4. \A i \in 1..(Len(s) + 1) : i \in 1..Len(s) \/ i = Len(s) + 1
    BY <1>0
  <2>5. \A i \in 1..Len(s) : s[i] # x /\ i \in 1..(Len(s) + 1)
    BY <1>0, <1>2 DEF Contains
  <2>6. IsInjective(r)
    BY <1>0, <2>1, <2>3, <2>4, <2>5 DEF IsInjective
  <2>7. Len(s) + 1 \in 1..(Len(s) + 1)
    BY <1>0
  <2>8. ASSUME NEW y PROVE Contains(r, y) <=> Contains(s, y) \/ y = x
    BY <2>1, <2>4, <2>5, <2>7 DEF Contains
  <2> QED
    BY <2>1, <2>2, <2>6, <2>8 DEF IsStack
<1> QED
  BY <1>1, <1>2

\* AddAbove() adds an item that is not there yet next to one that is.
LEMMA AddAboveIs ==
  ASSUME NEW s, IsStack(s), NEW x \in Xids, NEW z, Contains(s, z)
  PROVE  /\ IsStack(AddAbove(s, x, z))
         /\ \A y : Contains(AddAbove(s, x, z), y) <=> Contains(s, y) \/ y = x
<1>0. s \in Seq(Xids) /\ IsInjective(s) /\ Len(s) \in Nat
  BY LenProperties DEF IsStack
<1>1. CASE Contains(s, x)
  BY <1>1 DEF AddAbove
<1>2. CASE ~Contains(s, x)
  <2> DEFINE i == GetIndex(s, z)
  <2>1. i \in 1..Len(s)
    BY <1>0, GetIndexIs
  <2>2. AddAbove(s, x, z) = InsertAt(s, i, x)
    BY <1>2 DEF AddAbove
  <2> HIDE DEF i
  <2>3. i \in 1..(Len(s) + 1) /\ x \notin ToSet(s)
    BY <1>0, <1>2, <2>1, ContainsIs
  <2>4. InsertAt(s, i, x) \in Seq(Xids)
    BY <1>0, <2>3, InsertAtIs
  <2>5. IsInjective(InsertAt(s, i, x)) /\ ToSet(InsertAt(s, i, x)) = ToSet(s) \cup {x}
    BY <1>0, <2>3, InsertAtApart
  <2> QED
    BY <1>0, <2>2, <2>4, <2>5, ContainsIs DEF IsStack
<1> QED
  BY <1>1, <1>2

\* A Stacker read from the other end.
LEMMA ReverseIs ==
  ASSUME NEW s, IsStack(s)
  PROVE  IsStack(Reverse(s)) /\ \A y : Contains(Reverse(s), y) <=> Contains(s, y)
<1> DEFINE r == Reverse(s)
           at(i) == (Len(s) - i) + 1
<1>0. s \in Seq(Xids) /\ IsInjective(s) /\ Len(s) \in Nat /\ DOMAIN s = 1..Len(s)
  BY LenProperties DEF IsStack
<1>1. \A i \in 1..Len(s) : at(i) \in 1..Len(s) /\ at(at(i)) = i
  BY <1>0
<1>2. r = [i \in 1..Len(s) |-> s[at(i)]]
  BY DEF Reverse
<1> HIDE DEF r, at
<1>3. \A i \in 1..Len(s) : r[i] = s[at(i)] /\ r[i] \in Xids
  BY <1>0, <1>1, <1>2
<1>4. r \in Seq(Xids) /\ Len(r) = Len(s) /\ DOMAIN r = 1..Len(s)
  <2>1. r \in [1..Len(s) -> Xids]
    BY <1>2, <1>3
  <2> QED
    BY <1>0, <2>1, LenProperties
<1>5. IsInjective(r)
  BY <1>0, <1>1, <1>3, <1>4 DEF IsInjective
<1>6. ASSUME NEW y PROVE Contains(r, y) <=> Contains(s, y)
  BY <1>1, <1>3, <1>4 DEF Contains
<1> QED
  BY <1>4, <1>5, <1>6 DEF IsStack, r

-----------------------------------------------------------------------------
(* What the events tell, when one more is sent.                            *)

\* F has the first n elements of E.
StartsAs(E, F, n) == \A i \in 1..n : F[i] = E[i]

\* One event more that is not of a type.
LEMMA NoneTellsMore ==
  ASSUME NEW E, NEW F, NEW n \in Nat, StartsAs(E, F, n), NEW type, NEW x,
         NoneTells(E, type, x, 1, n), ~Tells(F[n + 1], type, x)
  PROVE  NoneTells(F, type, x, 1, n + 1)
<1>1. \A i \in 1..(n + 1) : i \in 1..n \/ i = n + 1
  OBVIOUS
<1> QED
  BY <1>1 DEF NoneTells, StartsAs

\* One event more that hides nothing.
LEMMA NoneHidesMore ==
  ASSUME NEW E, NEW F, NEW n \in Nat, StartsAs(E, F, n), NEW x,
         NoneHides(E, x, 1, n), ~TellsHidden(F[n + 1], x)
  PROVE  NoneHides(F, x, 1, n + 1)
<1>1. \A i \in 1..(n + 1) : i \in 1..n \/ i = n + 1
  OBVIOUS
<1> QED
  BY <1>1 DEF NoneHides, StartsAs

\* One event more after the j-th.
LEMMA AfterMore ==
  ASSUME NEW n \in Nat, NEW j \in 1..n
  PROVE  /\ j \in 1..(n + 1)
         /\ \A i \in (j + 1)..(n + 1) : i \in (j + 1)..n \/ i = n + 1
         /\ \A i \in (j + 1)..n : i \in 1..n
OBVIOUS

\* A hidden window stays hidden until a MapNotify.
LEMMA HiddenMore ==
  ASSUME NEW E, NEW F, NEW n \in Nat, StartsAs(E, F, n), NEW x,
         Hidden(E, x, n), ~Tells(F[n + 1], "MapNotify", x)
  PROVE  Hidden(F, x, n + 1)
<1>1. PICK j \in 1..n : TellsHidden(E[j], x) /\ NoneTells(E, "MapNotify", x, j + 1, n)
  BY DEF Hidden
<1>2. NoneTells(F, "MapNotify", x, j + 1, n + 1) /\ TellsHidden(F[j], x) /\ j \in 1..(n + 1)
  BY <1>1, AfterMore DEF NoneTells, StartsAs
<1> QED
  BY <1>2 DEF Hidden

\* A window that is gone stays gone until a CreateNotify.
LEMMA GoneMore ==
  ASSUME NEW E, NEW F, NEW n \in Nat, StartsAs(E, F, n), NEW x,
         Gone(E, x, n), ~Tells(F[n + 1], "CreateNotify", x)
  PROVE  Gone(F, x, n + 1)
<1>1. PICK j \in 1..n : TellsGone(E[j], x) /\ NoneTells(E, "CreateNotify", x, j + 1, n)
  BY DEF Gone
<1>2. NoneTells(F, "CreateNotify", x, j + 1, n + 1) /\ TellsGone(F[j], x) /\ j \in 1..(n + 1)
  BY <1>1, AfterMore DEF NoneTells, StartsAs
<1> QED
  BY <1>2 DEF Gone

\* A window that left stays away until a CreateNotify.
LEMMA LeftMore ==
  ASSUME NEW E, NEW F, NEW n \in Nat, StartsAs(E, F, n), NEW x,
         Left(E, x, n), ~Tells(F[n + 1], "CreateNotify", x)
  PROVE  Left(F, x, n + 1)
<1>1. PICK j \in 1..n : TellsLeft(E[j], x) /\ NoneTells(E, "CreateNotify", x, j + 1, n)
  BY DEF Left
<1>2. NoneTells(F, "CreateNotify", x, j + 1, n + 1) /\ TellsLeft(F[j], x) /\ j \in 1..(n + 1)
  BY <1>1, AfterMore DEF NoneTells, StartsAs
<1> QED
  BY <1>2 DEF Left

\* A window that is shown stays shown until it is hidden.
LEMMA ShownMore ==
  ASSUME NEW E, NEW F, NEW n \in Nat, StartsAs(E, F, n), NEW x,
         Shown(E, x, n), ~Tells(F[n + 1], "CreateNotify", x), ~TellsHidden(F[n + 1], x)
  PROVE  Shown(F, x, n + 1)
<1>1. PICK j \in 1..n : /\ Tells(E[j], "MapNotify", x) /\ NoneHides(E, x, j + 1, n)
                        /\ NoneTells(E, "CreateNotify", x, j + 1, n)
  BY DEF Shown
<1>2. NoneTells(F, "CreateNotify", x, j + 1, n + 1) /\ j \in 1..(n + 1)
  BY <1>1, AfterMore DEF NoneTells, StartsAs
<1>3. NoneHides(F, x, j + 1, n + 1) /\ Tells(F[j], "MapNotify", x)
  BY <1>1, AfterMore DEF NoneHides, StartsAs
<1> QED
  BY <1>2, <1>3 DEF Shown

\* The events before the n-th say what they said.
LEMMA QuietBegins ==
  ASSUME NEW E, NEW F, NEW n \in Nat, StartsAs(E, F, n), NEW x, NEW k, NEW m \in 0..n,
         Quiet(E, x, k, m)
  PROVE  Quiet(F, x, k, m)
<1>1. \A i \in 1..m : i \in 1..n
  OBVIOUS
<1>2. ASSUME Hidden(E, x, m) PROVE Hidden(F, x, m)
  <2>1. PICK j \in 1..m : TellsHidden(E[j], x) /\ NoneTells(E, "MapNotify", x, j + 1, m)
    BY <1>2 DEF Hidden
  <2>2. \A i \in (j + 1)..m : i \in 1..n
    OBVIOUS
  <2> QED
    BY <1>1, <2>1, <2>2 DEF Hidden, NoneTells, StartsAs
<1>3. NoneTells(E, "MapNotify", x, 1, m) => NoneTells(F, "MapNotify", x, 1, m)
  BY <1>1 DEF NoneTells, StartsAs
<1> QED
  BY <1>2, <1>3 DEF Quiet

\* A window of which the last word is not that it is mapped.
LEMMA QuietMore ==
  ASSUME NEW E, NEW F, NEW n \in Nat, StartsAs(E, F, n), NEW x, NEW k,
         Quiet(E, x, k, n), ~Tells(F[n + 1], "MapNotify", x)
  PROVE  Quiet(F, x, k, n + 1)
BY HiddenMore, NoneTellsMore DEF Quiet

\* An event that hides a window is the last word on it.
LEMMA HiddenNow ==
  ASSUME NEW F, NEW n \in Nat, NEW x, TellsHidden(F[n + 1], x)
  PROVE  Hidden(F, x, n + 1)
<1>1. n + 1 \in 1..(n + 1) /\ \A i \in ((n + 1) + 1)..(n + 1) : FALSE
  OBVIOUS
<1> QED
  BY <1>1 DEF Hidden, NoneTells

\* An event that tells of a window's end is the last word on it.
LEMMA GoneNow ==
  ASSUME NEW F, NEW n \in Nat, NEW x, TellsGone(F[n + 1], x)
  PROVE  Gone(F, x, n + 1)
<1>1. n + 1 \in 1..(n + 1) /\ \A i \in ((n + 1) + 1)..(n + 1) : FALSE
  OBVIOUS
<1> QED
  BY <1>1 DEF Gone, NoneTells

\* A MapNotify is the last word on a window.
LEMMA ShownNow ==
  ASSUME NEW F, NEW n \in Nat, NEW x, Tells(F[n + 1], "MapNotify", x)
  PROVE  Shown(F, x, n + 1)
<1>1. n + 1 \in 1..(n + 1) /\ \A i \in ((n + 1) + 1)..(n + 1) : FALSE
  OBVIOUS
<1> QED
  BY <1>1 DEF Shown, NoneTells, NoneHides

\* An event that does not tell of the destruction of x keeps the order of those that do.
LEMMA InTurnMore ==
  ASSUME NEW E, NEW F, NEW n \in Nat, Len(E) = n, Len(F) = n + 1, StartsAs(E, F, n), NEW x,
         NEW o, NEW p, NEW k, DestroyedInTurn(E, x, o, k), ~o.exists => ~p.exists,
         ~Tells(F[n + 1], "DestroyNotify", x)
  PROVE  DestroyedInTurn(F, x, p, k)
<1> SUFFICES ASSUME NEW i \in 1..(n + 1), Tells(F[i], "DestroyNotify", x)
             PROVE  ~p.exists /\ Quiet(F, x, k, i - 1)
  BY DEF DestroyedInTurn
<1>1. i \in 1..n /\ i - 1 \in 0..n
  OBVIOUS
<1>2. ~o.exists /\ Quiet(E, x, k, i - 1)
  BY <1>1 DEF DestroyedInTurn, StartsAs
<1> QED
  BY <1>1, <1>2, QuietBegins

\* One event more is n + 1 events, the first n of which are as they were.
LEMMA AppendIs ==
  ASSUME NEW E \in Seq(Events), NEW e \in Events
  PROVE  /\ Append(E, e) \in Seq(Events) /\ Len(E) \in Nat /\ Len(Append(E, e)) = Len(E) + 1
         /\ StartsAs(E, Append(E, e), Len(E)) /\ Append(E, e)[Len(E) + 1] = e
BY AppendProperties, LenProperties DEF StartsAs

\* An event that says nothing of x, or nothing that changes what was said.
IsNews(e, x) ==
  \/ Tells(e, "MapNotify", x) \/ TellsHidden(e, x) \/ TellsGone(e, x)
  \/ Tells(e, "CreateNotify", x)

\* What is told of a window depends on a few of its attributes.
Alike(o, p) ==
  /\ o.exists = p.exists /\ o.inputOnly = p.inputOnly
  /\ Child(o) = Child(p) /\ OnScreen(o) = OnScreen(p)

\* An event that is no news, while the window stays what it was.
LEMMA ToldMore ==
  ASSUME NEW E, NEW F, NEW n \in Nat, Len(E) = n, Len(F) = n + 1, StartsAs(E, F, n), NEW x,
         NEW o, NEW p, NEW k, NEW f, NEW q, NEW r, Told(E, x, o, k, f, q, r), Alike(o, p),
         ~IsNews(F[n + 1], x), Tells(F[n + 1], "ReparentNotify", x) => r
  PROVE  Told(F, x, p, k, f, q, r)
<1>0. /\ HiddenIsTold(E, x, o, k, f) /\ DestroyedInTurn(E, x, o, k) /\ GoneIsTold(E, x, o, k, f)
      /\ ChildIsTold(E, x, o, k, f, q, r) /\ ShownIsTold(E, x, o, k, f, q)
  BY DEF Told
<1>1. /\ ~Tells(F[n + 1], "MapNotify", x) /\ ~TellsHidden(F[n + 1], x)
      /\ ~TellsGone(F[n + 1], x) /\ ~Tells(F[n + 1], "CreateNotify", x)
      /\ ~Tells(F[n + 1], "DestroyNotify", x)
  BY DEF IsNews, TellsGone
<1>2. HiddenIsTold(F, x, p, k, f)
  BY <1>0, <1>1, QuietMore, HiddenMore DEF HiddenIsTold, Alike
<1>3. DestroyedInTurn(F, x, p, k)
  BY <1>0, <1>1, InTurnMore DEF Alike
<1>4. Unknown(E, x, k, n) => Unknown(F, x, k, n + 1)
  BY <1>1, NoneTellsMore DEF Unknown
<1>5. GoneIsTold(F, x, p, k, f)
  BY <1>0, <1>1, <1>4, GoneMore DEF GoneIsTold, Alike
<1>6. ChildIsTold(F, x, p, k, f, q, r)
  <2>1. \A i \in 1..(n + 1) : i \in 1..n \/ i = n + 1
    OBVIOUS
  <2>2. \A i \in 1..n : i \in 1..(n + 1) /\ F[i] = E[i]
    BY DEF StartsAs
  <2>3. \A i \in 1..(n + 1) : Tells(F[i], "ReparentNotify", x) => r
    BY <1>0, <2>1, <2>2 DEF ChildIsTold
  <2>4. (\E i \in 1..n : Tells(E[i], "CreateNotify", x))
          => \E i \in 1..(n + 1) : Tells(F[i], "CreateNotify", x)
    BY <2>2
  <2> QED
    BY <1>0, <2>3, <2>4 DEF ChildIsTold, Alike
<1>7. Seen(E, x, k, n) => Seen(F, x, k, n + 1)
  BY <1>1, NoneTellsMore, NoneHidesMore DEF Seen
<1>8. ShownIsTold(F, x, p, k, f, q)
  BY <1>0, <1>1, <1>4, <1>7, ShownMore, LeftMore DEF ShownIsTold, Alike
<1> QED
  BY <1>2, <1>3, <1>5, <1>6, <1>8 DEF Told

\* Without an event.
LEMMA ToldAlike ==
  ASSUME NEW E, NEW x, NEW o, NEW p, NEW k, NEW f, NEW q, NEW r,
         Told(E, x, o, k, f, q, r), Alike(o, p)
  PROVE  Told(E, x, p, k, f, q, r)
BY DEF Told, HiddenIsTold, DestroyedInTurn, GoneIsTold, ChildIsTold, ShownIsTold, Alike

\* What ChildIsTold says, with one event more.
LEMMA ChildMore ==
  ASSUME NEW E, NEW F, NEW n \in Nat, Len(E) = n, Len(F) = n + 1, StartsAs(E, F, n), NEW x,
         NEW o, NEW p, NEW k, NEW f, NEW q, NEW r, ChildIsTold(E, x, o, k, f, q, r),
         Tells(F[n + 1], "ReparentNotify", x) => r,
         Child(p) => (Child(o) /\ p.inputOnly = o.inputOnly) \/ r
  PROVE  ChildIsTold(F, x, p, k, f, q, r)
<1>1. \A i \in 1..(n + 1) : i \in 1..n \/ i = n + 1
  OBVIOUS
<1>2. \A i \in 1..n : i \in 1..(n + 1) /\ F[i] = E[i]
  BY DEF StartsAs
<1>3. \A i \in 1..(n + 1) : Tells(F[i], "ReparentNotify", x) => r
  BY <1>1, <1>2 DEF ChildIsTold
<1>4. (\E i \in 1..n : Tells(E[i], "CreateNotify", x))
        => \E i \in 1..(n + 1) : Tells(F[i], "CreateNotify", x)
  BY <1>2
<1> QED
  BY <1>3, <1>4 DEF ChildIsTold

\* A child of the root is mapped.
LEMMA ToldMap ==
  ASSUME NEW E, NEW F, NEW n \in Nat, Len(E) = n, Len(F) = n + 1, StartsAs(E, F, n), NEW x,
         NEW o, NEW p, NEW k, NEW f, NEW q, NEW r, Told(E, x, o, k, f, q, r),
         Child(o), OnScreen(p), p.inputOnly = o.inputOnly, Tells(F[n + 1], "MapNotify", x)
  PROVE  Told(F, x, p, k, f, q, r)
<1>0. DestroyedInTurn(E, x, o, k) /\ ChildIsTold(E, x, o, k, f, q, r)
  BY DEF Told
<1>1. o.exists /\ Child(p) /\ p.exists
  BY DEF Child, OnScreen
<1>2. HiddenIsTold(F, x, p, k, f) /\ GoneIsTold(F, x, p, k, f)
  BY <1>1 DEF HiddenIsTold, GoneIsTold
<1>3. ~Tells(F[n + 1], "DestroyNotify", x) /\ ~Tells(F[n + 1], "ReparentNotify", x)
  BY DEF Tells
<1>4. DestroyedInTurn(F, x, p, k)
  BY <1>0, <1>1, <1>3, InTurnMore
<1>5. ChildIsTold(F, x, p, k, f, q, r)
  BY <1>0, <1>3, ChildMore
<1>6. ShownIsTold(F, x, p, k, f, q)
  BY ShownNow DEF ShownIsTold
<1> QED
  BY <1>2, <1>4, <1>5, <1>6 DEF Told

\* A mapped child of the root is unmapped.
LEMMA ToldUnmap ==
  ASSUME NEW E, NEW F, NEW n \in Nat, Len(E) = n, Len(F) = n + 1, StartsAs(E, F, n), NEW x,
         NEW o, NEW p, NEW k, NEW f, NEW q, NEW r, Told(E, x, o, k, f, q, r),
         Child(o), Child(p), ~OnScreen(p), p.inputOnly = o.inputOnly,
         Tells(F[n + 1], "UnmapNotify", x)
  PROVE  Told(F, x, p, k, f, q, r)
<1>0. DestroyedInTurn(E, x, o, k) /\ ChildIsTold(E, x, o, k, f, q, r)
  BY DEF Told
<1>1. o.exists /\ p.exists
  BY DEF Child
<1>2. Quiet(F, x, k, n + 1)
  BY HiddenNow DEF Quiet, TellsHidden
<1>3. HiddenIsTold(F, x, p, k, f) /\ GoneIsTold(F, x, p, k, f) /\ ShownIsTold(F, x, p, k, f, q)
  BY <1>2 DEF HiddenIsTold, GoneIsTold, ShownIsTold
<1>4. ~Tells(F[n + 1], "DestroyNotify", x) /\ ~Tells(F[n + 1], "ReparentNotify", x)
  BY DEF Tells
<1>5. DestroyedInTurn(F, x, p, k)
  BY <1>0, <1>1, <1>4, InTurnMore
<1>6. ChildIsTold(F, x, p, k, f, q, r)
  BY <1>0, <1>4, ChildMore
<1> QED
  BY <1>3, <1>5, <1>6 DEF Told

\* An unmapped child of the root is destroyed.
LEMMA ToldDestroy ==
  ASSUME NEW E, NEW F, NEW n \in Nat, Len(E) = n, Len(F) = n + 1, StartsAs(E, F, n), NEW x,
         NEW o, NEW p, NEW k, NEW f, NEW q, NEW r, Told(E, x, o, k, f, q, r),
         ~OnScreen(o), ~p.exists, Tells(F[n + 1], "DestroyNotify", x)
  PROVE  Told(F, x, p, k, f, q, r)
<1>0. /\ DestroyedInTurn(E, x, o, k) /\ ChildIsTold(E, x, o, k, f, q, r)
      /\ HiddenIsTold(E, x, o, k, f)
  BY DEF Told
<1>1. ~Child(p) /\ ~OnScreen(p)
  BY DEF Child, OnScreen
<1>2. ~Tells(F[n + 1], "MapNotify", x) /\ ~Tells(F[n + 1], "ReparentNotify", x)
  BY DEF Tells
<1>3. Quiet(E, x, k, n)
  BY <1>0 DEF HiddenIsTold
<1>4. HiddenIsTold(F, x, p, k, f)
  BY <1>2, <1>3, QuietMore DEF HiddenIsTold
<1>5. GoneIsTold(F, x, p, k, f)
  BY GoneNow DEF GoneIsTold, TellsGone
<1>6. ChildIsTold(F, x, p, k, f, q, r)
  BY <1>0, <1>1, <1>2, ChildMore
<1>7. ShownIsTold(F, x, p, k, f, q)
  BY <1>1 DEF ShownIsTold
<1>8. DestroyedInTurn(F, x, p, k)
  <2> SUFFICES ASSUME NEW i \in 1..(n + 1), Tells(F[i], "DestroyNotify", x)
               PROVE  Quiet(F, x, k, i - 1)
    BY DEF DestroyedInTurn
  <2>1. i - 1 \in 0..n /\ (i \in 1..n \/ i - 1 = n)
    OBVIOUS
  <2>2. Quiet(E, x, k, i - 1)
    BY <1>0, <1>3, <2>1 DEF DestroyedInTurn, StartsAs
  <2> QED
    BY <2>1, <2>2, QuietBegins
<1> QED
  BY <1>4, <1>5, <1>6, <1>7, <1>8 DEF Told

\* A window that is not a child of the root is destroyed.
LEMMA ToldDestroyAway ==
  ASSUME NEW E, NEW x, NEW o, NEW p, NEW k, NEW f, NEW q, NEW r,
         Told(E, x, o, k, f, q, r), ~Child(o), ~p.exists
  PROVE  Told(E, x, p, k, f, q, r)
<1>1. ~Child(p) /\ ~OnScreen(p) /\ ~OnScreen(o)
  BY DEF Child, OnScreen
<1> QED
  BY <1>1 DEF Told, HiddenIsTold, DestroyedInTurn, GoneIsTold, ChildIsTold, ShownIsTold

\* A child of the root leaves it.
LEMMA ToldLeave ==
  ASSUME NEW E, NEW F, NEW n \in Nat, Len(E) = n, Len(F) = n + 1, StartsAs(E, F, n), NEW x,
         NEW o, NEW p, NEW k, NEW f, NEW q, Told(E, x, o, k, f, q, TRUE),
         Child(o), ~Child(p), TellsLeft(F[n + 1], x)
  PROVE  Told(F, x, p, k, f, q, TRUE)
<1>0. DestroyedInTurn(E, x, o, k) /\ ChildIsTold(E, x, o, k, f, q, TRUE)
  BY DEF Told
<1>1. o.exists /\ ~OnScreen(p)
  BY DEF Child, OnScreen
<1>2. Hidden(F, x, n + 1) /\ Gone(F, x, n + 1)
  BY HiddenNow, GoneNow DEF TellsHidden, TellsGone
<1>3. HiddenIsTold(F, x, p, k, f) /\ GoneIsTold(F, x, p, k, f) /\ ShownIsTold(F, x, p, k, f, q)
  BY <1>1, <1>2 DEF HiddenIsTold, GoneIsTold, ShownIsTold, Quiet
<1>4. ~Tells(F[n + 1], "DestroyNotify", x)
  BY DEF TellsLeft, Tells
<1>5. DestroyedInTurn(F, x, p, k)
  BY <1>0, <1>1, <1>4, InTurnMore
<1>6. ChildIsTold(F, x, p, k, f, q, TRUE)
  BY <1>0, <1>1, ChildMore
<1> QED
  BY <1>3, <1>5, <1>6 DEF Told

\* A window becomes a child of the root, unmapped.
LEMMA ToldReturn ==
  ASSUME NEW E, NEW F, NEW n \in Nat, Len(E) = n, Len(F) = n + 1, StartsAs(E, F, n), NEW x,
         NEW o, NEW p, NEW k, NEW f, NEW q, Told(E, x, o, k, f, q, TRUE),
         o.exists, ~Child(o), Child(p), ~p.mapped, Tells(F[n + 1], "ReparentNotify", x)
  PROVE  Told(F, x, p, k, f, q, TRUE)
<1>0. /\ DestroyedInTurn(E, x, o, k) /\ ChildIsTold(E, x, o, k, f, q, TRUE)
      /\ HiddenIsTold(E, x, o, k, f)
  BY DEF Told
<1>1. ~OnScreen(p) /\ ~OnScreen(o)
  BY DEF Child, OnScreen
<1>2. ~Tells(F[n + 1], "DestroyNotify", x) /\ ~Tells(F[n + 1], "MapNotify", x)
  BY DEF Tells
<1>3. Quiet(F, x, k, n + 1)
  BY <1>0, <1>1, <1>2, QuietMore DEF HiddenIsTold
<1>4. HiddenIsTold(F, x, p, k, f) /\ GoneIsTold(F, x, p, k, f) /\ ShownIsTold(F, x, p, k, f, q)
  BY <1>1, <1>3 DEF HiddenIsTold, GoneIsTold, ShownIsTold
<1>5. DestroyedInTurn(F, x, p, k)
  BY <1>0, <1>2, InTurnMore
<1>6. ChildIsTold(F, x, p, k, f, q, TRUE)
  BY <1>0, ChildMore
<1> QED
  BY <1>4, <1>5, <1>6 DEF Told

\* A window is created with a fresh id.
LEMMA ToldCreate ==
  ASSUME NEW E, NEW F, NEW n \in Nat, Len(E) = n, Len(F) = n + 1, StartsAs(E, F, n), NEW x,
         NEW o, NEW p, NEW k, NEW f, NEW q, NEW r, Told(E, x, o, k, f, q, r),
         ~o.exists, Child(p), ~p.mapped, Tells(F[n + 1], "CreateNotify", x),
         \A i \in 1..n : E[i].window # x
  PROVE  Told(F, x, p, k, f, q, r)
<1>0. /\ DestroyedInTurn(E, x, o, k) /\ ChildIsTold(E, x, o, k, f, q, r)
      /\ HiddenIsTold(E, x, o, k, f)
  BY DEF Told
<1>1. ~OnScreen(p) /\ ~OnScreen(o)
  BY DEF Child, OnScreen
<1>2. ~Tells(F[n + 1], "DestroyNotify", x) /\ ~Tells(F[n + 1], "MapNotify", x)
  BY DEF Tells
<1>3. Quiet(F, x, k, n + 1)
  BY <1>0, <1>1, <1>2, QuietMore DEF HiddenIsTold
<1>4. HiddenIsTold(F, x, p, k, f) /\ GoneIsTold(F, x, p, k, f) /\ ShownIsTold(F, x, p, k, f, q)
  BY <1>1, <1>3 DEF HiddenIsTold, GoneIsTold, ShownIsTold, Child
<1>5. \A i \in 1..(n + 1) : i = n + 1 \/ F[i].window # x
  BY DEF StartsAs
<1>6. DestroyedInTurn(F, x, p, k)
  BY <1>2, <1>5 DEF DestroyedInTurn, Tells
<1>7. n + 1 \in 1..(n + 1)
  OBVIOUS
<1>8. ChildIsTold(F, x, p, k, f, q, r)
  BY <1>5, <1>7 DEF ChildIsTold, Tells
<1> QED
  BY <1>4, <1>6, <1>8 DEF Told

-----------------------------------------------------------------------------
(* What the events tell, when the first one is read and handled.           *)

\* F is E without the first element.
IsTail(E, F, n) == \A i \in 1..n : F[i] = E[i + 1]

\* The events after the first.
LEMMA TailIs ==
  ASSUME NEW E \in Seq(Events), E # <<>>
  PROVE  /\ Tail(E) \in Seq(Events) /\ Len(Tail(E)) \in Nat /\ Len(E) = Len(Tail(E)) + 1
         /\ IsTail(E, Tail(E), Len(Tail(E))) /\ Head(E) = E[1] /\ Head(E) \in Events
BY HeadTailProperties, LenProperties, EmptySeq DEF IsTail

\* Positions among the events after the first.
LEMMA AfterLess ==
  ASSUME NEW n \in Nat, NEW j \in 1..(n + 1), j # 1
  PROVE  /\ j - 1 \in 1..n /\ (j - 1) + 1 = j
         /\ \A i \in ((j - 1) + 1)..n : i + 1 \in (j + 1)..(n + 1) /\ i \in 1..n
OBVIOUS

\* None of the events told it, so none of those after the first does.
LEMMA NoneTellsLess ==
  ASSUME NEW E, NEW F, NEW n \in Nat, IsTail(E, F, n), NEW type, NEW x,
         NoneTells(E, type, x, 1, n + 1)
  PROVE  NoneTells(F, type, x, 1, n)
<1>1. \A i \in 1..n : i + 1 \in 1..(n + 1)
  OBVIOUS
<1> QED
  BY <1>1 DEF NoneTells, IsTail

\* None of the events hid it, so none of those after the first does.
LEMMA NoneHidesLess ==
  ASSUME NEW E, NEW F, NEW n \in Nat, IsTail(E, F, n), NEW x,
         NoneHides(E, x, 1, n + 1)
  PROVE  NoneHides(F, x, 1, n)
<1>1. \A i \in 1..n : i + 1 \in 1..(n + 1)
  OBVIOUS
<1> QED
  BY <1>1 DEF NoneHides, IsTail

\* Either an event after the first hides the window, or the first one does and none
\* of the others maps it.
LEMMA HiddenLess ==
  ASSUME NEW E, NEW F, NEW n \in Nat, IsTail(E, F, n), NEW x, Hidden(E, x, n + 1)
  PROVE  \/ Hidden(F, x, n)
         \/ TellsHidden(E[1], x) /\ NoneTells(F, "MapNotify", x, 1, n)
<1>1. PICK j \in 1..(n + 1) : TellsHidden(E[j], x) /\ NoneTells(E, "MapNotify", x, j + 1, n + 1)
  BY DEF Hidden
<1>2. CASE j = 1
  <2>1. \A i \in 1..n : i + 1 \in (1 + 1)..(n + 1)
    OBVIOUS
  <2> QED
    BY <1>1, <1>2, <2>1 DEF NoneTells, IsTail
<1>3. CASE j # 1
  <2>1. F[j - 1] = E[j] /\ j - 1 \in 1..n
    BY <1>3, AfterLess DEF IsTail
  <2>2. NoneTells(F, "MapNotify", x, (j - 1) + 1, n)
    BY <1>1, <1>3, AfterLess DEF NoneTells, IsTail
  <2> QED
    BY <1>1, <2>1, <2>2 DEF Hidden
<1> QED
  BY <1>2, <1>3

\* Either an event after the first tells of the window's end, or the first one does and
\* none of the others creates it.
LEMMA GoneLess ==
  ASSUME NEW E, NEW F, NEW n \in Nat, IsTail(E, F, n), NEW x, Gone(E, x, n + 1)
  PROVE  \/ Gone(F, x, n)
         \/ TellsGone(E[1], x) /\ NoneTells(F, "CreateNotify", x, 1, n)
<1>1. PICK j \in 1..(n + 1) : TellsGone(E[j], x) /\ NoneTells(E, "CreateNotify", x, j + 1, n + 1)
  BY DEF Gone
<1>2. CASE j = 1
  <2>1. \A i \in 1..n : i + 1 \in (1 + 1)..(n + 1)
    OBVIOUS
  <2> QED
    BY <1>1, <1>2, <2>1 DEF NoneTells, IsTail
<1>3. CASE j # 1
  <2>1. F[j - 1] = E[j] /\ j - 1 \in 1..n
    BY <1>3, AfterLess DEF IsTail
  <2>2. NoneTells(F, "CreateNotify", x, (j - 1) + 1, n)
    BY <1>1, <1>3, AfterLess DEF NoneTells, IsTail
  <2> QED
    BY <1>1, <2>1, <2>2 DEF Gone
<1> QED
  BY <1>2, <1>3

\* Either an event after the first tells that the window left, or the first one does and
\* none of the others creates it.
LEMMA LeftLess ==
  ASSUME NEW E, NEW F, NEW n \in Nat, IsTail(E, F, n), NEW x, Left(E, x, n + 1)
  PROVE  \/ Left(F, x, n)
         \/ TellsLeft(E[1], x) /\ NoneTells(F, "CreateNotify", x, 1, n)
<1>1. PICK j \in 1..(n + 1) : TellsLeft(E[j], x) /\ NoneTells(E, "CreateNotify", x, j + 1, n + 1)
  BY DEF Left
<1>2. CASE j = 1
  <2>1. \A i \in 1..n : i + 1 \in (1 + 1)..(n + 1)
    OBVIOUS
  <2> QED
    BY <1>1, <1>2, <2>1 DEF NoneTells, IsTail
<1>3. CASE j # 1
  <2>1. F[j - 1] = E[j] /\ j - 1 \in 1..n
    BY <1>3, AfterLess DEF IsTail
  <2>2. NoneTells(F, "CreateNotify", x, (j - 1) + 1, n)
    BY <1>1, <1>3, AfterLess DEF NoneTells, IsTail
  <2> QED
    BY <1>1, <2>1, <2>2 DEF Left
<1> QED
  BY <1>2, <1>3

\* Either an event after the first shows the window, or the first one does and none of
\* the others hides or creates it.
LEMMA ShownLess ==
  ASSUME NEW E, NEW F, NEW n \in Nat, IsTail(E, F, n), NEW x, Shown(E, x, n + 1)
  PROVE  \/ Shown(F, x, n)
         \/ /\ Tells(E[1], "MapNotify", x) /\ NoneHides(F, x, 1, n)
            /\ NoneTells(F, "CreateNotify", x, 1, n)
<1>1. PICK j \in 1..(n + 1) :
        /\ Tells(E[j], "MapNotify", x) /\ NoneHides(E, x, j + 1, n + 1)
        /\ NoneTells(E, "CreateNotify", x, j + 1, n + 1)
  BY DEF Shown
<1>2. CASE j = 1
  <2>1. \A i \in 1..n : i + 1 \in (1 + 1)..(n + 1)
    OBVIOUS
  <2> QED
    BY <1>1, <1>2, <2>1 DEF NoneTells, NoneHides, IsTail
<1>3. CASE j # 1
  <2>1. F[j - 1] = E[j] /\ j - 1 \in 1..n
    BY <1>3, AfterLess DEF IsTail
  <2>2. NoneTells(F, "CreateNotify", x, (j - 1) + 1, n)
    BY <1>1, <1>3, AfterLess DEF NoneTells, IsTail
  <2>3. NoneHides(F, x, (j - 1) + 1, n)
    BY <1>1, <1>3, AfterLess DEF NoneHides, IsTail
  <2> QED
    BY <1>1, <2>1, <2>2, <2>3 DEF Shown
<1> QED
  BY <1>2, <1>3

\* What the handler of an event e must make of the object k of a window x with the
\* attributes o: the object l.
Heard(e, x, o, k, l) ==
  /\ TellsHidden(e, x) => ~l.mapped
  /\ TellsGone(e, x) => ~l.tracked
  /\ Tells(e, "MapNotify", x) => (l.tracked => l.mapped)
  /\ Tells(e, "CreateNotify", x) /\ Child(o) /\ ~o.inputOnly => l.tracked
  /\ ~Tells(e, "MapNotify", x) /\ ~k.mapped => ~l.mapped
  /\ ~Tells(e, "CreateNotify", x) /\ ~k.tracked => ~l.tracked
  /\ k.tracked /\ ~TellsGone(e, x) => l.tracked
  /\ ~TellsHidden(e, x) /\ ~Tells(e, "CreateNotify", x) /\ (k.tracked => k.mapped)
       => (l.tracked => l.mapped)

\* Quiet before the n + 1st of the events is quiet before the nth of the others.
LEMMA QuietLess ==
  ASSUME NEW E, NEW F, NEW n \in Nat, IsTail(E, F, n), NEW x, NEW o, NEW k, NEW l,
         Quiet(E, x, k, n + 1), Heard(E[1], x, o, k, l)
  PROVE  Quiet(F, x, l, n)
<1>1. CASE Hidden(E, x, n + 1)
  BY <1>1, HiddenLess DEF Quiet, Heard
<1>2. CASE ~k.mapped /\ NoneTells(E, "MapNotify", x, 1, n + 1)
  <2>1. NoneTells(F, "MapNotify", x, 1, n)
    BY <1>2, NoneTellsLess
  <2>2. 1 \in 1..(n + 1)
    OBVIOUS
  <2>3. ~Tells(E[1], "MapNotify", x)
    BY <1>2, <2>2 DEF NoneTells
  <2> QED
    BY <1>2, <2>1, <2>3 DEF Quiet, Heard
<1> QED
  BY <1>1, <1>2 DEF Quiet

\* An event is read: what the others tell fits what its handler made of the object.
LEMMA ToldLess ==
  ASSUME NEW E, NEW F, NEW n \in Nat, Len(E) = n + 1, Len(F) = n, IsTail(E, F, n), NEW x,
         NEW o, NEW k, NEW l, NEW q, NEW r, Told(E, x, o, k, FALSE, q, r), ~q,
         Heard(E[1], x, o, k, l)
  PROVE  Told(F, x, o, l, FALSE, q, r)
<1>0. /\ HiddenIsTold(E, x, o, k, FALSE) /\ DestroyedInTurn(E, x, o, k)
      /\ GoneIsTold(E, x, o, k, FALSE)
      /\ ChildIsTold(E, x, o, k, FALSE, q, r) /\ ShownIsTold(E, x, o, k, FALSE, q)
  BY DEF Told
<1>1. 1 \in 1..(n + 1) /\ \A i \in 1..n : i + 1 \in 1..(n + 1) /\ (i + 1) - 1 = i /\ i - 1 \in Nat
  OBVIOUS
<1>2. HiddenIsTold(F, x, o, l, FALSE)
  BY <1>0, QuietLess DEF HiddenIsTold
<1>3. DestroyedInTurn(F, x, o, l)
  <2> SUFFICES ASSUME NEW i \in 1..n, Tells(F[i], "DestroyNotify", x)
               PROVE  ~o.exists /\ Quiet(F, x, l, i - 1)
    BY DEF DestroyedInTurn
  <2>1. ~o.exists /\ Quiet(E, x, k, (i + 1) - 1)
    BY <1>0, <1>1 DEF DestroyedInTurn, IsTail
  <2>2. i - 1 \in Nat /\ (i - 1) + 1 = (i + 1) - 1 /\ \A j \in 1..(i - 1) : j \in 1..n
    OBVIOUS
  <2>3. Quiet(E, x, k, (i - 1) + 1)
    BY <2>1, <2>2
  <2>4. IsTail(E, F, i - 1)
    BY <2>2 DEF IsTail
  <2> QED
    BY <2>1, <2>2, <2>3, <2>4, QuietLess
<1>4. ASSUME Unknown(E, x, k, n + 1) PROVE Unknown(F, x, l, n)
  <2>1. ~k.tracked /\ ~Tells(E[1], "CreateNotify", x) /\ NoneTells(F, "CreateNotify", x, 1, n)
    BY <1>1, <1>4, NoneTellsLess DEF Unknown, NoneTells
  <2> QED
    BY <2>1 DEF Unknown, Heard
<1>5. GoneIsTold(F, x, o, l, FALSE)
  <2>1. Gone(E, x, n + 1) => Gone(F, x, n) \/ Unknown(F, x, l, n)
    BY GoneLess DEF Unknown, Heard
  <2> QED
    BY <1>0, <1>4, <2>1 DEF GoneIsTold
<1>6. ChildIsTold(F, x, o, l, FALSE, q, r)
  <2>1. \A i \in 1..n : Tells(F[i], "ReparentNotify", x) => r
    BY <1>0, <1>1 DEF ChildIsTold, IsTail
  <2>2. SUFFICES ASSUME Child(o), ~o.inputOnly, ~r
                 PROVE  l.tracked \/ \E i \in 1..n : Tells(F[i], "CreateNotify", x)
    BY <2>1 DEF ChildIsTold
  <2>3. ~TellsGone(E[1], x)
    BY <1>0, <1>1, <2>2 DEF ChildIsTold, DestroyedInTurn, TellsGone, TellsLeft, Tells, Child
  <2>4. CASE k.tracked
    BY <2>3, <2>4 DEF Heard
  <2>5. CASE \E i \in 1..(n + 1) : Tells(E[i], "CreateNotify", x)
    <3>1. PICK i \in 1..(n + 1) : Tells(E[i], "CreateNotify", x)
      BY <2>5
    <3>2. CASE i = 1
      BY <2>2, <3>1, <3>2 DEF Heard
    <3>3. CASE i # 1
      BY <3>1, <3>3, AfterLess DEF IsTail
    <3> QED
      BY <3>2, <3>3
  <2> QED
    BY <1>0, <2>2, <2>4, <2>5 DEF ChildIsTold
<1>7. ShownIsTold(F, x, o, l, FALSE, q)
  <2>1. Shown(E, x, n + 1) => Shown(F, x, n) \/ Seen(F, x, l, n)
    BY ShownLess DEF Seen, Heard
  <2>2. ASSUME Seen(E, x, k, n + 1) PROVE Seen(F, x, l, n)
    <3>1. /\ k.tracked => k.mapped
          /\ ~TellsHidden(E[1], x) /\ ~Tells(E[1], "CreateNotify", x)
      BY <1>1, <2>2 DEF Seen, NoneHides, NoneTells
    <3>2. NoneHides(F, x, 1, n) /\ NoneTells(F, "CreateNotify", x, 1, n)
      BY <2>2, NoneHidesLess, NoneTellsLess DEF Seen
    <3> QED
      BY <3>1, <3>2 DEF Seen, Heard
  <2>3. Left(E, x, n + 1) => Left(F, x, n) \/ Unknown(F, x, l, n)
    BY LeftLess DEF Unknown, Heard, TellsGone
  <2> QED
    BY <1>0, <1>4, <2>1, <2>2, <2>3 DEF ShownIsTold
<1> QED
  BY <1>2, <1>3, <1>5, <1>6, <1>7 DEF Told

-----------------------------------------------------------------------------
(* What the events tell, while the window manager starts.                  *)

\* Before the first event nothing has been told, and nothing is known.
LEMMA ToldFirst ==
  ASSUME NEW E, Len(E) = 0, NEW x, NEW o, NEW k, ~k.tracked, ~k.mapped, NEW r
  PROVE  Told(E, x, o, k, FALSE, TRUE, r)
<1>1. \A i \in 1..0 : FALSE
  OBVIOUS
<1> QED
  BY <1>1
  DEF Told, HiddenIsTold, DestroyedInTurn, GoneIsTold, ChildIsTold, ShownIsTold, Quiet,
      NoneTells, NoneHides, Unknown, Seen

\* The query finds the children of the root.
LEMMA ToldQuery ==
  ASSUME NEW E, NEW x, NEW o, NEW k, NEW f, NEW r, Told(E, x, o, k, FALSE, TRUE, r), f <=> Child(o)
  PROVE  Told(E, x, o, k, f, FALSE, r)
BY DEF Told, HiddenIsTold, GoneIsTold, ChildIsTold, ShownIsTold

\* A window is taken over, or skipped if it is gone: it is mapped if the server says so.
LEMMA ToldManage ==
  ASSUME NEW E, NEW x, NEW o, NEW k, NEW l, NEW q, NEW r, Told(E, x, o, k, TRUE, q, r),
         ~k.tracked, ~k.mapped, l.mapped => o.exists /\ o.mapped,
         Child(o) /\ ~o.inputOnly => l.tracked,
         l.tracked /\ o.exists /\ o.mapped => l.mapped
  PROVE  Told(E, x, o, l, FALSE, q, r)
<1>0. /\ HiddenIsTold(E, x, o, k, TRUE) /\ DestroyedInTurn(E, x, o, k)
      /\ GoneIsTold(E, x, o, k, TRUE)
      /\ ChildIsTold(E, x, o, k, TRUE, q, r) /\ ShownIsTold(E, x, o, k, TRUE, q)
  BY DEF Told
<1>1. HiddenIsTold(E, x, o, l, FALSE)
  BY <1>0 DEF HiddenIsTold, Quiet, OnScreen
<1>2. DestroyedInTurn(E, x, o, l)
  BY <1>0 DEF DestroyedInTurn, Quiet
<1>3. GoneIsTold(E, x, o, l, FALSE) /\ ChildIsTold(E, x, o, l, FALSE, q, r)
  BY <1>0 DEF GoneIsTold, ChildIsTold
<1>4. ShownIsTold(E, x, o, l, FALSE, q)
  BY <1>0 DEF ShownIsTold, Seen, OnScreen, Child
<1> QED
  BY <1>1, <1>2, <1>3, <1>4 DEF Told

\* A window that is reparented is so from then on.
LEMMA ToldReparented ==
  ASSUME NEW E, NEW x, NEW o, NEW k, NEW f, NEW q, NEW r, Told(E, x, o, k, f, q, r)
  PROVE  Told(E, x, o, k, f, q, TRUE)
BY DEF Told, ChildIsTold

-----------------------------------------------------------------------------
(* The server.                                                             *)

\* An event is sent if the events were selected.
LEMMA SendIs ==
  ASSUME NEW s, DOMAIN s = ServerFields, NEW e
  PROVE  /\ DOMAIN Send(s, e) = ServerFields /\ Send(s, e).win = s.win
         /\ Send(s, e).order = s.order /\ Send(s, e).used = s.used
         /\ Send(s, e).selected = s.selected
         /\ Send(s, e).events = IF s.selected THEN Append(s.events, e) ELSE s.events
BY DEF Send, ServerFields

\* The events.
LEMMA EventsAre ==
  ASSUME NEW x \in Xids
  PROVE  /\ DestroyEvent(x) \in Events /\ MapEvent(x) \in Events /\ MapRequestEvent(x) \in Events
         /\ UnmapEvent(x) \in Events /\ FocusInEvent(x) \in Events
         /\ ReparentEvent(x, Root) \in Events /\ ReparentEvent(x, Elsewhere) \in Events
BY DEF DestroyEvent, MapEvent, MapRequestEvent, UnmapEvent, FocusInEvent, ReparentEvent, Events

\* One window changes, and an event tells of it.
LEMMA StepWithEvent ==
  ASSUME NEW s, NEW c, NEW fnd, NEW q, NEW rep, ServerInv(s, c, fnd, q, rep),
         NEW t, NEW x \in Xids, NEW e \in Events, e.window = x, x \in t.used,
         DOMAIN t = ServerFields, t.win \in [Xids -> Infos], IsStack(t.order),
         t.used \in SUBSET Xids, s.used \subseteq t.used, t.selected = s.selected,
         t.events = IF s.selected THEN Append(s.events, e) ELSE s.events,
         \A y \in Xids : y # x => t.win[y] = s.win[y],
         \A y \in Xids : Contains(t.order, y) <=> Child(t.win[y]),
         c[x].tracked /\ t.win[x].exists => ~t.win[x].inputOnly,
         s.selected => Told(Append(s.events, e), x, t.win[x], c[x], Contains(fnd, x), q, x \in rep)
  PROVE  ServerInv(t, c, fnd, q, rep)
<1>0. /\ IsServer(s)
      /\ \A y \in Xids : s.win[y].exists \/ c[y].tracked => y \in s.used
      /\ \A i \in 1..Len(s.events) : s.events[i].window \in s.used
      /\ ~s.selected => s.events = <<>>
      /\ \A y \in Xids : c[y].tracked /\ s.win[y].exists => ~s.win[y].inputOnly
      /\ s.selected => \A y \in Xids :
           Told(s.events, y, s.win[y], c[y], Contains(fnd, y), q, y \in rep)
  BY DEF ServerInv
<1>1. s.events \in Seq(Events) /\ s.selected \in BOOLEAN
  BY <1>0 DEF IsServer
<1> DEFINE E == s.events
           F == Append(s.events, e)
<1>2. /\ F \in Seq(Events) /\ Len(E) \in Nat /\ Len(F) = Len(E) + 1
      /\ StartsAs(E, F, Len(E)) /\ F[Len(E) + 1] = e
  BY <1>1, AppendIs
<1>3. t.events = IF s.selected THEN F ELSE E
  OBVIOUS
<1> HIDE DEF E, F
<1>4. IsServer(t)
  BY <1>1, <1>2, <1>3 DEF IsServer, E
<1>5. \A y \in Xids : t.win[y].exists \/ c[y].tracked => y \in t.used
  BY <1>0
<1>6. \A i \in 1..Len(t.events) : t.events[i].window \in t.used
  <2>1. CASE ~s.selected
    BY <1>0, <1>3, <2>1 DEF E
  <2>2. CASE s.selected
    <3>1. \A i \in 1..(Len(E) + 1) : i \in 1..Len(E) \/ i = Len(E) + 1
      BY <1>2
    <3>2. \A i \in 1..Len(E) : F[i] = E[i] /\ E[i].window \in t.used
      BY <1>0, <1>2 DEF StartsAs, E
    <3> QED
      BY <1>2, <1>3, <2>2, <3>1, <3>2
  <2> QED
    BY <2>1, <2>2
<1>7. \A y \in Xids : c[y].tracked /\ t.win[y].exists => ~t.win[y].inputOnly
  BY <1>0
<1>8. ASSUME s.selected, NEW y \in Xids, y # x
      PROVE  Told(F, y, t.win[y], c[y], Contains(fnd, y), q, y \in rep)
  <2>1. Told(E, y, s.win[y], c[y], Contains(fnd, y), q, y \in rep)
    BY <1>0, <1>8 DEF E
  <2>2. Alike(s.win[y], t.win[y])
    BY <1>8 DEF Alike
  <2>3. ~IsNews(F[Len(E) + 1], y) /\ ~Tells(F[Len(E) + 1], "ReparentNotify", y)
    BY <1>2, <1>8 DEF IsNews, Tells, TellsHidden, TellsGone, TellsLeft
  <2> QED
    BY <1>2, <2>1, <2>2, <2>3, ToldMore
<1>9. s.selected => Told(F, x, t.win[x], c[x], Contains(fnd, x), q, x \in rep)
  BY DEF F
<1>10. t.selected => \A y \in Xids :
         Told(t.events, y, t.win[y], c[y], Contains(fnd, y), q, y \in rep)
  BY <1>3, <1>8, <1>9
<1>11. ~t.selected => t.events = <<>>
  BY <1>0, <1>3 DEF E
<1> QED
  BY <1>4, <1>5, <1>6, <1>7, <1>10, <1>11 DEF ServerInv

\* One window changes, and no event tells of it.
LEMMA StepWithoutEvent ==
  ASSUME NEW s, NEW c, NEW fnd, NEW q, NEW rep, ServerInv(s, c, fnd, q, rep),
         NEW t, NEW x \in Xids, x \in s.used,
         DOMAIN t = ServerFields, t.win \in [Xids -> Infos], IsStack(t.order),
         t.used = s.used, t.selected = s.selected, t.events = s.events,
         \A y \in Xids : y # x => t.win[y] = s.win[y],
         \A y \in Xids : Contains(t.order, y) <=> Child(t.win[y]),
         c[x].tracked /\ t.win[x].exists => ~t.win[x].inputOnly,
         s.selected => Told(s.events, x, t.win[x], c[x], Contains(fnd, x), q, x \in rep)
  PROVE  ServerInv(t, c, fnd, q, rep)
<1>0. /\ IsServer(s)
      /\ \A y \in Xids : s.win[y].exists \/ c[y].tracked => y \in s.used
      /\ \A i \in 1..Len(s.events) : s.events[i].window \in s.used
      /\ ~s.selected => s.events = <<>>
      /\ \A y \in Xids : c[y].tracked /\ s.win[y].exists => ~s.win[y].inputOnly
      /\ s.selected => \A y \in Xids :
           Told(s.events, y, s.win[y], c[y], Contains(fnd, y), q, y \in rep)
  BY DEF ServerInv
<1>1. IsServer(t)
  BY <1>0 DEF IsServer
<1>2. \A y \in Xids : t.win[y].exists \/ c[y].tracked => y \in t.used
  BY <1>0
<1>3. \A y \in Xids : c[y].tracked /\ t.win[y].exists => ~t.win[y].inputOnly
  BY <1>0
<1>4. t.selected => \A y \in Xids :
         Told(t.events, y, t.win[y], c[y], Contains(fnd, y), q, y \in rep)
  BY <1>0
<1> QED
  BY <1>0, <1>1, <1>2, <1>3, <1>4 DEF ServerInv

\* What ServerInv says of one window.
LEMMA ServerHas ==
  ASSUME NEW s, NEW c, NEW fnd, NEW q, NEW rep, ServerInv(s, c, fnd, q, rep), NEW x \in Xids
  PROVE  /\ DOMAIN s = ServerFields /\ s.win \in [Xids -> Infos] /\ s.win[x] \in Infos
         /\ IsStack(s.order) /\ s.used \in SUBSET Xids /\ s.selected \in BOOLEAN
         /\ s.events \in Seq(Events)
         /\ \A y \in Xids : Contains(s.order, y) <=> Child(s.win[y])
         /\ s.win[x].exists => x \in s.used
         /\ c[x].tracked => x \in s.used
         /\ c[x].tracked /\ s.win[x].exists => ~s.win[x].inputOnly
         /\ s.selected => Told(s.events, x, s.win[x], c[x], Contains(fnd, x), q, x \in rep)
         /\ Exists(s, x) <=> s.win[x].exists
BY DEF ServerInv, IsServer, Exists

\* The windows with one of them mapped or unmapped.
MappedAs(w, x, b) == [w EXCEPT ![x].mapped = b]

\* A window that is mapped or unmapped keeps its other attributes.
LEMMA MappedIs ==
  ASSUME NEW w \in [Xids -> Infos], NEW x \in Xids, NEW b \in BOOLEAN
  PROVE  /\ MappedAs(w, x, b) \in [Xids -> Infos]
         /\ \A y \in Xids : y # x => MappedAs(w, x, b)[y] = w[y]
         /\ MappedAs(w, x, b)[x].exists = w[x].exists
         /\ MappedAs(w, x, b)[x].parent = w[x].parent
         /\ MappedAs(w, x, b)[x].inputOnly = w[x].inputOnly
         /\ MappedAs(w, x, b)[x].mapped = b
<1> DEFINE o == w[x]
           p == [o EXCEPT !.mapped = b]
<1>1. o \in Infos
  OBVIOUS
<1> HIDE DEF o
<1>2. p \in Infos /\ p.exists = o.exists /\ p.parent = o.parent /\ p.inputOnly = o.inputOnly
      /\ p.mapped = b
  BY <1>1 DEF Infos
<1>3. MappedAs(w, x, b) = [w EXCEPT ![x] = p]
  BY DEF MappedAs, o
<1> HIDE DEF p
<1> QED
  BY <1>2, <1>3 DEF o

\* An event that is no news is sent.
LEMMA SendKeeps ==
  ASSUME NEW s, NEW c, NEW fnd, NEW q, NEW rep, ServerInv(s, c, fnd, q, rep),
         NEW x \in Xids, x \in s.used, NEW e \in Events, e.window = x,
         ~IsNews(e, x), ~Tells(e, "ReparentNotify", x)
  PROVE  /\ ServerInv(Send(s, e), c, fnd, q, rep)
         /\ Send(s, e).selected = s.selected /\ Send(s, e).used = s.used
         /\ Send(s, e).win = s.win
<1> DEFINE t == Send(s, e)
<1>1. /\ DOMAIN s = ServerFields /\ s.win \in [Xids -> Infos]
      /\ IsStack(s.order) /\ s.used \in SUBSET Xids /\ s.events \in Seq(Events)
      /\ \A y \in Xids : Contains(s.order, y) <=> Child(s.win[y])
      /\ c[x].tracked /\ s.win[x].exists => ~s.win[x].inputOnly
      /\ s.selected => Told(s.events, x, s.win[x], c[x], Contains(fnd, x), q, x \in rep)
  BY ServerHas
<1>2. /\ DOMAIN t = ServerFields /\ t.win = s.win
      /\ t.order = s.order /\ t.used = s.used /\ t.selected = s.selected
      /\ t.events = IF s.selected THEN Append(s.events, e) ELSE s.events
  BY <1>1, SendIs
<1> HIDE DEF t
<1>3. ASSUME s.selected
      PROVE  Told(Append(s.events, e), x, s.win[x], c[x], Contains(fnd, x), q, x \in rep)
  <2> DEFINE E == s.events
             F == Append(s.events, e)
  <2>1. Alike(s.win[x], s.win[x])
    BY DEF Alike
  <2>2. /\ Len(E) \in Nat /\ Len(F) = Len(E) + 1 /\ StartsAs(E, F, Len(E)) /\ F[Len(E) + 1] = e
    BY <1>1, AppendIs
  <2>3. Told(E, x, s.win[x], c[x], Contains(fnd, x), q, x \in rep)
    BY <1>1, <1>3
  <2> HIDE DEF E, F
  <2>4. Told(F, x, s.win[x], c[x], Contains(fnd, x), q, x \in rep)
    BY <2>1, <2>2, <2>3, ToldMore
  <2> QED
    BY <2>4 DEF F
<1>4. ServerInv(t, c, fnd, q, rep)
  BY <1>1, <1>2, <1>3, StepWithEvent
<1> QED
  BY <1>2, <1>4 DEF t

\* The server maps a window.
LEMMA MapsKeeps ==
  ASSUME NEW s, NEW c, NEW fnd, NEW q, NEW rep, ServerInv(s, c, fnd, q, rep), NEW x \in Xids
  PROVE  /\ ServerInv(Maps(s, x), c, fnd, q, rep)
         /\ Maps(s, x).selected = s.selected /\ Maps(s, x).used = s.used
<1> DEFINE m == [s EXCEPT !.win[x].mapped = TRUE]
           t == Send(m, MapEvent(x))
<1>1. /\ DOMAIN s = ServerFields /\ s.win \in [Xids -> Infos] /\ s.win[x] \in Infos
      /\ IsStack(s.order) /\ s.used \in SUBSET Xids /\ s.events \in Seq(Events)
      /\ \A y \in Xids : Contains(s.order, y) <=> Child(s.win[y])
      /\ s.win[x].exists => x \in s.used
      /\ c[x].tracked /\ s.win[x].exists => ~s.win[x].inputOnly
      /\ s.selected => Told(s.events, x, s.win[x], c[x], Contains(fnd, x), q, x \in rep)
      /\ Exists(s, x) <=> s.win[x].exists
  BY ServerHas
<1>2. CASE ~Exists(s, x) \/ s.win[x].mapped
  BY <1>2 DEF Maps
<1>3. CASE Exists(s, x) /\ ~s.win[x].mapped
  <2>1. /\ DOMAIN m = ServerFields /\ m.order = s.order /\ m.used = s.used
        /\ m.selected = s.selected /\ m.events = s.events
        /\ m.win = MappedAs(s.win, x, TRUE)
    BY <1>1 DEF ServerFields, MappedAs
  <2>2. Maps(s, x) = IF s.win[x].parent = Root THEN t ELSE m
    BY <1>3 DEF Maps, MapWindow
  <2> HIDE DEF m
  <2>3. /\ m.win \in [Xids -> Infos]
        /\ \A y \in Xids : y # x => m.win[y] = s.win[y]
        /\ m.win[x].exists = s.win[x].exists /\ m.win[x].parent = s.win[x].parent
        /\ m.win[x].inputOnly = s.win[x].inputOnly /\ m.win[x].mapped
    <3> DEFINE v == MappedAs(s.win, x, TRUE)
    <3>1. s.win \in [Xids -> Infos] /\ TRUE \in BOOLEAN /\ m.win = v
      BY <1>1, <2>1
    <3>2. /\ v \in [Xids -> Infos] /\ \A y \in Xids : y # x => v[y] = s.win[y]
          /\ v[x].exists = s.win[x].exists /\ v[x].parent = s.win[x].parent
          /\ v[x].inputOnly = s.win[x].inputOnly /\ v[x].mapped = TRUE
      BY <3>1, MappedIs, Zenon
    <3> HIDE DEF v
    <3> QED
      BY <3>1, <3>2
  <2>4. \A y \in Xids : Child(m.win[y]) <=> Child(s.win[y])
    BY <2>3 DEF Child
  <2>5. CASE s.win[x].parent # Root
    <3>1. Alike(s.win[x], m.win[x])
      BY <2>3, <2>5 DEF Alike, Child, OnScreen
    <3>2. s.selected => Told(s.events, x, m.win[x], c[x], Contains(fnd, x), q, x \in rep)
      BY <1>1, <3>1, ToldAlike
    <3>3. ServerInv(m, c, fnd, q, rep)
      <4>1. /\ c[x].tracked /\ m.win[x].exists => ~m.win[x].inputOnly
            /\ \A y \in Xids : Contains(m.order, y) <=> Child(m.win[y])
            /\ x \in s.used
        BY <1>1, <1>3, <2>1, <2>3, <2>4
      <4> QED
        BY <1>1, <2>1, <2>3, <3>2, <4>1, StepWithoutEvent, ZenonT(40)
    <3> QED
      BY <2>1, <2>2, <2>5, <3>3
  <2>6. CASE s.win[x].parent = Root
    <3>0. MapEvent(x) \in Events /\ MapEvent(x).window = x /\ Tells(MapEvent(x), "MapNotify", x)
      BY EventsAre DEF MapEvent, Tells
    <3>1. /\ DOMAIN t = ServerFields /\ t.win = m.win
          /\ t.order = s.order /\ t.used = s.used /\ t.selected = s.selected
          /\ t.events = IF s.selected THEN Append(s.events, MapEvent(x)) ELSE s.events
      <4>1. /\ DOMAIN t = ServerFields /\ t.win = m.win
            /\ t.order = m.order /\ t.used = m.used /\ t.selected = m.selected
            /\ t.events = IF m.selected THEN Append(m.events, MapEvent(x)) ELSE m.events
        BY <2>1, SendIs, Zenon
      <4> HIDE DEF t
      <4> QED
        BY <2>1, <4>1
    <3> HIDE DEF t
    <3>2. Child(s.win[x]) /\ OnScreen(m.win[x])
      BY <1>1, <1>3, <2>3, <2>6 DEF Child, OnScreen
    <3>3. ASSUME s.selected
          PROVE  Told(Append(s.events, MapEvent(x)), x, m.win[x], c[x], Contains(fnd, x), q, x \in rep)
      <4> DEFINE E == s.events
                 F == Append(s.events, MapEvent(x))
      <4>1. /\ Len(E) \in Nat /\ Len(F) = Len(E) + 1 /\ StartsAs(E, F, Len(E))
            /\ F[Len(E) + 1] = MapEvent(x)
        BY <1>1, <3>0, AppendIs
      <4>2. Told(E, x, s.win[x], c[x], Contains(fnd, x), q, x \in rep)
        BY <1>1, <3>3
      <4> HIDE DEF E, F
      <4>3. Told(F, x, m.win[x], c[x], Contains(fnd, x), q, x \in rep)
        BY <2>3, <3>0, <3>2, <4>1, <4>2, ToldMap
      <4> QED
        BY <4>3 DEF F
    <3>4. c[x].tracked /\ m.win[x].exists => ~m.win[x].inputOnly
      BY <1>1, <2>3
    <3>5. x \in t.used /\ s.used \subseteq t.used
      BY <1>1, <1>3, <3>1
    <3>6. ServerInv(t, c, fnd, q, rep)
      BY <1>1, <2>3, <2>4, <3>0, <3>1, <3>3, <3>4, <3>5, StepWithEvent
    <3> QED
      BY <2>2, <2>6, <3>1, <3>6
  <2> QED
    BY <2>5, <2>6
<1> QED
  BY <1>2, <1>3

\* The server unmaps a window.
LEMMA UnmapsKeeps ==
  ASSUME NEW s, NEW c, NEW fnd, NEW q, NEW rep, ServerInv(s, c, fnd, q, rep), NEW x \in Xids,
         s.win[x].exists
  PROVE  /\ ServerInv(Unmaps(s, x), c, fnd, q, rep)
         /\ Unmaps(s, x).selected = s.selected /\ Unmaps(s, x).used = s.used
         /\ Unmaps(s, x).win[x].exists = s.win[x].exists
         /\ Unmaps(s, x).win[x].parent = s.win[x].parent
         /\ ~Unmaps(s, x).win[x].mapped
<1> DEFINE m == [s EXCEPT !.win[x].mapped = FALSE, !.focused = IF @ = x THEN None ELSE @]
           t == Send(m, UnmapEvent(x))
<1>1. /\ DOMAIN s = ServerFields /\ s.win \in [Xids -> Infos] /\ s.win[x] \in Infos
      /\ IsStack(s.order) /\ s.used \in SUBSET Xids /\ s.events \in Seq(Events)
      /\ \A y \in Xids : Contains(s.order, y) <=> Child(s.win[y])
      /\ s.win[x].exists => x \in s.used
      /\ c[x].tracked /\ s.win[x].exists => ~s.win[x].inputOnly
      /\ s.selected => Told(s.events, x, s.win[x], c[x], Contains(fnd, x), q, x \in rep)
      /\ Exists(s, x) <=> s.win[x].exists
  BY ServerHas
<1>3. CASE Exists(s, x)
  <2>1. /\ DOMAIN m = ServerFields /\ m.order = s.order /\ m.used = s.used
        /\ m.selected = s.selected /\ m.events = s.events
        /\ m.win = MappedAs(s.win, x, FALSE)
    BY <1>1 DEF ServerFields, MappedAs
  <2>2. Unmaps(s, x) = IF s.win[x].mapped /\ s.win[x].parent = Root THEN t ELSE m
    BY <1>3 DEF Unmaps, UnmapWindow
  <2> HIDE DEF m
  <2>3. /\ m.win \in [Xids -> Infos]
        /\ \A y \in Xids : y # x => m.win[y] = s.win[y]
        /\ m.win[x].exists = s.win[x].exists /\ m.win[x].parent = s.win[x].parent
        /\ m.win[x].inputOnly = s.win[x].inputOnly /\ ~m.win[x].mapped
    <3> DEFINE v == MappedAs(s.win, x, FALSE)
    <3>1. s.win \in [Xids -> Infos] /\ FALSE \in BOOLEAN /\ m.win = v
      BY <1>1, <2>1
    <3>2. /\ v \in [Xids -> Infos] /\ \A y \in Xids : y # x => v[y] = s.win[y]
          /\ v[x].exists = s.win[x].exists /\ v[x].parent = s.win[x].parent
          /\ v[x].inputOnly = s.win[x].inputOnly /\ v[x].mapped = FALSE
      BY <3>1, MappedIs, Zenon
    <3> HIDE DEF v
    <3> QED
      BY <3>1, <3>2
  <2>4. \A y \in Xids : Child(m.win[y]) <=> Child(s.win[y])
    BY <2>3 DEF Child
  <2>5. CASE ~(s.win[x].mapped /\ s.win[x].parent = Root)
    <3>1. Alike(s.win[x], m.win[x])
      BY <2>3, <2>5 DEF Alike, Child, OnScreen
    <3>2. s.selected => Told(s.events, x, m.win[x], c[x], Contains(fnd, x), q, x \in rep)
      BY <1>1, <3>1, ToldAlike
    <3>3. ServerInv(m, c, fnd, q, rep)
      <4>1. /\ c[x].tracked /\ m.win[x].exists => ~m.win[x].inputOnly
            /\ \A y \in Xids : Contains(m.order, y) <=> Child(m.win[y])
            /\ x \in s.used
        BY <1>1, <1>3, <2>1, <2>3, <2>4
      <4> QED
        BY <1>1, <2>1, <2>3, <3>2, <4>1, StepWithoutEvent, ZenonT(40)
    <3> QED
      BY <2>1, <2>2, <2>3, <2>5, <3>3
  <2>6. CASE s.win[x].mapped /\ s.win[x].parent = Root
    <3>0. UnmapEvent(x) \in Events /\ UnmapEvent(x).window = x /\ Tells(UnmapEvent(x), "UnmapNotify", x)
      BY EventsAre DEF UnmapEvent, Tells
    <3>1. /\ DOMAIN t = ServerFields /\ t.win = m.win
          /\ t.order = s.order /\ t.used = s.used /\ t.selected = s.selected
          /\ t.events = IF s.selected THEN Append(s.events, UnmapEvent(x)) ELSE s.events
      <4>1. /\ DOMAIN t = ServerFields /\ t.win = m.win
            /\ t.order = m.order /\ t.used = m.used /\ t.selected = m.selected
            /\ t.events = IF m.selected THEN Append(m.events, UnmapEvent(x)) ELSE m.events
        BY <2>1, SendIs, Zenon
      <4> HIDE DEF t
      <4> QED
        BY <2>1, <4>1
    <3> HIDE DEF t
    <3>2. Child(s.win[x]) /\ Child(m.win[x]) /\ ~OnScreen(m.win[x])
      BY <1>1, <1>3, <2>3, <2>6 DEF Child, OnScreen
    <3>3. ASSUME s.selected
          PROVE  Told(Append(s.events, UnmapEvent(x)), x, m.win[x], c[x], Contains(fnd, x), q, x \in rep)
      <4> DEFINE E == s.events
                 F == Append(s.events, UnmapEvent(x))
      <4>1. /\ Len(E) \in Nat /\ Len(F) = Len(E) + 1 /\ StartsAs(E, F, Len(E))
            /\ F[Len(E) + 1] = UnmapEvent(x)
        BY <1>1, <3>0, AppendIs
      <4>2. Told(E, x, s.win[x], c[x], Contains(fnd, x), q, x \in rep)
        BY <1>1, <3>3
      <4> HIDE DEF E, F
      <4>3. Told(F, x, m.win[x], c[x], Contains(fnd, x), q, x \in rep)
        BY <2>3, <3>0, <3>2, <4>1, <4>2, ToldUnmap
      <4> QED
        BY <4>3 DEF F
    <3>4. c[x].tracked /\ m.win[x].exists => ~m.win[x].inputOnly
      BY <1>1, <2>3
    <3>5. x \in t.used /\ s.used \subseteq t.used
      BY <1>1, <1>3, <3>1
    <3>6. ServerInv(t, c, fnd, q, rep)
      BY <1>1, <2>3, <2>4, <3>0, <3>1, <3>3, <3>4, <3>5, StepWithEvent
    <3> QED
      BY <2>2, <2>3, <2>6, <3>1, <3>6
  <2> QED
    BY <2>5, <2>6
<1> QED
  BY <1>1, <1>3

\* The windows with new attributes for one of them.
PutInfo(w, x, p) == [w EXCEPT ![x] = p]

\* The other windows keep their attributes.
LEMMA PutInfoIs ==
  ASSUME NEW w \in [Xids -> Infos], NEW x \in Xids, NEW p \in Infos
  PROVE  /\ PutInfo(w, x, p) \in [Xids -> Infos] /\ PutInfo(w, x, p)[x] = p
         /\ \A y \in Xids : y # x => PutInfo(w, x, p)[y] = w[y]
BY DEF PutInfo

\* An unmapped window is destroyed.
LEMMA DestroyKeeps ==
  ASSUME NEW s, NEW c, NEW fnd, NEW q, NEW rep, ServerInv(s, c, fnd, q, rep), NEW x \in Xids,
         s.win[x].exists, ~s.win[x].mapped
  PROVE  /\ s.win[x].parent # Root => ServerInv(DestroyWindow(s, x), c, fnd, q, rep)
         /\ s.win[x].parent = Root => ServerInv(Send(DestroyWindow(s, x), DestroyEvent(x)), c, fnd, q, rep)
         /\ DestroyWindow(s, x).selected = s.selected /\ DestroyWindow(s, x).used = s.used
         /\ Send(DestroyWindow(s, x), DestroyEvent(x)).selected = s.selected
         /\ Send(DestroyWindow(s, x), DestroyEvent(x)).used = s.used
<1> DEFINE p == [NoWindow EXCEPT !.override = s.win[x].override]
           m == DestroyWindow(s, x)
           t == Send(m, DestroyEvent(x))
<1>1. /\ DOMAIN s = ServerFields /\ s.win \in [Xids -> Infos] /\ s.win[x] \in Infos
      /\ IsStack(s.order) /\ s.used \in SUBSET Xids /\ s.events \in Seq(Events)
      /\ \A y \in Xids : Contains(s.order, y) <=> Child(s.win[y])
      /\ x \in s.used
      /\ s.selected => Told(s.events, x, s.win[x], c[x], Contains(fnd, x), q, x \in rep)
      /\ Exists(s, x)
  BY ServerHas
<1>2. p \in Infos /\ ~p.exists
  BY <1>1 DEF NoWindow, Infos
<1>3. m = [s EXCEPT !.win[x] = p, !.order = TakeOut(@, x), !.focused = IF @ = x THEN None ELSE @]
  BY <1>1 DEF DestroyWindow
<1> HIDE DEF p, m
<1>4. /\ DOMAIN m = ServerFields /\ m.win = PutInfo(s.win, x, p) /\ m.order = TakeOut(s.order, x)
      /\ m.used = s.used /\ m.selected = s.selected /\ m.events = s.events
  BY <1>1, <1>3 DEF ServerFields, PutInfo
<1>5. /\ m.win \in [Xids -> Infos] /\ m.win[x] = p
      /\ \A y \in Xids : y # x => m.win[y] = s.win[y]
  BY <1>1, <1>2, <1>4, PutInfoIs
<1>6. IsStack(m.order) /\ \A y \in Xids : Contains(m.order, y) <=> Contains(s.order, y) /\ y # x
  BY <1>1, <1>4, TakeOutIs
<1>7. \A y \in Xids : Contains(m.order, y) <=> Child(m.win[y])
  BY <1>1, <1>2, <1>5, <1>6 DEF Child
<1>8. c[x].tracked /\ m.win[x].exists => ~m.win[x].inputOnly
  BY <1>2, <1>5
<1>9. ~OnScreen(s.win[x]) /\ ~m.win[x].exists
  BY <1>2, <1>5 DEF OnScreen
<1>10. ASSUME s.win[x].parent # Root PROVE ServerInv(m, c, fnd, q, rep)
  <2>1. ~Child(s.win[x])
    BY <1>10 DEF Child
  <2>2. s.selected => Told(s.events, x, m.win[x], c[x], Contains(fnd, x), q, x \in rep)
    BY <1>1, <1>9, <2>1, ToldDestroyAway
  <2> QED
    BY <1>1, <1>4, <1>5, <1>6, <1>7, <1>8, <2>2, StepWithoutEvent, ZenonT(40)
<1>11. DestroyEvent(x) \in Events /\ DestroyEvent(x).window = x
       /\ Tells(DestroyEvent(x), "DestroyNotify", x)
  BY EventsAre DEF DestroyEvent, Tells
<1>12. /\ DOMAIN t = ServerFields /\ t.win = m.win
       /\ t.order = m.order /\ t.used = s.used /\ t.selected = s.selected
       /\ t.events = IF s.selected THEN Append(s.events, DestroyEvent(x)) ELSE s.events
  <2>1. /\ DOMAIN t = ServerFields /\ t.win = m.win
        /\ t.order = m.order /\ t.used = m.used /\ t.selected = m.selected
        /\ t.events = IF m.selected THEN Append(m.events, DestroyEvent(x)) ELSE m.events
    BY <1>4, SendIs, Zenon
  <2> HIDE DEF t
  <2> QED
    BY <1>4, <2>1
<1> HIDE DEF t
<1>13. ServerInv(t, c, fnd, q, rep)
  <2>1. ASSUME s.selected
        PROVE  Told(Append(s.events, DestroyEvent(x)), x, m.win[x], c[x], Contains(fnd, x), q, x \in rep)
    <3> DEFINE E == s.events
               F == Append(s.events, DestroyEvent(x))
    <3>1. /\ Len(E) \in Nat /\ Len(F) = Len(E) + 1 /\ StartsAs(E, F, Len(E))
          /\ F[Len(E) + 1] = DestroyEvent(x)
      BY <1>1, <1>11, AppendIs
    <3>2. Told(E, x, s.win[x], c[x], Contains(fnd, x), q, x \in rep)
      BY <1>1, <2>1
    <3> HIDE DEF E, F
    <3>3. Told(F, x, m.win[x], c[x], Contains(fnd, x), q, x \in rep)
      BY <1>9, <1>11, <3>1, <3>2, ToldDestroy
    <3> QED
      BY <3>3 DEF F
  <2>2. x \in t.used /\ s.used \subseteq t.used
    BY <1>1, <1>12
  <2> QED
    BY <1>1, <1>5, <1>6, <1>7, <1>8, <1>11, <1>12, <2>1, <2>2, StepWithEvent
<1> QED
  BY <1>4, <1>10, <1>12, <1>13 DEF m, t

\* XDestroyWindow().
LEMMA DestroysKeeps ==
  ASSUME NEW s, NEW c, NEW fnd, NEW q, NEW rep, ServerInv(s, c, fnd, q, rep), NEW x \in Xids,
         s.win[x].exists
  PROVE  /\ ServerInv(Destroys(s, x), c, fnd, q, rep)
         /\ Destroys(s, x).selected = s.selected /\ Destroys(s, x).used = s.used
<1> DEFINE u == Unmaps(s, x)
<1>1. /\ ServerInv(u, c, fnd, q, rep) /\ u.selected = s.selected /\ u.used = s.used
      /\ u.win[x].exists /\ u.win[x].parent = s.win[x].parent /\ ~u.win[x].mapped
  BY UnmapsKeeps
<1>2. Destroys(s, x) = IF s.win[x].parent = Root THEN Send(DestroyWindow(u, x), DestroyEvent(x))
                       ELSE DestroyWindow(u, x)
  BY DEF Destroys
<1> HIDE DEF u
<1>3. /\ u.win[x].parent # Root => ServerInv(DestroyWindow(u, x), c, fnd, q, rep)
      /\ u.win[x].parent = Root => ServerInv(Send(DestroyWindow(u, x), DestroyEvent(x)), c, fnd, q, rep)
      /\ DestroyWindow(u, x).selected = u.selected /\ DestroyWindow(u, x).used = u.used
      /\ Send(DestroyWindow(u, x), DestroyEvent(x)).selected = u.selected
      /\ Send(DestroyWindow(u, x), DestroyEvent(x)).used = u.used
  BY <1>1, DestroyKeeps
<1>4. CASE s.win[x].parent = Root
  BY <1>1, <1>2, <1>3, <1>4
<1>5. CASE s.win[x].parent # Root
  BY <1>1, <1>2, <1>3, <1>5
<1> QED
  BY <1>4, <1>5

\* XCreateWindow() with a fresh id.
LEMMA CreateKeeps ==
  ASSUME NEW s, NEW c, NEW fnd, NEW q, NEW rep, ServerInv(s, c, fnd, q, rep), NEW x \in Xids,
         x \notin s.used, NEW override \in BOOLEAN, NEW inputOnly \in BOOLEAN, NEW m, NEW t,
         m = CreateWindow(s, x, override, inputOnly), t = Send(m, CreateEvent(m, x))
  PROVE  /\ ServerInv(t, c, fnd, q, rep) /\ t.selected = s.selected /\ s.used \subseteq t.used
<1> DEFINE p == WindowInfo(Root, override, inputOnly)
           e == CreateEvent(m, x)
<1>1. /\ DOMAIN s = ServerFields /\ s.win \in [Xids -> Infos] /\ s.win[x] \in Infos
      /\ IsStack(s.order) /\ s.used \in SUBSET Xids /\ s.events \in Seq(Events)
      /\ \A y \in Xids : Contains(s.order, y) <=> Child(s.win[y])
      /\ ~s.win[x].exists /\ ~c[x].tracked
      /\ s.selected => Told(s.events, x, s.win[x], c[x], Contains(fnd, x), q, x \in rep)
  BY ServerHas
<1>2. p \in Infos /\ p.exists /\ p.parent = Root /\ ~p.mapped /\ p.override = override
  BY DEF WindowInfo, NoWindow, Infos
<1> HIDE DEF p
<1>4. /\ DOMAIN m = ServerFields /\ m.win = PutInfo(s.win, x, p) /\ m.order = AddOnTop(s.order, x)
      /\ m.used = s.used \cup {x} /\ m.selected = s.selected /\ m.events = s.events
  BY <1>1 DEF ServerFields, PutInfo, CreateWindow, p
<1>5. /\ m.win \in [Xids -> Infos] /\ m.win[x] = p
      /\ \A y \in Xids : y # x => m.win[y] = s.win[y]
  BY <1>1, <1>2, <1>4, PutInfoIs
<1>6. IsStack(m.order) /\ \A y \in Xids : Contains(m.order, y) <=> Contains(s.order, y) \/ y = x
  BY <1>1, <1>4, AddOnTopIs
<1>7. \A y \in Xids : Contains(m.order, y) <=> Child(m.win[y])
  BY <1>1, <1>2, <1>5, <1>6 DEF Child
<1>8. c[x].tracked /\ m.win[x].exists => ~m.win[x].inputOnly
  BY <1>1
<1>9. Child(m.win[x]) /\ ~m.win[x].mapped
  BY <1>2, <1>5 DEF Child
<1>10. e \in Events /\ e.window = x /\ Tells(e, "CreateNotify", x)
  <2>1. e = [type |-> "CreateNotify", window |-> x, parent |-> Root, override |-> override]
    BY <1>2, <1>5 DEF CreateEvent
  <2> HIDE DEF e
  <2> QED
    BY <2>1 DEF Events, Tells
<1> HIDE DEF e
<1>12. /\ DOMAIN t = ServerFields /\ t.win = m.win
       /\ t.order = m.order /\ t.used = m.used /\ t.selected = s.selected
       /\ t.events = IF s.selected THEN Append(s.events, e) ELSE s.events
  <2>1. /\ DOMAIN t = ServerFields /\ t.win = m.win
        /\ t.order = m.order /\ t.used = m.used /\ t.selected = m.selected
        /\ t.events = IF m.selected THEN Append(m.events, e) ELSE m.events
    <3>1. t = Send(m, e)
      BY DEF e
    <3>2. /\ DOMAIN Send(m, e) = ServerFields /\ Send(m, e).win = m.win
          /\ Send(m, e).order = m.order /\ Send(m, e).used = m.used
          /\ Send(m, e).selected = m.selected
          /\ Send(m, e).events = IF m.selected THEN Append(m.events, e) ELSE m.events
      BY <1>4, SendIs, Zenon
    <3> QED
      BY <3>1, <3>2
  <2> QED
    BY <1>4, <2>1
<1>13. ServerInv(t, c, fnd, q, rep)
  <2>1. ASSUME s.selected
        PROVE  Told(Append(s.events, e), x, m.win[x], c[x], Contains(fnd, x), q, x \in rep)
    <3> DEFINE E == s.events
               F == Append(s.events, e)
    <3>1. /\ Len(E) \in Nat /\ Len(F) = Len(E) + 1 /\ StartsAs(E, F, Len(E))
          /\ F[Len(E) + 1] = e
      BY <1>1, <1>10, AppendIs
    <3>2. Told(E, x, s.win[x], c[x], Contains(fnd, x), q, x \in rep)
      BY <1>1, <2>1
    <3>3. \A i \in 1..Len(E) : E[i].window # x
      <4>1. \A i \in 1..Len(s.events) : s.events[i].window \in s.used
        BY DEF ServerInv
      <4> QED
        BY <4>1
    <3> HIDE DEF E, F
    <3>4. Told(F, x, m.win[x], c[x], Contains(fnd, x), q, x \in rep)
      BY <1>1, <1>9, <1>10, <3>1, <3>2, <3>3, ToldCreate
    <3> QED
      BY <3>4 DEF F
  <2>2. x \in t.used /\ s.used \subseteq t.used /\ t.used \in SUBSET Xids
    BY <1>1, <1>4, <1>12
  <2> QED
    BY <1>1, <1>5, <1>6, <1>7, <1>8, <1>10, <1>12, <2>1, <2>2, StepWithEvent
<1> QED
  BY <1>4, <1>12, <1>13

\* A window with another parent is unmapped.
Reparented(o, parent) == [o EXCEPT !.parent = parent, !.mapped = FALSE]

\* An unmapped window gets another parent.
LEMMA ReparentKeeps ==
  ASSUME NEW s, NEW c, NEW fnd, NEW q, NEW rep, ServerInv(s, c, fnd, q, rep), NEW x \in Xids,
         s.win[x].exists, s.selected => x \in rep, NEW parent,
         parent = IF s.win[x].parent = Root THEN Elsewhere ELSE Root,
         NEW m, NEW t, m = ReparentWindow(s, x, parent), t = Send(m, ReparentEvent(x, parent))
  PROVE  /\ ServerInv(t, c, fnd, q, rep) /\ t.selected = s.selected /\ t.used = s.used
         /\ t.win[x].exists
<1> DEFINE p == Reparented(s.win[x], parent)
           e == ReparentEvent(x, parent)
<1>1. /\ DOMAIN s = ServerFields /\ s.win \in [Xids -> Infos] /\ s.win[x] \in Infos
      /\ IsStack(s.order) /\ s.used \in SUBSET Xids /\ s.events \in Seq(Events)
      /\ \A y \in Xids : Contains(s.order, y) <=> Child(s.win[y])
      /\ x \in s.used
      /\ c[x].tracked => ~s.win[x].inputOnly
      /\ s.selected => Told(s.events, x, s.win[x], c[x], Contains(fnd, x), q, x \in rep)
  BY ServerHas
<1>2. parent \in {Root, Elsewhere} /\ (parent = Root <=> s.win[x].parent # Root)
  BY ParentsAssumption
<1>3. /\ p \in Infos /\ p.exists /\ p.parent = parent /\ ~p.mapped
      /\ p.inputOnly = s.win[x].inputOnly
  <2> DEFINE o == s.win[x]
  <2>1. o \in Infos /\ o.exists
    BY <1>1
  <2> HIDE DEF o
  <2>2. /\ Reparented(o, parent) \in Infos /\ Reparented(o, parent).exists
        /\ Reparented(o, parent).parent = parent /\ ~Reparented(o, parent).mapped
        /\ Reparented(o, parent).inputOnly = o.inputOnly
    BY <1>2, <2>1 DEF Infos, Reparented
  <2> QED
    BY <2>2 DEF o
<1>4. /\ DOMAIN m = ServerFields /\ m.win = PutInfo(s.win, x, p)
      /\ m.order = IF parent = Root THEN AddOnTop(TakeOut(s.order, x), x) ELSE TakeOut(s.order, x)
      /\ m.used = s.used /\ m.selected = s.selected /\ m.events = s.events
  <2>1. /\ DOMAIN m = ServerFields
        /\ m.order = IF parent = Root THEN AddOnTop(TakeOut(s.order, x), x) ELSE TakeOut(s.order, x)
        /\ m.used = s.used /\ m.selected = s.selected /\ m.events = s.events
    BY <1>1 DEF ServerFields, ReparentWindow
  <2>2. m.win = [[s.win EXCEPT ![x].parent = parent] EXCEPT ![x].mapped = FALSE]
    BY <1>1 DEF ServerFields, ReparentWindow
  <2> DEFINE w == s.win
  <2>3. w \in [Xids -> Infos]
    BY <1>1
  <2> HIDE DEF w
  <2>4. [[w EXCEPT ![x].parent = parent] EXCEPT ![x].mapped = FALSE]
          = [w EXCEPT ![x] = [w[x] EXCEPT !.parent = parent, !.mapped = FALSE]]
    BY <2>3
  <2>5. m.win = PutInfo(s.win, x, p)
    BY <2>2, <2>4 DEF PutInfo, Reparented, w
  <2> QED
    BY <2>1, <2>5
<1> HIDE DEF p
<1>5. /\ m.win \in [Xids -> Infos] /\ m.win[x] = p
      /\ \A y \in Xids : y # x => m.win[y] = s.win[y]
  BY <1>1, <1>3, <1>4, PutInfoIs
<1>6. /\ IsStack(m.order)
      /\ \A y \in Xids : Contains(m.order, y) <=> (Contains(s.order, y) /\ y # x) \/ (parent = Root /\ y = x)
  <2>1. /\ IsStack(TakeOut(s.order, x))
        /\ \A y \in Xids : Contains(TakeOut(s.order, x), y) <=> Contains(s.order, y) /\ y # x
    BY <1>1, TakeOutIs
  <2>2. CASE parent # Root
    BY <1>4, <2>1, <2>2
  <2>3. CASE parent = Root
    <3>1. m.order = AddOnTop(TakeOut(s.order, x), x)
      BY <1>4, <2>3
    <3>2. IsStack(m.order) /\ \A y \in Xids : Contains(m.order, y) <=> Contains(TakeOut(s.order, x), y) \/ y = x
      BY <2>1, <3>1, AddOnTopIs
    <3> QED
      BY <2>1, <2>3, <3>2
  <2> QED
    BY <2>2, <2>3
<1>7. \A y \in Xids : Contains(m.order, y) <=> Child(m.win[y])
  BY <1>1, <1>3, <1>5, <1>6 DEF Child
<1>8. c[x].tracked /\ m.win[x].exists => ~m.win[x].inputOnly
  BY <1>1, <1>3, <1>5
<1>10. /\ e \in Events /\ e.window = x /\ Tells(e, "ReparentNotify", x)
       /\ parent # Root => TellsLeft(e, x)
  BY <1>2, EventsAre DEF ReparentEvent, Tells, TellsLeft
<1> HIDE DEF e
<1>12. /\ DOMAIN t = ServerFields /\ t.win = m.win
       /\ t.order = m.order /\ t.used = s.used /\ t.selected = s.selected
       /\ t.events = IF s.selected THEN Append(s.events, e) ELSE s.events
  <2>1. t = Send(m, e)
    BY DEF e
  <2>2. /\ DOMAIN Send(m, e) = ServerFields /\ Send(m, e).win = m.win
        /\ Send(m, e).order = m.order /\ Send(m, e).used = m.used
        /\ Send(m, e).selected = m.selected
        /\ Send(m, e).events = IF m.selected THEN Append(m.events, e) ELSE m.events
    <3>1. DOMAIN m = ServerFields
      BY <1>4
    <3> QED
      BY <3>1, SendIs
  <2> QED
    BY <1>4, <2>1, <2>2
<1>13. ServerInv(t, c, fnd, q, rep)
  <2>1. ASSUME s.selected
        PROVE  Told(Append(s.events, e), x, m.win[x], c[x], Contains(fnd, x), q, x \in rep)
    <3> DEFINE E == s.events
               F == Append(s.events, e)
    <3>1. /\ Len(E) \in Nat /\ Len(F) = Len(E) + 1 /\ StartsAs(E, F, Len(E))
          /\ F[Len(E) + 1] = e
      BY <1>1, <1>10, AppendIs
    <3>2. Told(E, x, s.win[x], c[x], Contains(fnd, x), q, x \in rep)
      BY <1>1, <2>1
    <3>3. (x \in rep) = TRUE
      BY <2>1
    <3> HIDE DEF E, F
    <3>4. Told(E, x, s.win[x], c[x], Contains(fnd, x), q, TRUE)
      BY <3>2, ToldReparented
    <3>5. CASE parent = Root
      <4>1. ~Child(s.win[x]) /\ Child(m.win[x]) /\ ~m.win[x].mapped
        BY <1>2, <1>3, <1>5, <3>5 DEF Child
      <4>2. Told(F, x, m.win[x], c[x], Contains(fnd, x), q, TRUE)
        <5>1. Tells(F[Len(E) + 1], "ReparentNotify", x)
          BY <1>10, <3>1
        <5> QED
          BY <3>1, <3>4, <4>1, <5>1, ToldReturn, ZenonT(40)
      <4> QED
        BY <3>3, <4>2 DEF F
    <3>6. CASE parent # Root
      <4>1. Child(s.win[x]) /\ ~Child(m.win[x])
        BY <1>2, <1>3, <1>5, <3>6 DEF Child
      <4>2. Told(F, x, m.win[x], c[x], Contains(fnd, x), q, TRUE)
        BY <1>10, <3>1, <3>4, <3>6, <4>1, ToldLeave
      <4> QED
        BY <3>3, <4>2 DEF F
    <3> QED
      BY <3>5, <3>6
  <2>2. x \in t.used /\ s.used \subseteq t.used
    BY <1>1, <1>12
  <2> QED
    BY <1>1, <1>5, <1>6, <1>7, <1>8, <1>10, <1>12, <2>1, <2>2, StepWithEvent
<1> QED
  BY <1>3, <1>5, <1>12, <1>13

\* XMapWindow().
LEMMA ClientMapsKeeps ==
  ASSUME NEW s, NEW c, NEW fnd, NEW q, NEW rep, ServerInv(s, c, fnd, q, rep), NEW x \in Xids,
         s.win[x].exists
  PROVE  /\ ServerInv(ClientMaps(s, x), c, fnd, q, rep)
         /\ ClientMaps(s, x).selected = s.selected /\ ClientMaps(s, x).used = s.used
<1> DEFINE e == MapRequestEvent(x)
<1>1. x \in s.used
  BY ServerHas
<1>2. e \in Events /\ e.window = x /\ ~IsNews(e, x) /\ ~Tells(e, "ReparentNotify", x)
  BY EventsAre DEF MapRequestEvent, IsNews, Tells, TellsHidden, TellsGone, TellsLeft
<1>3. ClientMaps(s, x) \in {Send(s, e), Maps(s, x)}
  BY DEF ClientMaps
<1> HIDE DEF e
<1>4. /\ ServerInv(Send(s, e), c, fnd, q, rep)
      /\ Send(s, e).selected = s.selected /\ Send(s, e).used = s.used
  BY <1>1, <1>2, SendKeeps
<1>5. /\ ServerInv(Maps(s, x), c, fnd, q, rep)
      /\ Maps(s, x).selected = s.selected /\ Maps(s, x).used = s.used
  BY MapsKeeps
<1> QED
  BY <1>3, <1>4, <1>5

\* XReparentWindow().
LEMMA ReparentsKeeps ==
  ASSUME NEW s, NEW c, NEW fnd, NEW q, NEW rep, ServerInv(s, c, fnd, q, rep), NEW x \in Xids,
         s.win[x].exists, s.selected => x \in rep, NEW parent,
         parent = IF s.win[x].parent = Root THEN Elsewhere ELSE Root
  PROVE  /\ ServerInv(Reparents(s, x, parent), c, fnd, q, rep)
         /\ Reparents(s, x, parent).selected = s.selected /\ Reparents(s, x, parent).used = s.used
<1> DEFINE u == Unmaps(s, x)
           m == ReparentWindow(u, x, parent)
           t == Send(m, ReparentEvent(x, parent))
<1>1. /\ ServerInv(u, c, fnd, q, rep) /\ u.selected = s.selected /\ u.used = s.used
      /\ u.win[x].exists /\ u.win[x].parent = s.win[x].parent
  BY UnmapsKeeps
<1>2. Reparents(s, x, parent) = IF s.win[x].mapped THEN ClientMaps(t, x) ELSE t
  BY DEF Reparents
<1> HIDE DEF u
<1>3. (u.selected => x \in rep) /\ parent = IF u.win[x].parent = Root THEN Elsewhere ELSE Root
  BY <1>1
<1>4. /\ ServerInv(t, c, fnd, q, rep) /\ t.selected = u.selected /\ t.used = u.used
      /\ t.win[x].exists
  BY <1>1, <1>3, ReparentKeeps
<1> HIDE DEF t
<1>5. /\ ServerInv(ClientMaps(t, x), c, fnd, q, rep)
      /\ ClientMaps(t, x).selected = t.selected /\ ClientMaps(t, x).used = t.used
  BY <1>4, ClientMapsKeeps
<1> QED
  BY <1>1, <1>2, <1>4, <1>5

\* Fields that ServerInv does not speak of change.
LEMMA ServerSame ==
  ASSUME NEW s, NEW c, NEW fnd, NEW q, NEW rep, ServerInv(s, c, fnd, q, rep),
         NEW t, DOMAIN t = ServerFields, t.win = s.win, t.order = s.order, t.used = s.used,
         t.selected = s.selected, t.events = s.events
  PROVE  ServerInv(t, c, fnd, q, rep)
BY DEF ServerInv, IsServer

\* FocusWindow().
LEMMA FocusKeeps ==
  ASSUME NEW s, NEW c, NEW fnd, NEW q, NEW rep, ServerInv(s, c, fnd, q, rep), NEW x \in Xids
  PROVE  /\ ServerInv(FocusWindow(s, x), c, fnd, q, rep)
         /\ FocusWindow(s, x).selected = s.selected /\ FocusWindow(s, x).used = s.used
<1> DEFINE t == FocusWindow(s, x)
<1>1. DOMAIN s = ServerFields
  BY ServerHas
<1>2. /\ DOMAIN t = ServerFields /\ t.win = s.win /\ t.order = s.order /\ t.used = s.used
      /\ t.selected = s.selected /\ t.events = s.events
  BY <1>1 DEF ServerFields, FocusWindow
<1> HIDE DEF t
<1>3. ServerInv(t, c, fnd, q, rep)
  BY <1>2, ServerSame
<1> QED
  BY <1>2, <1>3 DEF t

\* SetIntArrayProperty() on the root window.
LEMMA RootPropertyKeeps ==
  ASSUME NEW s, NEW c, NEW fnd, NEW q, NEW rep, ServerInv(s, c, fnd, q, rep),
         NEW property \in {"clients", "stacking", "active"}, NEW values
  PROVE  /\ ServerInv(SetRootProperty(s, property, values), c, fnd, q, rep)
         /\ SetRootProperty(s, property, values).selected = s.selected
         /\ SetRootProperty(s, property, values).used = s.used
         /\ SetRootProperty(s, property, values).win = s.win
<1> DEFINE t == SetRootProperty(s, property, values)
<1>1. DOMAIN s = ServerFields
  BY DEF ServerInv, IsServer
<1>2. /\ DOMAIN t = ServerFields /\ t.win = s.win /\ t.order = s.order /\ t.used = s.used
      /\ t.selected = s.selected /\ t.events = s.events
  BY <1>1 DEF ServerFields, SetRootProperty
<1> HIDE DEF t
<1>3. ServerInv(t, c, fnd, q, rep)
  BY <1>2, ServerSame
<1> QED
  BY <1>2, <1>3 DEF t

\* A window with another WM_STATE.
StateAs(o, state) == [o EXCEPT !.wmState = state]

\* SetIntArrayProperty() on a client window.
LEMMA WmStateKeeps ==
  ASSUME NEW s, NEW c, NEW fnd, NEW q, NEW rep, ServerInv(s, c, fnd, q, rep), NEW x \in Xids,
         NEW state \in {"normal", "withdrawn"}
  PROVE  /\ ServerInv(SetWmState(s, x, state), c, fnd, q, rep)
         /\ SetWmState(s, x, state).selected = s.selected
         /\ SetWmState(s, x, state).used = s.used
<1> DEFINE m == SetWmState(s, x, state)
           p == StateAs(s.win[x], state)
<1>1. /\ DOMAIN s = ServerFields /\ s.win \in [Xids -> Infos] /\ s.win[x] \in Infos
      /\ IsStack(s.order) /\ s.used \in SUBSET Xids
      /\ \A y \in Xids : Contains(s.order, y) <=> Child(s.win[y])
      /\ s.win[x].exists => x \in s.used
      /\ c[x].tracked /\ s.win[x].exists => ~s.win[x].inputOnly
      /\ s.selected => Told(s.events, x, s.win[x], c[x], Contains(fnd, x), q, x \in rep)
      /\ Exists(s, x) <=> s.win[x].exists
  BY ServerHas
<1>2. CASE ~Exists(s, x)
  BY <1>2 DEF SetWmState
<1>3. CASE Exists(s, x)
  <2>1. /\ p \in Infos /\ p.exists = s.win[x].exists /\ p.parent = s.win[x].parent
        /\ p.mapped = s.win[x].mapped /\ p.inputOnly = s.win[x].inputOnly
    <3> DEFINE o == s.win[x]
    <3>1. o \in Infos
      BY <1>1
    <3> HIDE DEF o
    <3>2. /\ StateAs(o, state) \in Infos /\ StateAs(o, state).exists = o.exists
          /\ StateAs(o, state).parent = o.parent
          /\ StateAs(o, state).mapped = o.mapped /\ StateAs(o, state).inputOnly = o.inputOnly
      BY <3>1 DEF Infos, StateAs
    <3> QED
      BY <3>2 DEF o
  <2>2. /\ DOMAIN m = ServerFields /\ m.win = PutInfo(s.win, x, p) /\ m.order = s.order
        /\ m.used = s.used /\ m.selected = s.selected /\ m.events = s.events
    BY <1>1, <1>3 DEF ServerFields, SetWmState, PutInfo, StateAs
  <2> HIDE DEF p, m
  <2>3. /\ m.win \in [Xids -> Infos] /\ m.win[x] = p
        /\ \A y \in Xids : y # x => m.win[y] = s.win[y]
    BY <1>1, <2>1, <2>2, PutInfoIs
  <2>4. Alike(s.win[x], m.win[x])
    BY <2>1, <2>3 DEF Alike, Child, OnScreen
  <2>5. s.selected => Told(s.events, x, m.win[x], c[x], Contains(fnd, x), q, x \in rep)
    BY <1>1, <2>4, ToldAlike
  <2>6. /\ \A y \in Xids : Contains(m.order, y) <=> Child(m.win[y])
        /\ c[x].tracked /\ m.win[x].exists => ~m.win[x].inputOnly
        /\ x \in s.used /\ IsStack(m.order)
    BY <1>1, <1>3, <2>1, <2>2, <2>3 DEF Child
  <2>7. ServerInv(m, c, fnd, q, rep)
    BY <1>1, <2>2, <2>3, <2>5, <2>6, StepWithoutEvent, ZenonT(40)
  <2> QED
    BY <2>2, <2>7 DEF m
<1> QED
  BY <1>2, <1>3

\* The item under another.
LEMMA GetUnderIs ==
  ASSUME NEW s, IsStack(s), NEW x
  PROVE  GetUnder(s, x, None) \in Xids \cup {None}
<1>1. s \in Seq(Xids) /\ Len(s) \in Nat
  BY LenProperties DEF IsStack
<1>2. CASE Contains(s, x) /\ GetIndex(s, x) < Len(s)
  <2>1. GetIndex(s, x) \in 1..Len(s)
    BY <1>1, <1>2, GetIndexIs
  <2>2. GetIndex(s, x) + 1 \in 1..Len(s)
    BY <1>1, <1>2, <2>1
  <2>3. s[GetIndex(s, x) + 1] \in Xids
    BY <1>1, <2>2, ElementOfSeq
  <2> QED
    BY <1>2, <2>3 DEF GetUnder
<1> QED
  BY <1>2 DEF GetUnder

\* A server with another order.
OrderAs(s, o) == [s EXCEPT !.order = o]

\* The children are stacked in another order.
LEMMA RestackedKeeps ==
  ASSUME NEW s, NEW c, NEW fnd, NEW q, NEW rep, ServerInv(s, c, fnd, q, rep), NEW x \in Xids,
         NEW o, IsStack(o), \A y \in Xids : Contains(o, y) <=> Contains(s.order, y),
         NEW t, t = OrderAs(s, o), t.order # s.order => x \in s.used
  PROVE  /\ ServerInv(Restacked(s, t, x), c, fnd, q, rep)
         /\ Restacked(s, t, x).selected = s.selected /\ Restacked(s, t, x).used = s.used
<1>1. DOMAIN s = ServerFields
  BY ServerHas
<1>2. /\ DOMAIN t = ServerFields /\ t.win = s.win /\ t.order = o /\ t.used = s.used
      /\ t.selected = s.selected /\ t.events = s.events
  BY <1>1 DEF OrderAs, ServerFields
<1>3. ServerInv(t, c, fnd, q, rep)
  BY <1>2 DEF ServerInv, IsServer
<1>4. CASE t.order = s.order
  BY <1>4 DEF Restacked
<1>5. CASE t.order # s.order
  <2> DEFINE e == ConfigureEvent(t, x)
  <2>1. Restacked(s, t, x) = Send(t, e)
    BY <1>5 DEF Restacked
  <2>2. GetUnder(t.order, x, None) \in Xids \cup {None}
    BY <1>2, GetUnderIs
  <2>3. e \in Events /\ e.window = x /\ ~IsNews(e, x) /\ ~Tells(e, "ReparentNotify", x)
    BY <2>2 DEF ConfigureEvent, Events, IsNews, Tells, TellsHidden, TellsGone, TellsLeft
  <2> HIDE DEF e
  <2>4. x \in t.used
    BY <1>2, <1>5
  <2>5. /\ ServerInv(Send(t, e), c, fnd, q, rep)
        /\ Send(t, e).selected = t.selected /\ Send(t, e).used = t.used
    BY <1>3, <2>3, <2>4, SendKeeps
  <2> QED
    BY <1>2, <2>1, <2>5
<1> QED
  BY <1>4, <1>5

\* A child of the root is raised.
LEMMA RaiseKeeps ==
  ASSUME NEW s, NEW c, NEW fnd, NEW q, NEW rep, ServerInv(s, c, fnd, q, rep), NEW x \in Xids
  PROVE  /\ ServerInv(Restacked(s, RaiseWindow(s, x), x), c, fnd, q, rep)
         /\ Restacked(s, RaiseWindow(s, x), x).selected = s.selected
         /\ Restacked(s, RaiseWindow(s, x), x).used = s.used
<1>1. /\ DOMAIN s = ServerFields /\ IsStack(s.order)
      /\ \A y \in Xids : Contains(s.order, y) <=> Child(s.win[y])
      /\ s.win[x].exists => x \in s.used
  BY ServerHas
<1>2. CASE ~Contains(s.order, x)
  <2>1. RaiseWindow(s, x) = s
    BY <1>2 DEF RaiseWindow
  <2> QED
    BY <2>1 DEF Restacked
<1>3. CASE Contains(s.order, x)
  <2> DEFINE r == TakeOut(s.order, x)
             o == AddOnTop(r, x)
  <2>1. RaiseWindow(s, x) = OrderAs(s, o)
    BY <1>3 DEF RaiseWindow, OrderAs
  <2>2. IsStack(r) /\ \A y : Contains(r, y) <=> Contains(s.order, y) /\ y # x
    BY <1>1, TakeOutIs
  <2> HIDE DEF r
  <2>3. IsStack(o) /\ \A y : Contains(o, y) <=> Contains(r, y) \/ y = x
    BY <2>2, AddOnTopIs
  <2> HIDE DEF o
  <2>4. \A y \in Xids : Contains(o, y) <=> Contains(s.order, y)
    BY <1>3, <2>2, <2>3
  <2>5. x \in s.used
    BY <1>1, <1>3 DEF Child
  <2> DEFINE t == RaiseWindow(s, x)
  <2>6. t = OrderAs(s, o)
    BY <2>1
  <2> HIDE DEF t
  <2>7. /\ ServerInv(Restacked(s, t, x), c, fnd, q, rep)
        /\ Restacked(s, t, x).selected = s.selected /\ Restacked(s, t, x).used = s.used
    BY <2>3, <2>4, <2>5, <2>6, RestackedKeeps
  <2> QED
    BY <2>7 DEF t
<1> QED
  BY <1>2, <1>3

\* A client lowers its window, or stacks it above another.
LEMMA StackKeeps ==
  ASSUME NEW s, NEW c, NEW fnd, NEW q, NEW rep, ServerInv(s, c, fnd, q, rep), NEW x \in Xids,
         Child(s.win[x]),
         NEW t \in {LowerWindow(s, x)} \cup {StackWindow(s, x, y) : y \in Xids \ {x}}
  PROVE  /\ ServerInv(Restacked(s, t, x), c, fnd, q, rep)
         /\ Restacked(s, t, x).selected = s.selected /\ Restacked(s, t, x).used = s.used
<1> DEFINE r == TakeOut(s.order, x)
<1>1. /\ DOMAIN s = ServerFields /\ IsStack(s.order)
      /\ \A y \in Xids : Contains(s.order, y) <=> Child(s.win[y])
      /\ s.win[x].exists => x \in s.used
  BY ServerHas
<1>2. Contains(s.order, x) /\ x \in s.used
  BY <1>1 DEF Child
<1>3. IsStack(r) /\ \A y : Contains(r, y) <=> Contains(s.order, y) /\ y # x
  BY <1>1, TakeOutIs
<1>4. CASE t = LowerWindow(s, x)
  <2> DEFINE o == AddOnBottom(r, x)
  <2>1. t = OrderAs(s, o)
    BY <1>4 DEF LowerWindow, OrderAs
  <2> HIDE DEF r
  <2>2. IsStack(o) /\ \A y : Contains(o, y) <=> Contains(r, y) \/ y = x
    BY <1>3, AddOnBottomIs
  <2> HIDE DEF o
  <2>3. \A y \in Xids : Contains(o, y) <=> Contains(s.order, y)
    BY <1>2, <1>3, <2>2
  <2> QED
    BY <1>2, <2>1, <2>2, <2>3, RestackedKeeps
<1>5. ASSUME NEW z \in Xids \ {x}, t = StackWindow(s, x, z)
      PROVE  /\ ServerInv(Restacked(s, t, x), c, fnd, q, rep)
             /\ Restacked(s, t, x).selected = s.selected /\ Restacked(s, t, x).used = s.used
  <2>1. CASE ~Contains(s.order, z)
    <3>1. t = s
      BY <1>5, <2>1 DEF StackWindow
    <3> QED
      BY <3>1 DEF Restacked
  <2>2. CASE Contains(s.order, z)
    <3> DEFINE o == AddAbove(r, x, z)
    <3>1. t = OrderAs(s, o)
      BY <1>2, <1>5, <2>2 DEF StackWindow, OrderAs
    <3>2. Contains(r, z)
      BY <1>3, <2>2
    <3> HIDE DEF r
    <3>3. IsStack(o) /\ \A y : Contains(o, y) <=> Contains(r, y) \/ y = x
      BY <1>3, <3>2, AddAboveIs
    <3> HIDE DEF o
    <3>4. \A y \in Xids : Contains(o, y) <=> Contains(s.order, y)
      BY <1>2, <1>3, <3>3
    <3> QED
      BY <1>2, <3>1, <3>3, <3>4, RestackedKeeps
  <2> QED
    BY <2>1, <2>2
<1> QED
  BY <1>4, <1>5

-----------------------------------------------------------------------------
(* The window manager's requests and its own state.                        *)

\* A server t that the window manager's requests make of s.
Follows(s, t) ==
  \A c, fnd, q, rep : ServerInv(s, c, fnd, q, rep) =>
    ServerInv(t, c, fnd, q, rep) /\ t.selected = s.selected /\ t.used = s.used

\* Requests follow one another.
LEMMA FollowsOn ==
  ASSUME NEW s, NEW t, NEW u, Follows(s, t), Follows(t, u)
  PROVE  Follows(s, u)
<1> SUFFICES ASSUME NEW c, NEW fnd, NEW q, NEW rep, ServerInv(s, c, fnd, q, rep)
             PROVE  ServerInv(u, c, fnd, q, rep) /\ u.selected = s.selected /\ u.used = s.used
  BY DEF Follows
<1>1. ServerInv(t, c, fnd, q, rep) /\ t.selected = s.selected /\ t.used = s.used
  BY DEF Follows
<1>2. ServerInv(u, c, fnd, q, rep) /\ u.selected = t.selected /\ u.used = t.used
  BY <1>1 DEF Follows
<1> QED
  BY <1>1, <1>2

\* A property of the root window is written.
LEMMA RootFollows ==
  ASSUME NEW s, NEW property \in {"clients", "stacking", "active"}, NEW values
  PROVE  Follows(s, SetRootProperty(s, property, values))
BY RootPropertyKeeps DEF Follows

\* The requests about a window.
LEMMA RequestsFollow ==
  ASSUME NEW s, NEW x \in Xids
  PROVE  /\ Follows(s, s) /\ Follows(s, Maps(s, x))
         /\ Follows(s, Restacked(s, RaiseWindow(s, x), x))
         /\ \A state \in {"normal", "withdrawn"} : Follows(s, SetWmState(s, x, state))
<1>1. Follows(s, s)
  BY DEF Follows
<1>2. Follows(s, Maps(s, x))
  BY MapsKeeps DEF Follows
<1>3. Follows(s, Restacked(s, RaiseWindow(s, x), x))
  BY RaiseKeeps DEF Follows
<1>4. ASSUME NEW state \in {"normal", "withdrawn"}
      PROVE  Follows(s, SetWmState(s, x, state))
  BY WmStateKeeps DEF Follows
<1> QED
  BY <1>1, <1>2, <1>3, <1>4

\* A consumer focuses a window that is viewable.
LEMMA FocusFollows ==
  ASSUME NEW s, NEW x \in Xids, IsViewable(s, x)
  PROVE  Follows(s, Send(FocusWindow(s, x), FocusInEvent(x)))
<1> SUFFICES ASSUME NEW c, NEW fnd, NEW q, NEW rep, ServerInv(s, c, fnd, q, rep)
             PROVE  /\ ServerInv(Send(FocusWindow(s, x), FocusInEvent(x)), c, fnd, q, rep)
                    /\ Send(FocusWindow(s, x), FocusInEvent(x)).selected = s.selected
                    /\ Send(FocusWindow(s, x), FocusInEvent(x)).used = s.used
  BY DEF Follows
<1> DEFINE t == FocusWindow(s, x)
           e == FocusInEvent(x)
<1>1. x \in s.used
  BY ServerHas DEF IsViewable
<1>2. ServerInv(t, c, fnd, q, rep) /\ t.selected = s.selected /\ t.used = s.used
  BY FocusKeeps
<1>3. e \in Events /\ e.window = x /\ ~IsNews(e, x) /\ ~Tells(e, "ReparentNotify", x)
  BY EventsAre DEF FocusInEvent, IsNews, Tells, TellsHidden, TellsGone, TellsLeft
<1> HIDE DEF t, e
<1>4. x \in t.used
  BY <1>1, <1>2
<1>5. /\ ServerInv(Send(t, e), c, fnd, q, rep)
      /\ Send(t, e).selected = t.selected /\ Send(t, e).used = t.used
  BY <1>2, <1>3, <1>4, SendKeeps
<1> QED
  BY <1>2, <1>5 DEF t, e

\* A desktop, whose window manager has its fields.
IsDesktop(d) == DOMAIN d = {"server", "wm"} /\ DOMAIN d.wm = ManagerFields
\* What a handler that only makes requests, or keeps lists, leaves alone.
SameManager(v, w) ==
  /\ DOMAIN v = ManagerFields
  /\ v.client = w.client /\ v.stacked = w.stacked /\ v.managed = w.managed

\* The client lists are written.
LEMMA ListsAre ==
  ASSUME NEW d, IsDesktop(d)
  PROVE  /\ IsDesktop(UpdateClientListProperty(d))
         /\ UpdateClientListProperty(d).wm = d.wm
         /\ Follows(d.server, UpdateClientListProperty(d).server)
         /\ IsDesktop(UpdateClientListStackingProperty(d))
         /\ UpdateClientListStackingProperty(d).wm = d.wm
         /\ Follows(d.server, UpdateClientListStackingProperty(d).server)
<1> DEFINE v == SelectSeq(Reverse(d.wm.mappedXids), LAMBDA y : IsListed(d, y))
           w == SelectSeq(Reverse(d.wm.stacked), LAMBDA y : IsListed(d, y))
           t == UpdateClientListProperty(d)
           u == UpdateClientListStackingProperty(d)
<1>1. t = [d EXCEPT !.server = SetRootProperty(@, "clients", v)]
  BY DEF UpdateClientListProperty
<1>2. u = [d EXCEPT !.server = SetRootProperty(@, "stacking", w)]
  BY DEF UpdateClientListStackingProperty
<1> HIDE DEF t, u, v, w
<1>3. IsDesktop(t) /\ t.wm = d.wm /\ t.server = SetRootProperty(d.server, "clients", v)
  BY <1>1 DEF IsDesktop
<1>4. IsDesktop(u) /\ u.wm = d.wm /\ u.server = SetRootProperty(d.server, "stacking", w)
  BY <1>2 DEF IsDesktop
<1>5. /\ Follows(d.server, SetRootProperty(d.server, "clients", v))
      /\ Follows(d.server, SetRootProperty(d.server, "stacking", w))
  BY RootFollows
<1> QED
  BY <1>3, <1>4, <1>5 DEF t, u

\* Both lists are written.
LEMMA BothListsAre ==
  ASSUME NEW d, IsDesktop(d), NEW t,
         t = UpdateClientListStackingProperty(UpdateClientListProperty(d))
  PROVE  IsDesktop(t) /\ t.wm = d.wm /\ Follows(d.server, t.server)
<1> DEFINE u == UpdateClientListProperty(d)
<1>1. IsDesktop(u) /\ u.wm = d.wm /\ Follows(d.server, u.server)
  BY ListsAre
<1>2. t = UpdateClientListStackingProperty(u)
  OBVIOUS
<1> HIDE DEF u
<1>3. IsDesktop(t) /\ t.wm = u.wm /\ Follows(u.server, t.server)
  BY <1>1, <1>2, ListsAre
<1> QED
  BY <1>1, <1>3, FollowsOn

\* SetWmStateProperty() and SetActiveWindowProperty().
LEMMA PropertiesAre ==
  ASSUME NEW d, IsDesktop(d), NEW x \in Xids, NEW state \in {"normal", "withdrawn"}, NEW y
  PROVE  /\ IsDesktop(SetWmStateProperty(d, x, state))
         /\ SetWmStateProperty(d, x, state).wm = d.wm
         /\ Follows(d.server, SetWmStateProperty(d, x, state).server)
         /\ IsDesktop(SetActiveWindowProperty(d, y))
         /\ SameManager(SetActiveWindowProperty(d, y).wm, d.wm)
         /\ Follows(d.server, SetActiveWindowProperty(d, y).server)
<1> DEFINE t == SetWmStateProperty(d, x, state)
           u == SetActiveWindowProperty(d, y)
<1>1. IsDesktop(t) /\ t.wm = d.wm /\ t.server = SetWmState(d.server, x, state)
  BY DEF IsDesktop, SetWmStateProperty
<1>2. IsDesktop(u) /\ SameManager(u.wm, d.wm)
      /\ u.server \in {d.server, SetRootProperty(d.server, "active", y)}
  BY DEF IsDesktop, SetActiveWindowProperty, SameManager, ManagerFields
<1>3. /\ Follows(d.server, d.server) /\ Follows(d.server, SetWmState(d.server, x, state))
      /\ Follows(d.server, SetRootProperty(d.server, "active", y))
  BY RequestsFollow, RootFollows
<1> HIDE DEF t, u
<1>4. Follows(d.server, t.server) /\ Follows(d.server, u.server)
  BY <1>1, <1>2, <1>3
<1> QED
  BY <1>1, <1>2, <1>4 DEF t, u

-----------------------------------------------------------------------------
(* One event is handled.                                                   *)

\* The server whose first event was read.
TailOf(s) == [s EXCEPT !.events = Tail(@)]

\* The objects l are what the first event makes of the objects c.
HearsFirst(s, c, x, l) ==
  /\ Head(s.events).window = x
  /\ \A y \in Xids : y # x => l[y] = c[y]
  /\ Heard(Head(s.events), x, s.win[x], c[x], l[x])
  /\ l[x].tracked /\ s.win[x].exists => ~s.win[x].inputOnly

\* The handler of an event makes of the object of its window what the event says of it;
\* the events that are left fit the objects.
LEMMA TailKeeps ==
  ASSUME NEW s, NEW c, NEW rep, ServerInv(s, c, <<>>, FALSE, rep), s.selected, s.events # <<>>,
         NEW x \in Xids, NEW l, HearsFirst(s, c, x, l)
  PROVE  /\ ServerInv(TailOf(s), l, <<>>, FALSE, rep)
         /\ TailOf(s).selected = s.selected /\ TailOf(s).used = s.used
<1>0. /\ IsServer(s)
      /\ \A y \in Xids : Contains(s.order, y) <=> Child(s.win[y])
      /\ \A y \in Xids : s.win[y].exists \/ c[y].tracked => y \in s.used
      /\ \A i \in 1..Len(s.events) : s.events[i].window \in s.used
      /\ \A y \in Xids : c[y].tracked /\ s.win[y].exists => ~s.win[y].inputOnly
      /\ \A y \in Xids : Told(s.events, y, s.win[y], c[y], Contains(<<>>, y), FALSE, y \in rep)
  BY DEF ServerInv
<1>1. s.events \in Seq(Events) /\ DOMAIN s = ServerFields
  BY <1>0 DEF IsServer
<1> USE DEF HearsFirst
<1> DEFINE E == s.events
           F == Tail(s.events)
           n == Len(F)
           t == TailOf(s)
<1>2. /\ F \in Seq(Events) /\ n \in Nat /\ Len(E) = n + 1
      /\ IsTail(E, F, n) /\ Head(E) = E[1]
  BY <1>1, TailIs
<1>3. /\ DOMAIN t = ServerFields /\ t.win = s.win /\ t.order = s.order /\ t.used = s.used
      /\ t.selected = s.selected /\ t.events = F
  BY <1>1 DEF TailOf, ServerFields
<1> HIDE DEF E, F, n, t
<1>4. IsServer(t)
  BY <1>0, <1>2, <1>3 DEF IsServer
<1>5. x \in s.used
  <2>1. 1 \in 1..(n + 1)
    BY <1>2
  <2>2. E[1].window \in s.used
    BY <1>0, <1>2, <2>1 DEF E
  <2> QED
    BY <1>2, <2>2 DEF E
<1>6. \A y \in Xids : t.win[y].exists \/ l[y].tracked => y \in t.used
  BY <1>0, <1>3, <1>5
<1>7. \A i \in 1..Len(t.events) : t.events[i].window \in t.used
  <2>1. \A i \in 1..n : i + 1 \in 1..(n + 1)
    BY <1>2
  <2>2. \A i \in 1..n : F[i] = E[i + 1]
    BY <1>2 DEF IsTail
  <2>3. \A i \in 1..n : E[i + 1].window \in s.used
    BY <1>0, <1>2, <2>1 DEF E
  <2> QED
    BY <1>3, <2>2, <2>3 DEF n
<1>8. \A y \in Xids : l[y].tracked /\ t.win[y].exists => ~t.win[y].inputOnly
  BY <1>0, <1>3
<1>9. ASSUME NEW y \in Xids
      PROVE  Told(F, y, s.win[y], l[y], Contains(<<>>, y), FALSE, y \in rep)
  <2>1. ~Contains(<<>>, y)
    BY DEF Contains
  <2>2. Told(E, y, s.win[y], c[y], FALSE, FALSE, y \in rep)
    <3>1. Contains(<<>>, y) = FALSE
      BY <2>1 DEF Contains
    <3>2. Told(E, y, s.win[y], c[y], Contains(<<>>, y), FALSE, y \in rep)
      BY <1>0 DEF E
    <3> QED
      BY <3>1, <3>2
  <2>3. Heard(E[1], y, s.win[y], c[y], l[y])
    <3>1. CASE y = x
      <4>1. Heard(Head(E), x, s.win[x], c[x], l[x])
        BY DEF E
      <4> QED
        BY <1>2, <3>1, <4>1
    <3>2. CASE y # x
      <4>1. l[y] = c[y] /\ E[1].window # y
        BY <1>2, <3>2 DEF E
      <4> QED
        BY <4>1 DEF Heard, Tells, TellsHidden, TellsGone, TellsLeft
    <3> QED
      BY <3>1, <3>2
  <2>4. Told(F, y, s.win[y], l[y], FALSE, FALSE, y \in rep)
    <3> HIDE <2>1
    <3>1. n \in Nat /\ Len(E) = n + 1 /\ Len(F) = n /\ IsTail(E, F, n)
      BY <1>2 DEF n
    <3> QED
      BY <2>2, <2>3, <3>1, ToldLess
  <2> QED
    BY <2>1, <2>4 DEF Contains
<1>10. ServerInv(t, l, <<>>, FALSE, rep)
  BY <1>0, <1>3, <1>4, <1>6, <1>7, <1>8, <1>9 DEF ServerInv
<1> QED
  BY <1>3, <1>10 DEF t

\* What a handler made of a desktop d: the server followed its requests, window x has
\* the object o and is held by n consumers, and the windows are stacked as in stk.
Made(d, h, x, o, n, stk) ==
  /\ IsDesktop(h) /\ Follows(d.server, h.server)
  /\ h.wm.client = [d.wm.client EXCEPT ![x] = o]
  /\ h.wm.managed = [d.wm.managed EXCEPT ![x] = n]
  /\ h.wm.stacked = stk

\* The window manager's own state after a handler.
LEMMA MadeKeeps ==
  ASSUME NEW d, ManagerInv(d.wm), NEW h, NEW x \in Xids, NEW o \in Objects, NEW n \in Nat,
         NEW stk, Made(d, h, x, o, n, stk), IsStack(stk),
         \A y \in Xids : y # x /\ Contains(d.wm.stacked, y) => Contains(stk, y),
         o.tracked => Contains(stk, x), o.mapped => o.tracked,
         n = IF o.mapped THEN 1 ELSE 0
  PROVE  /\ ManagerInv(h.wm) /\ h.wm.client[x] = o
         /\ \A y \in Xids : y # x => h.wm.client[y] = d.wm.client[y]
<1>0. /\ d.wm.client \in [Xids -> Objects] /\ d.wm.managed \in [Xids -> Nat]
      /\ \A y \in Xids : /\ d.wm.client[y].tracked => Contains(d.wm.stacked, y)
                         /\ d.wm.client[y].mapped => d.wm.client[y].tracked
                         /\ d.wm.managed[y] = IF d.wm.client[y].mapped THEN 1 ELSE 0
  BY DEF ManagerInv, IsManager
<1>1. /\ DOMAIN h.wm = ManagerFields
      /\ h.wm.client = [d.wm.client EXCEPT ![x] = o]
      /\ h.wm.managed = [d.wm.managed EXCEPT ![x] = n]
      /\ h.wm.stacked = stk
  BY DEF Made, IsDesktop
<1>2. /\ h.wm.client \in [Xids -> Objects] /\ h.wm.managed \in [Xids -> Nat]
      /\ h.wm.client[x] = o /\ h.wm.managed[x] = n
      /\ \A y \in Xids : y # x => /\ h.wm.client[y] = d.wm.client[y]
                                  /\ h.wm.managed[y] = d.wm.managed[y]
  BY <1>0, <1>1
<1>3. IsManager(h.wm)
  BY <1>1, <1>2 DEF IsManager
<1>4. \A y \in Xids : /\ h.wm.client[y].tracked => Contains(h.wm.stacked, y)
                      /\ h.wm.client[y].mapped => h.wm.client[y].tracked
                      /\ h.wm.managed[y] = IF h.wm.client[y].mapped THEN 1 ELSE 0
  BY <1>0, <1>1, <1>2
<1> QED
  BY <1>2, <1>3, <1>4 DEF ManagerInv

\* A desktop whose window manager has its types.
Types(d) ==
  /\ IsDesktop(d)
  /\ d.wm.client \in [Xids -> Objects] /\ d.wm.managed \in [Xids -> Nat]

\* A handler that changed nothing of the window manager's but lists.
LEMMA SameMade ==
  ASSUME NEW d, Types(d), NEW h, NEW x \in Xids, IsDesktop(h), Follows(d.server, h.server),
         SameManager(h.wm, d.wm)
  PROVE  Made(d, h, x, d.wm.client[x], d.wm.managed[x], d.wm.stacked)
<1>1. /\ [d.wm.client EXCEPT ![x] = d.wm.client[x]] = d.wm.client
      /\ [d.wm.managed EXCEPT ![x] = d.wm.managed[x]] = d.wm.managed
  BY DEF Types
<1> QED
  BY <1>1 DEF Made, SameManager

\* Two handlers in turn.
LEMMA MadeOn ==
  ASSUME NEW d, Types(d), NEW x \in Xids, NEW g, NEW h, NEW o, NEW n, NEW r, NEW p, NEW m, NEW stk,
         Made(d, g, x, o, n, r), Made(g, h, x, p, m, stk)
  PROVE  Made(d, h, x, p, m, stk)
<1>1. /\ h.wm.client = [d.wm.client EXCEPT ![x] = p]
      /\ h.wm.managed = [d.wm.managed EXCEPT ![x] = m]
  BY DEF Made, Types
<1>2. Follows(d.server, h.server)
  BY FollowsOn DEF Made
<1> QED
  BY <1>1, <1>2 DEF Made

\* The types hold on.
LEMMA MadeTypes ==
  ASSUME NEW d, Types(d), NEW x \in Xids, NEW g, NEW o \in Objects, NEW n \in Nat, NEW r,
         Made(d, g, x, o, n, r)
  PROVE  /\ Types(g) /\ g.wm.client[x] = o /\ g.wm.managed[x] = n /\ g.wm.stacked = r
BY DEF Made, Types

\* A window's object is replaced.
PutClient(d, x, o) == [d EXCEPT !.wm.client[x] = o]

\* That changes the object, and nothing of the server.
LEMMA PutClientMade ==
  ASSUME NEW d, Types(d), NEW x \in Xids, NEW o
  PROVE  /\ Made(d, PutClient(d, x, o), x, o, d.wm.managed[x], d.wm.stacked)
         /\ PutClient(d, x, o).server = d.server
<1> DEFINE t == PutClient(d, x, o)
<1>1. /\ DOMAIN t = {"server", "wm"} /\ t.server = d.server /\ DOMAIN t.wm = ManagerFields
      /\ t.wm.client = [d.wm.client EXCEPT ![x] = o] /\ t.wm.managed = d.wm.managed
      /\ t.wm.stacked = d.wm.stacked
  BY DEF PutClient, Types, IsDesktop, ManagerFields
<1>2. [d.wm.managed EXCEPT ![x] = d.wm.managed[x]] = d.wm.managed
  BY DEF Types
<1>3. Follows(d.server, d.server)
  BY RequestsFollow
<1> HIDE DEF t
<1>4. Made(d, t, x, o, d.wm.managed[x], d.wm.stacked)
  BY <1>1, <1>2, <1>3 DEF Made, IsDesktop
<1> QED
  BY <1>1, <1>4 DEF t

\* The number of consumers that hold a window changes.
PutManaged(d, x, n) == [d EXCEPT !.wm.managed[x] = n]

\* That changes the count, and nothing of the server.
LEMMA PutManagedMade ==
  ASSUME NEW d, Types(d), NEW x \in Xids, NEW n
  PROVE  /\ Made(d, PutManaged(d, x, n), x, d.wm.client[x], n, d.wm.stacked)
         /\ PutManaged(d, x, n).server = d.server
<1> DEFINE t == PutManaged(d, x, n)
<1>1. /\ DOMAIN t = {"server", "wm"} /\ t.server = d.server /\ DOMAIN t.wm = ManagerFields
      /\ t.wm.client = d.wm.client /\ t.wm.managed = [d.wm.managed EXCEPT ![x] = n]
      /\ t.wm.stacked = d.wm.stacked
  BY DEF PutManaged, Types, IsDesktop, ManagerFields
<1>2. [d.wm.client EXCEPT ![x] = d.wm.client[x]] = d.wm.client
  BY DEF Types
<1>3. Follows(d.server, d.server)
  BY RequestsFollow
<1> HIDE DEF t
<1>4. Made(d, t, x, d.wm.client[x], n, d.wm.stacked)
  BY <1>1, <1>2, <1>3 DEF Made, IsDesktop
<1> QED
  BY <1>1, <1>4 DEF t

\* The window manager's order changes.
PutStacked(d, stk) == [d EXCEPT !.wm.stacked = stk]

\* That changes the order, and nothing of the server or of the other lists.
LEMMA PutStackedMade ==
  ASSUME NEW d, Types(d), NEW x \in Xids, NEW stk
  PROVE  /\ Made(d, PutStacked(d, stk), x, d.wm.client[x], d.wm.managed[x], stk)
         /\ PutStacked(d, stk).server = d.server
         /\ PutStacked(d, stk).wm.client = d.wm.client
         /\ PutStacked(d, stk).wm.managed = d.wm.managed
         /\ PutStacked(d, stk).wm.mappedXids = d.wm.mappedXids
<1> DEFINE t == PutStacked(d, stk)
<1>1. /\ DOMAIN t = {"server", "wm"} /\ t.server = d.server /\ DOMAIN t.wm = ManagerFields
      /\ t.wm.client = d.wm.client /\ t.wm.managed = d.wm.managed
      /\ t.wm.stacked = stk /\ t.wm.mappedXids = d.wm.mappedXids
  BY DEF PutStacked, Types, IsDesktop, ManagerFields
<1>2. /\ [d.wm.client EXCEPT ![x] = d.wm.client[x]] = d.wm.client
      /\ [d.wm.managed EXCEPT ![x] = d.wm.managed[x]] = d.wm.managed
  BY DEF Types
<1>3. Follows(d.server, d.server)
  BY RequestsFollow
<1> HIDE DEF t
<1>4. Made(d, t, x, d.wm.client[x], d.wm.managed[x], stk)
  BY <1>1, <1>2, <1>3 DEF Made, IsDesktop
<1> QED
  BY <1>1, <1>4 DEF t

\* Requests that leave the window manager as it is.
LEMMA ServerMade ==
  ASSUME NEW d, Types(d), NEW x \in Xids, NEW s, Follows(d.server, s), NEW t,
         t = [d EXCEPT !.server = s]
  PROVE  Made(d, t, x, d.wm.client[x], d.wm.managed[x], d.wm.stacked)
<1>1. IsDesktop(t) /\ t.server = s /\ t.wm = d.wm
  BY DEF Types, IsDesktop
<1>2. SameManager(t.wm, d.wm) /\ Follows(d.server, t.server)
  BY <1>1 DEF SameManager, Types, IsDesktop
<1> QED
  BY <1>1, <1>2, SameMade

\* A change of the windows that were mapped, which the client lists follow.
LEMMA ListedMade ==
  ASSUME NEW d, Types(d), NEW x \in Xids, NEW m, NEW t,
         t = UpdateClientListStackingProperty(UpdateClientListProperty(
               [d EXCEPT !.wm.mappedXids = m]))
  PROVE  Made(d, t, x, d.wm.client[x], d.wm.managed[x], d.wm.stacked)
<1> DEFINE g == [d EXCEPT !.wm.mappedXids = m]
<1>1. IsDesktop(g) /\ g.server = d.server /\ SameManager(g.wm, d.wm)
  BY DEF Types, IsDesktop, SameManager, ManagerFields
<1>2. t = UpdateClientListStackingProperty(UpdateClientListProperty(g))
  OBVIOUS
<1> HIDE DEF g
<1>3. IsDesktop(t) /\ t.wm = g.wm /\ Follows(g.server, t.server)
  BY <1>1, <1>2, BothListsAre
<1>4. SameManager(t.wm, d.wm) /\ Follows(d.server, t.server)
  BY <1>1, <1>3
<1> QED
  BY <1>3, <1>4, SameMade

\* A consumer's HandleWindowMap().
LEMMA ConsumeMapMade ==
  ASSUME NEW d, Types(d), NEW x \in Xids
  PROVE  Made(d, ConsumeMap(d, x), x, d.wm.client[x], d.wm.managed[x] + 1, d.wm.stacked)
<1> DEFINE n == d.wm.managed[x] + 1
           t == PutManaged(d, x, n)
           s == Send(FocusWindow(d.server, x), FocusInEvent(x))
<1>1. Made(d, t, x, d.wm.client[x], n, d.wm.stacked) /\ t.server = d.server
  BY PutManagedMade
<1>2. t = [d EXCEPT !.wm.managed[x] = @ + 1]
  BY DEF PutManaged
<1>3. n \in Nat /\ d.wm.client[x] \in Objects
  BY DEF Types
<1> HIDE DEF n, t
<1>4. CASE d.wm.client[x].override \/ ~IsViewable(d.server, x)
  BY <1>1, <1>2, <1>4 DEF ConsumeMap, n
<1>5. CASE ~(d.wm.client[x].override \/ ~IsViewable(d.server, x))
  <2> DEFINE u == [t EXCEPT !.server = s]
  <2>1. ConsumeMap(d, x) = [t EXCEPT !.server = Send(FocusWindow(@, x), FocusInEvent(x))]
    BY <1>2, <1>5 DEF ConsumeMap
  <2>2. ConsumeMap(d, x) = u
    BY <1>1, <2>1
  <2>3. Follows(d.server, s)
    BY <1>5, FocusFollows
  <2> HIDE DEF s
  <2>4. Types(t) /\ t.wm.client[x] = d.wm.client[x] /\ t.wm.managed[x] = n /\ t.wm.stacked = d.wm.stacked
    <3> DEFINE c == d.wm.client[x]
               stk == d.wm.stacked
    <3>1. Made(d, t, x, c, n, stk)
      BY <1>1
    <3>2. c \in Objects
      BY <1>3
    <3>3. n \in Nat
      BY <1>3
    <3> HIDE DEF c, stk
    <3>4. Types(t) /\ t.wm.client[x] = c /\ t.wm.managed[x] = n /\ t.wm.stacked = stk
      BY <3>1, <3>2, <3>3, MadeTypes
    <3> QED
      BY <3>4 DEF c, stk
  <2>5. Follows(t.server, s)
    BY <1>1, <2>3
  <2>6. Made(t, u, x, t.wm.client[x], t.wm.managed[x], t.wm.stacked)
    BY <2>4, <2>5, ServerMade
  <2> HIDE DEF u
  <2>7. Made(t, u, x, d.wm.client[x], n, d.wm.stacked)
    BY <2>4, <2>6
  <2>8. Made(d, u, x, d.wm.client[x], n, d.wm.stacked)
    BY <1>1, <2>7, MadeOn
  <2> QED
    BY <2>2, <2>8 DEF n
<1> QED
  BY <1>4, <1>5

\* HandleMappedWindow(): the consumers are told of the window.
LEMMA HandleMappedMade ==
  ASSUME NEW d, Types(d), NEW x \in Xids, NEW o, o = [d.wm.client[x] EXCEPT !.redirected = TRUE]
  PROVE  Made(d, HandleMappedWindow(d, x), x, o, d.wm.managed[x] + 1, d.wm.stacked)
<1> DEFINE c == d.wm.client[x]
           n == d.wm.managed[x]
           stk == d.wm.stacked
           listed ==
             IF d.wm.client[x].override \/ Contains(d.wm.mappedXids, x) THEN d
             ELSE UpdateClientListStackingProperty(UpdateClientListProperty(
                    [d EXCEPT !.wm.mappedXids = AddOnTop(@, x)]))
           redirected == [listed EXCEPT !.wm.client[x].redirected = TRUE]
           g == SetWmStateProperty(redirected, x, "normal")
<1>0. c \in Objects /\ n \in Nat /\ o \in Objects
  BY DEF Types, Objects
<1>1. HandleMappedWindow(d, x) = ConsumeMap(g, x)
  BY DEF HandleMappedWindow
<1>2. Made(d, listed, x, c, n, stk)
  <2>1. CASE d.wm.client[x].override \/ Contains(d.wm.mappedXids, x)
    <3>1. listed = d
      BY <2>1
    <3>2. IsDesktop(d) /\ SameManager(d.wm, d.wm) /\ Follows(d.server, d.server)
      BY RequestsFollow DEF SameManager, Types, IsDesktop
    <3> QED
      BY <3>1, <3>2, SameMade
  <2>2. CASE ~(d.wm.client[x].override \/ Contains(d.wm.mappedXids, x))
    <3> DEFINE m == AddOnTop(d.wm.mappedXids, x)
    <3>1. [d EXCEPT !.wm.mappedXids = AddOnTop(@, x)] = [d EXCEPT !.wm.mappedXids = m]
      OBVIOUS
    <3>2. listed = UpdateClientListStackingProperty(UpdateClientListProperty(
                     [d EXCEPT !.wm.mappedXids = m]))
      BY <2>2, <3>1
    <3> HIDE DEF m, listed
    <3> QED
      BY <3>2, ListedMade
  <2> QED
    BY <2>1, <2>2
<1>3. Types(listed) /\ listed.wm.client[x] = c /\ listed.wm.managed[x] = n /\ listed.wm.stacked = stk
  <2> HIDE DEF listed, c, n, stk
  <2> QED
    BY <1>0, <1>2, MadeTypes
<1>4. redirected = PutClient(listed, x, o)
  <2> HIDE DEF listed
  <2>1. redirected = PutClient(listed, x, [listed.wm.client[x] EXCEPT !.redirected = TRUE])
    BY DEF PutClient
  <2> QED
    BY <1>3, <2>1
<1> HIDE DEF listed, redirected
<1>5. Made(listed, redirected, x, o, n, stk)
  <2>1. Made(listed, PutClient(listed, x, o), x, o, listed.wm.managed[x], listed.wm.stacked)
    BY <1>3, PutClientMade
  <2> QED
    BY <1>3, <1>4, <2>1
<1>6. /\ Types(redirected) /\ redirected.wm.client[x] = o /\ redirected.wm.managed[x] = n
      /\ redirected.wm.stacked = stk
  <2> HIDE DEF n, stk
  <2> QED
    BY <1>0, <1>3, <1>5, MadeTypes
<1>7. /\ IsDesktop(g) /\ g.wm = redirected.wm /\ Follows(redirected.server, g.server)
  BY <1>6, PropertiesAre DEF Types
<1> HIDE DEF g
<1>8. Made(redirected, g, x, o, n, stk)
  <2>1. SameManager(g.wm, redirected.wm)
    BY <1>6, <1>7 DEF SameManager, Types, IsDesktop
  <2>2. Made(redirected, g, x, redirected.wm.client[x], redirected.wm.managed[x], redirected.wm.stacked)
    BY <1>6, <1>7, <2>1, SameMade
  <2> QED
    BY <1>6, <2>2
<1>9. Types(g) /\ g.wm.client[x] = o /\ g.wm.managed[x] = n /\ g.wm.stacked = stk
  <2> HIDE DEF n, stk
  <2>1. Types(redirected)
    BY <1>6
  <2>2. n \in Nat
    BY <1>0
  <2>3. o \in Objects
    BY <1>0
  <2> QED
    BY <1>8, <2>1, <2>2, <2>3, MadeTypes
<1>10. Made(g, ConsumeMap(g, x), x, o, n + 1, stk)
  <2>1. Made(g, ConsumeMap(g, x), x, g.wm.client[x], g.wm.managed[x] + 1, g.wm.stacked)
    BY <1>9, ConsumeMapMade
  <2> QED
    BY <1>9, <2>1
<1>11. Made(d, ConsumeMap(g, x), x, o, n + 1, stk)
  <2> DEFINE h == ConsumeMap(g, x)
             k == n + 1
  <2>0. Made(g, h, x, o, k, stk)
    BY <1>10
  <2> HIDE DEF n, stk, c, h, k
  <2>1. Made(d, redirected, x, o, n, stk)
    BY <1>2, <1>5, MadeOn
  <2>2. Made(d, g, x, o, n, stk)
    BY <1>8, <2>1, MadeOn
  <2>3. Made(d, h, x, o, k, stk)
    BY <2>0, <2>2, MadeOn
  <2> QED
    BY <2>3 DEF h, k
<1> QED
  BY <1>1, <1>11

\* A desktop in which an event e about window x is handled.
Ready(d, e, x) ==
  /\ Types(d) /\ ManagerInv(d.wm) /\ d.server.win \in [Xids -> Infos] /\ e.window = x
  /\ d.wm.client[x].tracked /\ d.server.win[x].exists => ~d.server.win[x].inputOnly

\* The handler of e did what the event says.
Handles(d, e, x, h) ==
  /\ Follows(d.server, h.server) /\ ManagerInv(h.wm)
  /\ \A y \in Xids : y # x => h.wm.client[y] = d.wm.client[y]
  /\ Heard(e, x, d.server.win[x], d.wm.client[x], h.wm.client[x])
  /\ h.wm.client[x].tracked /\ d.server.win[x].exists => ~d.server.win[x].inputOnly

\* What a handler made of the desktop, and what the event says.
LEMMA MadeHandles ==
  ASSUME NEW d, NEW e, NEW x \in Xids, Ready(d, e, x), NEW h,
         NEW o \in Objects, NEW n \in Nat, NEW stk, Made(d, h, x, o, n, stk), IsStack(stk),
         \A y \in Xids : y # x /\ Contains(d.wm.stacked, y) => Contains(stk, y),
         o.tracked => Contains(stk, x), o.mapped => o.tracked,
         n = IF o.mapped THEN 1 ELSE 0,
         Heard(e, x, d.server.win[x], d.wm.client[x], o),
         o.tracked /\ d.server.win[x].exists => ~d.server.win[x].inputOnly
  PROVE  Handles(d, e, x, h)
<1>1. ManagerInv(d.wm)
  BY DEF Ready
<1>2. /\ ManagerInv(h.wm) /\ h.wm.client[x] = o
      /\ \A y \in Xids : y # x => h.wm.client[y] = d.wm.client[y]
  BY <1>1, MadeKeeps
<1>3. Follows(d.server, h.server)
  BY DEF Made
<1> QED
  BY <1>2, <1>3 DEF Handles

\* What is known of the window whose event is handled.
LEMMA ReadyHas ==
  ASSUME NEW d, NEW e, NEW x \in Xids, Ready(d, e, x)
  PROVE  /\ Types(d) /\ IsDesktop(d) /\ IsStack(d.wm.stacked) /\ d.wm.client[x] \in Objects
         /\ d.wm.managed[x] \in Nat
         /\ d.wm.client[x].tracked => Contains(d.wm.stacked, x)
         /\ d.wm.client[x].mapped => d.wm.client[x].tracked
         /\ d.wm.managed[x] = IF d.wm.client[x].mapped THEN 1 ELSE 0
         /\ d.wm.client[x].tracked /\ d.server.win[x].exists => ~d.server.win[x].inputOnly
         /\ Exists(d.server, x) <=> d.server.win[x].exists
BY DEF Ready, Types, ManagerInv, IsManager, Exists

\* A handler that leaves the object of the window as it is, and the window in the order
\* if it has one.
LEMMA KeptHandles ==
  ASSUME NEW d, NEW e, NEW x \in Xids, Ready(d, e, x), NEW h, NEW stk,
         Made(d, h, x, d.wm.client[x], d.wm.managed[x], stk), IsStack(stk),
         \A y \in Xids : y # x /\ Contains(d.wm.stacked, y) => Contains(stk, y),
         d.wm.client[x].tracked => Contains(stk, x),
         Heard(e, x, d.server.win[x], d.wm.client[x], d.wm.client[x])
  PROVE  Handles(d, e, x, h)
<1> DEFINE o == d.wm.client[x]
           n == d.wm.managed[x]
<1>1. /\ o \in Objects /\ n \in Nat
      /\ o.mapped => o.tracked
      /\ n = IF o.mapped THEN 1 ELSE 0
      /\ o.tracked /\ d.server.win[x].exists => ~d.server.win[x].inputOnly
  BY ReadyHas
<1>2. Made(d, h, x, o, n, stk) /\ (o.tracked => Contains(stk, x)) /\ Heard(e, x, d.server.win[x], d.wm.client[x], o)
  OBVIOUS
<1> HIDE DEF o, n
<1> QED
  BY <1>1, <1>2, MadeHandles

\* A handler that does nothing.
LEMMA IdleHandles ==
  ASSUME NEW d, NEW e, NEW x \in Xids, Ready(d, e, x), NEW h, IsDesktop(h),
         Follows(d.server, h.server), SameManager(h.wm, d.wm),
         Heard(e, x, d.server.win[x], d.wm.client[x], d.wm.client[x])
  PROVE  Handles(d, e, x, h)
<1>1. /\ Types(d) /\ IsStack(d.wm.stacked)
      /\ d.wm.client[x].tracked => Contains(d.wm.stacked, x)
  BY ReadyHas
<1>2. Made(d, h, x, d.wm.client[x], d.wm.managed[x], d.wm.stacked)
  BY <1>1, SameMade
<1> QED
  BY <1>1, <1>2, KeptHandles

\* TrackWindow() of a window that has no object.
LEMMA TrackMade ==
  ASSUME NEW d, Types(d), NEW x \in Xids, ~d.wm.client[x].tracked, NEW override
  PROVE  /\ IsInputOnly(d.server, x) => TrackWindow(d, x, override) = d
         /\ ~IsInputOnly(d.server, x) =>
              /\ Made(d, TrackWindow(d, x, override), x, Window(override), d.wm.managed[x], d.wm.stacked)
              /\ TrackWindow(d, x, override).server = d.server
<1>1. CASE IsInputOnly(d.server, x)
  BY <1>1 DEF TrackWindow
<1>2. CASE ~IsInputOnly(d.server, x)
  <2> DEFINE t == [d EXCEPT !.wm.client[x] = Window(override), !.wm.actors = AddOnTop(@, x)]
             o == Window(override)
  <2>1. TrackWindow(d, x, override) = t
    BY <1>2 DEF TrackWindow, IsTracked
  <2> HIDE DEF o
  <2>2. /\ DOMAIN t = {"server", "wm"} /\ t.server = d.server /\ DOMAIN t.wm = ManagerFields
        /\ t.wm.client = [d.wm.client EXCEPT ![x] = o] /\ t.wm.managed = d.wm.managed
        /\ t.wm.stacked = d.wm.stacked
    BY DEF Types, IsDesktop, ManagerFields, o
  <2>3. [d.wm.managed EXCEPT ![x] = d.wm.managed[x]] = d.wm.managed
    BY DEF Types
  <2>4. Follows(d.server, d.server)
    BY RequestsFollow
  <2> HIDE DEF t
  <2>5. Made(d, t, x, o, d.wm.managed[x], d.wm.stacked)
    BY <2>2, <2>3, <2>4 DEF Made, IsDesktop
  <2> QED
    BY <1>2, <2>1, <2>2, <2>5 DEF o
<1> QED
  BY <1>1, <1>2

\* HandleCreateNotify().
LEMMA CreateHandles ==
  ASSUME NEW d, NEW e \in Events, NEW x \in Xids, Ready(d, e, x), e.type = "CreateNotify"
  PROVE  Handles(d, e, x, HandleCreateNotify(d, e))
<1> DEFINE h == HandleCreateNotify(d, e)
           k == d.wm.client[x]
           stk == AddOnTop(d.wm.stacked, x)
           t == PutStacked(d, stk)
<1>0. /\ Types(d) /\ IsDesktop(d) /\ IsStack(d.wm.stacked) /\ k \in Objects
      /\ d.wm.managed[x] \in Nat
      /\ k.mapped => k.tracked
      /\ d.wm.managed[x] = IF k.mapped THEN 1 ELSE 0
      /\ Exists(d.server, x) <=> d.server.win[x].exists
  BY ReadyHas
<1>1. e.parent = Root /\ e.override \in BOOLEAN /\ e.window = x
  BY DEF Events, Ready
<1>2. ~TellsHidden(e, x) /\ ~TellsGone(e, x) /\ ~Tells(e, "MapNotify", x) /\ Tells(e, "CreateNotify", x)
  BY <1>1 DEF TellsHidden, TellsGone, TellsLeft, Tells
<1>3. CASE k.tracked
  <2>1. h = d
    BY <1>1, <1>3 DEF HandleCreateNotify, IsTracked
  <2>2. Heard(e, x, d.server.win[x], k, k)
    BY <1>2, <1>3 DEF Heard
  <2>3. Follows(d.server, d.server) /\ SameManager(d.wm, d.wm)
    BY <1>0, RequestsFollow DEF SameManager, IsDesktop
  <2> QED
    BY <1>0, <2>1, <2>2, <2>3, IdleHandles
<1>4. CASE ~k.tracked
  <2>1. /\ IsStack(stk) /\ Contains(stk, x)
        /\ \A y \in Xids : y # x /\ Contains(d.wm.stacked, y) => Contains(stk, y)
    BY <1>0, AddOnTopIs
  <2>2. h = IF Exists(d.server, x) THEN TrackWindow(t, x, e.override) ELSE t
    BY <1>1, <1>4 DEF HandleCreateNotify, IsTracked, PutStacked
  <2> HIDE DEF stk
  <2>3. /\ Made(d, t, x, k, d.wm.managed[x], stk)
        /\ t.server = d.server /\ t.wm.client = d.wm.client /\ t.wm.managed = d.wm.managed
    BY <1>0, PutStackedMade
  <2> HIDE DEF t, h
  <2>4. Types(t) /\ t.wm.client[x] = k /\ t.wm.stacked = stk /\ t.wm.managed[x] = 0 /\ ~k.mapped
    BY <1>0, <1>4, <2>3 DEF Types, Made
  <2>5. ASSUME ~Exists(d.server, x) \/ IsInputOnly(d.server, x)
        PROVE  Handles(d, e, x, h)
    <3>1. h = t
      <4>1. CASE ~Exists(d.server, x)
        BY <2>2, <4>1
      <4>2. CASE IsInputOnly(d.server, x)
        <5>1. TrackWindow(t, x, e.override) = t
          BY <1>4, <2>3, <2>4, <4>2, TrackMade
        <5> QED
          BY <2>2, <5>1
      <4> QED
        BY <2>5, <4>1, <4>2
    <3>2. ~Child(d.server.win[x]) \/ d.server.win[x].inputOnly
      BY <1>0, <2>5 DEF Child, IsInputOnly
    <3>3. Heard(e, x, d.server.win[x], k, k)
      BY <1>2, <1>4, <2>4, <3>2 DEF Heard
    <3>4. Made(d, h, x, k, d.wm.managed[x], stk)
      BY <2>3, <3>1
    <3> QED
      BY <1>4, <2>1, <3>3, <3>4, KeptHandles
  <2>6. ASSUME Exists(d.server, x), ~IsInputOnly(d.server, x)
        PROVE  Handles(d, e, x, h)
    <3> DEFINE o == Window(e.override)
    <3>1. o \in Objects /\ o.tracked /\ ~o.mapped
      BY <1>1 DEF Window, Untracked, Objects
    <3>2. Made(t, h, x, o, 0, stk)
      <4>1. Made(t, TrackWindow(t, x, e.override), x, o, t.wm.managed[x], t.wm.stacked)
        BY <1>4, <2>3, <2>4, <2>6, TrackMade
      <4> HIDE DEF o
      <4> QED
        BY <2>2, <2>4, <2>6, <4>1
    <3>3. ~d.server.win[x].inputOnly
      BY <1>0, <2>6 DEF IsInputOnly
    <3>4. Heard(e, x, d.server.win[x], k, o)
      BY <1>2, <1>4, <3>1 DEF Heard
    <3> HIDE DEF o
    <3>5. Made(d, h, x, o, 0, stk)
      BY <1>0, <2>3, <3>2, MadeOn
    <3> QED
      BY <2>1, <3>1, <3>3, <3>4, <3>5, MadeHandles
  <2> QED
    BY <2>5, <2>6 DEF h
<1> QED
  BY <1>3, <1>4

\* The Window object is deleted.
LEMMA UntrackMade ==
  ASSUME NEW d, Types(d), NEW x \in Xids
  PROVE  Made(d, Untrack(d, x), x, Untracked, d.wm.managed[x], d.wm.stacked)
<1> DEFINE t == Untrack(d, x)
           o == Untracked
<1> HIDE DEF o
<1>1. /\ DOMAIN t = {"server", "wm"} /\ t.server = d.server /\ DOMAIN t.wm = ManagerFields
      /\ t.wm.client = [d.wm.client EXCEPT ![x] = o] /\ t.wm.managed = d.wm.managed
      /\ t.wm.stacked = d.wm.stacked
  BY DEF Types, IsDesktop, ManagerFields, Untrack, o
<1>2. [d.wm.managed EXCEPT ![x] = d.wm.managed[x]] = d.wm.managed
  BY DEF Types
<1>3. Follows(d.server, d.server)
  BY RequestsFollow
<1> HIDE DEF t
<1>4. Made(d, t, x, o, d.wm.managed[x], d.wm.stacked)
  BY <1>1, <1>2, <1>3 DEF Made, IsDesktop
<1> QED
  BY <1>4 DEF t, o

\* The stacking list may be written.
LEMMA StackingListMade ==
  ASSUME NEW d, Types(d), NEW x \in Xids, NEW t,
         t \in {d, UpdateClientListProperty(d), UpdateClientListStackingProperty(d)}
  PROVE  Made(d, t, x, d.wm.client[x], d.wm.managed[x], d.wm.stacked)
<1>1. IsDesktop(d) /\ Follows(d.server, d.server)
  BY RequestsFollow DEF Types
<1>2. IsDesktop(t) /\ t.wm = d.wm /\ Follows(d.server, t.server)
  BY <1>1, ListsAre
<1>3. SameManager(t.wm, d.wm)
  BY <1>1, <1>2 DEF SameManager, IsDesktop
<1> QED
  BY <1>2, <1>3, SameMade

\* A window is forgotten: the last steps of two handlers.
LEMMA ForgetMade ==
  ASSUME NEW d, Types(d), NEW x \in Xids, NEW t, NEW o \in Objects, NEW n \in Nat, NEW stk,
         Made(d, t, x, o, n, stk)
  PROVE  Made(d, Untrack(t, x), x, Untracked, n, stk)
<1>1. Types(t) /\ t.wm.managed[x] = n /\ t.wm.stacked = stk
  BY MadeTypes
<1> DEFINE h == Untrack(t, x)
           p == Untracked
<1>2. Made(t, h, x, p, t.wm.managed[x], t.wm.stacked)
  BY <1>1, UntrackMade
<1> HIDE DEF h, p
<1>3. Made(t, h, x, p, n, stk)
  BY <1>1, <1>2
<1>4. Made(d, h, x, p, n, stk)
  BY <1>3, MadeOn
<1> QED
  BY <1>4 DEF h, p

\* What an object that is deleted hears.
LEMMA ForgetHandles ==
  ASSUME NEW d, NEW e, NEW x \in Xids, Ready(d, e, x), TellsGone(e, x), NEW h, NEW stk,
         Made(d, h, x, Untracked, 0, stk), IsStack(stk),
         \A y \in Xids : y # x /\ Contains(d.wm.stacked, y) => Contains(stk, y)
  PROVE  Handles(d, e, x, h)
<1> DEFINE o == Untracked
           n == 0
<1>1. o \in Objects /\ ~o.tracked /\ ~o.mapped
  BY DEF Untracked, Objects
<1>2. Made(d, h, x, o, n, stk) /\ n \in Nat /\ n = 0
  OBVIOUS
<1> HIDE DEF o, n
<1>3. ~Tells(e, "CreateNotify", x) /\ ~Tells(e, "MapNotify", x)
  BY DEF TellsGone, TellsLeft, Tells
<1>4. Heard(e, x, d.server.win[x], d.wm.client[x], o)
  BY <1>1, <1>3 DEF Heard
<1>5. n = IF o.mapped THEN 1 ELSE 0
  BY <1>1, <1>2
<1> QED
  BY <1>1, <1>2, <1>4, <1>5, MadeHandles

\* HandleDestroyNotify() of a window that no consumer holds.
LEMMA DestroyHandles ==
  ASSUME NEW d, NEW e \in Events, NEW x \in Xids, Ready(d, e, x), e.type = "DestroyNotify",
         ~d.wm.client[x].mapped
  PROVE  Handles(d, e, x, HandleDestroyNotify(d, e))
<1> DEFINE h == HandleDestroyNotify(d, e)
           k == d.wm.client[x]
           n == d.wm.managed[x]
           stk == TakeOut(d.wm.stacked, x)
           t == PutStacked(d, stk)
           u == IF k.override THEN t ELSE UpdateClientListStackingProperty(t)
<1>0. /\ Types(d) /\ IsStack(d.wm.stacked) /\ k \in Objects /\ n = 0 /\ n \in Nat
  BY ReadyHas
<1>1. e.window = x
  BY DEF Ready
<1>2. ~TellsHidden(e, x) /\ TellsGone(e, x) /\ ~Tells(e, "MapNotify", x) /\ ~Tells(e, "CreateNotify", x)
  BY <1>1 DEF TellsHidden, TellsGone, TellsLeft, Tells
<1>3. /\ IsStack(stk)
      /\ \A y \in Xids : y # x /\ Contains(d.wm.stacked, y) => Contains(stk, y)
  BY <1>0, TakeOutIs
<1>4. h = IF ~k.tracked THEN t ELSE Untrack(u, x)
  BY <1>1 DEF HandleDestroyNotify, IsTracked, PutStacked
<1> HIDE DEF stk
<1>5. Made(d, t, x, k, n, stk)
  BY <1>0, PutStackedMade
<1> HIDE DEF t, h
<1>6. CASE ~k.tracked
  <2>1. Heard(e, x, d.server.win[x], k, k)
    BY <1>2, <1>6 DEF Heard
  <2>2. Made(d, h, x, k, n, stk)
    BY <1>4, <1>5, <1>6
  <2>3. Handles(d, e, x, h)
    BY <1>3, <1>6, <2>1, <2>2, KeptHandles
  <2> QED
    BY <2>3 DEF h
<1>7. CASE k.tracked
  <2>1. u \in {t, UpdateClientListProperty(t), UpdateClientListStackingProperty(t)}
    OBVIOUS
  <2>2. h = Untrack(u, x)
    BY <1>4, <1>7
  <2> HIDE DEF u, k, n
  <2>3. Types(t) /\ t.wm.client[x] = k /\ t.wm.managed[x] = n /\ t.wm.stacked = stk
    BY <1>0, <1>5, MadeTypes
  <2>4. Made(t, u, x, t.wm.client[x], t.wm.managed[x], t.wm.stacked)
    BY <2>1, <2>3, StackingListMade
  <2>5. Made(t, u, x, k, n, stk)
    BY <2>3, <2>4
  <2>6. Made(d, u, x, k, n, stk)
    BY <1>0, <1>5, <2>5, MadeOn
  <2>7. Made(d, Untrack(u, x), x, Untracked, n, stk)
    BY <1>0, <2>6, ForgetMade
  <2>8. Made(d, h, x, Untracked, 0, stk)
    BY <1>0, <2>2, <2>7
  <2>9. Handles(d, e, x, h)
    BY <1>2, <1>3, <2>8, ForgetHandles
  <2> QED
    BY <2>9 DEF h
<1> QED
  BY <1>6, <1>7

\* HandleMapNotify().
LEMMA MapHandles ==
  ASSUME NEW d, NEW e \in Events, NEW x \in Xids, Ready(d, e, x), e.type = "MapNotify"
  PROVE  Handles(d, e, x, HandleMapNotify(d, e))
<1> DEFINE h == HandleMapNotify(d, e)
           k == d.wm.client[x]
           n == d.wm.managed[x]
           stk == d.wm.stacked
           l == [k EXCEPT !.mapped = TRUE]
           o == [l EXCEPT !.redirected = TRUE]
           t == PutClient(d, x, l)
<1>0. /\ Types(d) /\ IsDesktop(d) /\ IsStack(stk) /\ k \in Objects /\ n \in Nat
      /\ k.tracked => Contains(stk, x)
      /\ n = IF k.mapped THEN 1 ELSE 0
      /\ k.tracked /\ d.server.win[x].exists => ~d.server.win[x].inputOnly
  BY ReadyHas
<1>1. e.window = x
  BY DEF Ready
<1>2. ~TellsHidden(e, x) /\ ~TellsGone(e, x) /\ Tells(e, "MapNotify", x) /\ ~Tells(e, "CreateNotify", x)
  BY <1>1 DEF TellsHidden, TellsGone, TellsLeft, Tells
<1>3. CASE ~k.tracked \/ k.mapped
  <2>1. h = d
    BY <1>1, <1>3 DEF HandleMapNotify, IsTracked
  <2>2. Heard(e, x, d.server.win[x], k, k)
    BY <1>2, <1>3 DEF Heard
  <2>3. Follows(d.server, d.server) /\ SameManager(d.wm, d.wm)
    BY <1>0, RequestsFollow DEF SameManager, IsDesktop
  <2> QED
    BY <1>0, <2>1, <2>2, <2>3, IdleHandles
<1>4. CASE ~(~k.tracked \/ k.mapped)
  <2>1. h = HandleMappedWindow(t, x)
    BY <1>1, <1>4 DEF HandleMapNotify, IsTracked, PutClient
  <2>2. l \in Objects /\ o \in Objects /\ o.tracked /\ o.mapped
    BY <1>0, <1>4 DEF Objects
  <2>3. o = [l EXCEPT !.redirected = TRUE]
    OBVIOUS
  <2> HIDE DEF l, o
  <2>4. Made(d, t, x, l, n, stk)
    BY <1>0, PutClientMade
  <2> HIDE DEF h, t
  <2>5. n = 0 /\ n + 1 = 1 /\ 1 \in Nat
    BY <1>0, <1>4
  <2>6. Heard(e, x, d.server.win[x], k, o)
    BY <1>2, <1>4, <2>2 DEF Heard
  <2>7. o.tracked /\ d.server.win[x].exists => ~d.server.win[x].inputOnly
    BY <1>0, <1>4
  <2>8. Contains(stk, x)
    BY <1>0, <1>4
  <2>9. Made(d, h, x, o, 1, stk)
    <3> HIDE DEF n, stk
    <3>1. Types(t) /\ t.wm.client[x] = l /\ t.wm.managed[x] = n /\ t.wm.stacked = stk
      <4>1. Types(d)
        BY <1>0
      <4>2. l \in Objects
        BY <2>2
      <4>3. n \in Nat
        BY <1>0
      <4> QED
        BY <2>4, <4>1, <4>2, <4>3, MadeTypes
    <3>2. o = [t.wm.client[x] EXCEPT !.redirected = TRUE]
      BY <2>3, <3>1
    <3>3. Made(t, HandleMappedWindow(t, x), x, o, t.wm.managed[x] + 1, t.wm.stacked)
      BY <3>1, <3>2, HandleMappedMade
    <3>4. Made(t, h, x, o, 1, stk)
      BY <2>1, <2>5, <3>1, <3>3
    <3> QED
      BY <1>0, <2>4, <3>4, MadeOn
  <2>10. 1 = IF o.mapped THEN 1 ELSE 0
    BY <2>2
  <2>11. Handles(d, e, x, h)
    BY <1>0, <2>2, <2>5, <2>6, <2>7, <2>8, <2>9, <2>10, MadeHandles
  <2> QED
    BY <2>11 DEF h
<1> QED
  BY <1>3, <1>4

\* HandleMapRequest().
LEMMA MapRequestHandles ==
  ASSUME NEW d, NEW e \in Events, NEW x \in Xids, Ready(d, e, x), e.type = "MapRequest"
  PROVE  Handles(d, e, x, HandleMapRequest(d, e))
<1> DEFINE h == HandleMapRequest(d, e)
           k == d.wm.client[x]
           n == d.wm.managed[x]
           stk == d.wm.stacked
           o == [k EXCEPT !.redirected = TRUE]
           t == PutClient(d, x, o)
<1>0. /\ Types(d) /\ IsDesktop(d) /\ IsStack(stk) /\ k \in Objects /\ n \in Nat
      /\ k.tracked => Contains(stk, x)
      /\ k.mapped => k.tracked
      /\ n = IF k.mapped THEN 1 ELSE 0
      /\ k.tracked /\ d.server.win[x].exists => ~d.server.win[x].inputOnly
  BY ReadyHas
<1>1. e.window = x
  BY DEF Ready
<1>2. ~TellsHidden(e, x) /\ ~TellsGone(e, x) /\ ~Tells(e, "MapNotify", x) /\ ~Tells(e, "CreateNotify", x)
  BY <1>1 DEF TellsHidden, TellsGone, TellsLeft, Tells
<1>3. CASE ~k.tracked
  <2> DEFINE s == Maps(d.server, x)
  <2>1. h = [d EXCEPT !.server = s]
    BY <1>1, <1>3 DEF HandleMapRequest, IsTracked
  <2>2. Heard(e, x, d.server.win[x], k, k)
    BY <1>2, <1>3 DEF Heard
  <2>3. Follows(d.server, s)
    BY RequestsFollow
  <2> HIDE DEF s
  <2>4. Made(d, h, x, k, n, stk)
    BY <1>0, <2>1, <2>3, ServerMade
  <2> QED
    BY <1>0, <2>2, <2>4, KeptHandles
<1>4. CASE k.tracked
  <2> DEFINE r == Restacked(t.server, RaiseWindow(t.server, x), x)
             s == Maps(r, x)
  <2>1. h = ConsumeMapRequest(t, x)
    BY <1>1, <1>4 DEF HandleMapRequest, IsTracked, PutClient
  <2>2. o \in Objects /\ o.tracked = k.tracked /\ o.mapped = k.mapped
    BY <1>0 DEF Objects
  <2>3. h = [t EXCEPT !.server = s]
    BY <2>1 DEF ConsumeMapRequest
  <2> HIDE DEF o
  <2>4. Made(d, t, x, o, n, stk)
    BY <1>0, PutClientMade
  <2> HIDE DEF h, t
  <2>5. Follows(t.server, r) /\ Follows(r, s)
    BY RequestsFollow
  <2>6. Follows(t.server, s)
    BY <2>5, FollowsOn
  <2> HIDE DEF r, s
  <2>7. Heard(e, x, d.server.win[x], k, o)
    BY <1>2, <1>4, <2>2 DEF Heard
  <2>8. Made(d, h, x, o, n, stk)
    <3> HIDE DEF n, stk, k
    <3>1. Types(t) /\ t.wm.client[x] = o /\ t.wm.managed[x] = n /\ t.wm.stacked = stk
      <4>1. Types(d)
        BY <1>0
      <4>2. o \in Objects
        BY <2>2
      <4>3. n \in Nat
        BY <1>0
      <4> QED
        BY <2>4, <4>1, <4>2, <4>3, MadeTypes
    <3>2. Made(t, h, x, t.wm.client[x], t.wm.managed[x], t.wm.stacked)
      BY <2>3, <2>6, <3>1, ServerMade
    <3>3. Made(t, h, x, o, n, stk)
      BY <3>1, <3>2
    <3> QED
      BY <1>0, <2>4, <3>3, MadeOn
  <2>9. /\ n = IF o.mapped THEN 1 ELSE 0
        /\ o.mapped => o.tracked
        /\ Contains(stk, x)
        /\ o.tracked /\ d.server.win[x].exists => ~d.server.win[x].inputOnly
    BY <1>0, <1>4, <2>2
  <2>10. Handles(d, e, x, h)
    <3> HIDE DEF n
    <3> QED
      BY <1>0, <2>2, <2>7, <2>8, <2>9, MadeHandles
  <2> QED
    BY <2>10 DEF h
<1> QED
  BY <1>3, <1>4

\* HandleFocusChange().
LEMMA FocusHandles ==
  ASSUME NEW d, NEW e \in Events, NEW x \in Xids, Ready(d, e, x), e.type = "FocusIn"
  PROVE  Handles(d, e, x, HandleFocusChange(d, e))
<1> DEFINE h == HandleFocusChange(d, e)
           k == d.wm.client[x]
<1>0. IsDesktop(d)
  BY ReadyHas
<1>1. e.window = x
  BY DEF Ready
<1>2. ~TellsHidden(e, x) /\ ~TellsGone(e, x) /\ ~Tells(e, "MapNotify", x) /\ ~Tells(e, "CreateNotify", x)
  BY <1>1 DEF TellsHidden, TellsGone, TellsLeft, Tells
<1>3. Heard(e, x, d.server.win[x], k, k)
  BY <1>2 DEF Heard
<1>4. h = IF d.wm.managed[x] = 0 THEN d ELSE SetActiveWindowProperty(d, x)
  BY <1>1 DEF HandleFocusChange
<1>5. IsDesktop(h) /\ Follows(d.server, h.server) /\ SameManager(h.wm, d.wm)
  <2>1. Follows(d.server, d.server) /\ SameManager(d.wm, d.wm)
    BY <1>0, RequestsFollow DEF SameManager, IsDesktop
  <2>2. /\ IsDesktop(SetActiveWindowProperty(d, x))
        /\ SameManager(SetActiveWindowProperty(d, x).wm, d.wm)
        /\ Follows(d.server, SetActiveWindowProperty(d, x).server)
    BY <1>0, PropertiesAre
  <2> HIDE DEF h
  <2> QED
    BY <1>0, <1>4, <2>1, <2>2
<1> QED
  BY <1>3, <1>5, IdleHandles

\* A consumer's HandleWindowUnmap().
LEMMA ConsumeUnmapMade ==
  ASSUME NEW d, Types(d), NEW x \in Xids, d.wm.managed[x] <= 1
  PROVE  Made(d, ConsumeUnmap(d, x), x, d.wm.client[x], 0, d.wm.stacked)
<1> DEFINE n == d.wm.managed[x]
           m == IF n = 0 THEN 0 ELSE n - 1
<1>1. ConsumeUnmap(d, x) = PutManaged(d, x, m)
  BY DEF ConsumeUnmap, PutManaged
<1>2. m = 0
  BY DEF Types
<1> HIDE DEF m
<1>3. Made(d, PutManaged(d, x, m), x, d.wm.client[x], m, d.wm.stacked)
  BY PutManagedMade
<1> QED
  BY <1>1, <1>2, <1>3

\* The first part of HandleUnmapNotify().
LEMMA WithdrawMade ==
  ASSUME NEW d, Types(d), NEW x \in Xids, d.wm.managed[x] <= 1
  PROVE  Made(d, Withdraw(d, x), x, [d.wm.client[x] EXCEPT !.mapped = FALSE], 0, d.wm.stacked)
<1> DEFINE k == d.wm.client[x]
           o == [k EXCEPT !.mapped = FALSE]
           n == d.wm.managed[x]
           stk == d.wm.stacked
           a == SetWmStateProperty(d, x, "withdrawn")
           b == [a EXCEPT !.wm.client[x].mapped = FALSE]
           told == ConsumeUnmap(b, x)
           h == Withdraw(d, x)
           z == 0
<1>0. k \in Objects /\ n \in Nat /\ o \in Objects /\ z \in Nat /\ n <= 1
  BY DEF Types, Objects
<1>1. h = IF ~Contains(told.wm.mappedXids, x) THEN told
          ELSE UpdateClientListStackingProperty(UpdateClientListProperty(
                 [told EXCEPT !.wm.mappedXids = TakeOut(@, x)]))
  BY DEF Withdraw
<1>2. /\ IsDesktop(a) /\ a.wm = d.wm /\ Follows(d.server, a.server)
  BY PropertiesAre DEF Types
<1> HIDE DEF h, a
<1>3. Made(d, a, x, k, n, stk) /\ Types(a)
  <2>1. SameManager(a.wm, d.wm) /\ Types(a)
    BY <1>2 DEF SameManager, Types, IsDesktop
  <2> QED
    BY <1>2, <2>1, SameMade
<1>4. b = PutClient(a, x, o)
  BY <1>2 DEF PutClient
<1> HIDE DEF b, o
<1>5. Made(a, b, x, o, n, stk)
  <2>1. Made(a, PutClient(a, x, o), x, o, a.wm.managed[x], a.wm.stacked)
    BY <1>3, PutClientMade
  <2> QED
    BY <1>2, <1>4, <2>1
<1> HIDE DEF n, stk, k
<1>6. Types(b) /\ b.wm.client[x] = o /\ b.wm.managed[x] = n /\ b.wm.stacked = stk
  <2>1. Types(a)
    BY <1>3
  <2>2. o \in Objects
    BY <1>0
  <2>3. n \in Nat
    BY <1>0
  <2> QED
    BY <1>5, <2>1, <2>2, <2>3, MadeTypes
<1>7. Made(b, told, x, o, z, stk)
  <2>1. b.wm.managed[x] <= 1
    BY <1>0, <1>6
  <2>2. Made(b, ConsumeUnmap(b, x), x, b.wm.client[x], 0, b.wm.stacked)
    BY <1>6, <2>1, ConsumeUnmapMade
  <2> QED
    BY <1>6, <2>2
<1> HIDE DEF told, z
<1>8. Types(told) /\ told.wm.client[x] = o /\ told.wm.managed[x] = z /\ told.wm.stacked = stk
  <2>1. Types(b)
    BY <1>6
  <2>2. o \in Objects
    BY <1>0
  <2>3. z \in Nat
    BY <1>0
  <2> QED
    BY <1>7, <2>1, <2>2, <2>3, MadeTypes
<1>9. Made(told, h, x, o, z, stk)
  <2>1. CASE ~Contains(told.wm.mappedXids, x)
    <3>1. h = told
      BY <1>1, <2>1
    <3>2. IsDesktop(told) /\ SameManager(told.wm, told.wm) /\ Follows(told.server, told.server)
      BY <1>8, RequestsFollow DEF SameManager, Types, IsDesktop
    <3>3. Made(told, told, x, told.wm.client[x], told.wm.managed[x], told.wm.stacked)
      BY <1>8, <3>2, SameMade
    <3> QED
      BY <1>8, <3>1, <3>3
  <2>2. CASE Contains(told.wm.mappedXids, x)
    <3> DEFINE m == TakeOut(told.wm.mappedXids, x)
    <3>1. [told EXCEPT !.wm.mappedXids = TakeOut(@, x)] = [told EXCEPT !.wm.mappedXids = m]
      OBVIOUS
    <3>2. h = UpdateClientListStackingProperty(UpdateClientListProperty(
                [told EXCEPT !.wm.mappedXids = m]))
      BY <1>1, <2>2, <3>1
    <3> HIDE DEF m
    <3>3. Made(told, h, x, told.wm.client[x], told.wm.managed[x], told.wm.stacked)
      BY <1>8, <3>2, ListedMade
    <3> QED
      BY <1>8, <3>3
  <2> QED
    BY <2>1, <2>2
<1>10. Made(d, b, x, o, n, stk)
  BY <1>3, <1>5, MadeOn
<1>11. Made(d, told, x, o, z, stk)
  BY <1>7, <1>10, MadeOn
<1>12. Made(d, h, x, o, z, stk)
  BY <1>9, <1>11, MadeOn
<1> QED
  BY <1>12 DEF h, z, stk, o, k

\* HandleUnmapNotify().
LEMMA UnmapHandles ==
  ASSUME NEW d, NEW e \in Events, NEW x \in Xids, Ready(d, e, x), e.type = "UnmapNotify"
  PROVE  Handles(d, e, x, HandleUnmapNotify(d, e))
<1> DEFINE h == HandleUnmapNotify(d, e)
           k == d.wm.client[x]
           n == d.wm.managed[x]
           stk == d.wm.stacked
           o == [k EXCEPT !.mapped = FALSE]
           t == Withdraw(d, x)
           z == 0
<1>0. /\ Types(d) /\ IsDesktop(d) /\ IsStack(stk) /\ k \in Objects /\ n \in Nat
      /\ k.tracked => Contains(stk, x)
      /\ k.mapped => k.tracked
      /\ n <= 1
      /\ k.tracked /\ d.server.win[x].exists => ~d.server.win[x].inputOnly
  BY ReadyHas
<1>1. e.window = x
  BY DEF Ready
<1>2. TellsHidden(e, x) /\ ~TellsGone(e, x) /\ ~Tells(e, "MapNotify", x) /\ ~Tells(e, "CreateNotify", x)
  BY <1>1 DEF TellsHidden, TellsGone, TellsLeft, Tells
<1>3. CASE ~k.tracked
  <2>1. h = d
    BY <1>1, <1>3 DEF HandleUnmapNotify, IsTracked
  <2>2. Heard(e, x, d.server.win[x], k, k)
    BY <1>0, <1>2, <1>3 DEF Heard
  <2>3. Follows(d.server, d.server) /\ SameManager(d.wm, d.wm)
    BY <1>0, RequestsFollow DEF SameManager, IsDesktop
  <2> QED
    BY <1>0, <2>1, <2>2, <2>3, IdleHandles
<1>4. CASE k.tracked
  <2>1. h = IF t.wm.active = x THEN SetActiveWindowProperty(t, None) ELSE t
    BY <1>1, <1>4 DEF HandleUnmapNotify, IsTracked
  <2>2. o \in Objects /\ o.tracked = k.tracked /\ ~o.mapped
    BY <1>0 DEF Objects
  <2>3. Made(d, t, x, o, z, stk)
    BY <1>0, WithdrawMade
  <2>4. z \in Nat /\ z = IF o.mapped THEN 1 ELSE 0
    BY <2>2
  <2>5. Heard(e, x, d.server.win[x], k, o)
    BY <1>2, <1>4, <2>2 DEF Heard
  <2> HIDE DEF h, t, o, z
  <2>6. Made(d, h, x, o, z, stk)
    <3> HIDE DEF stk
    <3>1. Types(t) /\ t.wm.client[x] = o /\ t.wm.managed[x] = z /\ t.wm.stacked = stk
      <4>1. Types(d)
        BY <1>0
      <4>2. o \in Objects
        BY <2>2
      <4>3. z \in Nat
        BY <2>4
      <4> QED
        BY <2>3, <4>1, <4>2, <4>3, MadeTypes
    <3>2. IsDesktop(h) /\ SameManager(h.wm, t.wm) /\ Follows(t.server, h.server)
      <4>1. IsDesktop(t) /\ SameManager(t.wm, t.wm) /\ Follows(t.server, t.server)
        BY <3>1, RequestsFollow DEF SameManager, Types, IsDesktop
      <4>2. /\ IsDesktop(SetActiveWindowProperty(t, None))
            /\ SameManager(SetActiveWindowProperty(t, None).wm, t.wm)
            /\ Follows(t.server, SetActiveWindowProperty(t, None).server)
        BY <4>1, PropertiesAre
      <4> QED
        BY <2>1, <4>1, <4>2
    <3>3. Made(t, h, x, t.wm.client[x], t.wm.managed[x], t.wm.stacked)
      BY <3>1, <3>2, SameMade
    <3>4. Made(t, h, x, o, z, stk)
      BY <3>1, <3>3
    <3> QED
      BY <1>0, <2>3, <3>4, MadeOn
  <2>7. /\ Contains(stk, x)
        /\ o.tracked /\ d.server.win[x].exists => ~d.server.win[x].inputOnly
    BY <1>0, <1>4
  <2>8. Handles(d, e, x, h)
    BY <1>0, <2>2, <2>4, <2>5, <2>6, <2>7, MadeHandles
  <2> QED
    BY <2>8 DEF h
<1> QED
  BY <1>3, <1>4

\* HandleReparentNotify(), its common part: the window leaves the order and the list of
\* clients.
LEMMA LeaveMade ==
  ASSUME NEW d, Types(d), NEW x \in Xids, NEW stk, NEW t, t = PutStacked(d, stk), NEW u,
         u = IF ~Contains(t.wm.mappedXids, x) THEN t
             ELSE UpdateClientListProperty([t EXCEPT !.wm.mappedXids = TakeOut(@, x)])
  PROVE  Made(d, u, x, d.wm.client[x], d.wm.managed[x], stk)
<1> DEFINE k == d.wm.client[x]
           n == d.wm.managed[x]
           g == [t EXCEPT !.wm.mappedXids = TakeOut(@, x)]
<1>1. /\ Made(d, PutStacked(d, stk), x, k, n, stk)
      /\ PutStacked(d, stk).server = d.server /\ PutStacked(d, stk).wm.client = d.wm.client
      /\ PutStacked(d, stk).wm.managed = d.wm.managed
  BY PutStackedMade
<1>2. Made(d, t, x, k, n, stk) /\ t.wm.client = d.wm.client /\ t.wm.managed = d.wm.managed
  BY <1>1
<1>3. Types(t) /\ t.wm.stacked = stk
  BY <1>2 DEF Types, Made
<1>4. CASE ~Contains(t.wm.mappedXids, x)
  BY <1>2, <1>4
<1>5. CASE Contains(t.wm.mappedXids, x)
  <2>1. IsDesktop(g) /\ g.server = t.server /\ SameManager(g.wm, t.wm)
    BY <1>3 DEF Types, IsDesktop, SameManager, ManagerFields
  <2>2. u = UpdateClientListProperty(g)
    BY <1>5
  <2> HIDE DEF g
  <2>3. /\ IsDesktop(UpdateClientListProperty(g)) /\ UpdateClientListProperty(g).wm = g.wm
        /\ Follows(g.server, UpdateClientListProperty(g).server)
    BY <2>1, ListsAre
  <2>4. IsDesktop(u) /\ SameManager(u.wm, t.wm) /\ Follows(t.server, u.server)
    BY <2>1, <2>2, <2>3
  <2>5. Made(t, u, x, t.wm.client[x], t.wm.managed[x], t.wm.stacked)
    BY <1>3, <2>4, SameMade
  <2>6. Made(t, u, x, k, n, stk)
    BY <1>2, <1>3, <2>5
  <2> QED
    BY <1>2, <2>6 DEF Made, Types, Follows
<1> QED
  BY <1>4, <1>5

\* HandleReparentNotify().
LEMMA ReparentHandles ==
  ASSUME NEW d, NEW e \in Events, NEW x \in Xids, Ready(d, e, x), e.type = "ReparentNotify"
  PROVE  Handles(d, e, x, HandleReparentNotify(d, e))
<1> DEFINE h == HandleReparentNotify(d, e)
           k == d.wm.client[x]
           n == d.wm.managed[x]
           z == 0
<1>0. /\ Types(d) /\ IsDesktop(d) /\ IsStack(d.wm.stacked) /\ k \in Objects /\ n \in Nat
      /\ k.tracked => Contains(d.wm.stacked, x)
      /\ k.mapped => k.tracked
      /\ n = IF k.mapped THEN 1 ELSE 0
  BY ReadyHas
<1>1. e.window = x /\ e.parent \in {Root, Elsewhere}
  BY DEF Ready, Events
<1>2. /\ ~Tells(e, "UnmapNotify", x) /\ ~Tells(e, "DestroyNotify", x)
      /\ ~Tells(e, "MapNotify", x) /\ ~Tells(e, "CreateNotify", x)
      /\ TellsLeft(e, x) <=> e.parent # Root
      /\ TellsHidden(e, x) <=> e.parent # Root
      /\ TellsGone(e, x) <=> e.parent # Root
  BY <1>1 DEF TellsHidden, TellsGone, TellsLeft, Tells
<1>3. CASE e.parent = Root
  <2> DEFINE stk == AddOnTop(d.wm.stacked, x)
  <2>1. h = PutStacked(d, stk)
    BY <1>1, <1>3 DEF HandleReparentNotify, PutStacked
  <2>2. /\ IsStack(stk) /\ Contains(stk, x)
        /\ \A y \in Xids : y # x /\ Contains(d.wm.stacked, y) => Contains(stk, y)
    BY <1>0, AddOnTopIs
  <2> HIDE DEF stk, h
  <2>3. Made(d, h, x, k, n, stk)
    BY <1>0, <2>1, PutStackedMade
  <2>4. Heard(e, x, d.server.win[x], k, k)
    BY <1>2, <1>3 DEF Heard
  <2>5. Handles(d, e, x, h)
    BY <2>2, <2>3, <2>4, KeptHandles
  <2> QED
    BY <2>5 DEF h
<1>4. CASE e.parent # Root /\ ~k.tracked
  <2>1. ~k.mapped
    BY <1>0, <1>4
  <2>2. Heard(e, x, d.server.win[x], k, k)
    BY <1>2, <1>4, <2>1 DEF Heard
  <2>3. CASE ~Contains(d.wm.stacked, x)
    <3>1. h = d
      BY <1>1, <1>4, <2>3 DEF HandleReparentNotify
    <3>2. Follows(d.server, d.server) /\ SameManager(d.wm, d.wm)
      BY <1>0, RequestsFollow DEF SameManager, IsDesktop
    <3> QED
      BY <1>0, <2>2, <3>1, <3>2, IdleHandles
  <2>4. CASE Contains(d.wm.stacked, x)
    <3> DEFINE stk == TakeOut(d.wm.stacked, x)
               t == PutStacked(d, stk)
               u == IF ~Contains(t.wm.mappedXids, x) THEN t
                    ELSE UpdateClientListProperty([t EXCEPT !.wm.mappedXids = TakeOut(@, x)])
    <3>1. h = u
      BY <1>1, <1>4, <2>4 DEF HandleReparentNotify, IsTracked, PutStacked
    <3>2. /\ IsStack(stk)
          /\ \A y \in Xids : y # x /\ Contains(d.wm.stacked, y) => Contains(stk, y)
      BY <1>0, TakeOutIs
    <3> HIDE DEF stk, h
    <3>3. Made(d, u, x, k, n, stk)
      BY <1>0, LeaveMade
    <3> HIDE DEF t, u
    <3>4. Made(d, h, x, k, n, stk)
      BY <3>1, <3>3
    <3>5. Handles(d, e, x, h)
      BY <1>4, <2>2, <3>2, <3>4, KeptHandles
    <3> QED
      BY <3>5 DEF h
  <2> QED
    BY <2>3, <2>4
<1>5. CASE e.parent # Root /\ k.tracked
  <2> DEFINE stk == TakeOut(d.wm.stacked, x)
             t == PutStacked(d, stk)
             u == IF ~Contains(t.wm.mappedXids, x) THEN t
                  ELSE UpdateClientListProperty([t EXCEPT !.wm.mappedXids = TakeOut(@, x)])
             v == IF k.override THEN u ELSE UpdateClientListStackingProperty(u)
             w == IF v.wm.client[x].mapped THEN ConsumeUnmap(v, x) ELSE v
  <2>1. h = Untrack(w, x)
    BY <1>0, <1>1, <1>5 DEF HandleReparentNotify, IsTracked, PutStacked
  <2>2. /\ IsStack(stk)
        /\ \A y \in Xids : y # x /\ Contains(d.wm.stacked, y) => Contains(stk, y)
    BY <1>0, TakeOutIs
  <2>3. v \in {u, UpdateClientListProperty(u), UpdateClientListStackingProperty(u)}
    OBVIOUS
  <2> HIDE DEF stk, h
  <2>4. Made(d, u, x, k, n, stk)
    BY <1>0, LeaveMade
  <2> HIDE DEF t, u, v, k, n
  <2>5. Types(d) /\ k \in Objects /\ n \in Nat /\ z \in Nat
    BY <1>0
  <2> HIDE DEF z
  <2>6. Types(u) /\ u.wm.client[x] = k /\ u.wm.managed[x] = n /\ u.wm.stacked = stk
    BY <2>4, <2>5, MadeTypes
  <2>7. Made(u, v, x, u.wm.client[x], u.wm.managed[x], u.wm.stacked)
    BY <2>3, <2>6, StackingListMade
  <2>8. Made(u, v, x, k, n, stk)
    BY <2>6, <2>7
  <2>9. Made(d, v, x, k, n, stk)
    BY <2>4, <2>5, <2>8, MadeOn
  <2>10. Types(v) /\ v.wm.client[x] = k /\ v.wm.managed[x] = n /\ v.wm.stacked = stk
    BY <2>5, <2>9, MadeTypes
  <2>11. Made(d, w, x, k, z, stk)
    <3>1. CASE k.mapped
      <4>1. w = ConsumeUnmap(v, x) /\ v.wm.managed[x] <= 1
        BY <1>0, <2>10, <3>1
      <4>2. Made(v, ConsumeUnmap(v, x), x, v.wm.client[x], 0, v.wm.stacked)
        BY <2>10, <4>1, ConsumeUnmapMade
      <4> HIDE DEF w
      <4>3. Made(v, w, x, k, z, stk)
        BY <2>10, <4>1, <4>2 DEF z
      <4> QED
        BY <2>5, <2>9, <4>3, MadeOn
    <3>2. CASE ~k.mapped
      BY <1>0, <2>9, <2>10, <3>2 DEF z
    <3> QED
      BY <3>1, <3>2
  <2> HIDE DEF w
  <2>12. Made(d, Untrack(w, x), x, Untracked, z, stk)
    BY <2>5, <2>11, ForgetMade
  <2>13. Made(d, h, x, Untracked, 0, stk)
    BY <2>1, <2>12 DEF z
  <2>14. TellsGone(e, x)
    BY <1>2, <1>5
  <2>15. Handles(d, e, x, h)
    BY <2>2, <2>13, <2>14, ForgetHandles
  <2> QED
    BY <2>15 DEF h
<1> QED
  BY <1>3, <1>4, <1>5

\* HandleConfigureNotify(), its first part: the window finds its place.
LEMMA FollowStackingIs ==
  ASSUME NEW d, Types(d), NEW e, NEW x \in Xids, e.window = x, IsStack(d.wm.stacked),
         Contains(d.wm.stacked, x)
  PROVE  \E stk : /\ Made(d, FollowStacking(d, e), x, d.wm.client[x], d.wm.managed[x], stk)
                  /\ IsStack(stk)
                  /\ \A y : Contains(d.wm.stacked, y) => Contains(stk, y)
<1> DEFINE r == TakeOut(d.wm.stacked, x)
           t == FollowStacking(d, e)
<1>1. IsStack(r) /\ \A y : Contains(r, y) <=> Contains(d.wm.stacked, y) /\ y # x
  BY TakeOutIs
<1>2. t = IF GetUnder(d.wm.stacked, x, None) = e.above THEN d
          ELSE IF e.above # None /\ Contains(r, e.above)
          THEN PutStacked(d, AddAbove(r, x, e.above))
          ELSE PutStacked(d, AddOnBottom(r, x))
  BY DEF FollowStacking, PutStacked
<1> HIDE DEF r, t
<1>3. CASE GetUnder(d.wm.stacked, x, None) = e.above
  <2>1. t = d
    BY <1>2, <1>3
  <2>2. Made(d, d, x, d.wm.client[x], d.wm.managed[x], d.wm.stacked)
    BY StackingListMade
  <2> QED
    BY <2>1, <2>2 DEF t
<1>4. CASE ~(GetUnder(d.wm.stacked, x, None) = e.above) /\ e.above # None /\ Contains(r, e.above)
  <2>1. t = PutStacked(d, AddAbove(r, x, e.above))
    BY <1>2, <1>4
  <2>2. /\ IsStack(AddAbove(r, x, e.above))
        /\ \A y : Contains(AddAbove(r, x, e.above), y) <=> Contains(r, y) \/ y = x
    BY <1>1, <1>4, AddAboveIs
  <2>3. \A y : Contains(d.wm.stacked, y) => Contains(AddAbove(r, x, e.above), y)
    BY <1>1, <2>2
  <2>4. Made(d, PutStacked(d, AddAbove(r, x, e.above)), x, d.wm.client[x], d.wm.managed[x],
             AddAbove(r, x, e.above))
    BY PutStackedMade
  <2> QED
    BY <2>1, <2>2, <2>3, <2>4 DEF t
<1>5. CASE ~(GetUnder(d.wm.stacked, x, None) = e.above) /\ ~(e.above # None /\ Contains(r, e.above))
  <2>1. t = PutStacked(d, AddOnBottom(r, x))
    BY <1>2, <1>5
  <2>2. /\ IsStack(AddOnBottom(r, x))
        /\ \A y : Contains(AddOnBottom(r, x), y) <=> Contains(r, y) \/ y = x
    BY <1>1, AddOnBottomIs
  <2>3. \A y : Contains(d.wm.stacked, y) => Contains(AddOnBottom(r, x), y)
    BY <1>1, <2>2
  <2>4. Made(d, PutStacked(d, AddOnBottom(r, x)), x, d.wm.client[x], d.wm.managed[x],
             AddOnBottom(r, x))
    BY PutStackedMade
  <2> QED
    BY <2>1, <2>2, <2>3, <2>4 DEF t
<1> QED
  BY <1>3, <1>4, <1>5

\* HandleConfigureNotify().
LEMMA ConfigureHandles ==
  ASSUME NEW d, NEW e \in Events, NEW x \in Xids, Ready(d, e, x), e.type = "ConfigureNotify"
  PROVE  Handles(d, e, x, HandleConfigureNotify(d, e))
<1> DEFINE h == HandleConfigureNotify(d, e)
           k == d.wm.client[x]
           n == d.wm.managed[x]
           t == FollowStacking(d, e)
           under == ActorUnder(t, e.above)
           a == [t EXCEPT !.wm.actors = AddAbove(TakeOut(@, x), x, under)]
<1>0. /\ Types(d) /\ IsDesktop(d) /\ IsStack(d.wm.stacked) /\ k \in Objects /\ n \in Nat
      /\ k.tracked => Contains(d.wm.stacked, x)
  BY ReadyHas
<1>1. e.window = x
  BY DEF Ready
<1>2. ~TellsHidden(e, x) /\ ~TellsGone(e, x) /\ ~Tells(e, "MapNotify", x) /\ ~Tells(e, "CreateNotify", x)
  BY <1>1 DEF TellsHidden, TellsGone, TellsLeft, Tells
<1>3. Heard(e, x, d.server.win[x], k, k)
  BY <1>2 DEF Heard
<1>4. CASE ~Contains(d.wm.stacked, x)
  <2>1. h = d
    BY <1>1, <1>4 DEF HandleConfigureNotify
  <2>2. Follows(d.server, d.server) /\ SameManager(d.wm, d.wm)
    BY <1>0, RequestsFollow DEF SameManager, IsDesktop
  <2> QED
    BY <1>0, <1>3, <2>1, <2>2, IdleHandles
<1>5. CASE Contains(d.wm.stacked, x)
  <2>1. PICK stk : /\ Made(d, t, x, k, n, stk) /\ IsStack(stk)
                   /\ \A y : Contains(d.wm.stacked, y) => Contains(stk, y)
    BY <1>0, <1>1, <1>5, FollowStackingIs
  <2>2. h \in {t, UpdateClientListStackingProperty(t), a}
    BY <1>1, <1>5 DEF HandleConfigureNotify, IsTracked
  <2> HIDE DEF h, under, k, n
  <2>4. Made(d, t, x, k, n, stk)
    BY <2>1
  <2> HIDE DEF t
  <2>5. Types(d) /\ k \in Objects /\ n \in Nat
    BY <1>0
  <2>6. Types(t) /\ t.wm.client[x] = k /\ t.wm.managed[x] = n /\ t.wm.stacked = stk
    BY <2>4, <2>5, MadeTypes
  <2>7. Made(t, a, x, t.wm.client[x], t.wm.managed[x], t.wm.stacked)
    <3>1. IsDesktop(a) /\ a.server = t.server /\ SameManager(a.wm, t.wm)
      BY <2>6 DEF Types, IsDesktop, SameManager, ManagerFields
    <3>2. Follows(t.server, t.server)
      BY RequestsFollow
    <3> HIDE DEF a
    <3>3. Follows(t.server, a.server)
      BY <3>1, <3>2
    <3> QED
      BY <2>6, <3>1, <3>3, SameMade
  <2> HIDE DEF a
  <2>8. /\ Made(t, t, x, t.wm.client[x], t.wm.managed[x], t.wm.stacked)
        /\ Made(t, UpdateClientListStackingProperty(t), x,
                t.wm.client[x], t.wm.managed[x], t.wm.stacked)
    BY <2>6, StackingListMade
  <2>9. Made(t, h, x, k, n, stk)
    BY <2>2, <2>6, <2>7, <2>8
  <2>10. Made(d, h, x, k, n, stk)
    BY <2>4, <2>5, <2>9, MadeOn
  <2>11. /\ IsStack(stk) /\ (k.tracked => Contains(stk, x))
         /\ \A y \in Xids : y # x /\ Contains(d.wm.stacked, y) => Contains(stk, y)
    BY <1>5, <2>1
  <2>12. Handles(d, e, x, h)
    BY <1>3, <2>10, <2>11, KeptHandles DEF k, n
  <2> QED
    BY <2>12 DEF h
<1> QED
  BY <1>4, <1>5

\* HandleEvent(): whatever the event is, its handler did what it says.
LEMMA HandleEventHandles ==
  ASSUME NEW d, NEW e \in Events, NEW x \in Xids, Ready(d, e, x),
         e.type = "DestroyNotify" => ~d.wm.client[x].mapped
  PROVE  Handles(d, e, x, HandleEvent(d, e))
<1>0. e.type \in {"CreateNotify", "DestroyNotify", "MapNotify", "MapRequest", "UnmapNotify",
                  "FocusIn", "ConfigureNotify", "ReparentNotify"}
  BY DEF Events
<1>1. CASE e.type = "CreateNotify"
  <2>1. HandleEvent(d, e) = HandleCreateNotify(d, e)
    BY <1>1 DEF HandleEvent
  <2> QED
    BY <1>1, <2>1, CreateHandles
<1>2. CASE e.type = "DestroyNotify"
  <2>1. HandleEvent(d, e) = HandleDestroyNotify(d, e)
    BY <1>2 DEF HandleEvent
  <2> QED
    BY <1>2, <2>1, DestroyHandles
<1>3. CASE e.type = "MapNotify"
  <2>1. HandleEvent(d, e) = HandleMapNotify(d, e)
    BY <1>3 DEF HandleEvent
  <2> QED
    BY <1>3, <2>1, MapHandles
<1>4. CASE e.type = "MapRequest"
  <2>1. HandleEvent(d, e) = HandleMapRequest(d, e)
    BY <1>4 DEF HandleEvent
  <2> QED
    BY <1>4, <2>1, MapRequestHandles
<1>5. CASE e.type = "UnmapNotify"
  <2>1. HandleEvent(d, e) = HandleUnmapNotify(d, e)
    BY <1>5 DEF HandleEvent
  <2> QED
    BY <1>5, <2>1, UnmapHandles
<1>6. CASE e.type = "FocusIn"
  <2>1. HandleEvent(d, e) = HandleFocusChange(d, e)
    BY <1>6 DEF HandleEvent
  <2> QED
    BY <1>6, <2>1, FocusHandles
<1>7. CASE e.type = "ReparentNotify"
  <2>1. HandleEvent(d, e) = HandleReparentNotify(d, e)
    BY <1>7 DEF HandleEvent
  <2> QED
    BY <1>7, <2>1, ReparentHandles
<1>8. CASE e.type = "ConfigureNotify"
  <2>1. HandleEvent(d, e) = HandleConfigureNotify(d, e)
    BY <1>8 DEF HandleEvent
  <2> QED
    BY <1>8, <2>1, ConfigureHandles
<1> QED
  BY <1>0, <1>1, <1>2, <1>3, <1>4, <1>5, <1>6, <1>7, <1>8

-----------------------------------------------------------------------------
(* The steps of the window manager.                                        *)

\* The rest of the windows that were found.
LEMMA RestIs ==
  ASSUME NEW s, IsStack(s), s # <<>>
  PROVE  /\ IsStack(Tail(s)) /\ Head(s) \in Xids /\ Contains(s, Head(s))
         /\ \A y : Contains(Tail(s), y) <=> Contains(s, y) /\ y # Head(s)
<1> DEFINE t == Tail(s)
           n == Len(t)
<1>0. s \in Seq(Xids) /\ IsInjective(s) /\ Len(s) \in Nat /\ DOMAIN s = 1..Len(s)
  BY LenProperties DEF IsStack
<1>1. /\ t \in Seq(Xids) /\ n \in Nat /\ Len(s) = n + 1 /\ \A i \in 1..n : t[i] = s[i + 1]
      /\ Head(s) = s[1] /\ Head(s) \in Xids
  BY <1>0, HeadTailProperties, LenProperties, EmptySeq
<1>2. DOMAIN t = 1..n
  BY <1>1, LenProperties
<1> HIDE DEF t, n
<1>3. /\ \A i \in 1..n : i + 1 \in 1..(n + 1) /\ i + 1 # 1
      /\ \A i \in 1..(n + 1) : i # 1 => i - 1 \in 1..n /\ (i - 1) + 1 = i
      /\ 1 \in 1..(n + 1)
      /\ \A i, j \in 1..n : i + 1 = j + 1 => i = j
  BY <1>1
<1>4. \A i, j \in 1..(n + 1) : s[i] = s[j] => i = j
  BY <1>0, <1>1 DEF IsInjective
<1>5. IsInjective(t)
  <2> SUFFICES ASSUME NEW i \in 1..n, NEW j \in 1..n, t[i] = t[j] PROVE i = j
    BY <1>2 DEF IsInjective
  <2> QED
    BY <1>1, <1>3, <1>4
<1>6. \A y : Contains(s, y) <=> \E i \in 1..(n + 1) : s[i] = y
  BY <1>0, <1>1 DEF Contains
<1>7. \A y : Contains(t, y) <=> \E i \in 1..n : t[i] = y
  BY <1>1, <1>2 DEF Contains, n
<1>8. ASSUME NEW y PROVE Contains(t, y) <=> Contains(s, y) /\ y # Head(s)
  <2>1. ASSUME Contains(t, y) PROVE Contains(s, y) /\ y # Head(s)
    <3>1. PICK i \in 1..n : t[i] = y
      BY <1>7, <2>1
    <3> QED
      BY <1>1, <1>3, <1>4, <1>6, <3>1
  <2>2. ASSUME Contains(s, y), y # Head(s) PROVE Contains(t, y)
    <3>1. PICK i \in 1..(n + 1) : s[i] = y
      BY <1>6, <2>2
    <3>2. i - 1 \in 1..n /\ t[i - 1] = y
      BY <1>1, <1>3, <2>2, <3>1
    <3> QED
      BY <1>7, <3>2
  <2> QED
    BY <2>1, <2>2
<1>9. Contains(s, Head(s))
  BY <1>1, <1>3, <1>6
<1>10. IsStack(t)
  BY <1>1, <1>5 DEF IsStack
<1> QED
  BY <1>1, <1>8, <1>9, <1>10 DEF t

\* Init() selects the events.
LEMMA SelectEventsKeeps ==
  ASSUME IInv, SelectEvents
  PROVE  IInv'
<1>0. /\ ServerInv(server, wm.client, found, phase = "selected", reparented) /\ ManagerInv(wm)
      /\ PhaseInv(server, wm, phase, found) /\ reparented \in SUBSET Xids
  BY DEF IInv, WholeInv
<1>1. /\ phase = "starting" /\ phase' = "selected" /\ wm' = wm /\ found' = found
      /\ reparented' = reparented /\ server' = [server EXCEPT !.selected = TRUE]
  BY DEF SelectEvents, SelectInput
<1>2. /\ ~server.selected /\ found = <<>> /\ \A x \in Xids : ~wm.client[x].tracked
  BY <1>0, <1>1 DEF PhaseInv
<1>3. \A x \in Xids : ~wm.client[x].mapped
  BY <1>0, <1>2 DEF ManagerInv
<1>4. IsServer(server) /\ server.events = <<>>
  BY <1>0, <1>2 DEF ServerInv
<1>5. /\ DOMAIN server' = ServerFields /\ server'.win = server.win
      /\ server'.order = server.order /\ server'.used = server.used
      /\ server'.events = server.events /\ server'.selected = TRUE
  BY <1>1, <1>4 DEF IsServer, ServerFields
<1>6. IsServer(server')
  BY <1>4, <1>5 DEF IsServer
<1>7. ASSUME NEW x \in Xids
      PROVE  Told(<<>>, x, server.win[x], wm.client[x], Contains(<<>>, x), TRUE, x \in reparented)
  <2>1. Contains(<<>>, x) = FALSE /\ Len(<<>>) = 0
    BY DEF Contains
  <2>2. Told(<<>>, x, server.win[x], wm.client[x], FALSE, TRUE, x \in reparented)
    BY <1>2, <1>3, <2>1, ToldFirst
  <2> QED
    BY <2>1, <2>2
<1>8. ServerInv(server', wm.client, <<>>, TRUE, reparented)
  <2>1. /\ \A x \in Xids : Contains(server.order, x) <=> Child(server.win[x])
        /\ \A x \in Xids : server.win[x].exists \/ wm.client[x].tracked => x \in server.used
        /\ \A i \in 1..Len(server.events) : server.events[i].window \in server.used
        /\ \A x \in Xids : wm.client[x].tracked /\ server.win[x].exists => ~server.win[x].inputOnly
    BY <1>0 DEF ServerInv
  <2> QED
    BY <1>4, <1>5, <1>6, <1>7, <2>1 DEF ServerInv
<1>9. PhaseInv(server', wm', phase', found')
  BY <1>0, <1>1, <1>2, <1>5 DEF PhaseInv
<1>10. ServerInv(server', wm'.client, found', phase' = "selected", reparented')
  <2>1. (phase' = "selected") = TRUE
    BY <1>1
  <2> QED
    BY <1>1, <1>2, <1>8, <2>1
<1>11. ManagerInv(wm') /\ reparented' \in SUBSET Xids
  BY <1>0, <1>1
<1> QED
  BY <1>9, <1>10, <1>11 DEF IInv, WholeInv

\* ManageExistingWindows() asks for the children.
LEMMA QueryWindowsKeeps ==
  ASSUME IInv, QueryWindows
  PROVE  IInv'
<1>0. /\ ServerInv(server, wm.client, found, phase = "selected", reparented) /\ ManagerInv(wm)
      /\ PhaseInv(server, wm, phase, found) /\ reparented \in SUBSET Xids
  BY DEF IInv, WholeInv
<1>1. /\ phase = "selected" /\ phase' = "managing" /\ wm' = wm /\ server' = server
      /\ reparented' = reparented /\ found' = Reverse(server.order)
  BY DEF QueryWindows, GetChildWindows
<1>2. found = <<>> /\ \A x \in Xids : ~wm.client[x].tracked
  BY <1>0, <1>1 DEF PhaseInv
<1>3. ServerInv(server, wm.client, <<>>, TRUE, reparented)
  <2>1. (phase = "selected") = TRUE
    BY <1>1
  <2> QED
    BY <1>0, <1>2, <2>1
<1>4. IsStack(server.order) /\ \A x \in Xids : Contains(server.order, x) <=> Child(server.win[x])
  BY <1>3 DEF ServerInv, IsServer
<1>5. IsStack(found') /\ \A x \in Xids : Contains(found', x) <=> Child(server.win[x])
  BY <1>1, <1>4, ReverseIs
<1>6. ServerInv(server, wm.client, found', FALSE, reparented)
  <2> SUFFICES ASSUME server.selected, NEW x \in Xids
               PROVE  Told(server.events, x, server.win[x], wm.client[x], Contains(found', x), FALSE,
                           x \in reparented)
    BY <1>3 DEF ServerInv
  <2>1. Contains(<<>>, x) = FALSE
    BY DEF Contains
  <2>2. Told(server.events, x, server.win[x], wm.client[x], Contains(<<>>, x), TRUE, x \in reparented)
    BY <1>3 DEF ServerInv
  <2>3. Told(server.events, x, server.win[x], wm.client[x], FALSE, TRUE, x \in reparented)
    BY <2>1, <2>2
  <2>4. Contains(found', x) <=> Child(server.win[x])
    BY <1>5
  <2> QED
    BY <2>3, <2>4, ToldQuery
<1>7. \A x \in Xids : Contains(found', x) => x \in server.used
  BY <1>3, <1>5 DEF ServerInv, Child
<1>8. PhaseInv(server', wm', phase', found')
  BY <1>0, <1>1, <1>2, <1>5, <1>7 DEF PhaseInv
<1>9. ServerInv(server', wm'.client, found', phase' = "selected", reparented')
  <2>1. (phase' = "selected") = FALSE
    BY <1>1
  <2> QED
    BY <1>1, <1>6, <2>1
<1>10. ManagerInv(wm') /\ reparented' \in SUBSET Xids
  BY <1>0, <1>1
<1> QED
  BY <1>8, <1>9, <1>10 DEF IInv, WholeInv

\* The first of the windows that were found is taken over, or skipped.
LEMMA TakeOverKeeps ==
  ASSUME NEW s, NEW c, NEW fnd, NEW rep, ServerInv(s, c, fnd, FALSE, rep), IsStack(fnd), fnd # <<>>,
         NEW x, x = Head(fnd), ~c[x].tracked, ~c[x].mapped, x \in s.used, NEW l,
         \A y \in Xids : y # x => l[y] = c[y],
         l[x].mapped => s.win[x].exists /\ s.win[x].mapped,
         Child(s.win[x]) /\ ~s.win[x].inputOnly => l[x].tracked,
         l[x].tracked /\ s.win[x].exists /\ s.win[x].mapped => l[x].mapped,
         l[x].tracked /\ s.win[x].exists => ~s.win[x].inputOnly
  PROVE  ServerInv(s, l, Tail(fnd), FALSE, rep)
<1>0. /\ IsServer(s)
      /\ \A y \in Xids : Contains(s.order, y) <=> Child(s.win[y])
      /\ \A y \in Xids : s.win[y].exists \/ c[y].tracked => y \in s.used
      /\ \A i \in 1..Len(s.events) : s.events[i].window \in s.used
      /\ ~s.selected => s.events = <<>>
      /\ \A y \in Xids : c[y].tracked /\ s.win[y].exists => ~s.win[y].inputOnly
      /\ s.selected => \A y \in Xids :
           Told(s.events, y, s.win[y], c[y], Contains(fnd, y), FALSE, y \in rep)
  BY DEF ServerInv
<1> DEFINE r == Tail(fnd)
<1>1. /\ x \in Xids /\ Contains(fnd, x)
      /\ \A y : Contains(r, y) <=> Contains(fnd, y) /\ y # x
  BY RestIs
<1> HIDE DEF r
<1>2. ASSUME s.selected, NEW y \in Xids
      PROVE  Told(s.events, y, s.win[y], l[y], Contains(r, y), FALSE, y \in rep)
  <2>0. Told(s.events, y, s.win[y], c[y], Contains(fnd, y), FALSE, y \in rep)
    BY <1>0, <1>2
  <2>1. CASE y # x
    <3>1. Contains(r, y) = Contains(fnd, y)
      BY <1>1, <2>1 DEF Contains
    <3>2. l[y] = c[y]
      BY <2>1
    <3> QED
      BY <2>0, <3>1, <3>2
  <2>2. CASE y = x
    <3>1. Contains(r, y) = FALSE /\ Contains(fnd, y) = TRUE
      BY <1>1, <2>2 DEF Contains
    <3>2. Told(s.events, y, s.win[y], c[y], TRUE, FALSE, y \in rep)
      BY <2>0, <3>1
    <3>3. /\ ~c[y].tracked /\ ~c[y].mapped
          /\ l[y].mapped => s.win[y].exists /\ s.win[y].mapped
          /\ Child(s.win[y]) /\ ~s.win[y].inputOnly => l[y].tracked
          /\ l[y].tracked /\ s.win[y].exists /\ s.win[y].mapped => l[y].mapped
      BY <2>2
    <3>4. Told(s.events, y, s.win[y], l[y], FALSE, FALSE, y \in rep)
      BY <3>2, <3>3, ToldManage
    <3> QED
      BY <3>1, <3>4
  <2> QED
    BY <2>1, <2>2
<1>3. \A y \in Xids : s.win[y].exists \/ l[y].tracked => y \in s.used
  BY <1>0
<1>4. \A y \in Xids : l[y].tracked /\ s.win[y].exists => ~s.win[y].inputOnly
  BY <1>0
<1>5. ServerInv(s, l, r, FALSE, rep)
  BY <1>0, <1>2, <1>3, <1>4 DEF ServerInv
<1> QED
  BY <1>5 DEF r

\* The next window enters the order, or is skipped.
LEMMA EnterWindowKeeps ==
  ASSUME IInv, EnterWindow
  PROVE  IInv'
<1>0. /\ ServerInv(server, wm.client, found, phase = "selected", reparented) /\ ManagerInv(wm)
      /\ PhaseInv(server, wm, phase, found) /\ reparented \in SUBSET Xids
  BY DEF IInv, WholeInv
<1> DEFINE x == Head(found)
<1>1. /\ phase = "managing" /\ found # <<>> /\ server' = server /\ reparented' = reparented
      /\ \/ /\ Exists(server, x) /\ wm' = [wm EXCEPT !.stacked = AddOnTop(@, x)]
            /\ phase' = "entered" /\ found' = found
         \/ ~Exists(server, x) /\ found' = Tail(found) /\ wm' = wm /\ phase' = phase
  BY DEF EnterWindow
<1>2. IsStack(found) /\ \A y \in Xids : Contains(found, y) => ~wm.client[y].tracked /\ y \in server.used
  BY <1>0 DEF PhaseInv
<1>3. /\ IsStack(Tail(found)) /\ x \in Xids /\ Contains(found, x)
      /\ \A y : Contains(Tail(found), y) <=> Contains(found, y) /\ y # x
  BY <1>1, <1>2, RestIs
<1>4. ServerInv(server, wm.client, found, FALSE, reparented)
  <2>1. (phase = "selected") = FALSE
    BY <1>1
  <2> QED
    BY <1>0, <2>1
<1> HIDE DEF x
<1>5. CASE /\ Exists(server, x) /\ wm' = [wm EXCEPT !.stacked = AddOnTop(@, x)]
           /\ phase' = "entered" /\ found' = found
  <2>1. DOMAIN wm = ManagerFields /\ IsStack(wm.stacked)
    BY <1>0 DEF ManagerInv, IsManager
  <2>2. /\ DOMAIN wm' = ManagerFields /\ wm'.client = wm.client /\ wm'.managed = wm.managed
        /\ wm'.stacked = AddOnTop(wm.stacked, x)
    BY <1>5, <2>1 DEF ManagerFields
  <2>3. /\ IsStack(AddOnTop(wm.stacked, x))
        /\ \A y : Contains(AddOnTop(wm.stacked, x), y) <=> Contains(wm.stacked, y) \/ y = x
    BY <1>3, <2>1, AddOnTopIs
  <2>4. ManagerInv(wm')
    BY <1>0, <2>2, <2>3 DEF ManagerInv, IsManager
  <2>5. PhaseInv(server', wm', phase', found')
    BY <1>0, <1>1, <1>5, <2>2, <2>3 DEF PhaseInv, x
  <2>6. ServerInv(server', wm'.client, found', phase' = "selected", reparented')
    <3>1. (phase' = "selected") = FALSE
      BY <1>5
    <3> QED
      BY <1>1, <1>4, <1>5, <2>2, <3>1
  <2> QED
    BY <1>0, <1>1, <2>4, <2>5, <2>6 DEF IInv, WholeInv
<1>6. CASE ~Exists(server, x) /\ found' = Tail(found) /\ wm' = wm /\ phase' = phase
  <2>1. ~wm.client[x].tracked /\ x \in server.used /\ ~wm.client[x].mapped
    BY <1>0, <1>2, <1>3 DEF ManagerInv
  <2>2. ~server.win[x].exists
    BY <1>3, <1>6 DEF Exists
  <2>3. ServerInv(server, wm.client, Tail(found), FALSE, reparented)
    BY <1>1, <1>2, <1>4, <2>1, <2>2, TakeOverKeeps DEF x, Child
  <2>4. PhaseInv(server', wm', phase', found')
    BY <1>0, <1>1, <1>3, <1>6 DEF PhaseInv
  <2>5. ServerInv(server', wm'.client, found', phase' = "selected", reparented')
    <3>1. (phase' = "selected") = FALSE
      BY <1>1, <1>6
    <3> QED
      BY <1>1, <1>6, <2>3, <3>1
  <2> QED
    BY <1>0, <1>1, <1>6, <2>4, <2>5 DEF IInv, WholeInv
<1> QED
  BY <1>1, <1>5, <1>6

\* ManageExistingWindows() ends.
LEMMA StartLoopKeeps ==
  ASSUME IInv, StartLoop
  PROVE  IInv'
<1>0. /\ ServerInv(server, wm.client, found, phase = "selected", reparented) /\ ManagerInv(wm)
      /\ PhaseInv(server, wm, phase, found) /\ reparented \in SUBSET Xids
  BY DEF IInv, WholeInv
<1> DEFINE d == Desktop
           h == UpdateClientListStackingProperty(d)
<1>1. /\ phase = "managing" /\ found = <<>> /\ server' = h.server /\ wm' = h.wm
      /\ phase' = "running" /\ found' = found /\ reparented' = reparented
  BY DEF StartLoop, Becomes
<1>2. IsDesktop(d) /\ d.server = server /\ d.wm = wm
  BY <1>0 DEF Desktop, IsDesktop, ManagerInv, IsManager
<1>3. h.wm = d.wm /\ Follows(d.server, h.server)
  BY <1>2, ListsAre
<1> HIDE DEF d, h
<1>4. ServerInv(server, wm.client, found, FALSE, reparented)
  <2>1. (phase = "selected") = FALSE
    BY <1>1
  <2> QED
    BY <1>0, <2>1
<1>5. Follows(server, server') /\ wm' = wm
  BY <1>1, <1>2, <1>3
<1>6. /\ ServerInv(server', wm.client, found, FALSE, reparented)
      /\ server'.selected = server.selected /\ server'.used = server.used
  BY <1>4, <1>5 DEF Follows
<1>7. ServerInv(server', wm'.client, found', phase' = "selected", reparented')
  <2>1. (phase' = "selected") = FALSE
    BY <1>1
  <2> QED
    BY <1>1, <1>5, <1>6, <2>1
<1>8. PhaseInv(server', wm', phase', found')
  BY <1>0, <1>1, <1>5, <1>6 DEF PhaseInv
<1> QED
  BY <1>0, <1>1, <1>5, <1>7, <1>8 DEF IInv, WholeInv

\* What is known while a window is taken over.
LEMMA EnteredHas ==
  ASSUME IInv, phase = "entered", NEW x, x = Head(found)
  PROVE  /\ ServerInv(server, wm.client, found, FALSE, reparented) /\ ManagerInv(wm)
         /\ Types(Desktop) /\ Desktop.server = server /\ Desktop.wm = wm
         /\ found # <<>> /\ IsStack(found) /\ x \in Xids /\ IsStack(Tail(found))
         /\ \A y : Contains(Tail(found), y) <=> Contains(found, y) /\ y # x
         /\ \A y \in Xids : Contains(found, y) => ~wm.client[y].tracked /\ y \in server.used
         /\ ~wm.client[x].tracked /\ ~wm.client[x].mapped /\ wm.managed[x] = 0
         /\ x \in server.used /\ Contains(wm.stacked, x) /\ IsStack(wm.stacked) /\ server.selected
         /\ server.win[x] \in Infos /\ wm.client[x] \in Objects
         /\ reparented \in SUBSET Xids
<1>0. /\ ServerInv(server, wm.client, found, phase = "selected", reparented) /\ ManagerInv(wm)
      /\ PhaseInv(server, wm, phase, found) /\ reparented \in SUBSET Xids
  BY DEF IInv, WholeInv
<1>1. ServerInv(server, wm.client, found, FALSE, reparented)
  <2>1. (phase = "selected") = FALSE
    OBVIOUS
  <2> QED
    BY <1>0, <2>1
<1>2. /\ found # <<>> /\ IsStack(found) /\ Contains(wm.stacked, x) /\ server.selected
      /\ \A y \in Xids : Contains(found, y) => ~wm.client[y].tracked /\ y \in server.used
  BY <1>0 DEF PhaseInv
<1>3. /\ IsStack(Tail(found)) /\ x \in Xids /\ Contains(found, x)
      /\ \A y : Contains(Tail(found), y) <=> Contains(found, y) /\ y # x
  BY <1>2, RestIs
<1>4. ~wm.client[x].tracked /\ x \in server.used
  BY <1>2, <1>3
<1>5. /\ ~wm.client[x].mapped /\ wm.managed[x] = 0 /\ IsStack(wm.stacked)
      /\ wm.client[x] \in Objects
  BY <1>0, <1>3, <1>4 DEF ManagerInv, IsManager
<1>6. server.win[x] \in Infos
  BY <1>1, <1>3 DEF ServerInv, IsServer
<1>7. Desktop.server = server /\ Desktop.wm = wm /\ DOMAIN Desktop = {"server", "wm"}
  BY DEF Desktop
<1>8. Types(Desktop)
  BY <1>0, <1>7 DEF Types, IsDesktop, ManagerInv, IsManager
<1> QED
  BY <1>0, <1>1, <1>2, <1>3, <1>4, <1>5, <1>6, <1>7, <1>8

\* A window was taken over.
LEMMA TakenKeeps ==
  ASSUME IInv, phase = "entered", NEW x, x = Head(found), NEW h, NEW o \in Objects, NEW n \in Nat,
         Made(Desktop, h, x, o, n, wm.stacked), o.mapped => o.tracked, n = IF o.mapped THEN 1 ELSE 0,
         o.mapped => server.win[x].exists /\ server.win[x].mapped,
         Child(server.win[x]) /\ ~server.win[x].inputOnly => o.tracked,
         o.tracked /\ server.win[x].exists /\ server.win[x].mapped => o.mapped,
         o.tracked /\ server.win[x].exists => ~server.win[x].inputOnly
  PROVE  WholeInv(h.server, h.wm, "managing", Tail(found), reparented)
<1> DEFINE l == h.wm.client
<1>0. /\ ServerInv(server, wm.client, found, FALSE, reparented) /\ ManagerInv(wm)
      /\ Desktop.server = server /\ Desktop.wm = wm
      /\ found # <<>> /\ IsStack(found) /\ x \in Xids /\ IsStack(Tail(found))
      /\ \A y : Contains(Tail(found), y) <=> Contains(found, y) /\ y # x
      /\ \A y \in Xids : Contains(found, y) => ~wm.client[y].tracked /\ y \in server.used
      /\ ~wm.client[x].tracked /\ ~wm.client[x].mapped
      /\ x \in server.used /\ Contains(wm.stacked, x) /\ IsStack(wm.stacked) /\ server.selected
      /\ reparented \in SUBSET Xids
  BY EnteredHas
<1>1. ManagerInv(h.wm) /\ l[x] = o /\ \A y \in Xids : y # x => l[y] = wm.client[y]
  <2>1. ManagerInv(Desktop.wm)
    BY <1>0
  <2>2. \A y \in Xids : y # x /\ Contains(Desktop.wm.stacked, y) => Contains(wm.stacked, y)
    BY <1>0
  <2>3. /\ ManagerInv(h.wm) /\ h.wm.client[x] = o
        /\ \A y \in Xids : y # x => h.wm.client[y] = Desktop.wm.client[y]
    BY <1>0, <2>1, <2>2, MadeKeeps
  <2> QED
    BY <1>0, <2>3
<1> HIDE DEF l
<1>2. ServerInv(server, l, Tail(found), FALSE, reparented)
  <2>1. l[x].mapped => server.win[x].exists /\ server.win[x].mapped
    BY <1>1
  <2>2. Child(server.win[x]) /\ ~server.win[x].inputOnly => l[x].tracked
    BY <1>1
  <2>3. l[x].tracked /\ server.win[x].exists /\ server.win[x].mapped => l[x].mapped
    BY <1>1
  <2>4. l[x].tracked /\ server.win[x].exists => ~server.win[x].inputOnly
    BY <1>1
  <2>5. \A y \in Xids : y # x => l[y] = wm.client[y]
    BY <1>1
  <2> QED
    BY <1>0, <2>1, <2>2, <2>3, <2>4, <2>5, TakeOverKeeps, ZenonT(40)
<1>3. Follows(server, h.server)
  BY <1>0 DEF Made
<1>4. /\ ServerInv(h.server, l, Tail(found), FALSE, reparented)
      /\ h.server.selected = server.selected /\ h.server.used = server.used
  BY <1>2, <1>3 DEF Follows
<1>5. \A y \in Xids : Contains(Tail(found), y) => ~l[y].tracked /\ y \in h.server.used
  BY <1>0, <1>1, <1>4
<1>6. PhaseInv(h.server, h.wm, "managing", Tail(found))
  BY <1>0, <1>4, <1>5 DEF PhaseInv, l
<1>7. ServerInv(h.server, h.wm.client, Tail(found), "managing" = "selected", reparented)
  <2>1. ("managing" = "selected") = FALSE
    OBVIOUS
  <2> QED
    BY <1>4, <2>1 DEF l
<1> QED
  BY <1>0, <1>1, <1>6, <1>7 DEF WholeInv

\* The next window is taken over.
LEMMA ManageWindowKeeps ==
  ASSUME IInv, ManageWindow
  PROVE  IInv'
<1> DEFINE x == Head(found)
           ov == server.win[x].override
           d == TrackWindow(Desktop, x, ov)
           l == [d.wm.client[x] EXCEPT !.mapped = TRUE]
           t == PutClient(d, x, l)
           viewable == IsTracked(d, x) /\ IsViewable(server, x)
           h == IF viewable THEN HandleMappedWindow(t, x) ELSE d
           stk == wm.stacked
<1>1. /\ phase = "entered" /\ found' = Tail(found) /\ phase' = "managing"
      /\ reparented' = reparented /\ server' = h.server /\ wm' = h.wm
  BY DEF ManageWindow, Becomes, PutClient
<1>2. /\ Types(Desktop) /\ Desktop.server = server /\ Desktop.wm = wm /\ x \in Xids
      /\ ~wm.client[x].tracked /\ ~wm.client[x].mapped /\ wm.managed[x] = 0
      /\ server.win[x] \in Infos /\ wm.client[x] \in Objects
  BY <1>1, EnteredHas
<1>3. ov \in BOOLEAN /\ (Exists(server, x) <=> server.win[x].exists)
  BY <1>2 DEF Infos, Exists
<1> SUFFICES WholeInv(h.server, h.wm, "managing", Tail(found), reparented)
  BY <1>1 DEF IInv
<1> HIDE DEF x, ov
<1>4. CASE IsInputOnly(server, x)
  <2>1. d = Desktop
    BY <1>2, <1>4, TrackMade
  <2>2. h = Desktop
    BY <1>2, <2>1 DEF IsTracked
  <2> DEFINE o == wm.client[x]
             n == wm.managed[x]
  <2>3. Made(Desktop, Desktop, x, o, n, stk)
    <3>1. Made(Desktop, Desktop, x, Desktop.wm.client[x], Desktop.wm.managed[x], Desktop.wm.stacked)
      BY <1>2, StackingListMade
    <3> QED
      BY <1>2, <3>1
  <2>4. /\ o \in Objects /\ n \in Nat
        /\ ~o.tracked /\ ~o.mapped
        /\ n = IF o.mapped THEN 1 ELSE 0
    BY <1>2
  <2>5. server.win[x].inputOnly
    BY <1>4 DEF IsInputOnly
  <2> HIDE DEF h, d, o, n
  <2>6. Made(Desktop, h, x, o, n, stk)
    BY <2>2, <2>3
  <2> QED
    BY <1>1, <2>4, <2>5, <2>6, TakenKeeps DEF x
<1>5. CASE ~IsInputOnly(server, x)
  <2> DEFINE k == Window(ov)
             z == 0
  <2>1. Made(Desktop, d, x, k, z, stk) /\ d.server = server
    <3>1. /\ Made(Desktop, TrackWindow(Desktop, x, ov), x, Window(ov), Desktop.wm.managed[x],
                  Desktop.wm.stacked)
          /\ TrackWindow(Desktop, x, ov).server = Desktop.server
      BY <1>2, <1>5, TrackMade
    <3> QED
      BY <1>2, <3>1
  <2>2. k \in Objects /\ k.tracked /\ ~k.mapped /\ z \in Nat
    BY <1>3 DEF Window, Untracked, Objects
  <2>3. server.win[x].exists => ~server.win[x].inputOnly
    BY <1>3, <1>5 DEF IsInputOnly
  <2>4. z = IF k.mapped THEN 1 ELSE 0
    BY <2>2
  <2> HIDE DEF d, k, z
  <2>5. Types(d) /\ d.wm.client[x] = k /\ d.wm.managed[x] = z /\ d.wm.stacked = stk
    <3> HIDE DEF stk
    <3>1. Types(Desktop) /\ x \in Xids
      BY <1>2
    <3> QED
      BY <2>1, <2>2, <3>1, MadeTypes
  <2>6. viewable <=> server.win[x].exists /\ server.win[x].mapped
    BY <1>3, <2>2, <2>5 DEF IsTracked, IsViewable
  <2>7. CASE ~viewable
    <3>1. Made(Desktop, h, x, k, z, stk)
      BY <2>1, <2>7
    <3>2. ~(server.win[x].exists /\ server.win[x].mapped)
      BY <2>6, <2>7
    <3> HIDE DEF h, viewable
    <3> QED
      BY <1>1, <2>2, <2>3, <2>4, <3>1, <3>2, TakenKeeps DEF x
  <2>8. CASE viewable
    <3> DEFINE o == [l EXCEPT !.redirected = TRUE]
               n == 1
    <3>1. l \in Objects /\ o \in Objects /\ o.tracked /\ o.mapped /\ n \in Nat
      BY <2>2, <2>5 DEF Objects
    <3>2. n = IF o.mapped THEN 1 ELSE 0
      BY <3>1
    <3>3. h = HandleMappedWindow(t, x)
      BY <2>8
    <3> HIDE DEF l
    <3>4. Made(d, t, x, l, z, stk)
      <4>1. Made(d, PutClient(d, x, l), x, l, d.wm.managed[x], d.wm.stacked)
        BY <1>2, <2>5, PutClientMade
      <4> QED
        BY <2>5, <4>1
    <3> HIDE DEF h, t
    <3>5. Types(t) /\ t.wm.client[x] = l /\ t.wm.managed[x] = z /\ t.wm.stacked = stk
      <4> HIDE DEF stk
      <4>1. Types(d)
        BY <2>5
      <4>2. l \in Objects
        BY <3>1
      <4>3. z \in Nat
        BY <2>2
      <4>4. x \in Xids
        BY <1>2
      <4> QED
        BY <3>4, <4>1, <4>2, <4>3, <4>4, MadeTypes
    <3>6. Made(t, h, x, o, n, stk)
      <4>1. o = [t.wm.client[x] EXCEPT !.redirected = TRUE]
        BY <3>5
      <4> HIDE DEF o
      <4>2. Made(t, HandleMappedWindow(t, x), x, o, t.wm.managed[x] + 1, t.wm.stacked)
        BY <1>2, <3>5, <4>1, HandleMappedMade
      <4> QED
        BY <3>3, <3>5, <4>2 DEF z
    <3> HIDE DEF o, n
    <3>7. Made(Desktop, h, x, o, n, stk)
      <4> HIDE DEF stk
      <4>1. Made(Desktop, t, x, l, z, stk)
        BY <1>2, <2>1, <3>4, MadeOn
      <4> QED
        BY <1>2, <3>6, <4>1, MadeOn
    <3>8. server.win[x].exists /\ server.win[x].mapped
      BY <2>6, <2>8
    <3> QED
      BY <1>1, <2>3, <3>1, <3>2, <3>7, <3>8, TakenKeeps DEF x
  <2> QED
    BY <2>7, <2>8
<1> QED
  BY <1>4, <1>5

\* When a DestroyNotify is the first event, the window is not mapped for the window
\* manager any more.
LEMMA DestroyedIsUnmapped ==
  ASSUME NEW E \in Seq(Events), E # <<>>, NEW x, NEW o, NEW k, DestroyedInTurn(E, x, o, k),
         Tells(Head(E), "DestroyNotify", x)
  PROVE  ~k.mapped
<1>1. 1 \in 1..Len(E) /\ Head(E) = E[1] /\ 1 - 1 = 0 /\ \A i \in 1..0 : FALSE
  BY HeadTailProperties, LenProperties, EmptySeq
<1>2. Quiet(E, x, k, 0)
  BY <1>1 DEF DestroyedInTurn
<1> QED
  BY <1>1, <1>2 DEF Quiet, Hidden

\* What is known when an event is read.
LEMMA RunningHas ==
  ASSUME IInv, phase = "running"
  PROVE  /\ ServerInv(server, wm.client, <<>>, FALSE, reparented) /\ ManagerInv(wm)
         /\ found = <<>> /\ server.selected /\ reparented \in SUBSET Xids
<1>0. /\ ServerInv(server, wm.client, found, phase = "selected", reparented) /\ ManagerInv(wm)
      /\ PhaseInv(server, wm, phase, found) /\ reparented \in SUBSET Xids
  BY DEF IInv, WholeInv
<1>1. found = <<>> /\ server.selected
  BY <1>0 DEF PhaseInv
<1>2. (phase = "selected") = FALSE
  OBVIOUS
<1> QED
  BY <1>0, <1>1, <1>2

\* One turn of the event loop.
LEMMA ReadEventKeeps ==
  ASSUME IInv, ReadEvent
  PROVE  IInv'
<1> DEFINE e == Head(server.events)
           x == e.window
           d == [Desktop EXCEPT !.server.events = Tail(@)]
           h == HandleEvent(d, e)
<1>1. /\ phase = "running" /\ server.events # <<>> /\ phase' = phase /\ found' = found
      /\ reparented' = reparented /\ server' = h.server /\ wm' = h.wm
  BY DEF ReadEvent, Becomes
<1>2. /\ ServerInv(server, wm.client, <<>>, FALSE, reparented) /\ ManagerInv(wm)
      /\ found = <<>> /\ server.selected /\ reparented \in SUBSET Xids
  BY <1>1, RunningHas
<1>3. /\ server.events \in Seq(Events) /\ DOMAIN server = ServerFields
      /\ server.win \in [Xids -> Infos]
  BY <1>2 DEF ServerInv, IsServer
<1>4. e \in Events
  BY <1>1, <1>3, TailIs
<1>5. x \in Xids
  BY <1>4 DEF Events
<1>6. /\ DOMAIN d = {"server", "wm"} /\ d.wm = wm /\ d.server = TailOf(server)
      /\ d.server.win = server.win
  BY <1>3 DEF Desktop, TailOf, ServerFields
<1>7. Types(d)
  BY <1>2, <1>6 DEF Types, IsDesktop, ManagerInv, IsManager
<1> HIDE DEF d, e, x
<1>8. /\ wm.client[x].tracked /\ server.win[x].exists => ~server.win[x].inputOnly
      /\ DestroyedInTurn(server.events, x, server.win[x], wm.client[x])
  BY <1>2, <1>5 DEF ServerInv, Told
<1>9. Ready(d, e, x)
  <2>1. e.window = x
    BY DEF x
  <2> QED
    BY <1>2, <1>3, <1>6, <1>7, <1>8, <2>1 DEF Ready
<1>10. e.type = "DestroyNotify" => ~d.wm.client[x].mapped
  <2> SUFFICES ASSUME e.type = "DestroyNotify" PROVE ~wm.client[x].mapped
    BY <1>6
  <2>1. Tells(Head(server.events), "DestroyNotify", x)
    BY DEF Tells, e, x
  <2> QED
    BY <1>1, <1>3, <1>8, <2>1, DestroyedIsUnmapped
<1>11. Handles(d, e, x, h)
  BY <1>4, <1>5, <1>9, <1>10, HandleEventHandles
<1> HIDE DEF h
<1>12. /\ Follows(TailOf(server), h.server) /\ ManagerInv(h.wm)
       /\ \A y \in Xids : y # x => h.wm.client[y] = wm.client[y]
       /\ Heard(Head(server.events), x, server.win[x], wm.client[x], h.wm.client[x])
       /\ h.wm.client[x].tracked /\ server.win[x].exists => ~server.win[x].inputOnly
  BY <1>6, <1>11 DEF Handles, e
<1>13. Head(server.events).window = x
  BY DEF x, e
<1> DEFINE l == h.wm.client
           t == TailOf(server)
<1>14. /\ ServerInv(TailOf(server), l, <<>>, FALSE, reparented)
       /\ TailOf(server).selected = server.selected /\ TailOf(server).used = server.used
  <2>1. HearsFirst(server, wm.client, x, l)
    BY <1>12, <1>13 DEF HearsFirst
  <2> HIDE DEF l
  <2> QED
    BY <1>1, <1>2, <1>5, <2>1, TailKeeps
<1>15. Follows(t, h.server) /\ ServerInv(t, l, <<>>, FALSE, reparented)
  BY <1>12, <1>14
<1> HIDE DEF t, l
<1>16. /\ ServerInv(h.server, l, <<>>, FALSE, reparented)
       /\ h.server.selected = t.selected /\ h.server.used = t.used
  BY <1>15 DEF Follows
<1>17. h.server.selected = server.selected
  BY <1>14, <1>16 DEF t
<1>18. PhaseInv(server', wm', phase', found')
  <2>1. PhaseInv(server, wm, phase, found)
    BY DEF IInv, WholeInv
  <2>2. ~(phase \in {"starting", "selected"}) /\ phase' = "running" /\ found' = <<>> /\ server'.selected
    BY <1>1, <1>2, <1>17
  <2>3. \A y \in Xids : ~Contains(<<>>, y)
    BY DEF Contains
  <2> QED
    BY <1>1, <2>1, <2>2, <2>3 DEF PhaseInv
<1>19. ServerInv(server', wm'.client, found', phase' = "selected", reparented')
  <2>1. (phase' = "selected") = FALSE
    BY <1>1
  <2> QED
    BY <1>1, <1>2, <1>16, <2>1 DEF l
<1> QED
  BY <1>1, <1>2, <1>12, <1>18, <1>19 DEF IInv, WholeInv

-----------------------------------------------------------------------------
(* The steps of the clients.                                               *)

\* A client's request changes the server only.
LEMMA ClientKeeps ==
  ASSUME IInv, wm' = wm, phase' = phase, found' = found, reparented' \in SUBSET Xids,
         ServerInv(server', wm.client, found, phase = "selected", reparented'),
         server'.selected = server.selected, server.used \subseteq server'.used
  PROVE  IInv'
<1>0. ManagerInv(wm) /\ PhaseInv(server, wm, phase, found)
  BY DEF IInv, WholeInv
<1>1. PhaseInv(server', wm', phase', found')
  BY <1>0 DEF PhaseInv
<1> QED
  BY <1>0, <1>1 DEF IInv, WholeInv

\* More windows were reparented.
LEMMA ReparentedMore ==
  ASSUME NEW s, NEW c, NEW fnd, NEW q, NEW rep, ServerInv(s, c, fnd, q, rep), NEW r, rep \subseteq r
  PROVE  ServerInv(s, c, fnd, q, r)
<1> SUFFICES ASSUME s.selected, NEW x \in Xids
             PROVE  Told(s.events, x, s.win[x], c[x], Contains(fnd, x), q, x \in r)
  BY DEF ServerInv
<1>1. Told(s.events, x, s.win[x], c[x], Contains(fnd, x), q, x \in rep)
  BY DEF ServerInv
<1>2. CASE x \in r
  <2>1. Told(s.events, x, s.win[x], c[x], Contains(fnd, x), q, TRUE)
    BY <1>1, ToldReparented
  <2>2. (x \in r) = TRUE
    BY <1>2
  <2> QED
    BY <2>1, <2>2
<1>3. CASE x \notin r
  <2>1. (x \in r) = (x \in rep)
    BY <1>3
  <2> QED
    BY <1>1, <2>1
<1> QED
  BY <1>2, <1>3

\* Whatever a client does.
LEMMA ClientsKeep ==
  ASSUME IInv, NEW x \in Xids,
         \/ \E override, inputOnly \in BOOLEAN : ClientCreates(x, override, inputOnly)
         \/ ClientMapsWindow(x) \/ ClientUnmapsWindow(x) \/ ClientDestroysWindow(x)
         \/ ClientReparentsWindow(x) \/ ClientStacksWindow(x)
  PROVE  IInv'
<1> DEFINE q == phase = "selected"
<1>0. ServerInv(server, wm.client, found, q, reparented) /\ reparented \in SUBSET Xids
  BY DEF IInv, WholeInv
<1> HIDE DEF q
<1>1. CASE \E override, inputOnly \in BOOLEAN : ClientCreates(x, override, inputOnly)
  <2>1. PICK override \in BOOLEAN, inputOnly \in BOOLEAN : ClientCreates(x, override, inputOnly)
    BY <1>1
  <2> DEFINE m == CreateWindow(server, x, override, inputOnly)
             t == Send(m, CreateEvent(m, x))
  <2>2. /\ wm' = wm /\ phase' = phase /\ found' = found /\ reparented' = reparented
        /\ x \notin server.used /\ server' = t
    BY <2>1 DEF ClientCreates, ClientStep
  <2>3. ServerInv(t, wm.client, found, q, reparented) /\ t.selected = server.selected
        /\ server.used \subseteq t.used
    BY <1>0, <2>2, CreateKeeps
  <2> HIDE DEF t
  <2> QED
    BY <1>0, <2>2, <2>3, ClientKeeps DEF q
<1>2. CASE ClientMapsWindow(x)
  <2>1. /\ wm' = wm /\ phase' = phase /\ found' = found /\ reparented' = reparented
        /\ server.win[x].exists /\ server' = ClientMaps(server, x)
    BY <1>2 DEF ClientMapsWindow, ClientStep, Exists
  <2>2. /\ ServerInv(ClientMaps(server, x), wm.client, found, q, reparented)
        /\ ClientMaps(server, x).selected = server.selected
        /\ ClientMaps(server, x).used = server.used
    BY <1>0, <2>1, ClientMapsKeeps
  <2> QED
    BY <1>0, <2>1, <2>2, ClientKeeps DEF q
<1>3. CASE ClientUnmapsWindow(x)
  <2>1. /\ wm' = wm /\ phase' = phase /\ found' = found /\ reparented' = reparented
        /\ server.win[x].exists /\ server' = Unmaps(server, x)
    BY <1>3 DEF ClientUnmapsWindow, ClientStep, IsViewable, Exists
  <2>2. /\ ServerInv(Unmaps(server, x), wm.client, found, q, reparented)
        /\ Unmaps(server, x).selected = server.selected
        /\ Unmaps(server, x).used = server.used
    BY <1>0, <2>1, UnmapsKeeps
  <2> QED
    BY <1>0, <2>1, <2>2, ClientKeeps DEF q
<1>4. CASE ClientDestroysWindow(x)
  <2>1. /\ wm' = wm /\ phase' = phase /\ found' = found /\ reparented' = reparented
        /\ server.win[x].exists /\ server' = Destroys(server, x)
    BY <1>4 DEF ClientDestroysWindow, ClientStep, Exists
  <2>2. /\ ServerInv(Destroys(server, x), wm.client, found, q, reparented)
        /\ Destroys(server, x).selected = server.selected
        /\ Destroys(server, x).used = server.used
    BY <1>0, <2>1, DestroysKeeps
  <2> QED
    BY <1>0, <2>1, <2>2, ClientKeeps DEF q
<1>5. CASE ClientReparentsWindow(x)
  <2> DEFINE parent == IF server.win[x].parent = Root THEN Elsewhere ELSE Root
             r == IF server.selected THEN reparented \cup {x} ELSE reparented
  <2>1. /\ wm' = wm /\ phase' = phase /\ found' = found /\ reparented' = r
        /\ server.win[x].exists /\ server' = Reparents(server, x, parent)
    BY <1>5 DEF ClientReparentsWindow, ClientStep, Exists
  <2>2. reparented \subseteq r /\ r \in SUBSET Xids /\ (server.selected => x \in r)
    BY <1>0
  <2>3. parent = IF server.win[x].parent = Root THEN Elsewhere ELSE Root
    OBVIOUS
  <2> HIDE DEF parent, r
  <2>4. ServerInv(server, wm.client, found, q, r)
    BY <1>0, <2>2, ReparentedMore
  <2>5. /\ ServerInv(Reparents(server, x, parent), wm.client, found, q, r)
        /\ Reparents(server, x, parent).selected = server.selected
        /\ Reparents(server, x, parent).used = server.used
    <3>1. server.win[x].exists
      BY <2>1
    <3>2. server.selected => x \in r
      BY <2>2
    <3> QED
      BY <2>3, <2>4, <3>1, <3>2, ReparentsKeeps
  <2> QED
    BY <2>1, <2>2, <2>5, ClientKeeps DEF q
<1>6. CASE ClientStacksWindow(x)
  <2>1. /\ wm' = wm /\ phase' = phase /\ found' = found /\ reparented' = reparented
        /\ Child(server.win[x])
    BY <1>6 DEF ClientStacksWindow, ClientStep, Exists, Child
  <2>2. PICK t \in {LowerWindow(server, x)} \cup {StackWindow(server, x, y) : y \in Xids \ {x}} :
          server' = Restacked(server, t, x)
    BY <1>6 DEF ClientStacksWindow
  <2>3. /\ ServerInv(Restacked(server, t, x), wm.client, found, q, reparented)
        /\ Restacked(server, t, x).selected = server.selected
        /\ Restacked(server, t, x).used = server.used
    BY <1>0, <2>1, StackKeeps
  <2> QED
    BY <1>0, <2>1, <2>2, <2>3, ClientKeeps DEF q
<1> QED
  BY <1>1, <1>2, <1>3, <1>4, <1>5, <1>6

-----------------------------------------------------------------------------
(* The theorems.                                                           *)

\* A server without windows.
LEMMA EmptyServer ==
  /\ ServerInv(Server, Manager.client, <<>>, FALSE, {})
  /\ DOMAIN Server = ServerFields /\ ~Server.selected /\ Server.used = {}
<1> DEFINE s == Server
           c == Manager.client
<1>1. /\ DOMAIN s = ServerFields /\ s.win = [x \in Xids |-> NoWindow] /\ s.order = <<>>
      /\ s.used = {} /\ s.selected = FALSE /\ s.events = <<>>
  BY DEF Server, ServerFields
<1>2. c = [x \in Xids |-> Untracked]
  BY DEF Manager
<1> HIDE DEF s, c
<1>3. NoWindow \in Infos /\ ~NoWindow.exists /\ ~Untracked.tracked
  BY DEF NoWindow, Infos, Untracked
<1>4. <<>> \in Seq(Xids) /\ <<>> \in Seq(Events) /\ \A i \in 1..Len(<<>>) : FALSE
  OBVIOUS
<1>5. IsInjective(<<>>) /\ \A x : ~Contains(<<>>, x)
  BY DEF IsInjective, Contains
<1>6. s.win \in [Xids -> Infos] /\ \A x \in Xids : s.win[x] = NoWindow
  BY <1>1, <1>3
<1>7. IsServer(s)
  BY <1>1, <1>4, <1>5, <1>6 DEF IsServer, IsStack
<1>8. \A x \in Xids : Contains(s.order, x) <=> Child(s.win[x])
  BY <1>1, <1>3, <1>5, <1>6 DEF Child
<1>9. \A x \in Xids : ~s.win[x].exists /\ ~c[x].tracked
  BY <1>2, <1>3, <1>6
<1>10. \A i \in 1..Len(s.events) : s.events[i].window \in s.used
  BY <1>1, <1>4
<1>11. ServerInv(s, c, <<>>, FALSE, {})
  BY <1>1, <1>7, <1>8, <1>9, <1>10 DEF ServerInv
<1> QED
  BY <1>1, <1>11 DEF s, c

\* A window that is created before the events are selected.
LEMMA CreatedBefore ==
  ASSUME NEW s, NEW c, ServerInv(s, c, <<>>, FALSE, {}), ~s.selected, NEW x \in Xids, x \notin s.used,
         NEW override \in BOOLEAN
  PROVE  LET t == CreateWindow(s, x, override, FALSE)
         IN /\ ServerInv(t, c, <<>>, FALSE, {}) /\ ~t.selected /\ t.used = s.used \cup {x}
            /\ t.win = [s.win EXCEPT ![x] = WindowInfo(Root, override, FALSE)]
<1> DEFINE i == FALSE
           fnd == <<>>
           q == FALSE
           rep == {}
           t == CreateWindow(s, x, override, i)
           u == Send(t, CreateEvent(t, x))
<1>1. DOMAIN s = ServerFields /\ i \in BOOLEAN
  BY DEF ServerInv, IsServer
<1>2. /\ ~t.selected /\ t.used = s.used \cup {x}
      /\ t.win = [s.win EXCEPT ![x] = WindowInfo(Root, override, FALSE)]
  BY <1>1 DEF CreateWindow, ServerFields
<1>3. ServerInv(s, c, fnd, q, rep)
  OBVIOUS
<1> HIDE DEF i, fnd, q, rep
<1>4. ServerInv(u, c, fnd, q, rep)
  BY <1>1, <1>3, CreateKeeps
<1> HIDE DEF t
<1>5. u = t
  BY <1>2 DEF Send
<1> HIDE DEF u
<1> QED
  BY <1>2, <1>4, <1>5 DEF t, i, fnd, q, rep

\* The servers the window manager may find.
LEMMA ExistingIs ==
  ASSUME NEW s \in Existing
  PROVE  ServerInv(s, Manager.client, <<>>, FALSE, {}) /\ ~s.selected
<1> DEFINE c == Manager.client
<1> HIDE DEF c
<1>1. CASE s = Server
  BY <1>1, EmptyServer DEF c
<1>2. ASSUME NEW x \in Xids, NEW y \in Xids, x # y, NEW k \in BOOLEAN, NEW l \in BOOLEAN,
             NEW m \in BOOLEAN, s = Found(x, y, k, l, m)
      PROVE  ServerInv(s, c, <<>>, FALSE, {}) /\ ~s.selected
  <2> DEFINE a == CreateWindow(Server, x, k, FALSE)
             b == CreateWindow(a, y, l, FALSE)
             z == Server
  <2>1. ServerInv(z, c, <<>>, FALSE, {}) /\ ~z.selected /\ z.used = {}
    BY EmptyServer DEF c
  <2>2. /\ ServerInv(a, c, <<>>, FALSE, {}) /\ ~a.selected /\ a.used = z.used \cup {x}
        /\ a.win = [z.win EXCEPT ![x] = WindowInfo(Root, k, FALSE)]
    <3>1. x \notin z.used
      BY <2>1
    <3>2. a = CreateWindow(z, x, k, FALSE)
      OBVIOUS
    <3> HIDE DEF z, a
    <3> QED
      BY <1>2, <2>1, <3>1, <3>2, CreatedBefore
  <2> HIDE DEF z, a
  <2>3. /\ ServerInv(b, c, <<>>, FALSE, {}) /\ ~b.selected
        /\ b.win = [a.win EXCEPT ![y] = WindowInfo(Root, l, FALSE)]
    <3>1. y \notin a.used
      BY <1>2, <2>1, <2>2
    <3>2. b = CreateWindow(a, y, l, FALSE)
      OBVIOUS
    <3> HIDE DEF b
    <3> QED
      BY <1>2, <2>2, <3>1, <3>2, CreatedBefore
  <2>4. s = IF m THEN MapWindow(b, x) ELSE b
    BY <1>2 DEF Found, a, b
  <2> HIDE DEF b
  <2>5. CASE ~m
    BY <2>3, <2>4, <2>5
  <2>6. CASE m
    <3>1. z.win \in [Xids -> Infos] /\ DOMAIN b = ServerFields
      BY <2>1, <2>3 DEF ServerInv, IsServer
    <3>2. ~WindowInfo(Root, k, FALSE).mapped
      BY DEF WindowInfo, NoWindow
    <3> DEFINE p == WindowInfo(Root, k, FALSE)
               r == WindowInfo(Root, l, FALSE)
    <3> HIDE DEF p, r
    <3>3. b.win[x] = p
      <4>1. a.win = [z.win EXCEPT ![x] = p] /\ b.win = [a.win EXCEPT ![y] = r]
        BY <2>2, <2>3 DEF p, r
      <4> QED
        BY <1>2, <3>1, <4>1
    <3>4. ~b.win[x].mapped
      BY <3>2, <3>3 DEF p
    <3>5. Maps(b, x) = MapWindow(b, x)
      <4>1. CASE ~Exists(b, x)
        BY <4>1 DEF Maps, MapWindow
      <4>2. CASE Exists(b, x)
        <5>1. MapWindow(b, x) = [b EXCEPT !.win[x].mapped = TRUE]
          BY <4>2 DEF MapWindow
        <5>2. ~MapWindow(b, x).selected
          BY <2>3, <3>1, <5>1 DEF ServerFields
        <5> QED
          BY <3>4, <4>2, <5>2 DEF Maps, Send
      <4> QED
        BY <4>1, <4>2
    <3>6. ServerInv(Maps(b, x), c, <<>>, FALSE, {}) /\ Maps(b, x).selected = b.selected
      BY <2>3, MapsKeeps
    <3> QED
      BY <2>3, <2>4, <2>6, <3>5, <3>6
  <2> QED
    BY <2>5, <2>6
<1>3. CASE s # Server
  <2>1. PICK p \in {q \in Xids \X Xids : q[1] # q[2]}, k \in BOOLEAN, l \in BOOLEAN, m \in BOOLEAN :
          s = Found(p[1], p[2], k, l, m)
    BY <1>3 DEF Existing
  <2>2. p[1] \in Xids /\ p[2] \in Xids /\ p[1] # p[2]
    OBVIOUS
  <2> QED
    BY <1>2, <2>1, <2>2 DEF c
<1> QED
  BY <1>1, <1>3

\* IInv holds when the window manager starts.
LEMMA InitIInv ==
  Init => IInv
<1> SUFFICES ASSUME Init PROVE IInv
  OBVIOUS
<1>1. /\ server \in Existing /\ wm = Manager /\ phase = "starting" /\ found = <<>>
      /\ reparented = {}
  BY DEF Init
<1>2. ServerInv(server, Manager.client, <<>>, FALSE, {}) /\ ~server.selected
  BY <1>1, ExistingIs
<1>3. ServerInv(server, wm.client, found, phase = "selected", reparented)
  <2>1. (phase = "selected") = FALSE
    BY <1>1
  <2> QED
    BY <1>1, <1>2, <2>1
<1>4. <<>> \in Seq(Xids) /\ IsInjective(<<>>) /\ \A x : ~Contains(<<>>, x)
  BY DEF IsInjective, Contains
<1>5. /\ DOMAIN wm = ManagerFields /\ wm.client = [x \in Xids |-> Untracked]
      /\ wm.stacked = <<>> /\ wm.managed = [x \in Xids |-> 0]
  BY <1>1 DEF Manager, ManagerFields
<1>6. Untracked \in Objects /\ ~Untracked.tracked /\ ~Untracked.mapped
  BY DEF Untracked, Objects
<1>7. ManagerInv(wm)
  <2>1. wm.client \in [Xids -> Objects] /\ wm.managed \in [Xids -> Nat]
    BY <1>5, <1>6
  <2>2. \A x \in Xids : wm.client[x] = Untracked /\ wm.managed[x] = 0
    BY <1>5
  <2> QED
    BY <1>4, <1>5, <1>6, <2>1, <2>2 DEF ManagerInv, IsManager, IsStack
<1>8. PhaseInv(server, wm, phase, found)
  BY <1>1, <1>2, <1>4, <1>5, <1>6 DEF PhaseInv, IsStack
<1> QED
  BY <1>1, <1>3, <1>7, <1>8 DEF IInv, WholeInv

\* Every step keeps IInv.
LEMMA NextIInv ==
  IInv /\ [Next]_vars => IInv'
<1> SUFFICES ASSUME IInv, [Next]_vars PROVE IInv'
  OBVIOUS
<1>1. CASE SelectEvents
  BY <1>1, SelectEventsKeeps
<1>2. CASE QueryWindows
  BY <1>2, QueryWindowsKeeps
<1>3. CASE EnterWindow
  BY <1>3, EnterWindowKeeps
<1>4. CASE ManageWindow
  BY <1>4, ManageWindowKeeps
<1>5. CASE StartLoop
  BY <1>5, StartLoopKeeps
<1>6. CASE ReadEvent
  BY <1>6, ReadEventKeeps
<1>7. ASSUME NEW x \in Xids,
             \/ \E override, inputOnly \in BOOLEAN : ClientCreates(x, override, inputOnly)
             \/ ClientMapsWindow(x) \/ ClientUnmapsWindow(x) \/ ClientDestroysWindow(x)
             \/ ClientReparentsWindow(x) \/ ClientStacksWindow(x)
      PROVE  IInv'
  BY <1>7, ClientsKeep
<1>8. CASE UNCHANGED vars
  BY <1>8 DEF vars, IInv
<1> QED
  BY <1>1, <1>2, <1>3, <1>4, <1>5, <1>6, <1>7, <1>8 DEF Next

\* The events on their way account for every difference between the server's windows
\* and the objects the window manager has for them, from the start on.
THEOREM Safety ==
  Spec => []IInv
BY InitIInv, NextIInv, PTL DEF Spec

\* A consumer hears of the map and the unmap of a window in turn, and of both before
\* HandleDestroyNotify() deletes the window's object.
THEOREM ConsumersToldInTurn ==
  Spec => []ToldInTurn
<1>1. IInv => ToldInTurn
  <2> SUFFICES ASSUME IInv PROVE ToldInTurn
    OBVIOUS
  <2>0. ManagerInv(wm)
    BY DEF IInv, WholeInv
  <2>1. MappedOnce
    <3> SUFFICES ASSUME NEW x \in Xids PROVE wm.managed[x] <= 1
      BY DEF MappedOnce
    <3>1. wm.managed[x] = IF wm.client[x].mapped THEN 1 ELSE 0
      BY <2>0 DEF ManagerInv
    <3> QED
      BY <3>1
  <2>2. ReleasedBeforeDestroyed
    <3> DEFINE E == server.events
               x == Head(E).window
    <3> SUFFICES ASSUME phase = "running", E # <<>>, Head(E).type = "DestroyNotify"
                 PROVE  wm.managed[x] = 0
      BY DEF ReleasedBeforeDestroyed
    <3>1. ServerInv(server, wm.client, <<>>, FALSE, reparented) /\ server.selected
      BY RunningHas
    <3>2. E \in Seq(Events)
      BY <3>1 DEF ServerInv, IsServer
    <3>3. Head(E) \in Events
      BY <3>2, TailIs
    <3>4. x \in Xids
      BY <3>3 DEF Events
    <3>5. Tells(Head(E), "DestroyNotify", x)
      BY DEF Tells
    <3> HIDE DEF x
    <3>6. DestroyedInTurn(E, x, server.win[x], wm.client[x])
      BY <3>1, <3>4 DEF ServerInv, Told
    <3> HIDE DEF E
    <3>7. ~wm.client[x].mapped
      BY <3>2, <3>5, <3>6, DestroyedIsUnmapped
    <3> QED
      BY <2>0, <3>4, <3>7 DEF ManagerInv
  <2> QED
    BY <2>1, <2>2 DEF ToldInTurn
<1> QED
  BY <1>1, Safety, PTL

\* Once all events are handled, the window manager tracks the children of the root
\* window and only those, but for InputOnly windows and ones that were reparented, and
\* knows which of them are mapped: no window sneaks in between the selection of the
\* events and the query.
THEOREM RootChildrenTracked ==
  Spec => []TracksRootChildren
<1>1. IInv => TracksRootChildren
  <2> SUFFICES ASSUME IInv, AtRest, NEW x \in Xids
               PROVE  LET child == Exists(server, x) /\ server.win[x].parent = Root
                                     /\ ~server.win[x].inputOnly
                      IN /\ wm.client[x].tracked => child
                         /\ child /\ x \notin reparented => wm.client[x].tracked
                         /\ wm.client[x].tracked => wm.client[x].mapped = server.win[x].mapped
    BY DEF TracksRootChildren
  <2> DEFINE o == server.win[x]
             k == wm.client[x]
             r == x \in reparented
  <2>1. phase = "running" /\ server.events = <<>>
    BY DEF AtRest
  <2>2. ServerInv(server, wm.client, <<>>, FALSE, reparented) /\ server.selected /\ ManagerInv(wm)
    BY <2>1, RunningHas
  <2>3. Contains(<<>>, x) = FALSE /\ Len(<<>>) = 0 /\ \A i \in 1..0 : FALSE
    BY DEF Contains
  <2>4. Told(<<>>, x, o, k, FALSE, FALSE, r)
    <3>1. Told(server.events, x, o, k, Contains(<<>>, x), FALSE, r)
      BY <2>2 DEF ServerInv
    <3> QED
      BY <2>1, <2>3, <3>1
  <2>5. k.tracked => x \in server.used
    BY <2>2 DEF ServerInv
  <2>6. /\ k.tracked /\ o.exists => ~o.inputOnly
        /\ o \in Infos /\ k \in Objects
        /\ k.mapped => k.tracked
    BY <2>2 DEF ServerInv, IsServer, ManagerInv, IsManager
  <2>7. Exists(server, x) <=> o.exists
    BY DEF Exists
  <2> HIDE DEF o, k, r
  <2>8. /\ ~Child(o) => ~k.tracked
        /\ Child(o) /\ ~o.inputOnly /\ ~r => k.tracked
        /\ ~OnScreen(o) => ~k.mapped
        /\ OnScreen(o) /\ k.tracked => k.mapped
    BY <2>3, <2>4
    DEF Told, HiddenIsTold, GoneIsTold, ChildIsTold, ShownIsTold, Quiet, Hidden, Gone, Unknown,
        Shown, Seen, Left
  <2>9. k.mapped \in BOOLEAN /\ o.mapped \in BOOLEAN
    BY <2>6 DEF Objects, Infos
  <2>10. /\ k.tracked => o.exists /\ o.parent = Root /\ ~o.inputOnly
         /\ o.exists /\ o.parent = Root /\ ~o.inputOnly /\ ~r => k.tracked
    BY <2>6, <2>8 DEF Child
  <2>11. k.tracked => (k.mapped <=> o.mapped)
    BY <2>6, <2>8 DEF Child, OnScreen
  <2>12. k.tracked => k.mapped = o.mapped
    BY <2>9, <2>11
  <2> QED
    BY <2>7, <2>10, <2>12 DEF o, k, r
<1> QED
  BY <1>1, Safety, PTL

=============================================================================
