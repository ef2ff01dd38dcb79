--------------------------- MODULE WindowUnits_proofs ---------------------------
(***************************************************************************)
(* Proofs about the parts of the window system that MCWindowUnits puts     *)
(* side by side: the takeover from another window manager, the hotkey      *)
(* overlay, a client's window, Chrome's tabs and panel, the event          *)
(* consumers and the stacking order, for every value of the constants.     *)
(* Each part has an inductive invariant of its own; the steps of the other *)
(* parts leave it alone.                                                   *)
(***************************************************************************)
EXTENDS MCWindowUnits, FiniteSetTheorems, SequenceTheorems, TLAPS

-----------------------------------------------------------------------------
(* The takeover.                                                           *)

Managers == Olds \cup {Rival}
Takeovers ==
  [pc : {"make", "stamp", "find", "select", "own", "check", "wait", "next", "done", "failed"},
   n : DOMAIN Selections, owner : [DOMAIN Selections -> Managers \cup {Us, NoOwner}],
   current : Managers \cup {Us, NoOwner}, previous : SUBSET (Managers \cup {Us}),
   alive : SUBSET (Managers \cup {Us}), watched : SUBSET (Managers \cup {Us}),
   destroyed : SUBSET (Managers \cup {Us}), lost : SUBSET (Managers \cup {Us}),
   newer : [DOMAIN Selections -> BOOLEAN], missed : BOOLEAN, rivalled : BOOLEAN]

\* Selection i has been asked for and its owner looked at.
Asked(i) == i < takeover.n \/ (i = takeover.n /\ takeover.pc \in {"wait", "next", "done"})

\* A window whose DestroyNotify is on its way is gone for good; the managers before us are gone,
\* but for the one that is waited for; and what was asked for is ours or was taken later.  The
\* rival is none of them before it starts.
Alone ==
  /\ takeover.destroyed \cap takeover.alive = {}
  /\ \A w \in takeover.previous \cap takeover.alive : takeover.pc = "wait" /\ w = takeover.current
  /\ ~takeover.rivalled =>
       /\ Rival \notin takeover.previous \cup takeover.watched \cup takeover.destroyed \cup takeover.alive
       /\ takeover.current # Rival /\ \A i \in DOMAIN Selections : takeover.owner[i] # Rival
  /\ takeover.pc \in {"make", "stamp"} => takeover.n = 1
  /\ takeover.pc = "make" => takeover.previous = {} /\ takeover.watched = {} /\ takeover.destroyed = {}
  /\ takeover.pc = "done" => takeover.n = Len(Selections)
  /\ \A i \in DOMAIN Selections : Asked(i) => takeover.owner[i] = Us \/ takeover.newer[i]

TakeoverInv == takeover \in Takeovers /\ Alone

\* Selections are numbered from 1.
LEMMA SelectionsAre ==
  /\ Len(Selections) \in Nat /\ DOMAIN Selections = 1..Len(Selections) /\ 1 \in DOMAIN Selections
  /\ Len(Selections) \in DOMAIN Selections
<1>1. Len(Selections) \in Nat /\ DOMAIN Selections = 1..Len(Selections)
  BY SelectionAssumption, LenProperties
<1>2. Len(Selections) # 0
  BY SelectionAssumption, EmptySeq
<1> QED
  BY <1>1, <1>2

\* Nothing was asked for yet, and no rival has started.
LEMMA TakeoverInitInv == SelInit => TakeoverInv
<1> SUFFICES ASSUME SelInit PROVE TakeoverInv
  OBVIOUS
<1>1. PICK owners \in [DOMAIN Selections -> Olds \cup {NoOwner}] :
        takeover = [pc |-> "make", n |-> 1, owner |-> owners, current |-> NoOwner,
                previous |-> {}, alive |-> Olds, watched |-> {}, destroyed |-> {},
                lost |-> {}, newer |-> [i \in DOMAIN Selections |-> FALSE],
                missed |-> FALSE, rivalled |-> FALSE]
  BY DEF SelInit
<1>2. owners \in [DOMAIN Selections -> Managers \cup {Us, NoOwner}]
  BY DEF Managers
<1>3. takeover \in Takeovers
  BY <1>1, <1>2, SelectionsAre DEF Takeovers, Managers
<1>4. Alone
  <2>1. \A i \in DOMAIN Selections : ~Asked(i)
    BY <1>1, SelectionsAre DEF Asked
  <2> QED
    BY <1>1, <2>1, SelectionAssumption DEF Alone
<1> QED
  BY <1>3, <1>4 DEF TakeoverInv

\* Our own steps: the requests of GetManagerSelection(), one after the other.
LEMMA OurStepInv == TakeoverInv /\ OurStep => TakeoverInv'
<1> SUFFICES ASSUME TakeoverInv, OurStep PROVE TakeoverInv'
  OBVIOUS
<1>0. /\ takeover \in Takeovers /\ Alone /\ takeover.n \in Nat
  BY SelectionsAre DEF TakeoverInv, Takeovers
<1>1. CASE RegisterExistence
  <2>1. /\ takeover' \in Takeovers /\ takeover'.pc = "stamp" /\ takeover'.alive = takeover.alive \cup {Us}
        /\ takeover'.n = 1 /\ takeover'.owner = takeover.owner /\ takeover'.current = takeover.current
        /\ takeover'.previous = takeover.previous /\ takeover'.watched = takeover.watched
        /\ takeover'.destroyed = takeover.destroyed /\ takeover'.rivalled = takeover.rivalled
        /\ takeover.pc = "make"
    BY <1>0, <1>1 DEF RegisterExistence, Takeovers, Alone
  <2>2. \A i \in DOMAIN Selections : ~Asked(i)'
    BY <2>1, SelectionsAre DEF Asked
  <2>3. takeover'.previous = {} /\ takeover'.destroyed = {} /\ takeover'.watched = {}
    BY <1>0, <2>1 DEF Alone
  <2>4. ~takeover'.rivalled => Rival \notin takeover'.alive
    BY <1>0, <2>1, SelectionAssumption DEF Alone
  <2> QED
    BY <1>0, <2>1, <2>2, <2>3, <2>4 DEF TakeoverInv, Alone
<1>2. CASE WaitForPropertyChange
  <2>1. /\ takeover' \in Takeovers /\ takeover'.pc = "find" /\ takeover'.alive = takeover.alive
        /\ takeover'.n = 1 /\ takeover'.owner = takeover.owner /\ takeover'.current = takeover.current
        /\ takeover'.previous = takeover.previous /\ takeover'.watched = takeover.watched
        /\ takeover'.destroyed = takeover.destroyed /\ takeover'.rivalled = takeover.rivalled
    BY <1>0, <1>2 DEF WaitForPropertyChange, Takeovers, Alone
  <2>2. \A i \in DOMAIN Selections : ~Asked(i)'
    BY <2>1, SelectionsAre DEF Asked
  <2> QED
    BY <1>0, <1>2, <2>1, <2>2 DEF TakeoverInv, Alone, WaitForPropertyChange
<1>3. CASE FindOwner
  <2>1. /\ takeover.pc = "find" /\ takeover' \in Takeovers /\ takeover'.pc \in {"own", "select"}
        /\ takeover'.current = takeover.owner[takeover.n]
        /\ takeover'.n = takeover.n /\ takeover'.owner = takeover.owner /\ takeover'.alive = takeover.alive
        /\ takeover'.previous = takeover.previous /\ takeover'.watched = takeover.watched
        /\ takeover'.destroyed = takeover.destroyed /\ takeover'.rivalled = takeover.rivalled
        /\ takeover'.newer = takeover.newer
    BY <1>0, <1>3 DEF FindOwner, Takeovers
  <2>2. \A i \in DOMAIN Selections : Asked(i)' => Asked(i)
    BY <2>1 DEF Asked
  <2>3. takeover.n \in DOMAIN Selections
    BY <1>0 DEF Takeovers
  <2> QED
    BY <1>0, <2>1, <2>2, <2>3 DEF TakeoverInv, Alone
<1>4. CASE SelectOnOwner
  <2>1. /\ takeover.pc = "select" /\ takeover'.pc = "own"
        /\ takeover' \in Takeovers
        /\ takeover'.watched \subseteq takeover.watched \cup {takeover.current}
        /\ takeover'.current = takeover.current
        /\ takeover'.n = takeover.n /\ takeover'.owner = takeover.owner /\ takeover'.alive = takeover.alive
        /\ takeover'.previous = takeover.previous
        /\ takeover'.destroyed = takeover.destroyed /\ takeover'.rivalled = takeover.rivalled
        /\ takeover'.newer = takeover.newer
    <3>1. CASE takeover.current \in takeover.alive
      BY <1>0, <1>4, <3>1 DEF SelectOnOwner, Takeovers
    <3>2. CASE takeover.current \notin takeover.alive
      BY <1>0, <1>4, <3>2 DEF SelectOnOwner, Takeovers
    <3> QED
      BY <3>1, <3>2
  <2>2. \A i \in DOMAIN Selections : Asked(i)' => Asked(i)
    BY <2>1 DEF Asked
  <2> QED
    BY <1>0, <2>1, <2>2 DEF TakeoverInv, Alone
<1>5. CASE TakeOwnership
  <2>1. /\ takeover.pc = "own" /\ takeover'.pc = "check" /\ takeover' \in Takeovers
        /\ \A i \in DOMAIN Selections : takeover'.owner[i] \in {takeover.owner[i], Us}
        /\ takeover'.n = takeover.n /\ takeover'.current = takeover.current /\ takeover'.alive = takeover.alive
        /\ takeover'.previous = takeover.previous /\ takeover'.watched = takeover.watched
        /\ takeover'.destroyed = takeover.destroyed /\ takeover'.rivalled = takeover.rivalled
        /\ takeover'.newer = takeover.newer
    <3>1. CASE takeover.newer[takeover.n]
      BY <1>0, <1>5, <3>1 DEF TakeOwnership, Takeovers
    <3>2. CASE ~takeover.newer[takeover.n]
      <4>1. PICK lost \in SUBSET (Managers \cup {Us}) :
              takeover' = [takeover EXCEPT !.pc = "check", !.owner[takeover.n] = Us, !.lost = lost]
        <5>1. takeover.owner[takeover.n] \in Managers \cup {Us, NoOwner} /\ takeover.lost \in SUBSET (Managers \cup {Us})
          BY <1>0 DEF Takeovers
        <5>2. CASE takeover.owner[takeover.n] = NoOwner
          BY <1>0, <1>5, <3>2, <5>1, <5>2 DEF TakeOwnership, Lose, Takeovers
        <5>3. CASE takeover.owner[takeover.n] # NoOwner
          BY <1>0, <1>5, <3>2, <5>1, <5>3 DEF TakeOwnership, Lose, Takeovers
        <5> QED
          BY <5>2, <5>3
      <4>2. takeover.pc = "own"
        BY <1>5 DEF TakeOwnership
      <4>3. takeover' \in Takeovers
        BY <1>0, <4>1 DEF Takeovers
      <4>4. \A i \in DOMAIN Selections : takeover'.owner[i] \in {takeover.owner[i], Us}
        BY <1>0, <4>1 DEF Takeovers
      <4> QED
        BY <1>0, <4>1, <4>2, <4>3, <4>4 DEF Takeovers
    <3> QED
      BY <3>1, <3>2
  <2>2. \A i \in DOMAIN Selections : Asked(i)' => Asked(i)
    BY <2>1 DEF Asked
  <2> QED
    BY <1>0, <2>1, <2>2, SelectionAssumption DEF TakeoverInv, Alone
<1>6. CASE CheckOwner
  <2>1. /\ takeover.pc = "check" /\ takeover' \in Takeovers
        /\ \/ takeover'.pc = "failed" /\ takeover'.previous = takeover.previous
           \/ /\ takeover.owner[takeover.n] = Us
              /\ takeover'.previous = takeover.previous \cup ({takeover.current} \ {NoOwner})
              /\ takeover'.pc = IF takeover.current = NoOwner THEN "next" ELSE "wait"
        /\ takeover'.n = takeover.n /\ takeover'.owner = takeover.owner /\ takeover'.alive = takeover.alive
        /\ takeover'.current = takeover.current /\ takeover'.watched = takeover.watched
        /\ takeover'.destroyed = takeover.destroyed /\ takeover'.rivalled = takeover.rivalled
        /\ takeover'.newer = takeover.newer
    <3>1. CASE takeover.owner[takeover.n] # Us
      BY <1>0, <1>6, <3>1 DEF CheckOwner, Takeovers
    <3>2. CASE takeover.owner[takeover.n] = Us /\ takeover.current = NoOwner
      BY <1>0, <1>6, <3>2, ZenonT(40) DEF CheckOwner, Takeovers
    <3>3. CASE takeover.owner[takeover.n] = Us /\ takeover.current # NoOwner
      <4>1. takeover.pc = "check" /\ takeover' = [takeover EXCEPT !.previous = @ \cup {takeover.current}, !.pc = "wait"]
        BY <1>6, <3>3 DEF CheckOwner
      <4>2. takeover.previous \cup {takeover.current} \in SUBSET (Managers \cup {Us})
        BY <1>0, <3>3 DEF Takeovers
      <4>3. takeover' \in Takeovers
        BY <1>0, <4>1, <4>2 DEF Takeovers
      <4> QED
        BY <1>0, <3>3, <4>1, <4>3 DEF Takeovers
    <3> QED
      BY <3>1, <3>2, <3>3
  <2>2. \A i \in DOMAIN Selections : Asked(i)' => Asked(i) \/ (i = takeover.n /\ takeover.owner[i] = Us)
    BY <2>1 DEF Asked
  <2>3. takeover'.pc \in {"failed", "next", "wait"}
    BY <2>1
  <2> QED
    BY <1>0, <2>1, <2>2, <2>3 DEF TakeoverInv, Alone
<1>7. CASE WaitForWindow
  <2>1. /\ takeover.pc = "wait" /\ takeover'.pc = "next" /\ takeover' \in Takeovers
        /\ takeover.current \in takeover.destroyed
        /\ takeover'.destroyed = takeover.destroyed \ {takeover.current}
        /\ takeover'.n = takeover.n /\ takeover'.owner = takeover.owner /\ takeover'.alive = takeover.alive
        /\ takeover'.current = takeover.current /\ takeover'.watched = takeover.watched
        /\ takeover'.previous = takeover.previous /\ takeover'.rivalled = takeover.rivalled
        /\ takeover'.newer = takeover.newer
    BY <1>0, <1>7 DEF WaitForWindow, Takeovers
  <2>2. \A i \in DOMAIN Selections : Asked(i)' => Asked(i)
    BY <2>1 DEF Asked
  <2>3. takeover.current \notin takeover.alive
    BY <1>0, <2>1 DEF Alone
  <2> QED
    BY <1>0, <2>1, <2>2, <2>3 DEF TakeoverInv, Alone
<1>8. CASE NextSelection
  <2>1. /\ takeover.pc = "next" /\ takeover' \in Takeovers
        /\ \/ takeover'.pc = "done" /\ takeover'.n = takeover.n /\ takeover.n = Len(Selections)
           \/ takeover'.pc = "find" /\ takeover'.n = takeover.n + 1
        /\ takeover'.owner = takeover.owner /\ takeover'.alive = takeover.alive
        /\ takeover'.current = takeover.current /\ takeover'.watched = takeover.watched
        /\ takeover'.previous = takeover.previous /\ takeover'.destroyed = takeover.destroyed
        /\ takeover'.rivalled = takeover.rivalled /\ takeover'.newer = takeover.newer
    <3>1. takeover.n \in 1..Len(Selections)
      BY <1>0, SelectionsAre DEF Takeovers
    <3>2. takeover.n # Len(Selections) => takeover.n + 1 \in DOMAIN Selections
      BY <3>1, SelectionsAre
    <3>3. CASE takeover.n = Len(Selections)
      BY <1>0, <1>8, <3>3 DEF NextSelection, Takeovers
    <3>4. CASE takeover.n # Len(Selections)
      BY <1>0, <1>8, <3>2, <3>4 DEF NextSelection, Takeovers
    <3> QED
      BY <3>3, <3>4
  <2>2. \A i \in DOMAIN Selections : Asked(i)' => Asked(i)
    BY <1>0, <2>1, SelectionsAre DEF Asked
  <2>3. takeover'.pc \in {"done", "find"}
    BY <2>1
  <2> QED
    BY <1>0, <2>1, <2>2, <2>3 DEF TakeoverInv, Alone
<1> QED
  BY <1>1, <1>2, <1>3, <1>4, <1>5, <1>6, <1>7, <1>8 DEF OurStep

\* A manager's window is destroyed: those that lost a selection, and those that exit anyway.
LEMMA VanishInv ==
  ASSUME TakeoverInv, NEW w \in Managers, takeover' = Vanish(takeover, w)
  PROVE  TakeoverInv'
<1>0. takeover \in Takeovers /\ Alone
  BY DEF TakeoverInv
<1>1. /\ takeover' \in Takeovers /\ takeover'.alive = takeover.alive \ {w}
      /\ \A i \in DOMAIN Selections :
           takeover'.owner[i] = IF takeover.owner[i] = w THEN NoOwner ELSE takeover.owner[i]
      /\ takeover'.destroyed = IF w \in takeover.watched THEN takeover.destroyed \cup {w} ELSE takeover.destroyed
      /\ takeover'.n = takeover.n /\ takeover'.pc = takeover.pc
      /\ takeover'.current = takeover.current /\ takeover'.watched = takeover.watched
      /\ takeover'.previous = takeover.previous /\ takeover'.rivalled = takeover.rivalled
      /\ takeover'.newer = takeover.newer
  <2> DEFINE owner == [i \in DOMAIN takeover.owner |-> IF takeover.owner[i] = w THEN NoOwner ELSE takeover.owner[i]]
             destroyed == IF w \in takeover.watched THEN takeover.destroyed \cup {w} ELSE takeover.destroyed
  <2>1. /\ owner \in [DOMAIN Selections -> Managers \cup {Us, NoOwner}]
        /\ \A i \in DOMAIN Selections : owner[i] = IF takeover.owner[i] = w THEN NoOwner ELSE takeover.owner[i]
    BY <1>0 DEF Takeovers
  <2>2. destroyed \in SUBSET (Managers \cup {Us})
    BY <1>0 DEF Takeovers
  <2>3. takeover' = [takeover EXCEPT !.alive = @ \ {w}, !.owner = owner, !.destroyed = destroyed]
    BY DEF Vanish
  <2> HIDE DEF owner
  <2>4. /\ takeover'.alive = takeover.alive \ {w} /\ takeover'.owner = owner /\ takeover'.destroyed = destroyed
        /\ takeover' \in Takeovers
        /\ takeover'.n = takeover.n /\ takeover'.pc = takeover.pc
        /\ takeover'.current = takeover.current /\ takeover'.watched = takeover.watched
        /\ takeover'.previous = takeover.previous /\ takeover'.rivalled = takeover.rivalled
        /\ takeover'.newer = takeover.newer
    <3> HIDE DEF destroyed
    <3> QED
      BY <1>0, <2>1, <2>2, <2>3, ZenonT(40) DEF Takeovers
  <2> QED
    BY <2>1, <2>4
<1>2. w # Us /\ NoOwner # Us /\ NoOwner # Rival
  BY SelectionAssumption DEF Managers
<1>3. \A i \in DOMAIN Selections : Asked(i)' => Asked(i)
  BY <1>1 DEF Asked
<1>4. \A i \in DOMAIN Selections : Asked(i)' => takeover'.owner[i] = Us \/ takeover'.newer[i]
  BY <1>0, <1>1, <1>2, <1>3 DEF Alone
<1>5. takeover'.destroyed \cap takeover'.alive = {}
  BY <1>0, <1>1 DEF Alone
<1>6. ~takeover.rivalled => Rival \notin takeover'.destroyed
  BY <1>0, <1>1 DEF Alone
<1>7. ~takeover.rivalled => \A i \in DOMAIN Selections : takeover'.owner[i] # Rival
  BY <1>0, <1>1, <1>2 DEF Alone
<1>8. takeover.pc = "make" => takeover'.destroyed = {}
  BY <1>0, <1>1 DEF Alone
<1> QED
  BY <1>0, <1>1, <1>4, <1>5, <1>6, <1>7, <1>8 DEF TakeoverInv, Alone

\* A rival takes a selection, from us or from another manager.
LEMMA RivalInv ==
  ASSUME TakeoverInv, NEW i \in DOMAIN Selections, RivalTakes(i)
  PROVE  TakeoverInv'
<1>0. takeover \in Takeovers /\ Alone /\ ~takeover.rivalled
  BY DEF TakeoverInv, RivalTakes
<1>1. PICK lost \in SUBSET (Managers \cup {Us}) :
        takeover' = [takeover EXCEPT !.owner[i] = Rival, !.lost = lost, !.newer[i] = TRUE,
                                     !.alive = @ \cup {Rival}, !.rivalled = TRUE]
  <2>1. takeover.owner[i] \in Managers \cup {Us, NoOwner} /\ takeover.lost \in SUBSET (Managers \cup {Us})
    BY <1>0 DEF Takeovers
  <2>2. CASE takeover.owner[i] = NoOwner
    BY <1>0, <2>1, <2>2 DEF RivalTakes, Lose, Takeovers
  <2>3. CASE takeover.owner[i] # NoOwner
    BY <1>0, <2>1, <2>3 DEF RivalTakes, Lose, Takeovers
  <2> QED
    BY <2>2, <2>3
<1>2. /\ takeover' \in Takeovers /\ takeover'.alive = takeover.alive \cup {Rival} /\ takeover'.rivalled = TRUE
      /\ takeover'.newer[i] = TRUE
      /\ \A j \in DOMAIN Selections \ {i} : takeover'.owner[j] = takeover.owner[j] /\ takeover'.newer[j] = takeover.newer[j]
      /\ takeover'.n = takeover.n /\ takeover'.pc = takeover.pc
      /\ takeover'.current = takeover.current /\ takeover'.watched = takeover.watched
      /\ takeover'.previous = takeover.previous /\ takeover'.destroyed = takeover.destroyed
  BY <1>0, <1>1 DEF Takeovers, Managers
<1>3. \A j \in DOMAIN Selections : Asked(j)' => Asked(j)
  BY <1>2 DEF Asked
<1>4. \A j \in DOMAIN Selections : Asked(j)' => takeover'.owner[j] = Us \/ takeover'.newer[j]
  BY <1>0, <1>2, <1>3 DEF Alone
<1> QED
  BY <1>0, <1>2, <1>4 DEF TakeoverInv, Alone

\* When RegisterExistence() has succeeded, every manager it took a selection from is gone, and
\* the selections are ours unless a rival asked for one later: for any number of selections and
\* managers, whenever those quit, and whenever the rival starts.
THEOREM TakeoverSafety == MCSpec => []ManagesAlone
<1>1. MCInit => TakeoverInv
  BY TakeoverInitInv DEF MCInit
<1>2. TakeoverInv /\ [MCNext]_vars => TakeoverInv'
  <2>1. UNCHANGED takeover /\ TakeoverInv => TakeoverInv'
    BY DEF TakeoverInv, Alone, Asked
  <2>2. [MCNext]_vars => SelNext \/ UNCHANGED takeover
    BY DEF MCNext, vars, SelectionUnit
  <2>3. TakeoverInv /\ SelNext => TakeoverInv'
    <3> SUFFICES ASSUME TakeoverInv, SelNext PROVE TakeoverInv'
      OBVIOUS
    <3>1. CASE OurStep
      BY <3>1, OurStepInv
    <3>2. CASE \E w \in Olds \cup {Rival} : OldManagerQuits(w) \/ OldManagerExits(w)
      BY <3>2, VanishInv DEF OldManagerQuits, OldManagerExits, Managers
    <3>3. CASE \E i \in DOMAIN Selections : RivalTakes(i)
      BY <3>3, RivalInv
    <3> QED
      BY <3>1, <3>2, <3>3 DEF SelNext
  <2> QED
    BY <2>1, <2>2, <2>3
<1>3. TakeoverInv => ManagesAlone
  <2> SUFFICES ASSUME TakeoverInv, takeover.pc = "done" PROVE ManagesAlone
    BY DEF ManagesAlone
  <2>1. \A i \in DOMAIN Selections : Asked(i)
    BY SelectionsAre DEF TakeoverInv, Alone, Asked
  <2> QED
    BY <2>1 DEF TakeoverInv, Alone, ManagesAlone
<1> QED
  BY <1>1, <1>2, <1>3, PTL DEF MCSpec

-----------------------------------------------------------------------------
(* The hotkey overlay.                                                     *)

OverlayFields ==
  {"showing", "timer", "visible", "image", "opaque", "codes", "pressed", "map", "events", "down",
   "seen", "true", "steps"}

\* The image of a set of keys.
ImageOf(keys) == {key[2] : key \in keys}

\* The image that is current, and no other, is opaque; it is the one of the keys that were
\* pressed at the last poll, even while the overlay is hidden; and when that poll knew the
\* mapping, those are the keys that were held.
Pictured(o) ==
  /\ DOMAIN o = OverlayFields
  /\ o.pressed \in SUBSET OverlayKeys
  /\ o.opaque = {o.image} \ {{"none"}}
  /\ o.image = {"none"} \/ o.image = ImageOf(o.pressed)

OverlayInv ==
  /\ Pictured(overlay)
  /\ overlay.timer = overlay.showing
  /\ overlay.showing => overlay.image # {"none"}
  /\ overlay.showing /\ overlay.true => overlay.image = overlay.seen

\* No set of keys has the image of none.
LEMMA ImagesAreOfKeys == \A keys \in SUBSET OverlayKeys : ImageOf(keys) # {"none"}
<1> SUFFICES ASSUME NEW keys \in SUBSET OverlayKeys PROVE "none" \notin ImageOf(keys)
  OBVIOUS
<1> QED
  BY OverlayAssumption DEF ImageOf

\* ShowImage() leaves the image it is given opaque, and no other.
LEMMA ShowImageShows ==
  ASSUME NEW o, Pictured(o) \/ (DOMAIN o = OverlayFields /\ o.opaque = {o.image} \ {{"none"}}),
         NEW image, image # {"none"}
  PROVE  /\ DOMAIN ShowImage(o, image) = OverlayFields
         /\ ShowImage(o, image).image = image /\ ShowImage(o, image).opaque = {image}
         /\ \A f \in OverlayFields \ {"image", "opaque"} : ShowImage(o, image)[f] = o[f]
<1>0. DOMAIN o = OverlayFields /\ o.opaque = {o.image} \ {{"none"}}
  BY DEF Pictured
<1>1. CASE o.image = image
  BY <1>0, <1>1 DEF ShowImage, OverlayFields
<1>2. CASE o.image # image /\ o.image = {"none"}
  BY <1>0, <1>2 DEF ShowImage, HideCurrentImage, OverlayFields
<1>3. CASE o.image # image /\ o.image # {"none"}
  BY <1>0, <1>3 DEF ShowImage, HideCurrentImage, OverlayFields
<1> QED
  BY <1>1, <1>2, <1>3

\* HandleKeyboardState() leaves the overlay with the image of the keys that are pressed.
LEMMA KeyboardStateShows ==
  ASSUME NEW o, Pictured(o), NEW states
  PROVE  LET r == HandleKeyboardState(o, states)
             pressed == {key \in OverlayKeys : o.codes[key] \in states}
         IN  /\ Pictured(r) /\ r.image = ImageOf(pressed) /\ r.image # {"none"} /\ r.pressed = pressed
             /\ \A f \in OverlayFields \ {"image", "opaque", "pressed"} : r[f] = o[f]
<1> DEFINE pressed == {key \in OverlayKeys : o.codes[key] \in states}
           p == [o EXCEPT !.pressed = pressed]
           r == HandleKeyboardState(o, states)
<1>1. pressed \in SUBSET OverlayKeys /\ ImageOf(pressed) # {"none"}
  BY ImagesAreOfKeys
<1>2. CASE pressed # o.pressed \/ o.image = {"none"}
  <2>1. r = ShowImage(p, ImageOf(pressed))
    <3>1. r = UpdateImage(p)
      BY <1>2 DEF HandleKeyboardState
    <3>2. p.pressed = pressed
      BY DEF Pictured, OverlayFields
    <3> QED
      BY <3>1, <3>2 DEF UpdateImage, ImageOf
  <2>2. /\ DOMAIN p = OverlayFields /\ p.pressed = pressed /\ p.opaque = {p.image} \ {{"none"}}
        /\ \A f \in OverlayFields \ {"pressed"} : p[f] = o[f]
    <3> HIDE DEF pressed
    <3> QED
      BY DEF Pictured, OverlayFields
  <2> HIDE DEF p, r, pressed
  <2>3. /\ DOMAIN r = OverlayFields /\ r.image = ImageOf(pressed) /\ r.opaque = {ImageOf(pressed)}
        /\ \A f \in OverlayFields \ {"image", "opaque"} : r[f] = p[f]
    BY <1>1, <2>1, <2>2, ShowImageShows
  <2>4. r.pressed = pressed
    BY <2>2, <2>3 DEF OverlayFields
  <2>5. r.opaque = {r.image} \ {{"none"}}
    BY <1>1, <2>3
  <2>6. /\ Pictured(r) /\ r.image = ImageOf(pressed) /\ r.image # {"none"} /\ r.pressed = pressed
        /\ \A f \in OverlayFields \ {"image", "opaque", "pressed"} : r[f] = o[f]
    BY <1>1, <2>2, <2>3, <2>4, <2>5 DEF Pictured
  <2> QED
    BY <2>6 DEF r, pressed
<1>3. CASE ~(pressed # o.pressed \/ o.image = {"none"})
  <2>1. r = o
    BY <1>3 DEF HandleKeyboardState
  <2> QED
    BY <1>1, <1>3, <2>1 DEF Pictured
<1> QED
  BY <1>2, <1>3

\* QueryKeyboardState(), whether or not the query fails.
LEMMA QueryShows ==
  ASSUME NEW o, Pictured(o), NEW q \in QueryKeyboardState(o)
  PROVE  /\ Pictured(q) /\ q.image # {"none"} /\ (q.true => q.image = q.seen)
         /\ q.showing = o.showing /\ q.timer = o.timer
<1>1. CASE q = [HandleKeyboardState(o, o.down) EXCEPT
                  !.seen = {key[2] : key \in {k \in OverlayKeys : o.map[k] \in o.down}},
                  !.true = (o.codes = o.map)]
  <2> DEFINE h == HandleKeyboardState(o, o.down)
             pressed == {key \in OverlayKeys : o.codes[key] \in o.down}
             held == {k \in OverlayKeys : o.map[k] \in o.down}
  <2>1. /\ Pictured(h) /\ h.image = ImageOf(pressed) /\ h.image # {"none"}
        /\ \A f \in OverlayFields \ {"image", "opaque", "pressed"} : h[f] = o[f]
    BY KeyboardStateShows
  <2>2. q = [h EXCEPT !.seen = ImageOf(held), !.true = (o.codes = o.map)]
    BY <1>1 DEF ImageOf
  <2>3. (o.codes = o.map) => ImageOf(pressed) = ImageOf(held)
    OBVIOUS
  <2> HIDE DEF h, pressed, held
  <2>4. /\ DOMAIN q = OverlayFields /\ q.seen = ImageOf(held) /\ q.true = (o.codes = o.map)
        /\ q.image = h.image /\ q.opaque = h.opaque /\ q.pressed = h.pressed
        /\ q.showing = o.showing /\ q.timer = o.timer
    BY <2>1, <2>2 DEF Pictured, OverlayFields
  <2> QED
    BY <2>1, <2>3, <2>4 DEF Pictured
<1>2. CASE \E states \in SUBSET Keycodes : q = [HandleKeyboardState(o, states) EXCEPT !.true = FALSE]
  <2>1. PICK states \in SUBSET Keycodes : q = [HandleKeyboardState(o, states) EXCEPT !.true = FALSE]
    BY <1>2
  <2> DEFINE h == HandleKeyboardState(o, states)
             pressed == {key \in OverlayKeys : o.codes[key] \in states}
  <2>2. /\ Pictured(h) /\ h.image = ImageOf(pressed) /\ h.image # {"none"} /\ h.pressed = pressed
        /\ \A f \in OverlayFields \ {"image", "opaque", "pressed"} : h[f] = o[f]
    BY KeyboardStateShows, SMTT(40)
  <2>3. q = [h EXCEPT !.true = FALSE]
    BY <2>1
  <2> HIDE DEF h
  <2>4. /\ DOMAIN q = OverlayFields /\ q.true = FALSE
        /\ q.image = h.image /\ q.opaque = h.opaque /\ q.pressed = h.pressed
        /\ q.showing = o.showing /\ q.timer = o.timer
    BY <2>2, <2>3 DEF Pictured, OverlayFields
  <2> QED
    BY <2>2, <2>4 DEF Pictured
<1> QED
  BY <1>1, <1>2 DEF QueryKeyboardState

\* Every poll, press and release keeps the invariant of the overlay.
LEMMA OverlayStepInv == OverlayInv /\ OverlayNext => OverlayInv'
<1> SUFFICES ASSUME OverlayInv, OverlayNext PROVE OverlayInv'
  OBVIOUS
<1>0. Pictured(overlay) /\ DOMAIN overlay = OverlayFields
  BY DEF OverlayInv, Pictured
<1>1. CASE ToggleHotkeyOverlay /\ ~overlay.showing
  <2> DEFINE o == [overlay EXCEPT !.showing = TRUE]
  <2>1. Pictured(o) /\ o.showing = TRUE
    BY <1>0 DEF Pictured, OverlayFields
  <2>2. PICK q \in QueryKeyboardState(o) : OverlayStep([q EXCEPT !.visible = TRUE, !.timer = TRUE])
    BY <1>1 DEF ToggleHotkeyOverlay
  <2> HIDE DEF o
  <2>3. Pictured(q) /\ q.image # {"none"} /\ (q.true => q.image = q.seen) /\ q.showing = TRUE
    BY <2>1, QueryShows
  <2>4. overlay' = [[q EXCEPT !.visible = TRUE, !.timer = TRUE] EXCEPT !.steps = @ + 1]
    BY <2>2 DEF OverlayStep
  <2>5. /\ DOMAIN overlay' = OverlayFields /\ overlay'.timer = TRUE /\ overlay'.showing = TRUE
        /\ overlay'.image = q.image /\ overlay'.opaque = q.opaque /\ overlay'.pressed = q.pressed
        /\ overlay'.true = q.true /\ overlay'.seen = q.seen
    BY <2>3, <2>4 DEF Pictured, OverlayFields
  <2> QED
    BY <2>3, <2>5 DEF OverlayInv, Pictured
<1>2. CASE ToggleHotkeyOverlay /\ overlay.showing
  <2>1. overlay' = [[overlay EXCEPT !.showing = FALSE, !.visible = FALSE, !.timer = FALSE] EXCEPT !.steps = @ + 1]
    BY <1>2 DEF ToggleHotkeyOverlay, OverlayStep
  <2>2. /\ DOMAIN overlay' = OverlayFields /\ overlay'.timer = FALSE /\ overlay'.showing = FALSE
        /\ overlay'.image = overlay.image /\ overlay'.opaque = overlay.opaque /\ overlay'.pressed = overlay.pressed
    BY <1>0, <2>1 DEF OverlayFields
  <2> QED
    BY <1>0, <2>2 DEF OverlayInv, Pictured
<1>3. CASE QueryKeyboardStateThunk
  <2>1. PICK q \in QueryKeyboardState(overlay) : OverlayStep(q)
    BY <1>3 DEF QueryKeyboardStateThunk
  <2>2. /\ Pictured(q) /\ q.image # {"none"} /\ (q.true => q.image = q.seen)
        /\ q.showing = overlay.showing /\ q.timer = overlay.timer
    BY <1>0, QueryShows
  <2>3. overlay' = [q EXCEPT !.steps = @ + 1]
    BY <2>1 DEF OverlayStep
  <2>4. /\ DOMAIN overlay' = OverlayFields /\ overlay'.timer = q.timer /\ overlay'.showing = q.showing
        /\ overlay'.image = q.image /\ overlay'.opaque = q.opaque /\ overlay'.pressed = q.pressed
        /\ overlay'.true = q.true /\ overlay'.seen = q.seen
    BY <2>2, <2>3 DEF Pictured, OverlayFields
  <2> QED
    BY <2>2, <2>4 DEF OverlayInv, Pictured
<1>4. CASE HandleMappingNotify \/ KeyboardIsMapped \/ KeyChanges
  <2>1. /\ DOMAIN overlay' = OverlayFields
        /\ \A f \in {"timer", "showing", "image", "opaque", "pressed", "true", "seen"} : overlay'[f] = overlay[f]
    <3>1. CASE HandleMappingNotify
      BY <1>0, <3>1 DEF HandleMappingNotify, OverlayStep, OverlayFields
    <3>2. CASE KeyboardIsMapped
      BY <1>0, <3>2 DEF KeyboardIsMapped, OverlayStep, OverlayFields
    <3>3. CASE KeyChanges
      <4>1. PICK down : overlay' = [[overlay EXCEPT !.down = down] EXCEPT !.steps = @ + 1]
        BY <3>3 DEF KeyChanges, OverlayStep
      <4> QED
        BY <1>0, <4>1 DEF OverlayFields
    <3> QED
      BY <1>4, <3>1, <3>2, <3>3
  <2> QED
    BY <2>1 DEF OverlayInv, Pictured
<1> QED
  BY <1>1, <1>2, <1>3, <1>4 DEF OverlayNext

\* While the overlay shows, the one image that is opaque is that of the modifiers held at the
\* last poll, if the overlay knew the mapping then, and the timer polls exactly as long: for any
\* keys and mappings, whatever is toggled, pressed or mapped anew, and whichever polls fail.
THEOREM OverlaySafety == MCSpec => []OverlayShowsHeldKeys
<1>1. MCInit => OverlayInv
  <2> SUFFICES ASSUME OverlayInit PROVE OverlayInv
    BY DEF MCInit
  <2>1. /\ DOMAIN overlay = OverlayFields /\ overlay.pressed = {} /\ overlay.opaque = {}
        /\ overlay.image = {"none"} /\ overlay.timer = FALSE /\ overlay.showing = FALSE
    BY DEF OverlayInit, OverlayFields
  <2> QED
    BY <2>1 DEF OverlayInv, Pictured
<1>2. OverlayInv /\ [MCNext]_vars => OverlayInv'
  <2>1. UNCHANGED overlay /\ OverlayInv => OverlayInv'
    BY DEF OverlayInv, Pictured
  <2>2. [MCNext]_vars => OverlayNext \/ UNCHANGED overlay
    BY DEF MCNext, vars, SelectionUnit
  <2> QED
    BY <2>1, <2>2, OverlayStepInv
<1>3. OverlayInv => OverlayShowsHeldKeys
  BY DEF OverlayInv, Pictured, OverlayShowsHeldKeys
<1> QED
  BY <1>1, <1>2, <1>3, PTL DEF MCSpec

-----------------------------------------------------------------------------
(* What the window manager knows of a window.                              *)

WinFields ==
  {"props", "xshaped", "xx", "xwidth", "selected", "shapeSelected", "queue", "todo", "inConstructor",
   "override", "mapped", "type", "opacity", "size", "protocols", "state", "chrome", "transient", "urgent",
   "shaped", "mask", "x", "width", "composited", "using", "shadowOpacity", "actor", "shadow",
   "clientSteps", "calls"}

Requests ==
  {"select", "select_shape", "geometry", "type", "shaped", "region", "opacity", "size",
   "protocols", "state", "chrome", "transient", "hints"}

\* Values of the size hints, known or not.
AnySizeHints == [width : Int, min : Int, max : Int, base : Int, inc : Int]

\* The type of the fields that the proof looks at.
WinTypes(w) ==
  /\ DOMAIN w = WinFields /\ DOMAIN w.props = WindowProperties
  /\ DOMAIN w.composited = {"x", "scale", "opacity", "shown"}
  /\ DOMAIN w.actor = {"x", "width", "scale", "opacity", "shown"}
  /\ DOMAIN w.shadow = {"x", "width", "opacity", "shown"}
  /\ w.todo \in Seq(Requests) /\ w.queue \in Seq(WindowProperties \cup {"shape"})
  /\ {w.xshaped, w.selected, w.shapeSelected, w.inConstructor, w.override, w.shaped, w.mask, w.using,
      w.composited.shown} \subseteq BOOLEAN
  /\ w.state \in SUBSET StateAtoms
  /\ w.size \in AnySizeHints
  /\ w.props.state \in (SUBSET StateAtoms) \cup {Unset} /\ w.props.size \in AnySizeHints \cup {Unset}

Pending(w, request) == \E i \in DOMAIN w.todo : w.todo[i] = request
Queued(w, event) == \E i \in DOMAIN w.queue : w.queue[i] = event

\* The actor and the shadow are where the window is; Faded is about the opacity alone.
Faded(w) == w.actor.opacity = w.composited.opacity * w.opacity
Placed(w) ==
  /\ w.shadow.shown = (w.using /\ w.composited.shown) /\ w.actor.shown = w.composited.shown
  /\ w.shadow.x = w.composited.x /\ w.actor.x = w.composited.x
Sized(w) == w.shadow.width = Truncate(w.composited.scale * w.width) /\ w.actor.width = w.width
Should(w) == ~w.override /\ w.type # "bubble" /\ ~w.shaped

\* Leaves all fields alone but some.
Same(v, w, but) == \A f \in WinFields \ but : v[f] = w[f]

\* UpdateShadowIfNecessary() brings the shadow up to date with the window.
LEMMA ShadowUpdated ==
  ASSUME NEW w, WinTypes(w), Placed(w), Sized(w)
  PROVE  LET r == UpdateShadowIfNecessary(w) IN
         WinTypes(r) /\ Placed(r) /\ Sized(r) /\ r.using = Should(w) /\ Same(r, w, {"using", "shadow"})
<1> DEFINE r == UpdateShadowIfNecessary(w)
<1>0. /\ w.using \in BOOLEAN /\ w.override \in BOOLEAN /\ w.shaped \in BOOLEAN /\ w.composited.shown \in BOOLEAN
      /\ DOMAIN w = WinFields /\ DOMAIN w.shadow = {"x", "width", "opacity", "shown"}
  BY DEF WinTypes
<1>1. /\ DOMAIN r = WinFields /\ DOMAIN r.shadow = DOMAIN w.shadow /\ r.using = Should(w)
      /\ r.shadow.x = w.shadow.x /\ r.shadow.width = w.shadow.width
      /\ r.shadow.shown = (Should(w) /\ w.composited.shown) /\ Same(r, w, {"using", "shadow"})
  <2>1. CASE ~Should(w) /\ w.using
    <3>1. r = [[w EXCEPT !.shadow.shown = FALSE] EXCEPT !.using = FALSE]
      BY <1>0, <2>1 DEF UpdateShadowIfNecessary, ShadowHide, Should
    <3>2. Should(w) = FALSE
      BY <2>1 DEF Should
    <3> HIDE DEF r
    <3>3. /\ DOMAIN r = WinFields /\ DOMAIN r.shadow = DOMAIN w.shadow /\ r.using = FALSE
          /\ r.shadow.x = w.shadow.x /\ r.shadow.width = w.shadow.width
          /\ r.shadow.shown = FALSE /\ Same(r, w, {"using", "shadow"})
      BY <1>0, <3>1 DEF WinFields, Same
    <3> QED
      BY <3>2, <3>3
  <2>2. CASE Should(w) /\ ~w.using /\ w.composited.shown
    <3>1. r = [[w EXCEPT !.shadow.shown = TRUE] EXCEPT !.using = TRUE]
      BY <2>2 DEF UpdateShadowIfNecessary, ShadowShow, Should
    <3> HIDE DEF r
    <3> QED
      BY <1>0, <2>2, <3>1 DEF WinFields, Same
  <2>3. CASE Should(w) /\ ~w.using /\ ~w.composited.shown
    <3>1. r = [w EXCEPT !.using = TRUE]
      BY <2>3 DEF UpdateShadowIfNecessary, Should
    <3>2. w.shadow.shown = FALSE
      BY <2>3 DEF Placed
    <3> HIDE DEF r
    <3> QED
      BY <1>0, <2>3, <3>1, <3>2 DEF WinFields, Same
  <2>4. CASE Should(w) = w.using
    <3>1. r = w
      BY <1>0, <2>4 DEF UpdateShadowIfNecessary, Should
    <3>2. w.shadow.shown = (Should(w) /\ w.composited.shown)
      BY <2>4 DEF Placed
    <3> HIDE DEF r
    <3> QED
      BY <1>0, <2>4, <3>1, <3>2 DEF Same
  <2> QED
    BY <1>0, <2>1, <2>2, <2>3, <2>4 DEF Should
<1>2. Should(w) \in BOOLEAN
  BY DEF Should
<1> HIDE DEF r
<1>3. /\ r.composited = w.composited /\ r.actor = w.actor /\ r.width = w.width /\ r.override = w.override
      /\ r.shaped = w.shaped /\ r.type = w.type /\ r.props = w.props /\ r.todo = w.todo /\ r.queue = w.queue
      /\ r.xshaped = w.xshaped /\ r.selected = w.selected /\ r.shapeSelected = w.shapeSelected
      /\ r.inConstructor = w.inConstructor /\ r.mask = w.mask /\ r.state = w.state /\ r.size = w.size
  BY <1>1 DEF Same, WinFields
<1>4. WinTypes(r)
  BY <1>0, <1>1, <1>2, <1>3 DEF WinTypes
<1>5. Placed(r) /\ Sized(r)
  BY <1>1, <1>3 DEF Placed, Sized
<1> QED
  BY <1>1, <1>4, <1>5 DEF r

\* A client move, a move of the actor, and a resize.
LEMMA ClientMoved ==
  ASSUME NEW w, WinTypes(w), NEW x
  PROVE  LET r == MoveClient(w, x) IN
         /\ WinTypes(r) /\ r.x = x /\ r.xx = x /\ Same(r, w, {"x", "xx"})
<1> DEFINE r == MoveClient(w, x)
<1>1. DOMAIN r = WinFields /\ r.x = x /\ r.xx = x /\ Same(r, w, {"x", "xx"})
  BY DEF MoveClient, WinTypes, WinFields, Same
<1> HIDE DEF r
<1>2. WinTypes(r)
  BY <1>1 DEF WinTypes, WinFields, Same
<1> QED
  BY <1>1, <1>2 DEF r

\* The actor is moved, and its shadow with it.
LEMMA CompositedMoved ==
  ASSUME NEW w, WinTypes(w), Placed(w), Sized(w), Faded(w), NEW x
  PROVE  LET r == MoveComposited(w, x) IN
         /\ WinTypes(r) /\ Placed(r) /\ Sized(r) /\ Faded(r) /\ Same(r, w, {"composited", "actor", "shadow"})
<1> DEFINE r == MoveComposited(w, x)
<1>1. /\ DOMAIN r = WinFields /\ Same(r, w, {"composited", "actor", "shadow"})
      /\ r.composited = [w.composited EXCEPT !.x = x]
      /\ r.actor = [w.actor EXCEPT !.x = x] /\ r.shadow = [w.shadow EXCEPT !.x = x]
  BY DEF MoveComposited, WinTypes, WinFields, Same
<1> HIDE DEF r
<1>2. r.using = w.using /\ r.opacity = w.opacity /\ r.width = w.width
  BY <1>1 DEF WinFields, Same
<1>3. /\ DOMAIN r.composited = DOMAIN w.composited /\ DOMAIN r.actor = DOMAIN w.actor /\ DOMAIN r.shadow = DOMAIN w.shadow
      /\ r.composited.x = x /\ r.actor.x = x /\ r.shadow.x = x
      /\ r.composited.shown = w.composited.shown /\ r.actor.shown = w.actor.shown /\ r.shadow.shown = w.shadow.shown
      /\ r.composited.scale = w.composited.scale /\ r.composited.opacity = w.composited.opacity
      /\ r.actor.opacity = w.actor.opacity /\ r.actor.width = w.actor.width /\ r.shadow.width = w.shadow.width
  BY <1>1 DEF WinTypes
<1>4. WinTypes(r)
  BY <1>1, <1>3, ZenonT(40) DEF WinTypes, WinFields, Same
<1>5. Placed(r) /\ Sized(r) /\ Faded(r)
  BY <1>2, <1>3 DEF Placed, Sized, Faded
<1> QED
  BY <1>1, <1>4, <1>5 DEF r

\* The size of the client becomes known, and actor and shadow get it.
LEMMA SizeSaved ==
  ASSUME NEW w, WinTypes(w), Placed(w), Faded(w), NEW width
  PROVE  LET r == SaveClientAndCompositedSize(w, width) IN
         /\ WinTypes(r) /\ Placed(r) /\ Sized(r) /\ Faded(r) /\ r.width = width
         /\ Same(r, w, {"width", "actor", "shadow"})
<1> DEFINE r == SaveClientAndCompositedSize(w, width)
           v == [w EXCEPT !.width = width, !.actor.width = width]
<1>1. /\ DOMAIN v = WinFields /\ Same(v, w, {"width", "actor"}) /\ v.width = width
      /\ v.actor = [w.actor EXCEPT !.width = width]
  BY DEF WinTypes, WinFields, Same
<1>2. r = [v EXCEPT !.shadow.width = Truncate(v.composited.scale * v.width)]
  BY DEF SaveClientAndCompositedSize, ShadowResize
<1> HIDE DEF r, v
<1>3. /\ DOMAIN r = WinFields /\ Same(r, w, {"width", "actor", "shadow"}) /\ r.width = width
      /\ r.actor = [w.actor EXCEPT !.width = width]
      /\ r.shadow = [w.shadow EXCEPT !.width = Truncate(w.composited.scale * width)]
  BY <1>1, <1>2 DEF WinFields, Same
<1>4. r.using = w.using /\ r.opacity = w.opacity /\ r.composited = w.composited
  BY <1>3 DEF WinFields, Same
<1>5. /\ DOMAIN r.actor = DOMAIN w.actor /\ DOMAIN r.shadow = DOMAIN w.shadow
      /\ r.actor.x = w.actor.x /\ r.shadow.x = w.shadow.x
      /\ r.actor.shown = w.actor.shown /\ r.shadow.shown = w.shadow.shown
      /\ r.actor.opacity = w.actor.opacity /\ r.actor.width = width
      /\ r.shadow.width = Truncate(w.composited.scale * width)
  BY <1>3 DEF WinTypes
<1>6. WinTypes(r)
  BY <1>3, <1>5 DEF WinTypes, WinFields, Same
<1>7. Placed(r) /\ Sized(r) /\ Faded(r)
  BY <1>3, <1>4, <1>5 DEF Placed, Sized, Faded
<1> QED
  BY <1>3, <1>6, <1>7 DEF r

\* ResizeClient() changes the client's place with the window manager's copy, or neither.
LEMMA ClientResized ==
  ASSUME NEW w, WinTypes(w), Placed(w), Sized(w), Faded(w), NEW width, NEW east \in BOOLEAN
  PROVE  LET r == ResizeClient(w, width, east) IN
         /\ WinTypes(r) /\ Placed(r) /\ Sized(r) /\ Faded(r)
         /\ r.width = r.xwidth /\ (w.x = w.xx => r.x = r.xx)
         /\ Same(r, w, {"x", "xx", "width", "xwidth", "composited", "actor", "shadow"})
<1> DEFINE dx == IF east THEN width - w.width ELSE 0
           at == Truncate(2 * w.composited.x - w.composited.scale * dx)
           c == MoveClient(w, w.x - dx)
           moved == IF dx = 0 THEN w ELSE MoveComposited(c, at)
           v == [moved EXCEPT !.xwidth = width]
           r == SaveClientAndCompositedSize(v, width)
<1>1. ResizeClient(w, width, east) = r
  BY DEF ResizeClient
<1>2. /\ WinTypes(moved) /\ Placed(moved) /\ Sized(moved) /\ Faded(moved) /\ (w.x = w.xx => moved.x = moved.xx)
      /\ Same(moved, w, {"x", "xx", "composited", "actor", "shadow"})
  <2>1. CASE dx = 0
    BY <2>1 DEF Same
  <2>2. CASE dx # 0
    <3>1. moved = MoveComposited(c, at)
      BY <2>2
    <3>2. WinTypes(c) /\ c.x = c.xx /\ Same(c, w, {"x", "xx"})
      BY ClientMoved
    <3> HIDE DEF c, at, moved, dx
    <3>3. Placed(c) /\ Sized(c) /\ Faded(c)
      BY <3>2 DEF Placed, Sized, Faded, Same, WinFields
    <3>4. WinTypes(moved) /\ Placed(moved) /\ Sized(moved) /\ Faded(moved) /\ Same(moved, c, {"composited", "actor", "shadow"})
      BY <3>1, <3>2, <3>3, CompositedMoved
    <3> QED
      BY <3>2, <3>4 DEF Same, WinFields
  <2> QED
    BY <2>1, <2>2
<1> HIDE DEF moved
<1>3. DOMAIN v = WinFields /\ Same(v, moved, {"xwidth"}) /\ v.xwidth = width
  BY <1>2 DEF WinTypes, WinFields, Same
<1> HIDE DEF v
<1>4. WinTypes(v) /\ Placed(v) /\ Faded(v)
  BY <1>2, <1>3 DEF WinTypes, Placed, Faded, Same, WinFields
<1>5. /\ WinTypes(r) /\ Placed(r) /\ Sized(r) /\ Faded(r) /\ r.width = width /\ Same(r, v, {"width", "actor", "shadow"})
  BY <1>4, SizeSaved
<1> HIDE DEF r
<1>6. /\ r.width = r.xwidth /\ (w.x = w.xx => r.x = r.xx)
      /\ Same(r, w, {"x", "xx", "width", "xwidth", "composited", "actor", "shadow"})
  BY <1>2, <1>3, <1>5 DEF Same, WinFields
<1> QED
  BY <1>1, <1>5, <1>6

-----------------------------------------------------------------------------
\* Properties that are read again when they change, and what is right about each.
Followed == {"type", "hints", "transient", "opacity", "size", "state"}
Right(w, p) ==
  /\ p = "type" => w.type = w.props.type \/ w.props.type = Unset
  /\ p = "hints" => w.urgent = (w.props.hints = "urgent") \/ w.props.hints = Unset
  /\ p = "transient" => w.transient = w.props.transient \/ w.props.transient = Unset
  /\ p = "opacity" => w.opacity = IF w.props.opacity = Unset THEN 2 ELSE w.props.opacity
  /\ p = "size" => w.size = IF w.props.size = Unset THEN NoSizeHints ELSE w.props.size
  /\ p = "state" => w.state = IF w.props.state = Unset THEN {} ELSE w.props.state

\* The requests that are left: the region is asked for right after the shape, the shape after
\* the type in the constructor, and no event is missed before the first of what it is about.
Ordered(w) ==
  /\ \A i \in DOMAIN w.todo :
       w.todo[i] = "shaped" => i + 1 \in DOMAIN w.todo /\ w.todo[i + 1] = "region"
  /\ \A i \in DOMAIN w.todo : w.todo[i] = "region" => i = 1 \/ w.todo[i - 1] = "shaped"
  /\ w.inConstructor =>
       \A i \in DOMAIN w.todo :
         w.todo[i] = "type" => \E j \in DOMAIN w.todo : j > i /\ w.todo[j] = "shaped"
  /\ w.todo = <<>> => ~w.inConstructor
  /\ ~w.selected => w.todo = ConstructorRequests
  /\ ~w.shapeSelected => w.todo = ConstructorRequests \/ w.todo = Tail(ConstructorRequests)

\* What is not known yet is on its way: an event is queued or a request is left.
Following(w) ==
  /\ \A p \in Followed : Pending(w, p) \/ Queued(w, p) \/ Right(w, p)
  /\ \/ Pending(w, "shaped") \/ Queued(w, "shape")
     \/ IF Pending(w, "region") THEN w.xshaped ELSE w.shaped = w.xshaped /\ w.mask = w.xshaped
  /\ Pending(w, "geometry") \/ (w.x = w.xx /\ w.width = w.xwidth)
  /\ Pending(w, "region") \/ w.using = Should(w)

WinInv(w) == WinTypes(w) /\ Ordered(w) /\ Placed(w) /\ Sized(w) /\ Faded(w) /\ Following(w)

\* What a request h of w does to everything but the list of requests.
Answered(w, r, h) ==
  /\ WinTypes(r) /\ Placed(r) /\ Sized(r) /\ Faded(r)
  /\ r.queue = w.queue /\ r.inConstructor = w.inConstructor /\ r.xshaped = w.xshaped
  /\ r.selected = (w.selected \/ h = "select") /\ r.shapeSelected = (w.shapeSelected \/ h = "select_shape")
  /\ \/ h # "shaped" /\ r.todo = Tail(w.todo)
     \/ h = "shaped" /\ w.xshaped /\ r.todo = Tail(w.todo)
     \/ h = "shaped" /\ ~w.xshaped /\ r.todo = Tail(Tail(w.todo))
  /\ \A p \in Followed : p = h \/ Right(w, p) => Right(r, p)
  /\ h = "shaped" /\ ~w.xshaped => r.shaped = FALSE /\ r.mask = FALSE
  /\ h = "region" => r.shaped = TRUE /\ r.mask = w.xshaped
  /\ h \notin {"shaped", "region"} => r.shaped = w.shaped /\ r.mask = w.mask
  /\ (h = "geometry" \/ (w.x = w.xx /\ w.width = w.xwidth)) => r.x = r.xx /\ r.width = r.xwidth
  /\ \/ h = "type" /\ w.inConstructor
     \/ h = "shaped" /\ w.xshaped
     \/ r.using = Should(r)
     \/ h \notin {"region", "shaped"} /\ r.using = w.using /\ Should(r) = Should(w)

\* What is left of the requests after one of them, and after two.
LEMMA TailOfTodo ==
  ASSUME NEW w, WinTypes(w), w.todo # <<>>
  PROVE  /\ Tail(w.todo) \in Seq(Requests) /\ Head(w.todo) \in Requests /\ w.todo[1] = Head(w.todo)
         /\ DOMAIN w.todo = 1..Len(w.todo) /\ Len(w.todo) \in Nat /\ Len(w.todo) >= 1
         /\ Len(Tail(w.todo)) = Len(w.todo) - 1
         /\ DOMAIN Tail(w.todo) = 1..(Len(w.todo) - 1)
         /\ \A i \in 1..(Len(w.todo) - 1) : Tail(w.todo)[i] = w.todo[i + 1]
<1> DEFINE s == w.todo
<1>1. s \in Seq(Requests) /\ s # <<>>
  BY DEF WinTypes
<1> HIDE DEF s
<1>2. /\ Head(s) \in Requests /\ Tail(s) \in Seq(Requests) /\ Len(Tail(s)) = Len(s) - 1
      /\ \A i \in 1 .. Len(Tail(s)) : Tail(s)[i] = s[i + 1]
  BY <1>1, HeadTailProperties, Zenon
<1>4. s[1] = Head(s)
  BY <1>1
<1>3. Len(s) \in Nat /\ DOMAIN s = 1..Len(s) /\ Len(s) # 0 /\ DOMAIN Tail(s) = 1..Len(Tail(s))
  BY <1>1, <1>2, LenProperties, EmptySeq
<1> QED
  BY <1>2, <1>3, <1>4 DEF s

\* The constructor selects events before it reads anything.
LEMMA StartsWithSelection ==
  /\ ConstructorRequests # <<>> /\ Head(ConstructorRequests) = "select"
  /\ Tail(ConstructorRequests) # <<>> /\ Head(Tail(ConstructorRequests)) = "select_shape"
<1> QED
  BY DEF ConstructorRequests

\* What a request of the constructor or of a handler brings keeps the invariant.
LEMMA AnsweredInv ==
  ASSUME NEW w, WinInv(w), w.todo # <<>>, NEW r, Answered(w, r, Head(w.todo))
  PROVE  WinInv([r EXCEPT !.inConstructor = @ /\ r.todo # <<>>])
<1> DEFINE h == Head(w.todo)
           v == [r EXCEPT !.inConstructor = @ /\ r.todo # <<>>]
<1>0. WinTypes(w) /\ Ordered(w) /\ Following(w) /\ WinTypes(r)
  BY DEF WinInv, Answered
<1>1. DOMAIN v = WinFields /\ Same(v, r, {"inConstructor"}) /\ v.inConstructor = (r.inConstructor /\ r.todo # <<>>)
  BY <1>0 DEF WinTypes, WinFields, Same
<1> HIDE DEF v, h
<1>2. WinTypes(v)
  BY <1>0, <1>1, ZenonT(40) DEF WinTypes, WinFields, Same
<1>3. Placed(v) /\ Sized(v) /\ Faded(v)
  BY <1>1 DEF Answered, Placed, Sized, Faded, Same, WinFields
<1>4. /\ \A q : Pending(w, q) => q = h \/ Pending(v, q) \/ (q = "region" /\ h = "shaped" /\ ~w.xshaped)
      /\ Ordered(v) /\ (h = "type" /\ w.inConstructor => Pending(v, "region"))
      /\ (h = "shaped" /\ w.xshaped => Pending(v, "region"))
      /\ (Pending(v, "region") => Pending(w, "region"))
      /\ (h = "region" \/ (h = "shaped" /\ ~w.xshaped)) /\ Pending(v, "region") => Pending(v, "shaped")
  <2> DEFINE n == Len(w.todo)
             t == Tail(w.todo)
  <2>1. /\ t \in Seq(Requests) /\ h \in Requests /\ w.todo[1] = h /\ DOMAIN w.todo = 1..n
        /\ n \in Nat /\ n >= 1 /\ DOMAIN t = 1..(n - 1) /\ \A i \in 1..(n - 1) : t[i] = w.todo[i + 1]
    BY <1>0, TailOfTodo DEF h
  <2>2. v.todo = r.todo /\ v.selected = r.selected /\ v.shapeSelected = r.shapeSelected
    BY <1>1 DEF Same, WinFields
  <2>3. v.inConstructor => w.inConstructor /\ v.todo # <<>>
    BY <1>1, <2>2 DEF Answered
  <2>4. /\ ~v.selected => w.todo = ConstructorRequests /\ h # "select"
        /\ ~v.shapeSelected => h # "select_shape" /\ (w.todo = ConstructorRequests \/ w.todo = Tail(ConstructorRequests))
    BY <1>0, <2>2 DEF Answered, Ordered, h
  <2>5. /\ v.selected
        /\ ~v.shapeSelected => w.todo = ConstructorRequests /\ h = "select"
    BY <2>4, StartsWithSelection DEF h
  <2> HIDE DEF n
  <2>6. CASE v.todo = t /\ ~(h = "shaped" /\ ~w.xshaped)
    <3> HIDE DEF t
    <3>1. \A q : Pending(w, q) => q = h \/ Pending(v, q)
      <4> SUFFICES ASSUME NEW q, NEW i \in DOMAIN w.todo, w.todo[i] = q, q # h PROVE Pending(v, q)
        BY DEF Pending
      <4>1. i # 1 /\ i \in 1..n
        BY <2>1
      <4>2. i - 1 \in DOMAIN v.todo /\ v.todo[i - 1] = q
        BY <2>1, <2>6, <4>1
      <4> QED
        BY <4>2 DEF Pending
    <3>2. \A i \in DOMAIN v.todo :
            v.todo[i] = "shaped" => i + 1 \in DOMAIN v.todo /\ v.todo[i + 1] = "region"
      <4> SUFFICES ASSUME NEW i \in 1..(n - 1), t[i] = "shaped" PROVE i + 1 \in 1..(n - 1) /\ t[i + 1] = "region"
        BY <2>1, <2>6
      <4>1. i + 1 \in 1..n /\ w.todo[i + 1] = "shaped"
        BY <2>1
      <4>2. (i + 1) + 1 \in 1..n /\ w.todo[(i + 1) + 1] = "region"
        BY <1>0, <2>1, <4>1 DEF Ordered
      <4> QED
        BY <2>1, <4>2
    <3>3. v.inConstructor =>
            \A i \in DOMAIN v.todo : v.todo[i] = "type" => \E j \in DOMAIN v.todo : j > i /\ v.todo[j] = "shaped"
      <4> SUFFICES ASSUME w.inConstructor, NEW i \in 1..(n - 1), t[i] = "type"
                   PROVE  \E j \in 1..(n - 1) : j > i /\ t[j] = "shaped"
        BY <2>1, <2>3, <2>6
      <4>1. i + 1 \in 1..n /\ w.todo[i + 1] = "type"
        BY <2>1
      <4>2. PICK j \in 1..n : j > i + 1 /\ w.todo[j] = "shaped"
        BY <1>0, <2>1, <4>1 DEF Ordered
      <4>3. j - 1 \in 1..(n - 1) /\ j - 1 > i /\ t[j - 1] = "shaped"
        BY <2>1, <4>2
      <4> QED
        BY <4>3
    <3>4. ~v.shapeSelected => v.todo = Tail(ConstructorRequests)
      BY <2>5, <2>6 DEF t
    <3>8. \A i \in DOMAIN v.todo : v.todo[i] = "region" => i = 1 \/ v.todo[i - 1] = "shaped"
      <4> SUFFICES ASSUME NEW i \in 1..(n - 1), t[i] = "region", i # 1 PROVE t[i - 1] = "shaped"
        BY <2>1, <2>6
      <4>1. i + 1 \in 1..n /\ w.todo[i + 1] = "region" /\ i + 1 # 1
        BY <2>1
      <4>2. w.todo[(i + 1) - 1] = "shaped"
        BY <1>0, <2>1, <4>1 DEF Ordered
      <4>3. i - 1 \in 1..(n - 1) /\ (i + 1) - 1 = (i - 1) + 1
        BY <2>1
      <4> QED
        BY <2>1, <4>2, <4>3
    <3>9. Pending(v, "region") => Pending(w, "region") /\ (h = "region" => Pending(v, "shaped"))
      <4> SUFFICES ASSUME NEW i \in 1..(n - 1), t[i] = "region"
                   PROVE  Pending(w, "region") /\ (h = "region" => Pending(v, "shaped"))
        BY <2>1, <2>6 DEF Pending
      <4>1. i + 1 \in 1..n /\ w.todo[i + 1] = "region"
        BY <2>1
      <4>2. h = "region" => i # 1
        BY <1>0, <2>1, <4>1 DEF Ordered
      <4>3. i # 1 => i - 1 \in DOMAIN v.todo /\ v.todo[i - 1] = "shaped"
        <5>1. DOMAIN v.todo = 1..(n - 1) /\ v.todo[i] = "region"
          BY <2>1, <2>6
        <5>2. i # 1 => i - 1 \in 1..(n - 1)
          BY <2>1
        <5> QED
          BY <3>8, <5>1, <5>2
      <4> QED
        BY <2>1, <4>1, <4>2, <4>3 DEF Pending
    <3>5. Ordered(v)
      BY <2>3, <2>5, <3>2, <3>3, <3>4, <3>8 DEF Ordered
    <3>6. h = "type" /\ w.inConstructor => Pending(v, "region")
      <4> SUFFICES ASSUME h = "type", w.inConstructor PROVE Pending(v, "region")
        OBVIOUS
      <4>1. PICK j \in DOMAIN w.todo : j > 1 /\ w.todo[j] = "shaped"
        BY <1>0, <2>1 DEF Ordered
      <4>2. j + 1 \in DOMAIN w.todo /\ w.todo[j + 1] = "region"
        BY <1>0, <4>1 DEF Ordered
      <4> QED
        BY <3>1, <4>2 DEF Pending
    <3>7. h = "shaped" => Pending(v, "region")
      <4> SUFFICES ASSUME h = "shaped" PROVE Pending(v, "region")
        OBVIOUS
      <4>1. 1 \in DOMAIN w.todo
        BY <2>1
      <4>2. 1 + 1 \in DOMAIN w.todo /\ w.todo[1 + 1] = "region"
        BY <1>0, <2>1, <4>1 DEF Ordered
      <4> QED
        BY <3>1, <4>2 DEF Pending
    <3> QED
      BY <2>6, <3>1, <3>5, <3>6, <3>7, <3>9
  <2>7. CASE v.todo = Tail(t) /\ h = "shaped" /\ ~w.xshaped
    <3>1. 2 \in 1..n /\ w.todo[2] = "region"
      <4>1. 1 \in DOMAIN w.todo
        BY <2>1
      <4>2. 1 + 1 \in DOMAIN w.todo /\ w.todo[1 + 1] = "region"
        BY <1>0, <2>1, <2>7, <4>1 DEF Ordered
      <4> QED
        BY <2>1, <4>2
    <3> HIDE DEF t
    <3>2. t # <<>>
      <4>1. 1 \in DOMAIN t
        BY <2>1, <3>1
      <4> QED
        BY <4>1
    <3>3. /\ DOMAIN v.todo = 1..(n - 2) /\ \A i \in 1..(n - 2) : v.todo[i] = w.todo[i + 2]
      <4>1. Len(t) = n - 1
        BY <2>1, LenProperties
      <4>2. /\ Tail(t) \in Seq(Requests) /\ Len(Tail(t)) = Len(t) - 1
            /\ \A i \in 1 .. Len(Tail(t)) : Tail(t)[i] = t[i + 1]
        BY <2>1, <3>2, HeadTailProperties, Zenon
      <4>3. DOMAIN Tail(t) = 1..(n - 2)
        BY <2>1, <4>1, <4>2, LenProperties
      <4>4. \A i \in 1..(n - 2) : Tail(t)[i] = t[i + 1] /\ t[i + 1] = w.todo[(i + 1) + 1]
        BY <2>1, <4>1, <4>2
      <4> QED
        BY <2>1, <2>7, <4>3, <4>4
    <3>4. \A q : Pending(w, q) => q = h \/ q = "region" \/ Pending(v, q)
      <4> SUFFICES ASSUME NEW q, NEW i \in DOMAIN w.todo, w.todo[i] = q, q # h, q # "region" PROVE Pending(v, q)
        BY DEF Pending
      <4>1. i # 1 /\ i # 2 /\ i \in 1..n
        BY <2>1, <3>1
      <4> DEFINE k == i - 2
      <4>2. k \in 1..(n - 2) /\ i = k + 2
        BY <2>1, <4>1
      <4> HIDE DEF k
      <4>3. k \in DOMAIN v.todo /\ v.todo[k] = q
        BY <3>3, <4>2
      <4> QED
        BY <4>3 DEF Pending
    <3>5. \A i \in DOMAIN v.todo :
            v.todo[i] = "shaped" => i + 1 \in DOMAIN v.todo /\ v.todo[i + 1] = "region"
      <4> SUFFICES ASSUME NEW i \in 1..(n - 2), v.todo[i] = "shaped"
                   PROVE  i + 1 \in 1..(n - 2) /\ v.todo[i + 1] = "region"
        BY <3>3
      <4>1. i + 2 \in 1..n /\ w.todo[i + 2] = "shaped"
        BY <2>1, <3>3
      <4>2. (i + 2) + 1 \in 1..n /\ w.todo[(i + 2) + 1] = "region"
        BY <1>0, <2>1, <4>1 DEF Ordered
      <4>3. (i + 1) \in 1..(n - 2) /\ (i + 1) + 2 = (i + 2) + 1
        BY <2>1, <4>2
      <4> QED
        BY <3>3, <4>2, <4>3
    <3>6. v.inConstructor =>
            \A i \in DOMAIN v.todo : v.todo[i] = "type" => \E j \in DOMAIN v.todo : j > i /\ v.todo[j] = "shaped"
      <4> SUFFICES ASSUME w.inConstructor, NEW i \in 1..(n - 2), v.todo[i] = "type"
                   PROVE  \E j \in 1..(n - 2) : j > i /\ v.todo[j] = "shaped"
        BY <2>3, <3>3
      <4>1. i + 2 \in 1..n /\ w.todo[i + 2] = "type"
        BY <2>1, <3>3
      <4>2. PICK j \in 1..n : j > i + 2 /\ w.todo[j] = "shaped"
        BY <1>0, <2>1, <4>1 DEF Ordered
      <4> DEFINE k == j - 2
      <4>3. k \in 1..(n - 2) /\ j = k + 2 /\ k > i
        BY <2>1, <4>2
      <4> HIDE DEF k
      <4> QED
        BY <3>3, <4>2, <4>3
    <3>8. \A i \in 1..(n - 2) : v.todo[i] = "region" => i # 1 /\ v.todo[i - 1] = "shaped"
      <4> SUFFICES ASSUME NEW i \in 1..(n - 2), v.todo[i] = "region" PROVE i # 1 /\ v.todo[i - 1] = "shaped"
        OBVIOUS
      <4>1. i + 2 \in 1..n /\ w.todo[i + 2] = "region" /\ i + 2 # 1
        BY <2>1, <3>3
      <4>2. w.todo[(i + 2) - 1] = "shaped"
        BY <1>0, <2>1, <4>1 DEF Ordered
      <4>3. i # 1
        BY <3>1, <4>2
      <4>4. i - 1 \in 1..(n - 2) /\ (i + 2) - 1 = (i - 1) + 2
        BY <2>1, <4>3
      <4> QED
        BY <3>3, <4>2, <4>3, <4>4
    <3>9. Pending(v, "region") => Pending(w, "region") /\ Pending(v, "shaped")
      <4> SUFFICES ASSUME NEW i \in 1..(n - 2), v.todo[i] = "region" PROVE Pending(w, "region") /\ Pending(v, "shaped")
        BY <3>3 DEF Pending
      <4>1. i + 2 \in 1..n /\ w.todo[i + 2] = "region"
        BY <2>1, <3>3
      <4>2. i - 1 \in 1..(n - 2) /\ v.todo[i - 1] = "shaped"
        BY <2>1, <3>8
      <4> QED
        BY <2>1, <3>3, <4>1, <4>2 DEF Pending
    <3>7. Ordered(v)
      BY <2>3, <2>5, <2>7, <3>3, <3>5, <3>6, <3>8 DEF Ordered
    <3> QED
      BY <2>7, <3>4, <3>7, <3>9
  <2>8. (v.todo = t /\ ~(h = "shaped" /\ ~w.xshaped)) \/ (v.todo = Tail(t) /\ h = "shaped" /\ ~w.xshaped)
    BY <2>2 DEF Answered, h
  <2> QED
    BY <2>6, <2>7, <2>8
<1>5. Following(v)
  <2>1. v.queue = w.queue /\ v.xshaped = w.xshaped
    BY <1>1 DEF Answered, Same, WinFields
  <2>2. \A p \in Followed : Right(r, p) => Right(v, p)
    BY <1>1 DEF Right, Same, WinFields
  <2>3. \A p \in Followed : p = h \/ Right(w, p) => Right(v, p)
    BY <2>2 DEF Answered, h
  <2>4. \A p \in Followed : Pending(v, p) \/ Queued(v, p) \/ Right(v, p)
    <3>1. "region" \notin Followed
      BY DEF Followed
    <3> QED
      BY <1>0, <1>4, <2>1, <2>3, <3>1 DEF Following, Queued
  <2>5. \/ Pending(v, "shaped") \/ Queued(v, "shape")
        \/ IF Pending(v, "region") THEN v.xshaped ELSE v.shaped = v.xshaped /\ v.mask = v.xshaped
    <3>1. v.shaped = r.shaped /\ v.mask = r.mask
      BY <1>1 DEF Same, WinFields
    <3>2. w.xshaped \in BOOLEAN
      BY <1>0 DEF WinTypes
    <3>3. Queued(w, "shape") => Queued(v, "shape")
      BY <2>1 DEF Queued
    <3>4. CASE h = "shaped"
      <4>1. CASE w.xshaped
        BY <1>4, <2>1, <3>4, <4>1
      <4>2. CASE ~w.xshaped
        <5>1. v.shaped = FALSE /\ v.mask = FALSE /\ v.xshaped = FALSE
          BY <2>1, <3>1, <3>2, <3>4, <4>2 DEF Answered, h
        <5> QED
          BY <1>4, <3>4, <4>2, <5>1
      <4> QED
        BY <4>1, <4>2
    <3>5. CASE h = "region"
      <4>1. v.shaped = TRUE /\ v.mask = w.xshaped
        BY <3>1, <3>5 DEF Answered, h
      <4>2. Pending(w, "region")
        <5>1. 1 \in DOMAIN w.todo /\ w.todo[1] = "region"
          BY <1>0, <3>5, TailOfTodo DEF h
        <5> QED
          BY <5>1 DEF Pending
      <4>3. Pending(w, "shaped") => Pending(v, "shaped")
        BY <1>4, <3>5
      <4>4. Pending(v, "region") => Pending(v, "shaped")
        BY <1>4, <3>5
      <4>5. Pending(w, "shaped") \/ Queued(w, "shape") \/ w.xshaped
        BY <1>0, <4>2 DEF Following
      <4> QED
        BY <2>1, <3>2, <3>3, <4>1, <4>3, <4>4, <4>5
    <3>6. CASE h \notin {"shaped", "region"}
      <4>1. (Pending(v, "region") <=> Pending(w, "region")) /\ (Pending(w, "shaped") => Pending(v, "shaped"))
        BY <1>4, <3>6
      <4>2. v.shaped = w.shaped /\ v.mask = w.mask
        BY <3>1, <3>6 DEF Answered, h
      <4> QED
        BY <1>0, <2>1, <3>3, <4>1, <4>2 DEF Following
    <3> QED
      BY <3>4, <3>5, <3>6
  <2>6. Pending(v, "geometry") \/ (v.x = v.xx /\ v.width = v.xwidth)
    <3>1. v.x = r.x /\ v.xx = r.xx /\ v.width = r.width /\ v.xwidth = r.xwidth
      BY <1>1 DEF Same, WinFields
    <3> QED
      BY <1>0, <1>4, <3>1 DEF Answered, Following, h
  <2>7. Pending(v, "region") \/ v.using = Should(v)
    <3>1. v.using = r.using /\ Should(v) = Should(r)
      BY <1>1 DEF Same, WinFields, Should
    <3>2. CASE (h = "type" /\ w.inConstructor) \/ (h = "shaped" /\ w.xshaped)
      BY <1>4, <3>2
    <3>3. CASE r.using = Should(r)
      BY <3>1, <3>3
    <3>4. CASE h # "region" /\ h # "shaped" /\ r.using = w.using /\ Should(r) = Should(w)
      BY <1>0, <1>4, <3>1, <3>4 DEF Following
    <3> QED
      BY <3>2, <3>3, <3>4 DEF Answered, h
  <2> QED
    BY <2>4, <2>5, <2>6, <2>7 DEF Following
<1> QED
  BY <1>2, <1>3, <1>4, <1>5 DEF WinInv, v

\* The fields a simple request sets, and what it leaves alone, are all that Answered asks for.
LEMMA SimplyAnswered ==
  ASSUME NEW w, WinTypes(w), Placed(w), Sized(w), Faded(w), w.todo # <<>>, NEW r,
         DOMAIN r = WinFields, NEW h \in Followed \cup {"protocols", "chrome", "select", "select_shape"},
         Same(r, w, {"urgent", "transient", "state", "protocols", "chrome", "selected", "shapeSelected", "todo"}),
         r.todo = Tail(w.todo),
         \A p \in Followed : p = h \/ Right(w, p) => Right(r, p),
         r.state \in SUBSET StateAtoms,
         r.selected = (w.selected \/ h = "select"), r.shapeSelected = (w.shapeSelected \/ h = "select_shape")
  PROVE  Answered(w, r, h)
<1>1. /\ r.composited = w.composited /\ r.actor = w.actor /\ r.shadow = w.shadow /\ r.width = w.width
      /\ r.using = w.using /\ r.opacity = w.opacity /\ r.override = w.override /\ r.type = w.type
      /\ r.shaped = w.shaped /\ r.mask = w.mask /\ r.x = w.x /\ r.xx = w.xx /\ r.xwidth = w.xwidth
      /\ r.queue = w.queue /\ r.inConstructor = w.inConstructor /\ r.xshaped = w.xshaped
      /\ r.props = w.props /\ r.size = w.size
  BY DEF Same, WinFields
<1>2. r.todo \in Seq(Requests)
  BY TailOfTodo
<1>3. r.selected \in BOOLEAN /\ r.shapeSelected \in BOOLEAN
  OBVIOUS
<1>4. WinTypes(r)
  BY <1>1, <1>2, <1>3 DEF WinTypes
<1>5. Placed(r) /\ Sized(r) /\ Faded(r) /\ Should(r) = Should(w)
  BY <1>1 DEF Placed, Sized, Faded, Should
<1>6. h # "shaped" /\ h # "region" /\ h # "geometry"
  BY DEF Followed
<1> QED
  BY <1>1, <1>4, <1>5, <1>6 DEF Answered

\* Each request brings what the server has at that moment.
LEMMA RequestAnswered ==
  ASSUME NEW w, WinInv(w), w.todo # <<>>
  PROVE  Answered(w, MakeRequest([w EXCEPT !.todo = Tail(@)], Head(w.todo)), Head(w.todo))
<1> DEFINE h == Head(w.todo)
           o == [w EXCEPT !.todo = Tail(@)]
           r == MakeRequest(o, h)
<1> SUFFICES Answered(w, r, h)
  OBVIOUS
<1>0. WinTypes(w) /\ Placed(w) /\ Sized(w) /\ Faded(w) /\ Ordered(w)
  BY DEF WinInv
<1>1. h \in Requests /\ Tail(w.todo) \in Seq(Requests)
  BY <1>0, TailOfTodo
<1>2. DOMAIN o = WinFields /\ Same(o, w, {"todo"}) /\ o.todo = Tail(w.todo)
  BY <1>0 DEF WinTypes, WinFields, Same
<1> HIDE DEF o, h
<1>3. /\ WinTypes(o) /\ Placed(o) /\ Sized(o) /\ Faded(o) /\ \A p \in Followed : Right(w, p) => Right(o, p)
  <2>1. WinTypes(o)
    BY <1>0, <1>1, <1>2 DEF WinTypes, Same, WinFields
  <2>2. Placed(o) /\ Sized(o) /\ Faded(o)
    BY <1>0, <1>2 DEF Placed, Sized, Faded, Same, WinFields
  <2>3. \A p \in Followed : Right(w, p) => Right(o, p)
    BY <1>2 DEF Right, Same, WinFields
  <2> QED
    BY <2>1, <2>2, <2>3
<1>4. o.props = w.props /\ o.xshaped = w.xshaped /\ o.inConstructor = w.inConstructor
  BY <1>2 DEF Same, WinFields
<1>5. w.selected \in BOOLEAN /\ w.shapeSelected \in BOOLEAN /\ w.state \in SUBSET StateAtoms
  BY <1>0 DEF WinTypes
<1>sel. CASE h = "select"
  <2>1. r = [o EXCEPT !.selected = TRUE]
    BY <1>sel DEF MakeRequest
  <2> HIDE DEF r
  <2>2. /\ DOMAIN r = WinFields /\ Same(r, o, {"selected"}) /\ r.selected = TRUE
    BY <1>2, <2>1 DEF Same, WinFields
  <2>3. /\ Same(r, w, {"selected"} \cup {"todo"}) /\ r.todo = Tail(w.todo) /\ r.shapeSelected = w.shapeSelected
        /\ r.state = w.state
    BY <1>2, <2>2 DEF Same, WinFields
  <2>4. \A p \in Followed : p = h \/ Right(w, p) => Right(r, p)
    BY <1>sel, <2>3 DEF Right, Same, WinFields, Followed
  <2>5. /\ r.selected = (w.selected \/ h = "select") /\ r.shapeSelected = (w.shapeSelected \/ h = "select_shape")
        /\ r.state \in SUBSET StateAtoms
    BY <1>sel, <1>5, <2>2, <2>3
  <2>6. Answered(w, r, h)
    <3>1. Same(r, w, {"urgent", "transient", "state", "protocols", "chrome", "selected", "shapeSelected", "todo"})
      BY <2>3 DEF Same
    <3>2. h \in Followed \cup {"protocols", "chrome", "select", "select_shape"}
      BY <1>sel
    <3> QED
      BY <1>0, <2>2, <2>3, <2>4, <2>5, <3>1, <3>2, SimplyAnswered
  <2> QED
    BY <2>6
<1>shp. CASE h = "select_shape"
  <2>1. r = [o EXCEPT !.shapeSelected = TRUE]
    BY <1>shp DEF MakeRequest
  <2> HIDE DEF r
  <2>2. /\ DOMAIN r = WinFields /\ Same(r, o, {"shapeSelected"}) /\ r.shapeSelected = TRUE
    BY <1>2, <2>1 DEF Same, WinFields
  <2>3. /\ Same(r, w, {"shapeSelected"} \cup {"todo"}) /\ r.todo = Tail(w.todo) /\ r.selected = w.selected
        /\ r.state = w.state
    BY <1>2, <2>2 DEF Same, WinFields
  <2>4. \A p \in Followed : p = h \/ Right(w, p) => Right(r, p)
    BY <1>shp, <2>3 DEF Right, Same, WinFields, Followed
  <2>5. /\ r.selected = (w.selected \/ h = "select") /\ r.shapeSelected = (w.shapeSelected \/ h = "select_shape")
        /\ r.state \in SUBSET StateAtoms
    BY <1>shp, <1>5, <2>2, <2>3
  <2>6. Answered(w, r, h)
    <3>1. Same(r, w, {"urgent", "transient", "state", "protocols", "chrome", "selected", "shapeSelected", "todo"})
      BY <2>3 DEF Same
    <3>2. h \in Followed \cup {"protocols", "chrome", "select", "select_shape"}
      BY <1>shp
    <3> QED
      BY <1>0, <2>2, <2>3, <2>4, <2>5, <3>1, <3>2, SimplyAnswered
  <2> QED
    BY <2>6
<1>prp. CASE h \in {"protocols", "chrome", "state", "transient", "hints"}
  <2>1. PICK field \in {"protocols", "chrome", "state", "transient", "urgent"} :
          /\ DOMAIN r = WinFields /\ Same(r, o, {field}) /\ field = (IF h = "hints" THEN "urgent" ELSE h)
          /\ Right(r, h) /\ r.state \in SUBSET StateAtoms
    <3> o.state \in SUBSET StateAtoms /\ o.props.state \in (SUBSET StateAtoms) \cup {Unset}
      BY <1>3 DEF WinTypes
    <3>1. CASE h = "protocols"
      <4>1. PICK value : r = [o EXCEPT !.protocols = value]
        BY <3>1 DEF MakeRequest, FetchAndApplyWmProtocols
      <4> HIDE DEF r
      <4>2. DOMAIN r = WinFields /\ Same(r, o, {"protocols"}) /\ r.state = o.state
        BY <1>2, <4>1 DEF Same, WinFields
      <4> QED
        BY <3>1, <4>2 DEF Right
    <3>2. CASE h = "chrome"
      <4>1. PICK value : r = [o EXCEPT !.chrome = value]
        BY <3>2 DEF MakeRequest, FetchAndApplyChromeState
      <4> HIDE DEF r
      <4>2. DOMAIN r = WinFields /\ Same(r, o, {"chrome"}) /\ r.state = o.state
        BY <1>2, <4>1 DEF Same, WinFields
      <4> QED
        BY <3>2, <4>2 DEF Right
    <3>3. CASE h = "state"
      <4> DEFINE value == IF o.props.state = Unset THEN {} ELSE o.props.state
      <4>1. r = [o EXCEPT !.state = value]
        BY <3>3 DEF MakeRequest, FetchAndApplyWmState
      <4>2. value \in SUBSET StateAtoms
        <5>1. CASE o.props.state = Unset
          BY <5>1
        <5>2. CASE o.props.state # Unset
          BY <5>2
        <5> QED
          BY <5>1, <5>2
      <4> HIDE DEF r, value
      <4>3. DOMAIN r = WinFields /\ Same(r, o, {"state"}) /\ r.state = value /\ r.props = o.props
        BY <1>2, <4>1 DEF Same, WinFields
      <4>4. Right(r, h)
        BY <3>3, <4>3 DEF Right, value
      <4> QED
        BY <3>3, <4>2, <4>3, <4>4
    <3>4. CASE h = "transient"
      <4>1. r = IF o.props.transient = Unset THEN o ELSE [o EXCEPT !.transient = o.props.transient]
        BY <3>4 DEF MakeRequest, FetchAndApplyTransientHint
      <4> HIDE DEF r
      <4>2. DOMAIN r = WinFields /\ Same(r, o, {"transient"}) /\ r.state = o.state /\ r.props = o.props
        BY <1>2, <4>1 DEF Same, WinFields
      <4>3. r.transient = r.props.transient \/ r.props.transient = Unset
        BY <1>2, <4>1, <4>2 DEF WinFields
      <4> QED
        BY <3>4, <4>2, <4>3 DEF Right
    <3>5. CASE h = "hints"
      <4>1. r = IF o.props.hints = Unset THEN o ELSE [o EXCEPT !.urgent = o.props.hints = "urgent"]
        BY <3>5 DEF MakeRequest, FetchAndApplyWmHints
      <4> HIDE DEF r
      <4>2. DOMAIN r = WinFields /\ Same(r, o, {"urgent"}) /\ r.state = o.state /\ r.props = o.props
        BY <1>2, <4>1 DEF Same, WinFields
      <4>3. r.urgent = (r.props.hints = "urgent") \/ r.props.hints = Unset
        BY <1>2, <4>1, <4>2 DEF WinFields
      <4> QED
        BY <3>5, <4>2, <4>3 DEF Right
    <3> QED
      BY <1>prp, <3>1, <3>2, <3>3, <3>4, <3>5
  <2> HIDE DEF r
  <2>2. /\ Same(r, w, {field} \cup {"todo"}) /\ r.todo = Tail(w.todo) /\ r.selected = w.selected
        /\ r.shapeSelected = w.shapeSelected
    BY <1>2, <2>1 DEF Same, WinFields
  <2>3. \A p \in Followed : p = h \/ Right(w, p) => Right(r, p)
    BY <1>prp, <2>1, <2>2 DEF Right, Same, WinFields, Followed
  <2>4. r.selected = (w.selected \/ h = "select") /\ r.shapeSelected = (w.shapeSelected \/ h = "select_shape")
    BY <1>prp, <1>5, <2>2
  <2>5. h \in Followed \cup {"protocols", "chrome", "select", "select_shape"}
    BY <1>prp DEF Followed
  <2>6. Answered(w, r, h)
    <3>1. Same(r, w, {"urgent", "transient", "state", "protocols", "chrome", "selected", "shapeSelected", "todo"})
      BY <2>2 DEF Same
    <3> QED
      BY <1>0, <2>1, <2>2, <2>3, <2>4, <2>5, <3>1, SimplyAnswered
  <2> QED
    BY <2>6
<1>opa. CASE h = "opacity"
  <2> DEFINE value == IF o.props.opacity = Unset THEN 2 ELSE o.props.opacity
             combined == o.composited.opacity * value
             v == [o EXCEPT !.opacity = value]
  <2>1. DOMAIN v = WinFields /\ Same(v, o, {"opacity"}) /\ v.opacity = value
    BY <1>2 DEF Same, WinFields
  <2>2. r = SetCompositedOpacity(v, o.composited.opacity)
    BY <1>opa DEF MakeRequest, FetchAndApplyWindowOpacity
  <2> HIDE DEF v, r
  <2>3. r = [v EXCEPT !.composited.opacity = o.composited.opacity, !.shadowOpacity = combined,
                      !.actor.opacity = combined, !.shadow.opacity = combined]
    BY <2>1, <2>2 DEF SetCompositedOpacity
  <2> HIDE DEF value, combined
  <2>4. /\ DOMAIN r = WinFields /\ Same(r, v, {"composited", "shadowOpacity", "actor", "shadow"})
        /\ r.composited = [v.composited EXCEPT !.opacity = o.composited.opacity]
        /\ r.actor = [v.actor EXCEPT !.opacity = combined] /\ r.shadow = [v.shadow EXCEPT !.opacity = combined]
    BY <2>1, <2>3 DEF Same, WinFields
  <2>5. /\ Same(r, w, {"opacity", "composited", "shadowOpacity", "actor", "shadow", "todo"})
        /\ r.opacity = value /\ r.todo = Tail(w.todo)
        /\ r.composited = [w.composited EXCEPT !.opacity = w.composited.opacity]
        /\ r.actor = [w.actor EXCEPT !.opacity = combined] /\ r.shadow = [w.shadow EXCEPT !.opacity = combined]
        /\ combined = w.composited.opacity * value
    BY <1>2, <2>1, <2>4 DEF Same, WinFields, combined
  <2>6. /\ r.width = w.width /\ r.using = w.using /\ r.override = w.override /\ r.type = w.type
        /\ r.shaped = w.shaped /\ r.mask = w.mask /\ r.x = w.x /\ r.xx = w.xx /\ r.xwidth = w.xwidth
        /\ r.queue = w.queue /\ r.inConstructor = w.inConstructor /\ r.xshaped = w.xshaped
        /\ r.props = w.props /\ r.size = w.size /\ r.state = w.state
        /\ r.selected = w.selected /\ r.shapeSelected = w.shapeSelected
    BY <2>5 DEF Same, WinFields
  <2>7. /\ DOMAIN r.composited = DOMAIN w.composited /\ DOMAIN r.actor = DOMAIN w.actor /\ DOMAIN r.shadow = DOMAIN w.shadow
        /\ r.composited.x = w.composited.x /\ r.actor.x = w.actor.x /\ r.shadow.x = w.shadow.x
        /\ r.composited.shown = w.composited.shown /\ r.actor.shown = w.actor.shown /\ r.shadow.shown = w.shadow.shown
        /\ r.composited.scale = w.composited.scale /\ r.composited.opacity = w.composited.opacity
        /\ r.actor.opacity = combined /\ r.actor.width = w.actor.width /\ r.shadow.width = w.shadow.width
    BY <1>0, <2>5 DEF WinTypes
  <2>8. WinTypes(r)
    BY <1>0, <1>1, <2>4, <2>5, <2>6, <2>7 DEF WinTypes
  <2>9. Placed(r) /\ Sized(r) /\ Faded(r) /\ Should(r) = Should(w)
    BY <1>0, <2>5, <2>6, <2>7 DEF Placed, Sized, Faded, Should
  <2>10. \A p \in Followed : p = h \/ Right(w, p) => Right(r, p)
    BY <1>2, <1>4, <1>opa, <2>5, <2>6, SMTT(40) DEF Right, Same, WinFields, Followed, value
  <2> QED
    BY <1>opa, <1>5, <2>5, <2>6, <2>8, <2>9, <2>10 DEF Answered
<1>typ. CASE h = "type"
  <2> DEFINE v == IF o.props.type = Unset THEN o ELSE [o EXCEPT !.type = o.props.type]
  <2>1. DOMAIN v = WinFields /\ Same(v, o, {"type"}) /\ (v.type = v.props.type \/ v.props.type = Unset)
    BY <1>2 DEF Same, WinFields
  <2>2. r = IF ~o.inConstructor THEN UpdateShadowIfNecessary(v) ELSE v
    BY <1>typ DEF MakeRequest, FetchAndApplyWindowType
  <2> HIDE DEF v, r
  <2>3. WinTypes(v) /\ Placed(v) /\ Sized(v) /\ Faded(v)
    BY <1>3, <2>1 DEF WinTypes, Placed, Sized, Faded, Same, WinFields
  <2>4. /\ WinTypes(r) /\ Placed(r) /\ Sized(r) /\ (r.using = Should(r) \/ w.inConstructor)
        /\ Same(r, v, {"using", "shadow"})
    <3>1. CASE ~o.inConstructor
      <4>1. /\ WinTypes(r) /\ Placed(r) /\ Sized(r) /\ r.using = Should(v) /\ Same(r, v, {"using", "shadow"})
        BY <2>2, <2>3, <3>1, ShadowUpdated
      <4> QED
        BY <4>1 DEF Same, WinFields, Should
    <3>2. CASE o.inConstructor
      BY <1>4, <2>2, <2>3, <3>2 DEF Same
    <3> QED
      BY <3>1, <3>2
  <2>5. /\ Same(r, w, {"type", "todo", "using", "shadow"}) /\ r.todo = Tail(w.todo)
        /\ (r.type = r.props.type \/ r.props.type = Unset)
    BY <1>2, <2>1, <2>4 DEF Same, WinFields
  <2>6. /\ r.shaped = w.shaped /\ r.mask = w.mask /\ r.x = w.x /\ r.xx = w.xx /\ r.xwidth = w.xwidth
        /\ r.queue = w.queue /\ r.inConstructor = w.inConstructor /\ r.xshaped = w.xshaped /\ r.width = w.width
        /\ r.selected = w.selected /\ r.shapeSelected = w.shapeSelected
        /\ r.actor = w.actor /\ r.composited = w.composited /\ r.opacity = w.opacity
    BY <2>5 DEF Same, WinFields
  <2>7. Faded(r)
    BY <1>0, <2>6 DEF Faded
  <2>8. \A p \in Followed : p = h \/ Right(w, p) => Right(r, p)
    BY <1>typ, <2>5 DEF Right, Same, WinFields, Followed
  <2> QED
    BY <1>5, <1>typ, <2>4, <2>5, <2>6, <2>7, <2>8 DEF Answered
<1>geo. CASE h = "geometry"
  <2> DEFINE u == [o EXCEPT !.x = o.xx]
             v == MoveComposited(u, o.xx)
  <2>1. DOMAIN u = WinFields /\ Same(u, o, {"x"}) /\ u.x = o.xx
    BY <1>2 DEF Same, WinFields
  <2>2. r = SaveClientAndCompositedSize(v, o.xwidth)
    BY <1>geo DEF MakeRequest, FetchGeometry
  <2> HIDE DEF u, r
  <2>3. WinTypes(u) /\ Placed(u) /\ Sized(u) /\ Faded(u)
    BY <1>3, <2>1 DEF WinTypes, Placed, Sized, Faded, Same, WinFields
  <2>4. WinTypes(v) /\ Placed(v) /\ Sized(v) /\ Faded(v) /\ Same(v, u, {"composited", "actor", "shadow"})
    BY <2>3, CompositedMoved
  <2> HIDE DEF v
  <2>5. /\ WinTypes(r) /\ Placed(r) /\ Sized(r) /\ Faded(r) /\ r.width = o.xwidth
        /\ Same(r, v, {"width", "actor", "shadow"})
    BY <2>2, <2>4, SizeSaved
  <2>6. /\ Same(r, w, {"x", "width", "composited", "actor", "shadow", "todo"}) /\ r.todo = Tail(w.todo)
        /\ r.x = r.xx /\ r.width = r.xwidth
    BY <1>2, <2>1, <2>4, <2>5, ZenonT(40) DEF Same, WinFields
  <2>7. /\ r.shaped = w.shaped /\ r.mask = w.mask /\ r.using = w.using /\ r.override = w.override /\ r.type = w.type
        /\ r.queue = w.queue /\ r.inConstructor = w.inConstructor /\ r.xshaped = w.xshaped
        /\ r.selected = w.selected /\ r.shapeSelected = w.shapeSelected
    BY <2>6 DEF Same, WinFields
  <2>8. \A p \in Followed : p = h \/ Right(w, p) => Right(r, p)
    BY <1>geo, <2>6 DEF Right, Same, WinFields, Followed
  <2>9. Should(r) = Should(w)
    BY <2>7 DEF Should
  <2> QED
    BY <1>5, <1>geo, <2>5, <2>6, <2>7, <2>8, <2>9 DEF Answered
<1>sha. CASE h = "shaped"
  <2>0. Len(w.todo) >= 2 /\ Tail(w.todo) # <<>>
    <3>1. 1 \in DOMAIN w.todo /\ w.todo[1] = "shaped"
      BY <1>0, <1>sha, TailOfTodo DEF h
    <3>2. 1 + 1 \in DOMAIN w.todo
      BY <1>0, <3>1 DEF Ordered
    <3>3. Len(w.todo) >= 2 /\ DOMAIN Tail(w.todo) = 1..(Len(w.todo) - 1)
      BY <1>0, <3>2, TailOfTodo
    <3> DEFINE t == Tail(w.todo)
    <3>4. 1 \in DOMAIN t
      BY <1>0, <3>3, TailOfTodo
    <3> HIDE DEF t
    <3>5. t # <<>>
      BY <3>4
    <3> QED
      BY <3>3, <3>5 DEF t
  <2>1. CASE w.xshaped
    <3>1. r = [o EXCEPT !.shaped = FALSE]
      BY <1>4, <1>sha, <2>1 DEF MakeRequest, FetchShaped
    <3> HIDE DEF r
    <3>2. DOMAIN r = WinFields /\ Same(r, o, {"shaped"}) /\ r.shaped = FALSE
      BY <1>2, <3>1 DEF Same, WinFields
    <3>3. Same(r, w, {"shaped", "todo"}) /\ r.todo = Tail(w.todo)
      BY <1>2, <3>2 DEF Same, WinFields
    <3>4. WinTypes(r) /\ Placed(r) /\ Sized(r) /\ Faded(r)
      <4>1. /\ r.props = o.props /\ r.composited = o.composited /\ r.actor = o.actor /\ r.shadow = o.shadow
            /\ r.todo = o.todo /\ r.queue = o.queue /\ r.xshaped = o.xshaped /\ r.selected = o.selected
            /\ r.shapeSelected = o.shapeSelected /\ r.inConstructor = o.inConstructor /\ r.override = o.override
            /\ r.mask = o.mask /\ r.using = o.using /\ r.state = o.state /\ r.size = o.size
        BY <3>2 DEF Same, WinFields
      <4>2. WinTypes(r)
        BY <1>3, <3>2, <4>1 DEF WinTypes
      <4>3. Placed(r) /\ Sized(r) /\ Faded(r)
        BY <1>3, <3>2 DEF Placed, Sized, Faded, Same, WinFields
      <4> QED
        BY <4>2, <4>3
    <3>5. /\ r.x = w.x /\ r.xx = w.xx /\ r.xwidth = w.xwidth
          /\ r.queue = w.queue /\ r.inConstructor = w.inConstructor /\ r.xshaped = w.xshaped /\ r.width = w.width
          /\ r.selected = w.selected /\ r.shapeSelected = w.shapeSelected
      BY <3>3 DEF Same, WinFields
    <3>6. \A p \in Followed : p = h \/ Right(w, p) => Right(r, p)
      BY <1>sha, <3>3 DEF Right, Same, WinFields, Followed
    <3> QED
      BY <1>5, <1>sha, <2>1, <3>3, <3>4, <3>5, <3>6 DEF Answered
  <2>2. CASE ~w.xshaped
    <3> DEFINE v == [o EXCEPT !.shaped = FALSE, !.mask = FALSE, !.todo = Tail(@)]
    <3>1. r = UpdateShadowIfNecessary(v)
      BY <1>4, <1>sha, <2>2 DEF MakeRequest, FetchShaped
    <3>2. /\ DOMAIN v = WinFields /\ Same(v, o, {"shaped", "mask", "todo"}) /\ v.shaped = FALSE /\ v.mask = FALSE
          /\ v.todo = Tail(Tail(w.todo))
      BY <1>2 DEF Same, WinFields
    <3>3. Tail(Tail(w.todo)) \in Seq(Requests)
      BY <1>1, <2>0, HeadTailProperties
    <3> HIDE DEF r, v
    <3>4. WinTypes(v) /\ Placed(v) /\ Sized(v) /\ Faded(v)
      <4>1. WinTypes(v)
        BY <1>3, <3>2, <3>3, ZenonT(40) DEF WinTypes, Same, WinFields
      <4>2. Placed(v) /\ Sized(v) /\ Faded(v)
        BY <1>3, <3>2 DEF Placed, Sized, Faded, Same, WinFields
      <4> QED
        BY <4>1, <4>2
    <3>5. WinTypes(r) /\ Placed(r) /\ Sized(r) /\ r.using = Should(v) /\ Same(r, v, {"using", "shadow"})
      BY <3>1, <3>4, ShadowUpdated
    <3>6. /\ Same(r, w, {"shaped", "mask", "todo", "using", "shadow"}) /\ r.todo = Tail(Tail(w.todo))
          /\ r.shaped = FALSE /\ r.mask = FALSE /\ Should(r) = Should(v)
      BY <1>2, <3>2, <3>5 DEF Same, WinFields, Should
    <3>7. /\ r.x = w.x /\ r.xx = w.xx /\ r.xwidth = w.xwidth
          /\ r.queue = w.queue /\ r.inConstructor = w.inConstructor /\ r.xshaped = w.xshaped /\ r.width = w.width
          /\ r.selected = w.selected /\ r.shapeSelected = w.shapeSelected
          /\ r.actor = w.actor /\ r.composited = w.composited /\ r.opacity = w.opacity
      BY <3>6 DEF Same, WinFields
    <3>8. \A p \in Followed : p = h \/ Right(w, p) => Right(r, p)
      BY <1>sha, <3>6 DEF Right, Same, WinFields, Followed
    <3>9. Faded(r)
      BY <1>0, <3>7 DEF Faded
    <3> QED
      BY <1>5, <1>sha, <2>2, <3>5, <3>6, <3>7, <3>8, <3>9 DEF Answered
  <2> QED
    BY <2>1, <2>2
<1>reg. CASE h = "region"
  <2> DEFINE v == [o EXCEPT !.shaped = TRUE, !.mask = o.xshaped]
  <2>1. r = UpdateShadowIfNecessary(v)
    BY <1>reg DEF MakeRequest, FetchRegion
  <2>2. /\ DOMAIN v = WinFields /\ Same(v, o, {"shaped", "mask"}) /\ v.shaped = TRUE /\ v.mask = o.xshaped
    BY <1>2 DEF Same, WinFields
  <2> HIDE DEF r, v
  <2>3. o.xshaped \in BOOLEAN
    BY <1>3 DEF WinTypes
  <2>4. WinTypes(v) /\ Placed(v) /\ Sized(v) /\ Faded(v)
    <3>1. WinTypes(v)
      <4>1. /\ v.props = o.props /\ v.composited = o.composited /\ v.actor = o.actor /\ v.shadow = o.shadow
            /\ v.todo = o.todo /\ v.queue = o.queue /\ v.xshaped = o.xshaped /\ v.selected = o.selected
            /\ v.shapeSelected = o.shapeSelected /\ v.inConstructor = o.inConstructor /\ v.override = o.override
            /\ v.using = o.using /\ v.state = o.state /\ v.size = o.size
        BY <2>2 DEF Same, WinFields
      <4> QED
        BY <1>3, <2>2, <2>3, <4>1, ZenonT(40) DEF WinTypes
    <3>2. Placed(v) /\ Sized(v) /\ Faded(v)
      BY <1>3, <2>2 DEF Placed, Sized, Faded, Same, WinFields
    <3> QED
      BY <3>1, <3>2
  <2>5. WinTypes(r) /\ Placed(r) /\ Sized(r) /\ r.using = Should(v) /\ Same(r, v, {"using", "shadow"})
    BY <2>1, <2>4, ShadowUpdated
  <2>6. /\ Same(r, w, {"shaped", "mask", "todo", "using", "shadow"}) /\ r.todo = Tail(w.todo)
        /\ r.shaped = TRUE /\ r.mask = w.xshaped /\ Should(r) = Should(v)
    BY <1>2, <2>2, <2>5 DEF Same, WinFields, Should
  <2>7. /\ r.x = w.x /\ r.xx = w.xx /\ r.xwidth = w.xwidth
        /\ r.queue = w.queue /\ r.inConstructor = w.inConstructor /\ r.xshaped = w.xshaped /\ r.width = w.width
        /\ r.selected = w.selected /\ r.shapeSelected = w.shapeSelected
        /\ r.actor = w.actor /\ r.composited = w.composited /\ r.opacity = w.opacity
    BY <2>6 DEF Same, WinFields
  <2>8. \A p \in Followed : p = h \/ Right(w, p) => Right(r, p)
    BY <1>reg, <2>6 DEF Right, Same, WinFields, Followed
  <2>9. Faded(r)
    BY <1>0, <2>7 DEF Faded
  <2> QED
    BY <1>5, <1>reg, <2>5, <2>6, <2>7, <2>8, <2>9 DEF Answered
<1>siz. CASE h = "size"
  <2> DEFINE hints == GetSizeHintsForWindow(o)
             v == [o EXCEPT !.size = hints]
  <2>1. r = IF ~o.mapped /\ ~o.override /\ hints.width > 0 THEN ResizeClient(v, hints.width, FALSE) ELSE v
    BY <1>siz DEF MakeRequest, FetchAndApplySizeHints
  <2>2. hints \in AnySizeHints
    <3>1. o.props.size \in AnySizeHints \cup {Unset}
      BY <1>3 DEF WinTypes
    <3>2. NoSizeHints \in AnySizeHints
      BY DEF NoSizeHints, AnySizeHints
    <3> QED
      BY <3>1, <3>2 DEF GetSizeHintsForWindow
  <2>3. DOMAIN v = WinFields /\ Same(v, o, {"size"}) /\ v.size = hints
    BY <1>2 DEF Same, WinFields
  <2> HIDE DEF r, v, hints
  <2>4. WinTypes(v) /\ Placed(v) /\ Sized(v) /\ Faded(v)
    <3>1. WinTypes(v)
      BY <1>3, <2>2, <2>3 DEF WinTypes, Same, WinFields
    <3>2. Placed(v) /\ Sized(v) /\ Faded(v)
      BY <1>3, <2>3 DEF Placed, Sized, Faded, Same, WinFields
    <3> QED
      BY <3>1, <3>2
  <2>5. /\ WinTypes(r) /\ Placed(r) /\ Sized(r) /\ Faded(r)
        /\ (v.x = v.xx /\ v.width = v.xwidth => r.x = r.xx /\ r.width = r.xwidth)
        /\ Same(r, v, {"x", "xx", "width", "xwidth", "composited", "actor", "shadow"})
    <3>1. CASE r = v
      BY <2>4, <3>1 DEF Same
    <3>2. CASE r = ResizeClient(v, hints.width, FALSE)
      BY <2>4, <3>2, ClientResized
    <3> QED
      BY <2>1, <3>1, <3>2
  <2>6. /\ Same(r, w, {"size", "todo", "x", "xx", "width", "xwidth", "composited", "actor", "shadow"})
        /\ r.todo = Tail(w.todo) /\ r.size = hints
    BY <1>2, <2>3, <2>5 DEF Same, WinFields
  <2>7. /\ r.shaped = w.shaped /\ r.mask = w.mask /\ r.using = w.using /\ r.override = w.override /\ r.type = w.type
        /\ r.queue = w.queue /\ r.inConstructor = w.inConstructor /\ r.xshaped = w.xshaped
        /\ r.selected = w.selected /\ r.shapeSelected = w.shapeSelected /\ r.props = w.props
    BY <2>6 DEF Same, WinFields
  <2>8. (w.x = w.xx /\ w.width = w.xwidth) => r.x = r.xx /\ r.width = r.xwidth
    BY <1>2, <2>3, <2>5 DEF Same, WinFields
  <2>9. \A p \in Followed : p = h \/ Right(w, p) => Right(r, p)
    <3>1. hints = IF r.props.size = Unset THEN NoSizeHints ELSE r.props.size
      BY <1>4, <2>7 DEF hints, GetSizeHintsForWindow
    <3> QED
      BY <1>siz, <2>6, <3>1 DEF Right, Same, WinFields, Followed
  <2>10. Should(r) = Should(w)
    BY <2>7 DEF Should
  <2> QED
    BY <1>5, <1>siz, <2>5, <2>6, <2>7, <2>8, <2>9, <2>10 DEF Answered
<1> QED
  BY <1>1, <1>sel, <1>shp, <1>prp, <1>opa, <1>typ, <1>geo, <1>sha, <1>reg, <1>siz DEF Requests

\* What the window does on the way to its next step leaves the invariant alone.
LEMMA FrameInv ==
  ASSUME NEW w, WinInv(w), NEW v, DOMAIN v = WinFields,
         Same(v, w, {"mapped", "protocols", "chrome", "shadowOpacity", "clientSteps", "calls"})
  PROVE  WinInv(v)
<1>1. /\ v.props = w.props /\ v.composited = w.composited /\ v.actor = w.actor /\ v.shadow = w.shadow
      /\ v.todo = w.todo /\ v.queue = w.queue /\ v.xshaped = w.xshaped /\ v.selected = w.selected
      /\ v.shapeSelected = w.shapeSelected /\ v.inConstructor = w.inConstructor /\ v.override = w.override
      /\ v.using = w.using /\ v.state = w.state /\ v.size = w.size /\ v.type = w.type /\ v.shaped = w.shaped
      /\ v.mask = w.mask /\ v.x = w.x /\ v.xx = w.xx /\ v.width = w.width /\ v.xwidth = w.xwidth
      /\ v.opacity = w.opacity /\ v.urgent = w.urgent /\ v.transient = w.transient
  BY DEF Same, WinFields
<1>2. WinTypes(v)
  BY <1>1 DEF WinInv, WinTypes
<1>3. Placed(v) /\ Sized(v) /\ Faded(v) /\ Ordered(v)
  BY <1>1 DEF WinInv, Placed, Sized, Faded, Ordered
<1>4. Following(v)
  BY <1>1 DEF WinInv, Following, Pending, Queued, Right, Should
<1> QED
  BY <1>2, <1>3, <1>4 DEF WinInv

\* Between two events nothing is pending: everything was selected and read once.
LEMMA Settled ==
  ASSUME NEW w, WinInv(w), w.todo = <<>>
  PROVE  /\ w.inConstructor = FALSE /\ w.selected = TRUE /\ w.shapeSelected = TRUE
         /\ \A q : ~Pending(w, q)
         /\ w.x = w.xx /\ w.width = w.xwidth /\ w.using = Should(w)
<1>1. \A q : ~Pending(w, q)
  BY DEF Pending
<1>2. w.inConstructor \in BOOLEAN /\ w.selected \in BOOLEAN /\ w.shapeSelected \in BOOLEAN
  BY DEF WinInv, WinTypes
<1>3. ~w.inConstructor /\ w.selected /\ w.shapeSelected
  BY StartsWithSelection DEF WinInv, Ordered
<1>4. w.x = w.xx /\ w.width = w.xwidth /\ w.using = Should(w)
  BY <1>1 DEF WinInv, Following
<1> QED
  BY <1>1, <1>2, <1>3, <1>4

\* A call between two events keeps the invariant, if it queues an event for what it makes
\* wrong.
LEMMA CalledInv ==
  ASSUME NEW w, WinInv(w), w.todo = <<>>, NEW r, WinTypes(r), Placed(r), Sized(r), Faded(r),
         Same(r, w, {"props", "queue", "state", "x", "xx", "width", "xwidth", "composited", "using", "shadow",
                     "actor", "shadowOpacity", "chrome", "mapped"}),
         r.x = r.xx, r.width = r.xwidth, r.using = Should(r),
         \A e : Queued(w, e) => Queued(r, e),
         \A p \in Followed : Queued(r, p) \/ (Right(w, p) => Right(r, p))
  PROVE  WinInv(r)
<1>1. /\ r.todo = w.todo /\ r.xshaped = w.xshaped /\ r.selected = w.selected /\ r.shapeSelected = w.shapeSelected
      /\ r.inConstructor = w.inConstructor /\ r.shaped = w.shaped /\ r.mask = w.mask
  BY DEF Same, WinFields
<1>2. Ordered(r)
  BY <1>1 DEF WinInv, Ordered
<1>3. Following(r)
  <2>1. \A q : ~Pending(r, q) /\ ~Pending(w, q)
    BY <1>1, Settled DEF Pending
  <2>2. \A p \in Followed : Queued(r, p) \/ Right(r, p)
    BY <2>1 DEF WinInv, Following
  <2>3. Queued(r, "shape") \/ (r.shaped = r.xshaped /\ r.mask = r.xshaped)
    BY <1>1, <2>1 DEF WinInv, Following
  <2> QED
    BY <2>1, <2>2, <2>3 DEF Following
<1> QED
  BY <1>2, <1>3 DEF WinInv

\* An event at the end of the queue.
LEMMA QueuedLast ==
  ASSUME NEW w, WinTypes(w), NEW e \in WindowProperties \cup {"shape"}, NEW v, v.queue = Append(w.queue, e)
  PROVE  /\ v.queue \in Seq(WindowProperties \cup {"shape"}) /\ Queued(v, e)
         /\ \A f : Queued(w, f) => Queued(v, f)
<1> DEFINE s == w.queue
           S == WindowProperties \cup {"shape"}
           t == Append(s, e)
<1>1. s \in Seq(S)
  BY DEF WinTypes
<1> HIDE DEF s, S
<1>2. /\ t \in Seq(S) /\ Len(t) = Len(s) + 1 /\ t[Len(s) + 1] = e /\ Len(s) \in Nat
      /\ \A i \in 1..Len(s) : t[i] = s[i]
  BY <1>1, AppendProperties DEF S
<1>3. DOMAIN s = 1..Len(s) /\ DOMAIN t = 1..(Len(s) + 1)
  BY <1>1, <1>2, LenProperties
<1> HIDE DEF t
<1>4. v.queue = t
  BY DEF t, s
<1>5. Queued(v, e)
  <2>1. Len(s) + 1 \in DOMAIN t
    BY <1>2, <1>3
  <2> QED
    BY <1>2, <1>4, <2>1 DEF Queued
<1>6. \A f : Queued(w, f) => Queued(v, f)
  <2> SUFFICES ASSUME NEW f, NEW i \in DOMAIN s, s[i] = f PROVE Queued(v, f)
    BY DEF Queued, s
  <2>1. i \in DOMAIN t /\ t[i] = f
    BY <1>2, <1>3
  <2> QED
    BY <1>4, <2>1 DEF Queued
<1> QED
  BY <1>2, <1>4, <1>5, <1>6 DEF S

\* A change of a property, by the client or by the window manager itself, queues an event
\* once events are selected; before that, everything has yet to be read.
LEMMA ClientSetsPropertyInv ==
  ASSUME WinInv(win), ClientSetsProperty
  PROVE  WinInv(win')
<1>0. PICK p \in WindowProperties :
        \E value \in PropertyValues[p] \cup {Unset} :
          win' = Notify([win EXCEPT !.props[p] = value, !.clientSteps = @ + 1], p)
  BY DEF ClientSetsProperty
<1>1. PICK value \in PropertyValues[p] \cup {Unset} :
        win' = Notify([win EXCEPT !.props[p] = value, !.clientSteps = @ + 1], p)
  BY <1>0
<1> DEFINE w == win
           r == win'
           o == [w EXCEPT !.props[p] = value, !.clientSteps = @ + 1]
<1>2. WinTypes(w) /\ Ordered(w) /\ Placed(w) /\ Sized(w) /\ Faded(w) /\ Following(w)
  BY DEF WinInv
<1>3. r = Notify(o, p)
  BY <1>1
<1> SUFFICES WinInv(r)
  OBVIOUS
<1> HIDE DEF w, r
<1>4. /\ DOMAIN o = WinFields /\ Same(o, w, {"props", "clientSteps"})
      /\ o.props = [w.props EXCEPT ![p] = value]
  BY <1>2 DEF WinTypes, WinFields, Same
<1>5. r = [o EXCEPT !.queue = IF o.selected THEN Append(@, p) ELSE @]
  BY <1>3 DEF Notify
<1> HIDE DEF o
<1>6. /\ DOMAIN r = WinFields /\ Same(r, w, {"props", "clientSteps", "queue"})
      /\ r.props = [w.props EXCEPT ![p] = value]
      /\ r.queue = IF w.selected THEN Append(w.queue, p) ELSE w.queue
  BY <1>4, <1>5 DEF WinFields, Same
<1>7. /\ r.composited = w.composited /\ r.actor = w.actor /\ r.shadow = w.shadow
      /\ r.todo = w.todo /\ r.xshaped = w.xshaped /\ r.selected = w.selected
      /\ r.shapeSelected = w.shapeSelected /\ r.inConstructor = w.inConstructor /\ r.override = w.override
      /\ r.using = w.using /\ r.state = w.state /\ r.size = w.size /\ r.type = w.type /\ r.shaped = w.shaped
      /\ r.mask = w.mask /\ r.x = w.x /\ r.xx = w.xx /\ r.width = w.width /\ r.xwidth = w.xwidth
      /\ r.opacity = w.opacity /\ r.urgent = w.urgent /\ r.transient = w.transient
  BY <1>6 DEF Same, WinFields
<1>8. /\ r.queue \in Seq(WindowProperties \cup {"shape"}) /\ (w.selected => Queued(r, p))
      /\ \A e : Queued(w, e) => Queued(r, e)
  <2>1. CASE w.selected
    BY <1>2, <1>6, <2>1, QueuedLast
  <2>2. CASE ~w.selected
    <3>1. r.queue = w.queue
      BY <1>6, <2>2
    <3> QED
      BY <1>2, <2>2, <3>1 DEF WinTypes, Queued
  <2> QED
    BY <2>1, <2>2
<1>9. /\ DOMAIN w.props = WindowProperties /\ DOMAIN r.props = WindowProperties
      /\ r.props[p] = value /\ \A q \in WindowProperties \ {p} : r.props[q] = w.props[q]
  BY <1>2, <1>6 DEF WinTypes
<1>10. WindowProperties = {"type", "opacity", "size", "protocols", "state", "chrome", "transient", "hints"}
  BY DEF WindowProperties, PropertyValues
<1>11. r.props.state \in (SUBSET StateAtoms) \cup {Unset} /\ r.props.size \in AnySizeHints \cup {Unset}
  <2>1. w.props.state \in (SUBSET StateAtoms) \cup {Unset} /\ w.props.size \in AnySizeHints \cup {Unset}
    BY <1>2 DEF WinTypes
  <2>2. r.props.state \in (SUBSET StateAtoms) \cup {Unset}
    <3>1. CASE p = "state"
      <4>1. r.props.state = value /\ PropertyValues[p] = {{"modal"}, {"fullscreen", "maximized"}}
        BY <1>9, <3>1 DEF PropertyValues
      <4> QED
        BY <4>1 DEF StateAtoms
    <3>2. CASE p # "state"
      BY <1>9, <1>10, <2>1, <3>2
    <3> QED
      BY <3>1, <3>2
  <2>3. r.props.size \in AnySizeHints \cup {Unset}
    <3>1. CASE p = "size"
      <4>1. r.props.size = value /\ PropertyValues[p] = SizeHintSet
        BY <1>9, <3>1 DEF PropertyValues
      <4>2. SizeHintSet \subseteq AnySizeHints
        BY WindowAssumption DEF AnySizeHints
      <4> QED
        BY <4>1, <4>2
    <3>2. CASE p # "size"
      BY <1>9, <1>10, <2>1, <3>2
    <3> QED
      BY <3>1, <3>2
  <2> QED
    BY <2>2, <2>3
<1>12. WinTypes(r)
  BY <1>2, <1>6, <1>7, <1>8, <1>9, <1>11 DEF WinTypes
<1>13. Ordered(r) /\ Placed(r) /\ Sized(r) /\ Faded(r)
  BY <1>2, <1>7 DEF Ordered, Placed, Sized, Faded
<1>14. Following(r)
  <2>1. \A q : Pending(r, q) <=> Pending(w, q)
    BY <1>7 DEF Pending
  <2>2. \A q \in Followed : q # p => (Right(w, q) => Right(r, q))
    BY <1>7, <1>9, <1>10 DEF Right, Followed
  <2>3. p \in Followed => Pending(r, p) \/ Queued(r, p)
    <3>1. CASE w.selected
      BY <1>8, <3>1
    <3>2. CASE ~w.selected
      <4>1. w.todo = ConstructorRequests
        BY <1>2, <3>2 DEF Ordered
      <4>2. p \in Followed => \E i \in DOMAIN ConstructorRequests : ConstructorRequests[i] = p
        <5>1. /\ ConstructorRequests[4] = "type" /\ ConstructorRequests[7] = "opacity" /\ ConstructorRequests[8] = "size"
              /\ ConstructorRequests[10] = "state" /\ ConstructorRequests[12] = "transient"
              /\ ConstructorRequests[13] = "hints" /\ DOMAIN ConstructorRequests = 1..13
          BY DEF ConstructorRequests
        <5> QED
          BY <5>1 DEF Followed
      <4> QED
        BY <2>1, <4>1, <4>2 DEF Pending
    <3> QED
      BY <3>1, <3>2
  <2>4. \A q \in Followed : Pending(r, q) \/ Queued(r, q) \/ Right(r, q)
    BY <1>2, <1>8, <2>1, <2>2, <2>3 DEF Following
  <2>5. Should(r) = Should(w)
    BY <1>7 DEF Should
  <2> QED
    BY <1>2, <1>7, <1>8, <2>1, <2>4, <2>5 DEF Following
<1> QED
  BY <1>12, <1>13, <1>14 DEF WinInv

\* A client sets its shape, or removes it.
LEMMA ClientSetsShapeInv ==
  ASSUME WinInv(win), ClientSetsShape
  PROVE  WinInv(win')
<1> DEFINE w == win
           r == win'
<1>1. r = [w EXCEPT !.xshaped = ~@, !.clientSteps = @ + 1,
                    !.queue = IF w.shapeSelected THEN Append(@, "shape") ELSE @]
  BY DEF ClientSetsShape
<1>2. WinTypes(w) /\ Ordered(w) /\ Placed(w) /\ Sized(w) /\ Faded(w) /\ Following(w)
  BY DEF WinInv
<1> SUFFICES WinInv(r)
  OBVIOUS
<1> HIDE DEF w, r
<1>3. /\ DOMAIN r = WinFields /\ Same(r, w, {"xshaped", "clientSteps", "queue"}) /\ r.xshaped = ~w.xshaped
      /\ r.queue = IF w.shapeSelected THEN Append(w.queue, "shape") ELSE w.queue
  BY <1>1, <1>2 DEF WinTypes, WinFields, Same
<1>4. /\ r.props = w.props /\ r.composited = w.composited /\ r.actor = w.actor /\ r.shadow = w.shadow
      /\ r.todo = w.todo /\ r.selected = w.selected
      /\ r.shapeSelected = w.shapeSelected /\ r.inConstructor = w.inConstructor /\ r.override = w.override
      /\ r.using = w.using /\ r.state = w.state /\ r.size = w.size /\ r.type = w.type /\ r.shaped = w.shaped
      /\ r.mask = w.mask /\ r.x = w.x /\ r.xx = w.xx /\ r.width = w.width /\ r.xwidth = w.xwidth
      /\ r.opacity = w.opacity /\ r.urgent = w.urgent /\ r.transient = w.transient
  BY <1>3 DEF Same, WinFields
<1>5. /\ r.queue \in Seq(WindowProperties \cup {"shape"}) /\ (w.shapeSelected => Queued(r, "shape"))
      /\ \A e : Queued(w, e) => Queued(r, e)
  <2>1. CASE w.shapeSelected
    BY <1>2, <1>3, <2>1, QueuedLast
  <2>2. CASE ~w.shapeSelected
    <3>1. r.queue = w.queue
      BY <1>3, <2>2
    <3> QED
      BY <1>2, <2>2, <3>1 DEF WinTypes, Queued
  <2> QED
    BY <2>1, <2>2
<1>6. r.xshaped \in BOOLEAN
  BY <1>3
<1>7. WinTypes(r)
  BY <1>2, <1>3, <1>4, <1>5, <1>6 DEF WinTypes
<1>8. Ordered(r) /\ Placed(r) /\ Sized(r) /\ Faded(r)
  BY <1>2, <1>4 DEF Ordered, Placed, Sized, Faded
<1>9. Following(r)
  <2>1. \A q : Pending(r, q) <=> Pending(w, q)
    BY <1>4 DEF Pending
  <2>2. \A q \in Followed : Right(w, q) => Right(r, q)
    BY <1>4 DEF Right
  <2>3. Pending(r, "shaped") \/ Queued(r, "shape")
    <3>1. CASE w.shapeSelected
      BY <1>5, <3>1
    <3>2. CASE ~w.shapeSelected
      <4>1. w.todo = ConstructorRequests \/ w.todo = Tail(ConstructorRequests)
        BY <1>2, <3>2 DEF Ordered
      <4>2. /\ 5 \in DOMAIN ConstructorRequests /\ ConstructorRequests[5] = "shaped"
            /\ 4 \in DOMAIN Tail(ConstructorRequests) /\ Tail(ConstructorRequests)[4] = "shaped"
        BY DEF ConstructorRequests
      <4> QED
        BY <2>1, <4>1, <4>2 DEF Pending
    <3> QED
      BY <3>1, <3>2
  <2>4. \A q \in Followed : Pending(r, q) \/ Queued(r, q) \/ Right(r, q)
    BY <1>2, <1>5, <2>1, <2>2 DEF Following
  <2>5. Should(r) = Should(w)
    BY <1>4 DEF Should
  <2> QED
    BY <1>2, <1>4, <2>1, <2>3, <2>4, <2>5 DEF Following
<1> QED
  BY <1>7, <1>8, <1>9 DEF WinInv

\* An event is handled by asking for what it is about.
LEMMA WinHandleEventInv ==
  ASSUME WinInv(win), WinHandleEvent
  PROVE  WinInv(win')
<1> DEFINE w == win
           r == win'
           e == Head(w.queue)
           asked == IF e = "shape" THEN HandleShapeNotify ELSE HandlePropertyNotify(e)
<1>1. w.todo = <<>> /\ w.queue # <<>> /\ r = [w EXCEPT !.queue = Tail(@), !.todo = asked]
  BY DEF WinHandleEvent
<1>2. WinTypes(w) /\ Placed(w) /\ Sized(w) /\ Faded(w) /\ Following(w)
  BY DEF WinInv
<1>3. /\ w.inConstructor = FALSE /\ w.selected = TRUE /\ w.shapeSelected = TRUE
      /\ \A q : ~Pending(w, q)
      /\ w.x = w.xx /\ w.width = w.xwidth /\ w.using = Should(w)
  BY <1>1, Settled
<1>4. /\ e \in WindowProperties \cup {"shape"} /\ Tail(w.queue) \in Seq(WindowProperties \cup {"shape"})
      /\ \A f : (\E i \in DOMAIN w.queue : w.queue[i] = f) => f = e \/ \E i \in DOMAIN Tail(w.queue) : Tail(w.queue)[i] = f
  <2> DEFINE s == w.queue
             S == WindowProperties \cup {"shape"}
             t == Tail(s)
  <2>1. s \in Seq(S) /\ s # <<>>
    BY <1>1, <1>2 DEF WinTypes
  <2> HIDE DEF s, S
  <2>2. /\ Head(s) \in S /\ t \in Seq(S) /\ Len(t) = Len(s) - 1
        /\ \A i \in 1 .. Len(t) : t[i] = s[i + 1]
    BY <2>1, HeadTailProperties, Zenon
  <2>3. s[1] = Head(s)
    BY <2>1
  <2>4. Len(s) \in Nat /\ DOMAIN s = 1..Len(s) /\ Len(s) # 0 /\ DOMAIN t = 1..Len(t)
    BY <2>1, <2>2, LenProperties, EmptySeq
  <2> HIDE DEF t
  <2>5. ASSUME NEW f, NEW i \in DOMAIN s, s[i] = f
        PROVE  f = Head(s) \/ \E j \in DOMAIN t : t[j] = f
    <3>1. CASE i = 1
      BY <2>3, <2>5, <3>1
    <3>2. CASE i # 1
      <4> DEFINE k == i - 1
      <4>1. k \in 1..Len(t) /\ i = k + 1
        BY <2>2, <2>4, <3>2
      <4> HIDE DEF k
      <4>2. t[k] = f
        BY <2>2, <2>5, <4>1
      <4> QED
        BY <2>4, <4>1, <4>2
    <3> QED
      BY <3>1, <3>2
  <2> QED
    BY <2>2, <2>5 DEF s, S, t
<1>5. /\ asked \in Seq(Requests)
      /\ asked \in {<<"shaped", "region">>, <<e>>, <<>>}
      /\ e = "shape" => asked = <<"shaped", "region">>
      /\ e # "shape" => asked \in {<<e>>, <<>>}
      /\ e \in Followed => asked = <<e>>
  <2>1. WindowProperties = {"type", "opacity", "size", "protocols", "state", "chrome", "transient", "hints"}
    BY DEF WindowProperties, PropertyValues
  <2>2. e # "shape" => e \in Requests
    BY <1>4, <2>1 DEF Requests
  <2>3. CASE e = "shape"
    <3>1. asked = <<"shaped", "region">>
      BY <2>3 DEF HandleShapeNotify
    <3>2. <<"shaped", "region">> \in Seq(Requests) /\ e \notin Followed
      BY <2>3 DEF Requests, Followed
    <3> QED
      BY <2>3, <3>1, <3>2
  <2>4. CASE e # "shape"
    <3> HIDE DEF e
    <3>1. asked = IF e \in {"protocols", "chrome"} THEN <<>> ELSE <<e>>
      BY <2>4 DEF HandlePropertyNotify
    <3>2. <<>> \in Seq(Requests) /\ <<e>> \in Seq(Requests)
      BY <2>2, <2>4
    <3>3. e \in Followed => e \notin {"protocols", "chrome"}
      BY DEF Followed
    <3> HIDE DEF asked
    <3> QED
      BY <2>4, <3>1, <3>2, <3>3
  <2> QED
    BY <2>3, <2>4
<1> SUFFICES WinInv(r)
  OBVIOUS
<1> HIDE DEF w, r, e, asked
<1>6. /\ DOMAIN r = WinFields /\ Same(r, w, {"queue", "todo"}) /\ r.queue = Tail(w.queue) /\ r.todo = asked
  BY <1>1, <1>2 DEF WinTypes, WinFields, Same
<1>7. /\ r.props = w.props /\ r.composited = w.composited /\ r.actor = w.actor /\ r.shadow = w.shadow
      /\ r.xshaped = w.xshaped /\ r.selected = w.selected
      /\ r.shapeSelected = w.shapeSelected /\ r.inConstructor = w.inConstructor /\ r.override = w.override
      /\ r.using = w.using /\ r.state = w.state /\ r.size = w.size /\ r.type = w.type /\ r.shaped = w.shaped
      /\ r.mask = w.mask /\ r.x = w.x /\ r.xx = w.xx /\ r.width = w.width /\ r.xwidth = w.xwidth
      /\ r.opacity = w.opacity /\ r.urgent = w.urgent /\ r.transient = w.transient
  BY <1>6 DEF Same, WinFields
<1>8. WinTypes(r)
  BY <1>2, <1>4, <1>5, <1>6, <1>7 DEF WinTypes
<1>9. Placed(r) /\ Sized(r) /\ Faded(r)
  BY <1>2, <1>7 DEF Placed, Sized, Faded
<1>10. /\ \A i \in DOMAIN asked :
            asked[i] = "shaped" => i + 1 \in DOMAIN asked /\ asked[i + 1] = "region"
       /\ \A i \in DOMAIN asked : asked[i] = "region" => i = 1 \/ asked[i - 1] = "shaped"
       /\ (e = "shape" => 1 \in DOMAIN asked /\ asked[1] = "shaped")
       /\ (e \in Followed => 1 \in DOMAIN asked /\ asked[1] = e)
       /\ (e # "shape" => \A i \in DOMAIN asked : asked[i] # "region")
  <2>1. e # "shape" => e # "shaped" /\ e # "region"
    BY <1>4 DEF WindowProperties, PropertyValues
  <2>2. e \in Followed => e # "shape"
    BY DEF Followed
  <2>3. CASE e = "shape"
    BY <1>5, <2>2, <2>3
  <2>4. CASE e # "shape"
    <3>1. CASE asked = <<>>
      <4>1. e \notin Followed
        BY <1>5, <3>1
      <4> QED
        BY <2>4, <3>1, <4>1
    <3>2. CASE asked = <<e>>
      BY <2>1, <2>4, <3>2
    <3> QED
      BY <1>5, <2>4, <3>1, <3>2
  <2> QED
    BY <2>3, <2>4
<1>11. Ordered(r)
  BY <1>3, <1>6, <1>7, <1>10 DEF Ordered
<1>12. Following(r)
  <2>1. \A f : Queued(w, f) => f = e \/ Queued(r, f)
    BY <1>4, <1>6 DEF Queued
  <2>2. \A p \in Followed : Right(w, p) => Right(r, p)
    BY <1>7 DEF Right
  <2>3. /\ (e \in Followed => Pending(r, e)) /\ (e = "shape" => Pending(r, "shaped"))
        /\ (e # "shape" => ~Pending(r, "region"))
    BY <1>6, <1>10 DEF Pending
  <2>4. \A p \in Followed : Pending(r, p) \/ Queued(r, p) \/ Right(r, p)
    BY <1>2, <1>3, <2>1, <2>2, <2>3 DEF Following
  <2>5. Queued(w, "shape") \/ (w.shaped = w.xshaped /\ w.mask = w.xshaped)
    BY <1>2, <1>3 DEF Following
  <2>6. Should(r) = Should(w)
    BY <1>7 DEF Should
  <2> QED
    BY <1>3, <1>7, <2>1, <2>3, <2>4, <2>5, <2>6 DEF Following
<1> QED
  BY <1>8, <1>9, <1>11, <1>12 DEF WinInv

\* What the window manager writes itself comes back as an event.
LEMMA WrittenInv ==
  ASSUME NEW w, WinInv(w), w.todo = <<>>, NEW u, WinTypes(u), Same(u, w, {"state", "chrome"}),
         NEW q \in {"state", "chrome"}, q = "chrome" => u.state = w.state,
         NEW value, q = "state" => value \in (SUBSET StateAtoms) \cup {Unset}
  PROVE  WinInv(Notify([u EXCEPT !.props[q] = value], q))
<1> DEFINE o == [u EXCEPT !.props[q] = value]
           r == Notify(o, q)
<1>0. WinTypes(w) /\ Placed(w) /\ Sized(w) /\ Faded(w)
  BY DEF WinInv
<1>1. /\ w.selected = TRUE /\ w.x = w.xx /\ w.width = w.xwidth /\ w.using = Should(w)
  BY Settled
<1>2. /\ DOMAIN o = WinFields /\ Same(o, u, {"props"}) /\ o.props = [u.props EXCEPT ![q] = value]
  BY DEF WinTypes, WinFields, Same
<1>3. r = [o EXCEPT !.queue = IF o.selected THEN Append(@, q) ELSE @]
  BY DEF Notify
<1> SUFFICES WinInv(r)
  OBVIOUS
<1> HIDE DEF o, r
<1>4. /\ DOMAIN r = WinFields /\ Same(r, u, {"props", "queue"}) /\ r.props = [u.props EXCEPT ![q] = value]
      /\ r.queue = Append(w.queue, q)
  BY <1>1, <1>2, <1>3 DEF Same, WinFields
<1>5. /\ r.composited = w.composited /\ r.actor = w.actor /\ r.shadow = w.shadow
      /\ r.todo = w.todo /\ r.xshaped = w.xshaped /\ r.selected = w.selected
      /\ r.shapeSelected = w.shapeSelected /\ r.inConstructor = w.inConstructor /\ r.override = w.override
      /\ r.using = w.using /\ r.size = w.size /\ r.type = w.type /\ r.shaped = w.shaped
      /\ r.mask = w.mask /\ r.x = w.x /\ r.xx = w.xx /\ r.width = w.width /\ r.xwidth = w.xwidth
      /\ r.opacity = w.opacity /\ r.urgent = w.urgent /\ r.transient = w.transient
      /\ r.state = u.state /\ u.props = w.props
      /\ Same(r, w, {"props", "queue", "state", "chrome"})
  BY <1>4 DEF Same, WinFields
<1>6. WindowProperties = {"type", "opacity", "size", "protocols", "state", "chrome", "transient", "hints"}
  BY DEF WindowProperties, PropertyValues
<1>7. /\ DOMAIN w.props = WindowProperties /\ DOMAIN r.props = WindowProperties
      /\ r.props[q] = value /\ \A p \in WindowProperties \ {q} : r.props[p] = w.props[p]
  BY <1>0, <1>4, <1>5, <1>6 DEF WinTypes
<1>8. /\ r.queue \in Seq(WindowProperties \cup {"shape"}) /\ Queued(r, q)
      /\ \A e : Queued(w, e) => Queued(r, e)
  BY <1>0, <1>4, <1>6, QueuedLast
<1>9. r.props.state \in (SUBSET StateAtoms) \cup {Unset} /\ r.props.size \in AnySizeHints \cup {Unset}
  <2>1. w.props.state \in (SUBSET StateAtoms) \cup {Unset} /\ w.props.size \in AnySizeHints \cup {Unset}
    BY <1>0 DEF WinTypes
  <2>2. r.props.size = w.props.size
    BY <1>6, <1>7
  <2>3. CASE q = "state"
    BY <1>7, <2>1, <2>2, <2>3
  <2>4. CASE q = "chrome"
    <3>1. r.props.state = w.props.state
      BY <1>6, <1>7, <2>4
    <3> QED
      BY <2>1, <2>2, <3>1
  <2> QED
    BY <2>3, <2>4
<1>10. WinTypes(r)
  <2>1. u.state \in SUBSET StateAtoms
    BY DEF WinTypes
  <2> QED
    BY <1>0, <1>4, <1>5, <1>7, <1>8, <1>9, <2>1 DEF WinTypes
<1>11. Placed(r) /\ Sized(r) /\ Faded(r) /\ Should(r) = Should(w)
  BY <1>0, <1>5 DEF Placed, Sized, Faded, Should
<1>12. \A p \in Followed : Queued(r, p) \/ (Right(w, p) => Right(r, p))
  <2>1. \A p \in Followed : p # q => (Right(w, p) => Right(r, p))
    <3>1. CASE q = "state"
      BY <1>5, <1>6, <1>7, <3>1 DEF Right, Followed
    <3>2. CASE q = "chrome"
      <4>1. r.state = w.state
        BY <1>5, <3>2
      <4> QED
        BY <1>5, <1>6, <1>7, <3>2, <4>1 DEF Right, Followed
    <3> QED
      BY <3>1, <3>2
  <2> QED
    BY <1>8, <2>1
<1>13. /\ r.x = r.xx /\ r.width = r.xwidth /\ r.using = Should(r)
       /\ Same(r, w, {"props", "queue", "state", "x", "xx", "width", "xwidth", "composited", "using", "shadow",
                      "actor", "shadowOpacity", "chrome", "mapped"})
  BY <1>1, <1>5, <1>11 DEF Same
<1> QED
  BY <1>8, <1>10, <1>11, <1>12, <1>13, CalledInv

\* UpdateWmStateProperty() after any change of the state.
LEMMA StateWritten ==
  ASSUME NEW w, WinInv(w), w.todo = <<>>, NEW atoms \in SUBSET StateAtoms
  PROVE  WinInv(UpdateWmStateProperty([w EXCEPT !.state = atoms]))
<1> DEFINE u == [w EXCEPT !.state = atoms]
           value == IF u.state = {} THEN Unset ELSE u.state
<1>0. WinTypes(w) /\ Placed(w) /\ Sized(w) /\ Faded(w)
  BY DEF WinInv
<1>1. DOMAIN u = WinFields /\ Same(u, w, {"state"}) /\ u.state = atoms
  BY <1>0 DEF WinTypes, WinFields, Same
<1>2. UpdateWmStateProperty(u) = IF value = Unset /\ u.props.state = Unset THEN u
                                 ELSE Notify([u EXCEPT !.props["state"] = value], "state")
  BY DEF UpdateWmStateProperty
<1> SUFFICES WinInv(UpdateWmStateProperty(u))
  OBVIOUS
<1> HIDE DEF u
<1>3. WinTypes(u) /\ Placed(u) /\ Sized(u) /\ Faded(u)
  <2>1. WinTypes(u)
    BY <1>0, <1>1 DEF WinTypes, Same, WinFields
  <2>2. Placed(u) /\ Sized(u) /\ Faded(u)
    BY <1>0, <1>1 DEF Placed, Sized, Faded, Same, WinFields
  <2> QED
    BY <2>1, <2>2
<1>4. value \in (SUBSET StateAtoms) \cup {Unset} /\ (value = Unset => u.state = {})
  BY <1>1, WindowAssumption
<1> HIDE DEF value
<1>5. CASE value = Unset /\ u.props.state = Unset
  <2>1. u.state = {} /\ UpdateWmStateProperty(u) = u
    BY <1>2, <1>4, <1>5
  <2>2. /\ w.x = w.xx /\ w.width = w.xwidth /\ w.using = Should(w)
    BY Settled
  <2>3. u.x = u.xx /\ u.width = u.xwidth /\ u.using = Should(u)
    BY <1>1, <2>2 DEF Same, WinFields, Should
  <2>4. /\ \A e : Queued(w, e) => Queued(u, e)
        /\ \A p \in Followed : Queued(u, p) \/ (Right(w, p) => Right(u, p))
    BY <1>1, <1>5, <2>1 DEF Same, WinFields, Queued, Right
  <2>5. Same(u, w, {"props", "queue", "state", "x", "xx", "width", "xwidth", "composited", "using", "shadow",
                    "actor", "shadowOpacity", "chrome", "mapped"})
    BY <1>1 DEF Same
  <2>6. WinInv(u)
    BY <1>3, <2>3, <2>4, <2>5, CalledInv
  <2> QED
    BY <2>1, <2>6
<1>6. CASE ~(value = Unset /\ u.props.state = Unset)
  <2>1. Same(u, w, {"state", "chrome"})
    BY <1>1 DEF Same
  <2>2. WinInv(Notify([u EXCEPT !.props["state"] = value], "state"))
    BY <1>3, <1>4, <2>1, WrittenInv
  <2> QED
    BY <1>2, <1>6, <2>2
<1> QED
  BY <1>5, <1>6

\* ChangeChromeState() writes what the window manager then knows.
LEMMA ChromeWritten ==
  ASSUME NEW w, WinInv(w), w.todo = <<>>, NEW add \in BOOLEAN
  PROVE  WinInv(ChangeChromeState(w, add))
<1> DEFINE u == [w EXCEPT !.chrome = IF add THEN @ \cup {"collapsed"} ELSE @ \ {"collapsed"}]
           value == IF u.chrome = {} THEN Unset ELSE u.chrome
<1>0. WinTypes(w)
  BY DEF WinInv
<1>1. DOMAIN u = WinFields /\ Same(u, w, {"chrome"})
  BY <1>0 DEF WinTypes, WinFields, Same
<1>2. ChangeChromeState(w, add) =
        IF value = Unset /\ u.props.chrome = Unset THEN u
        ELSE Notify([u EXCEPT !.props["chrome"] = value], "chrome")
  BY DEF ChangeChromeState, UpdateChromeStateProperty
<1> HIDE DEF u, value
<1>3. WinInv(u)
  <2>1. Same(u, w, {"mapped", "protocols", "chrome", "shadowOpacity", "clientSteps", "calls"})
    BY <1>1 DEF Same
  <2> QED
    BY <1>1, <2>1, FrameInv
<1>4. WinInv(Notify([u EXCEPT !.props["chrome"] = value], "chrome"))
  <2>1. Same(u, w, {"state", "chrome"}) /\ u.state = w.state
    BY <1>1 DEF Same, WinFields
  <2>2. WinTypes(u)
    BY <1>3 DEF WinInv
  <2> QED
    BY <2>1, <2>2, WrittenInv
<1> QED
  BY <1>2, <1>3, <1>4

\* Calls that place the client, the actor or the shadow.
LEMMA PlacedInv ==
  ASSUME NEW w, WinInv(w), w.todo = <<>>, NEW r, WinTypes(r), Placed(r), Sized(r), Faded(r),
         Same(r, w, {"x", "xx", "width", "xwidth", "composited", "shadow", "actor", "shadowOpacity", "mapped"}),
         r.x = r.xx, r.width = r.xwidth
  PROVE  WinInv(r)
<1>1. w.using = Should(w)
  BY Settled
<1>2. r.using = Should(r)
  BY <1>1 DEF Same, WinFields, Should
<1>3. /\ \A e : Queued(w, e) => Queued(r, e)
      /\ \A p \in Followed : Queued(r, p) \/ (Right(w, p) => Right(r, p))
  BY DEF Same, WinFields, Queued, Right
<1>4. Same(r, w, {"props", "queue", "state", "x", "xx", "width", "xwidth", "composited", "using", "shadow",
                  "actor", "shadowOpacity", "chrome", "mapped"})
  BY DEF Same
<1> QED
  BY <1>2, <1>3, <1>4, CalledInv

\* ShowComposited(), HideComposited(), SetCompositedOpacity(), SetShadowOpacity() and ScaleComposited().
LEMMA ActorInv ==
  ASSUME NEW w, WinInv(w), w.todo = <<>>, NEW opacity, NEW scale
  PROVE  /\ WinInv(ShowComposited(w)) /\ WinInv(HideComposited(w)) /\ WinInv(SetCompositedOpacity(w, opacity))
         /\ WinInv(SetShadowOpacity(w, opacity)) /\ WinInv(ScaleComposited(w, scale))
<1>0. WinTypes(w) /\ Placed(w) /\ Sized(w) /\ Faded(w)
  BY DEF WinInv
<1>1. w.x = w.xx /\ w.width = w.xwidth
  BY Settled
\* What these calls have in common.
<1>2. ASSUME NEW r, DOMAIN r = WinFields, Same(r, w, {"composited", "shadow", "actor", "shadowOpacity"}),
             DOMAIN r.composited = DOMAIN w.composited, DOMAIN r.actor = DOMAIN w.actor,
             DOMAIN r.shadow = DOMAIN w.shadow, r.composited.shown \in BOOLEAN,
             Placed(r), Sized(r), Faded(r)
      PROVE  WinInv(r)
  <2>1. /\ r.props = w.props /\ r.todo = w.todo /\ r.queue = w.queue /\ r.xshaped = w.xshaped
        /\ r.selected = w.selected /\ r.shapeSelected = w.shapeSelected /\ r.inConstructor = w.inConstructor
        /\ r.override = w.override /\ r.shaped = w.shaped /\ r.mask = w.mask /\ r.using = w.using
        /\ r.state = w.state /\ r.size = w.size
        /\ r.x = w.x /\ r.xx = w.xx /\ r.width = w.width /\ r.xwidth = w.xwidth
    BY <1>2 DEF Same, WinFields
  <2>2. WinTypes(r)
    BY <1>0, <1>2, <2>1 DEF WinTypes
  <2>3. Same(r, w, {"x", "xx", "width", "xwidth", "composited", "shadow", "actor", "shadowOpacity", "mapped"})
    BY <1>2 DEF Same
  <2> QED
    BY <1>1, <1>2, <2>1, <2>2, <2>3, PlacedInv
<1>3. ASSUME NEW shown \in BOOLEAN, NEW r,
             r = LET v == [w EXCEPT !.actor.shown = shown, !.composited.shown = shown]
                 IN  IF w.using THEN [v EXCEPT !.shadow.shown = shown] ELSE v
      PROVE  WinInv(r)
  <2> DEFINE v == [w EXCEPT !.actor.shown = shown, !.composited.shown = shown]
  <2>1. /\ DOMAIN v = WinFields /\ Same(v, w, {"actor", "composited"})
        /\ v.actor = [w.actor EXCEPT !.shown = shown] /\ v.composited = [w.composited EXCEPT !.shown = shown]
    BY <1>0 DEF WinTypes, Same, WinFields
  <2>2. r = IF w.using THEN [v EXCEPT !.shadow.shown = shown] ELSE v
    BY <1>3
  <2> HIDE DEF v
  <2>3. /\ DOMAIN r = WinFields /\ Same(r, w, {"actor", "composited", "shadow"})
        /\ r.actor = [w.actor EXCEPT !.shown = shown] /\ r.composited = [w.composited EXCEPT !.shown = shown]
        /\ r.shadow = IF w.using THEN [w.shadow EXCEPT !.shown = shown] ELSE w.shadow
    BY <2>1, <2>2 DEF Same, WinFields
  <2>4. r.using = w.using /\ r.opacity = w.opacity /\ r.width = w.width /\ w.using \in BOOLEAN
    BY <1>0, <2>3 DEF Same, WinFields, WinTypes
  <2>5. /\ DOMAIN r.composited = DOMAIN w.composited /\ DOMAIN r.actor = DOMAIN w.actor
        /\ r.composited.x = w.composited.x /\ r.actor.x = w.actor.x
        /\ r.composited.shown = shown /\ r.actor.shown = shown
        /\ r.composited.scale = w.composited.scale /\ r.composited.opacity = w.composited.opacity
        /\ r.actor.opacity = w.actor.opacity /\ r.actor.width = w.actor.width
    BY <1>0, <2>3 DEF WinTypes
  <2>6. /\ DOMAIN r.shadow = DOMAIN w.shadow /\ r.shadow.x = w.shadow.x /\ r.shadow.width = w.shadow.width
        /\ r.shadow.shown = (w.using /\ shown)
    <3>1. CASE w.using
      BY <1>0, <2>3, <3>1 DEF WinTypes
    <3>2. CASE ~w.using
      <4>1. w.shadow.shown = FALSE
        BY <1>0, <3>2 DEF Placed
      <4> QED
        BY <2>3, <3>2, <4>1
    <3> QED
      BY <3>1, <3>2
  <2>7. Placed(r) /\ Sized(r) /\ Faded(r)
    BY <1>0, <2>4, <2>5, <2>6 DEF Placed, Sized, Faded
  <2>8. Same(r, w, {"composited", "shadow", "actor", "shadowOpacity"})
    BY <2>3 DEF Same
  <2> QED
    BY <1>2, <2>3, <2>5, <2>6, <2>7, <2>8
<1>4. WinInv(ShowComposited(w)) /\ WinInv(HideComposited(w))
  BY <1>3 DEF ShowComposited, HideComposited, ShadowShow, ShadowHide
<1>5. WinInv(SetCompositedOpacity(w, opacity))
  <2> DEFINE combined == opacity * w.opacity
             r == SetCompositedOpacity(w, opacity)
  <2>1. /\ DOMAIN r = WinFields /\ Same(r, w, {"composited", "shadowOpacity", "actor", "shadow"})
        /\ r.composited = [w.composited EXCEPT !.opacity = opacity]
        /\ r.actor = [w.actor EXCEPT !.opacity = combined] /\ r.shadow = [w.shadow EXCEPT !.opacity = combined]
    BY <1>0 DEF SetCompositedOpacity, WinTypes, Same, WinFields
  <2> HIDE DEF r
  <2>2. r.using = w.using /\ r.opacity = w.opacity /\ r.width = w.width
    BY <2>1 DEF Same, WinFields
  <2>3. /\ DOMAIN r.composited = DOMAIN w.composited /\ DOMAIN r.actor = DOMAIN w.actor /\ DOMAIN r.shadow = DOMAIN w.shadow
        /\ r.composited.x = w.composited.x /\ r.actor.x = w.actor.x /\ r.shadow.x = w.shadow.x
        /\ r.composited.shown = w.composited.shown /\ r.actor.shown = w.actor.shown /\ r.shadow.shown = w.shadow.shown
        /\ r.composited.scale = w.composited.scale /\ r.composited.opacity = opacity
        /\ r.actor.opacity = combined /\ r.actor.width = w.actor.width /\ r.shadow.width = w.shadow.width
        /\ w.composited.shown \in BOOLEAN
    BY <1>0, <2>1 DEF WinTypes
  <2>4. Placed(r) /\ Sized(r) /\ Faded(r)
    BY <1>0, <2>2, <2>3 DEF Placed, Sized, Faded
  <2>6. Same(r, w, {"composited", "shadow", "actor", "shadowOpacity"})
    BY <2>1 DEF Same
  <2>5. WinInv(r)
    BY <1>2, <2>1, <2>3, <2>4, <2>6
  <2> QED
    BY <2>5 DEF r
<1>6. WinInv(SetShadowOpacity(w, opacity))
  <2> DEFINE r == SetShadowOpacity(w, opacity)
  <2>1. /\ DOMAIN r = WinFields /\ Same(r, w, {"shadowOpacity", "shadow"})
        /\ r.shadow = [w.shadow EXCEPT !.opacity = opacity]
    BY <1>0 DEF SetShadowOpacity, WinTypes, Same, WinFields
  <2> HIDE DEF r
  <2>2. /\ r.using = w.using /\ r.opacity = w.opacity /\ r.width = w.width /\ r.composited = w.composited
        /\ r.actor = w.actor /\ w.composited.shown \in BOOLEAN
    BY <1>0, <2>1 DEF Same, WinFields, WinTypes
  <2>3. /\ DOMAIN r.shadow = DOMAIN w.shadow /\ r.shadow.x = w.shadow.x
        /\ r.shadow.shown = w.shadow.shown /\ r.shadow.width = w.shadow.width
    BY <1>0, <2>1 DEF WinTypes
  <2>4. Placed(r) /\ Sized(r) /\ Faded(r)
    BY <1>0, <2>2, <2>3 DEF Placed, Sized, Faded
  <2>6. Same(r, w, {"composited", "shadow", "actor", "shadowOpacity"})
    BY <2>1 DEF Same
  <2>5. WinInv(r)
    BY <1>2, <2>1, <2>2, <2>3, <2>4, <2>6
  <2> QED
    BY <2>5 DEF r
<1>7. WinInv(ScaleComposited(w, scale))
  <2> DEFINE v == [w EXCEPT !.composited.scale = scale, !.actor.scale = scale]
             r == ScaleComposited(w, scale)
  <2>1. /\ DOMAIN v = WinFields /\ Same(v, w, {"composited", "actor"})
        /\ v.composited = [w.composited EXCEPT !.scale = scale] /\ v.actor = [w.actor EXCEPT !.scale = scale]
    BY <1>0 DEF WinTypes, Same, WinFields
  <2>2. r = [v EXCEPT !.shadow.width = Truncate(v.composited.scale * v.width)]
    BY DEF ScaleComposited, ShadowResize
  <2> HIDE DEF v, r
  <2>3. /\ DOMAIN r = WinFields /\ Same(r, w, {"composited", "actor", "shadow"})
        /\ r.composited = [w.composited EXCEPT !.scale = scale] /\ r.actor = [w.actor EXCEPT !.scale = scale]
        /\ r.shadow = [w.shadow EXCEPT !.width = Truncate(r.composited.scale * w.width)]
    BY <2>1, <2>2 DEF Same, WinFields
  <2>4. r.using = w.using /\ r.opacity = w.opacity /\ r.width = w.width
    BY <2>3 DEF Same, WinFields
  <2>5. /\ DOMAIN r.composited = DOMAIN w.composited /\ DOMAIN r.actor = DOMAIN w.actor /\ DOMAIN r.shadow = DOMAIN w.shadow
        /\ r.composited.x = w.composited.x /\ r.actor.x = w.actor.x /\ r.shadow.x = w.shadow.x
        /\ r.composited.shown = w.composited.shown /\ r.actor.shown = w.actor.shown /\ r.shadow.shown = w.shadow.shown
        /\ r.composited.opacity = w.composited.opacity
        /\ r.actor.opacity = w.actor.opacity /\ r.actor.width = w.actor.width
        /\ r.shadow.width = Truncate(r.composited.scale * w.width)
        /\ w.composited.shown \in BOOLEAN
    BY <1>0, <2>3 DEF WinTypes
  <2>6. Placed(r) /\ Sized(r) /\ Faded(r)
    BY <1>0, <2>4, <2>5 DEF Placed, Sized, Faded
  <2>7. Same(r, w, {"composited", "shadow", "actor", "shadowOpacity"})
    BY <2>3 DEF Same
  <2>8. WinInv(r)
    BY <1>2, <2>3, <2>5, <2>6, <2>7
  <2> QED
    BY <2>8 DEF r
<1> QED
  BY <1>4, <1>5, <1>6, <1>7

\* The moves and resizes.
LEMMA MovedInv ==
  ASSUME NEW w, WinInv(w), w.todo = <<>>, NEW x
  PROVE  WinInv(MoveClient(w, x)) /\ WinInv(MoveComposited(w, x))
<1>0. WinTypes(w) /\ Placed(w) /\ Sized(w) /\ Faded(w)
  BY DEF WinInv
<1>1. w.x = w.xx /\ w.width = w.xwidth
  BY Settled
<1>2. WinInv(MoveClient(w, x))
  <2> DEFINE r == MoveClient(w, x)
  <2>1. WinTypes(r) /\ r.x = x /\ r.xx = x /\ Same(r, w, {"x", "xx"})
    BY <1>0, ClientMoved
  <2> HIDE DEF r
  <2>2. Placed(r) /\ Sized(r) /\ Faded(r) /\ r.width = r.xwidth
    BY <1>0, <1>1, <2>1 DEF Placed, Sized, Faded, Same, WinFields
  <2>3. Same(r, w, {"x", "xx", "width", "xwidth", "composited", "shadow", "actor", "shadowOpacity", "mapped"})
    BY <2>1 DEF Same
  <2>4. WinInv(r)
    BY <2>1, <2>2, <2>3, PlacedInv
  <2> QED
    BY <2>4 DEF r
<1>3. WinInv(MoveComposited(w, x))
  <2> DEFINE r == MoveComposited(w, x)
  <2>1. WinTypes(r) /\ Placed(r) /\ Sized(r) /\ Faded(r) /\ Same(r, w, {"composited", "actor", "shadow"})
    BY <1>0, CompositedMoved
  <2> HIDE DEF r
  <2>2. r.x = r.xx /\ r.width = r.xwidth
    BY <1>1, <2>1 DEF Same, WinFields
  <2>3. Same(r, w, {"x", "xx", "width", "xwidth", "composited", "shadow", "actor", "shadowOpacity", "mapped"})
    BY <2>1 DEF Same
  <2>4. WinInv(r)
    BY <2>1, <2>2, <2>3, PlacedInv
  <2> QED
    BY <2>4 DEF r
<1> QED
  BY <1>2, <1>3

\* ResizeClient() resizes X window, actor and shadow.
LEMMA ResizedInv ==
  ASSUME NEW w, WinInv(w), w.todo = <<>>, NEW width, NEW east \in BOOLEAN
  PROVE  WinInv(ResizeClient(w, width, east))
<1>0. WinTypes(w) /\ Placed(w) /\ Sized(w) /\ Faded(w)
  BY DEF WinInv
<1>1. w.x = w.xx /\ w.width = w.xwidth
  BY Settled
<1>4. WinInv(ResizeClient(w, width, east))
  <2> DEFINE r == ResizeClient(w, width, east)
  <2>1. /\ WinTypes(r) /\ Placed(r) /\ Sized(r) /\ Faded(r) /\ r.width = r.xwidth /\ r.x = r.xx
        /\ Same(r, w, {"x", "xx", "width", "xwidth", "composited", "actor", "shadow"})
    BY <1>0, <1>1, ClientResized
  <2> HIDE DEF r
  <2>2. Same(r, w, {"x", "xx", "width", "xwidth", "composited", "shadow", "actor", "shadowOpacity", "mapped"})
    BY <2>1 DEF Same
  <2>3. WinInv(r)
    BY <2>1, <2>2, PlacedInv
  <2> QED
    BY <2>3 DEF r
<1> QED
  BY <1>4

\* A method that the rest of the window manager calls keeps the invariant.
LEMMA WinCallInv ==
  ASSUME WinInv(win), WinCall
  PROVE  WinInv(win')
<1>1. PICK r \in WinCalls(win) : win' = [r EXCEPT !.calls = @ + 1]
  BY DEF WinCall
<1>2. win.todo = <<>> /\ WinTypes(win)
  BY DEF WinCall, WinInv
<1>3. \A atoms \in SUBSET StateAtoms : WinInv(UpdateWmStateProperty([win EXCEPT !.state = atoms]))
  BY <1>2, StateWritten
<1>4. WinInv(r)
  <2>1. CASE r \in {ShowComposited(win), HideComposited(win), SetCompositedOpacity(win, 1), SetShadowOpacity(win, 0)}
    BY <1>2, <2>1, ActorInv
  <2>2. CASE r \in {MoveClientOffscreen(win), MoveClientToComposited(win)}
    BY <1>2, <2>2, MovedInv DEF MoveClientOffscreen, MoveClientToComposited
  <2>3. CASE r = [win EXCEPT !.mapped = TRUE]
    <3>1. /\ DOMAIN r = WinFields
          /\ Same(r, win, {"mapped", "protocols", "chrome", "shadowOpacity", "clientSteps", "calls"})
      BY <1>2, <2>3 DEF WinTypes, WinFields, Same
    <3> QED
      BY <3>1, FrameInv
  <2>4. CASE r \in {MoveComposited(win, x) : x \in WindowXs}
    BY <1>2, <2>4, MovedInv
  <2>5. CASE r \in {CenterClientOverWindow(win, [x |-> x, width |-> width]) : x \in WindowXs, width \in WindowWidths}
    BY <1>2, <2>5, MovedInv DEF CenterClientOverWindow
  <2>6. CASE r \in {ScaleComposited(win, s) : s \in Scales}
    BY <1>2, <2>6, ActorInv
  <2>7. CASE r \in {ResizeClient(win, width, east) : width \in WindowWidths, east \in BOOLEAN}
    BY <1>2, <2>7, ResizedInv
  <2>8. CASE r \in {HandleWmStateMessage(win, action, atoms) : action \in 0..2, atoms \in (SUBSET StateAtoms) \ {{}}}
    <3>1. PICK action \in 0..2, atoms \in (SUBSET StateAtoms) \ {{}} : r = HandleWmStateMessage(win, action, atoms)
      BY <2>8
    <3> DEFINE set(state, atom) == IF atom \in atoms THEN SetWmStateInternal(state, action, atom) ELSE state
               now == set(set(win.state, "fullscreen"), "modal")
    <3>2. \A state \in SUBSET StateAtoms, atom \in StateAtoms : set(state, atom) \in SUBSET StateAtoms
      BY DEF SetWmStateInternal
    <3>3. win.state \in SUBSET StateAtoms /\ DOMAIN win = WinFields
      BY <1>2 DEF WinTypes
    <3>4. r = UpdateWmStateProperty([win EXCEPT !.state = now])
      BY <3>1, <3>3 DEF HandleWmStateMessage, WinFields
    <3> HIDE DEF set
    <3>5. now \in SUBSET StateAtoms
      BY <3>2, <3>3 DEF StateAtoms
    <3> HIDE DEF now
    <3> QED
      BY <1>3, <3>4, <3>5
  <2>9. CASE r \in {ChangeWmState(win, atom, add) : atom \in StateAtoms, add \in BOOLEAN}
    <3>1. PICK atom \in StateAtoms, add \in BOOLEAN : r = ChangeWmState(win, atom, add)
      BY <2>9
    <3> DEFINE now == SetWmStateInternal(win.state, IF add THEN 1 ELSE 0, atom)
    <3>2. win.state \in SUBSET StateAtoms /\ DOMAIN win = WinFields
      BY <1>2 DEF WinTypes
    <3>3. now \in SUBSET StateAtoms
      BY <3>2 DEF SetWmStateInternal
    <3>4. r = UpdateWmStateProperty([win EXCEPT !.state = now])
      BY <3>1, <3>2 DEF ChangeWmState, WinFields
    <3> HIDE DEF now
    <3> QED
      BY <1>3, <3>4, <3>3
  <2>10. CASE r \in {ChangeChromeState(win, add) : add \in BOOLEAN}
    BY <1>2, <2>10, ChromeWritten
  <2> QED
    BY <1>1, <2>1, <2>2, <2>3, <2>4, <2>5, <2>6, <2>7, <2>8, <2>9, <2>10 DEF WinCalls
<1>5. /\ DOMAIN win' = WinFields
      /\ Same(win', r, {"mapped", "protocols", "chrome", "shadowOpacity", "clientSteps", "calls"})
  BY <1>1, <1>4 DEF WinInv, WinTypes, WinFields, Same
<1> QED
  BY <1>4, <1>5, FrameInv

\* The next request of a constructor or of a handler keeps the invariant.
LEMMA WinRequestInv ==
  ASSUME WinInv(win), WinRequest
  PROVE  WinInv(win')
<1> DEFINE r == MakeRequest([win EXCEPT !.todo = Tail(@)], Head(win.todo))
<1>1. win.todo # <<>> /\ win' = [r EXCEPT !.inConstructor = @ /\ r.todo # <<>>]
  BY DEF WinRequest
<1>2. Answered(win, r, Head(win.todo))
  BY <1>1, RequestAnswered
<1> HIDE DEF r
<1>3. WinInv([r EXCEPT !.inConstructor = @ /\ r.todo # <<>>])
  BY <1>1, <1>2, AnsweredInv
<1> QED
  BY <1>1, <1>3

\* Before its constructor runs, nothing is known of the window and everything is to be read.
LEMMA WinInitInv ==
  ASSUME WinInit
  PROVE  WinInv(win)
<1>0. PICK override \in BOOLEAN, x \in WindowXs, width \in WindowWidths :
        win = [props |-> [p \in WindowProperties |-> Unset], xshaped |-> FALSE, xx |-> x, xwidth |-> width,
           selected |-> FALSE, shapeSelected |-> FALSE, queue |-> <<>>,
           todo |-> ConstructorRequests, inConstructor |-> TRUE, override |-> override, mapped |-> FALSE,
           type |-> "unknown", opacity |-> 2, size |-> NoSizeHints, protocols |-> {}, state |-> {},
           chrome |-> {}, transient |-> Unset, urgent |-> FALSE, shaped |-> FALSE, mask |-> FALSE,
           x |-> -1, width |-> 1, composited |-> [x |-> -1, scale |-> 2, opacity |-> 2, shown |-> FALSE],
           using |-> FALSE, shadowOpacity |-> 4,
           actor |-> [x |-> -1, width |-> 1, scale |-> 2, opacity |-> 4, shown |-> FALSE],
           shadow |-> [x |-> -1, width |-> 1, opacity |-> 4, shown |-> FALSE],
           clientSteps |-> 0, calls |-> 0]
  BY DEF WinInit
<1>1. /\ DOMAIN win = WinFields /\ win.props = [p \in WindowProperties |-> Unset] /\ win.xshaped = FALSE
      /\ win.selected = FALSE /\ win.shapeSelected = FALSE /\ win.queue = <<>> /\ win.todo = ConstructorRequests
      /\ win.inConstructor = TRUE /\ win.override = override /\ win.type = "unknown" /\ win.opacity = 2
      /\ win.size = NoSizeHints /\ win.state = {} /\ win.shaped = FALSE /\ win.mask = FALSE /\ win.width = 1
      /\ win.composited = [x |-> -1, scale |-> 2, opacity |-> 2, shown |-> FALSE] /\ win.using = FALSE
      /\ win.actor = [x |-> -1, width |-> 1, scale |-> 2, opacity |-> 4, shown |-> FALSE]
      /\ win.shadow = [x |-> -1, width |-> 1, opacity |-> 4, shown |-> FALSE]
  BY <1>0 DEF WinFields
<1>2. /\ ConstructorRequests[1] = "select" /\ ConstructorRequests[2] = "select_shape"
      /\ ConstructorRequests[3] = "geometry" /\ ConstructorRequests[4] = "type"
      /\ ConstructorRequests[5] = "shaped" /\ ConstructorRequests[6] = "region"
      /\ ConstructorRequests[7] = "opacity" /\ ConstructorRequests[8] = "size"
      /\ ConstructorRequests[9] = "protocols" /\ ConstructorRequests[10] = "state"
      /\ ConstructorRequests[11] = "chrome" /\ ConstructorRequests[12] = "transient"
      /\ ConstructorRequests[13] = "hints" /\ DOMAIN ConstructorRequests = 1..13
  BY DEF ConstructorRequests
<1>3. ConstructorRequests \in Seq(Requests)
  BY DEF ConstructorRequests, Requests
<1>4. WinTypes(win)
  <2>1. /\ DOMAIN win.composited = {"x", "scale", "opacity", "shown"} /\ win.composited.shown = FALSE
        /\ DOMAIN win.actor = {"x", "width", "scale", "opacity", "shown"}
        /\ DOMAIN win.shadow = {"x", "width", "opacity", "shown"}
    BY <1>1
  <2>2. win.props.state = Unset /\ win.props.size = Unset /\ DOMAIN win.props = WindowProperties
    BY <1>1 DEF WindowProperties, PropertyValues
  <2>3. NoSizeHints \in AnySizeHints /\ <<>> \in Seq(WindowProperties \cup {"shape"})
    BY DEF NoSizeHints, AnySizeHints
  <2> QED
    BY <1>1, <1>3, <2>1, <2>2, <2>3 DEF WinTypes
<1>5. Placed(win) /\ Sized(win) /\ Faded(win)
  <2>1. Truncate(2 * 1) = 1
    BY DEF Truncate
  <2> QED
    <3>1. Placed(win)
      <4>1. /\ win.shadow.shown = FALSE /\ win.using = FALSE /\ win.actor.shown = FALSE /\ win.composited.shown = FALSE
            /\ win.shadow.x = -1 /\ win.composited.x = -1 /\ win.actor.x = -1
        BY <1>1
      <4> QED
        BY <4>1 DEF Placed
    <3>2. win.composited.scale = 2 /\ win.composited.opacity = 2 /\ win.actor.opacity = 4 /\ 2 * 2 = 4
      BY <1>1
    <3>3. Sized(win)
      BY <1>1, <2>1, <3>2 DEF Sized
    <3>4. Faded(win)
      BY <1>1, <3>2 DEF Faded
    <3> QED
      BY <3>1, <3>3, <3>4
<1>6. Ordered(win)
  <2>1. \A i \in 1..13 : ConstructorRequests[i] = "shaped" => i = 5
    BY <1>2
  <2>2. \A i \in 1..13 : ConstructorRequests[i] = "region" => i = 6
    BY <1>2
  <2>3. \A i \in 1..13 : ConstructorRequests[i] = "type" => i = 4
    BY <1>2
  <2>4. ConstructorRequests # <<>>
    BY StartsWithSelection
  <2>5. \A i \in DOMAIN win.todo :
          win.todo[i] = "shaped" => i + 1 \in DOMAIN win.todo /\ win.todo[i + 1] = "region"
    BY <1>1, <1>2, <2>1
  <2>6. \A i \in DOMAIN win.todo : win.todo[i] = "region" => i = 1 \/ win.todo[i - 1] = "shaped"
    BY <1>1, <1>2, <2>2
  <2>7. \A i \in DOMAIN win.todo :
         win.todo[i] = "type" => \E j \in DOMAIN win.todo : j > i /\ win.todo[j] = "shaped"
    <3>1. 5 \in DOMAIN win.todo /\ win.todo[5] = "shaped"
      BY <1>1, <1>2
    <3> QED
      BY <1>1, <1>2, <2>3, <3>1
  <2> QED
    BY <1>1, <2>4, <2>5, <2>6, <2>7 DEF Ordered
<1>7. Following(win)
  <2>1. \A i \in 1..13 : Pending(win, ConstructorRequests[i])
    BY <1>1, <1>2 DEF Pending
  <2>2. \A p \in Followed : Pending(win, p)
    BY <1>2, <2>1 DEF Followed
  <2>3. Pending(win, "shaped") /\ Pending(win, "region") /\ Pending(win, "geometry")
    BY <1>2, <2>1
  <2> QED
    BY <2>2, <2>3 DEF Following
<1> QED
  BY <1>4, <1>5, <1>6, <1>7 DEF WinInv

\* What division is.
LEMMA DivMod ==
  ASSUME NEW a \in Int, NEW d \in Nat \ {0}
  PROVE  a \div d \in Int /\ a % d \in 0..(d - 1) /\ a = d * (a \div d) + (a % d)
  OBVIOUS

\* A multiple of a number leaves no rest.
LEMMA ModOfProduct ==
  ASSUME NEW q \in Int, NEW d \in Nat \ {0}
  PROVE  (q * d) % d = 0
<1> DEFINE a == q * d
           m == a \div d
           r == a % d
<1>1. a \in Int
  OBVIOUS
<1>2. m \in Int /\ r \in 0..(d - 1) /\ a = d * m + r
  BY <1>1, DivMod
<1> HIDE DEF m, r
<1>3. (q - m) * d = r
  BY <1>2
<1> DEFINE k == q - m
<1>4. k \in Int /\ k * d = r
  BY <1>2, <1>3
<1> HIDE DEF k
<1>5. k = 0
  <2>1. CASE k >= 1
    <3>1. k * d >= d
      BY <1>4, <2>1
    <3> QED
      BY <1>2, <1>4, <3>1
  <2>2. CASE k <= -1
    <3>1. k * d <= -d
      BY <1>4, <2>2
    <3> QED
      BY <1>2, <1>4, <3>1
  <2> QED
    BY <1>4, <2>1, <2>2
<1> QED
  BY <1>2, <1>4, <1>5 DEF r, a

\* A multiple of d below b is below the largest such multiple.
LEMMA DivMonotone ==
  ASSUME NEW a \in Int, NEW b \in Int, a <= b, NEW d \in Nat \ {0}, a % d = 0
  PROVE  a <= d * (b \div d) /\ d * (b \div d) <= b
<1> DEFINE m == a \div d
           n == b \div d
           r == b % d
<1>1. m \in Int /\ a = d * m
  BY DivMod
<1>2. n \in Int /\ r \in 0..(d - 1) /\ b = d * n + r
  BY DivMod
<1> HIDE DEF m, n, r
<1>3. d * n <= b
  BY <1>2
<1>4. m <= n
  <2> SUFFICES ASSUME m >= n + 1 PROVE FALSE
    BY <1>1, <1>2
  <2>1. d * m >= d * n + d
    BY <1>1, <1>2
  <2> QED
    BY <1>1, <1>2, <2>1
<1>5. d * m <= d * n
  BY <1>1, <1>2, <1>4
<1> QED
  BY <1>1, <1>3, <1>5 DEF n

\* GetMaxSize() is the largest size that the hints allow, for every value of the hints.
LEMMA LargestSize ==
  ASSUME NEW hints \in AnySizeHints, NEW desired \in Nat, NEW s \in Nat, s >= 1, s <= desired,
         hints.min > 0 => s >= hints.min, hints.max > 0 => s <= hints.max,
         NEW base, base = (IF hints.base > 0 THEN hints.base ELSE hints.min),
         hints.inc > 0 => s >= base /\ (s - base) % hints.inc = 0
  PROVE  LET size == GetMaxSize(hints, desired) IN
         /\ size \in 1..desired /\ size >= s
         /\ hints.min > 0 => size >= hints.min
         /\ hints.max > 0 => size <= hints.max
         /\ hints.inc > 0 => size >= base /\ (size - base) % hints.inc = 0
<1> DEFINE most == IF hints.max > 0 /\ hints.max < desired THEN hints.max ELSE desired
           size == GetMaxSize(hints, desired)
           d == hints.inc
           rest == most - base
           q == rest \div d
<1>1. /\ hints.min \in Int /\ hints.max \in Int /\ hints.base \in Int /\ d \in Int /\ base \in Int
  BY DEF AnySizeHints
<1>2. most \in Nat /\ s <= most /\ most <= desired /\ (hints.max > 0 => most <= hints.max)
  BY <1>1
<1>3. (IF hints.min > 0 /\ hints.min > most THEN hints.min ELSE most) = most
  BY <1>1, <1>2
<1>4. CASE ~(d > 0)
  <2>1. size = most
    BY <1>3, <1>4 DEF GetMaxSize
  <2> HIDE DEF size, most
  <2> QED
    BY <1>1, <1>2, <1>4, <2>1 DEF size
<1>5. CASE d > 0
  <2>1. rest \in Nat /\ s - base \in Int /\ s - base <= rest /\ d \in Nat \ {0}
    BY <1>1, <1>2, <1>5
  <2>2. size = base + q * d
    <3>1. size = LET quotient == IF rest >= 0 THEN rest \div d ELSE -((-rest) \div d)
                 IN  IF d > 0 THEN base + quotient * d ELSE most
      BY <1>3 DEF GetMaxSize
    <3> HIDE DEF size, most, rest, d
    <3> QED
      BY <1>5, <2>1, <3>1
  <2> HIDE DEF most, rest, size
  <2>3. q \in Int
    BY <2>1, DivMod
  <2>4. s - base <= d * q /\ d * q <= rest
    <3> DEFINE a == s - base
    <3>1. a \in Int /\ a <= rest /\ a % d = 0 /\ rest \in Int /\ d \in Nat \ {0}
      BY <1>5, <2>1
    <3> HIDE DEF a, d
    <3>2. a <= d * (rest \div d) /\ d * (rest \div d) <= rest
      BY <3>1, DivMonotone
    <3> QED
      BY <3>2 DEF a
  <2>5. (q * d) % d = 0
    BY <2>1, <2>3, ModOfProduct
  <2> HIDE DEF q
  <2> DEFINE m == q * d
  <2>6. m \in Int /\ s - base <= m /\ m <= rest /\ m % d = 0 /\ size = base + m
    BY <2>1, <2>2, <2>3, <2>4, <2>5
  <2> HIDE DEF m
  <2>7. size \in Int /\ size >= s /\ size <= most /\ size - base = m
    BY <1>1, <1>2, <2>6 DEF rest
  <2>8. size \in 1..desired /\ (hints.min > 0 => size >= hints.min) /\ (hints.max > 0 => size <= hints.max)
    BY <1>1, <1>2, <2>7
  <2>9. size >= base /\ (size - base) % d = 0
    BY <1>1, <1>5, <2>6, <2>7
  <2> QED
    BY <2>7, <2>8, <2>9 DEF size
<1> QED
  BY <1>4, <1>5

\* The invariant implies what is promised.
LEMMA WinInvImplies ==
  ASSUME WinInv(win)
  PROVE  WindowIsCurrent
<1>1. KnowsTheServers
  <2> SUFFICES ASSUME win.todo = <<>>, win.queue = <<>>
      PROVE  /\ win.type = win.props.type \/ win.props.type = Unset
             /\ win.urgent = (win.props.hints = "urgent") \/ win.props.hints = Unset
             /\ win.transient = win.props.transient \/ win.props.transient = Unset
             /\ win.opacity = IF win.props.opacity = Unset THEN 2 ELSE win.props.opacity
             /\ win.size = IF win.props.size = Unset THEN NoSizeHints ELSE win.props.size
             /\ win.state = IF win.props.state = Unset THEN {} ELSE win.props.state
             /\ win.shaped = win.xshaped /\ win.mask = win.xshaped
             /\ win.x = win.xx /\ win.width = win.xwidth
    BY DEF KnowsTheServers, Idle
  <2>1. (\A q : ~Pending(win, q)) /\ (\A e : ~Queued(win, e)) /\ Following(win)
    BY DEF WinInv, Pending, Queued
  <2>2. \A p \in Followed : Right(win, p)
    BY <2>1 DEF Following
  <2>3. win.shaped = win.xshaped /\ win.mask = win.xshaped /\ win.x = win.xx /\ win.width = win.xwidth
    BY <2>1 DEF Following
  <2>4. Right(win, "type") /\ Right(win, "hints") /\ Right(win, "transient")
        /\ Right(win, "opacity") /\ Right(win, "size") /\ Right(win, "state")
    BY <2>2 DEF Followed
  <2> QED
    BY <2>3, <2>4 DEF Right
<1>2. ShadowFollows
  <2> SUFFICES ASSUME win.todo = <<>>
      PROVE  /\ win.using = (~win.override /\ win.type # "bubble" /\ ~win.shaped)
             /\ Placed(win) /\ Sized(win) /\ Faded(win)
    BY DEF ShadowFollows, Placed, Sized, Faded
  <2> QED
    BY Settled DEF WinInv, Should
<1>3. MaxSizeIsLargest
  <2> DEFINE hints == win.size
             base == IF hints.base > 0 THEN hints.base ELSE hints.min
             allowed(desired) ==
               {s \in 1..desired :
                  /\ hints.min > 0 => s >= hints.min
                  /\ hints.max > 0 => s <= hints.max
                  /\ hints.inc > 0 => s >= base /\ (s - base) % hints.inc = 0}
  <2> SUFFICES ASSUME NEW desired \in 1..6, allowed(desired) # {}
               PROVE  GetMaxSize(hints, desired) = Max(allowed(desired))
    BY DEF MaxSizeIsLargest
  <2> DEFINE S == allowed(desired)
             size == GetMaxSize(hints, desired)
  <2>1. hints \in AnySizeHints
    BY DEF WinInv, WinTypes
  <2>2. ASSUME NEW s \in S PROVE size \in S /\ size >= s
    <3>1. /\ s \in Nat /\ s >= 1 /\ s <= desired /\ desired \in Nat
          /\ hints.min > 0 => s >= hints.min
          /\ hints.max > 0 => s <= hints.max
          /\ hints.inc > 0 => s >= base /\ (s - base) % hints.inc = 0
      OBVIOUS
    <3> HIDE DEF hints
    <3>2. /\ size \in 1..desired /\ size >= s
          /\ hints.min > 0 => size >= hints.min
          /\ hints.max > 0 => size <= hints.max
          /\ hints.inc > 0 => size >= base /\ (size - base) % hints.inc = 0
      BY <2>1, <3>1, LargestSize
    <3> HIDE DEF size, base
    <3> QED
      BY <3>2
  <2>3. S \subseteq Int /\ S # {}
    OBVIOUS
  <2> HIDE DEF S, size
  <2>4. size \in S /\ \A s \in S : size >= s
    BY <2>2, <2>3
  <2>5. \A t \in S : (\A s \in S : t >= s) => t = size
    BY <2>3, <2>4
  <2>6. Max(S) = size
    BY <2>4, <2>5 DEF Max
  <2> QED
    BY <2>6 DEF S, size
<1> QED
  BY <1>1, <1>2, <1>3 DEF WindowIsCurrent

\* A client's window, and the shadow and the sizes made for it: whatever the client does
\* between the requests of Window::Window() and of the handlers, once the events are handled
\* the window manager knows what the server does, and the actor and the shadow are where the
\* window is; for every set of positions, sizes, scales and size hints.
THEOREM WindowSafety == MCSpec => []WindowIsCurrent
<1>1. MCInit => WinInv(win)
  BY WinInitInv DEF MCInit
<1>2. WinInv(win) /\ [MCNext]_vars => WinInv(win)'
  <2> SUFFICES ASSUME WinInv(win), [MCNext]_vars PROVE WinInv(win')
    OBVIOUS
  <2>1. WinNext \/ UNCHANGED win
    BY DEF MCNext, vars, SelectionUnit
  <2>2. CASE UNCHANGED win
    BY <2>2
  <2>3. CASE WinNext
    BY <2>3, WinRequestInv, WinHandleEventInv, ClientSetsPropertyInv, ClientSetsShapeInv, WinCallInv
       DEF WinNext, ClientStepInWindow
  <2> QED
    BY <2>1, <2>2, <2>3
<1>3. WinInv(win) => WindowIsCurrent
  BY WinInvImplies
<1> QED
  BY <1>1, <1>2, <1>3, PTL DEF MCSpec

-----------------------------------------------------------------------------
(* Chrome: the tabs, and the panel.                                        *)

TabWindows ==
  [tabs : Seq(Tabs), active : Int, dragging : BOOLEAN, floating : Tabs \cup {NoTab}, summary : Int,
   pressed : Tabs \cup {NoTab}]

\* A window has no tab twice, its active tab is one it has, and it drags the tab that was
\* pressed: in the tab bar it is the active one.
TabsKept(v) ==
  /\ v \in TabWindows
  /\ IsInjective(v.tabs) /\ v.floating \notin ToSet(v.tabs)
  /\ IF v.tabs = <<>> THEN v.active = -1 ELSE v.active \in 0..(Len(v.tabs) - 1)
  /\ v.floating # NoTab => v.dragging /\ v.floating = v.pressed
  /\ v.dragging /\ v.floating = NoTab => v.tabs # <<>> /\ v.tabs[v.active + 1] = v.pressed

\* The windows ws and what was closed, "lost", share the tabs out between them.
SharedOut(ws, lost) ==
  /\ Tabs = lost \cup UNION {HeldTabs(ws[w]) : w \in DOMAIN ws}
  /\ \A w \in DOMAIN ws :
       /\ HeldTabs(ws[w]) \cap lost = {}
       /\ \A x \in DOMAIN ws \ {w} : HeldTabs(ws[w]) \cap HeldTabs(ws[x]) = {}

TitlebarMessages == {"dragged", "drag_complete", "expand", "collapse"}
Titlebars ==
  [mouseDown : BOOLEAN, dragging : BOOLEAN, expanded : BOOLEAN, shown : BOOLEAN, dragged : BOOLEAN,
   toWm : Seq(TitlebarMessages), toChrome : Seq(BOOLEAN), told : BOOLEAN]

\* The messages have no drag in them; or none after one that it is over.
NoDragTold(messages) == \A i \in 1..Len(messages) : messages[i] # "dragged"
DragToldOver(messages) ==
  \E i \in 1..Len(messages) :
    messages[i] = "drag_complete" /\ \A j \in (i + 1)..Len(messages) : messages[j] # "dragged"

\* The last message on its way to Chrome is about the state that is shown, and without one Chrome
\* has that state or was never sent one for a panel created expanded; and what the window
\* manager will believe when it has read every message is that no drag goes on, if none does.
InTouch(p) ==
  /\ p \in Titlebars
  /\ p.toChrome = <<>> => p.expanded = p.shown \/ (p.shown /\ ~p.told)
  /\ p.toChrome # <<>> => p.toChrome[Len(p.toChrome)] = p.shown
  /\ p.dragging => p.mouseDown
  /\ p.dragging \/ DragToldOver(p.toWm) \/ (~p.dragged /\ NoDragTold(p.toWm))

ChromeFields == {"windows", "fresh", "under", "lost", "panel", "steps"}

ChromeInv(c) ==
  /\ DOMAIN c = ChromeFields
  /\ c.windows = [w \in DOMAIN c.windows |-> c.windows[w]] /\ c.fresh \cap DOMAIN c.windows = {}
  /\ \A w \in DOMAIN c.windows : TabsKept(c.windows[w])
  /\ SharedOut(c.windows, c.lost)
  /\ InTouch(c.panel)


\* A sequence without its i-th element.
LEMMA RemoveAtIs ==
  ASSUME NEW S, NEW s \in Seq(S), NEW i \in 1..Len(s)
  PROVE  /\ RemoveAt(s, i) \in Seq(S) /\ Len(RemoveAt(s, i)) = Len(s) - 1
         /\ \A j \in 1..(i - 1) : RemoveAt(s, i)[j] = s[j]
         /\ \A j \in i..(Len(s) - 1) : RemoveAt(s, i)[j] = s[j + 1]
<1> DEFINE a == SubSeq(s, 1, i - 1)
           b == SubSeq(s, i + 1, Len(s))
<1>1. Len(s) \in Nat /\ i \in Nat
  BY LenProperties
<1>2. a \in Seq(S) /\ Len(a) = i - 1 /\ \A j \in 1..(i - 1) : a[j] = s[j]
  BY <1>1, SubSeqProperties
<1>3. b \in Seq(S) /\ Len(b) = Len(s) - i /\ \A j \in 1..(Len(s) - i) : b[j] = s[i + j]
  BY <1>1, SubSeqProperties
<1> HIDE DEF a, b
<1>4. /\ a \o b \in Seq(S) /\ Len(a \o b) = Len(s) - 1
      /\ \A j \in 1..(i - 1) : (a \o b)[j] = a[j]
      /\ \A j \in i..(Len(s) - 1) : (a \o b)[j] = b[j - (i - 1)]
  <2>1. /\ a \o b \in Seq(S) /\ Len(a \o b) = Len(a) + Len(b)
        /\ \A j \in 1..(Len(a) + Len(b)) : (a \o b)[j] = IF j <= Len(a) THEN a[j] ELSE b[j - Len(a)]
    BY <1>2, <1>3, ConcatProperties
  <2>2. Len(a) + Len(b) = Len(s) - 1 /\ i >= 1 /\ i <= Len(s)
    BY <1>1, <1>2, <1>3
  <2>3. ASSUME NEW j \in 1..(i - 1) PROVE (a \o b)[j] = a[j]
    <3>1. j \in 1..(Len(a) + Len(b)) /\ j <= Len(a)
      BY <1>1, <1>2, <2>2
    <3> QED
      BY <2>1, <3>1
  <2>4. ASSUME NEW j \in i..(Len(s) - 1) PROVE (a \o b)[j] = b[j - (i - 1)]
    <3>1. j \in 1..(Len(a) + Len(b)) /\ ~(j <= Len(a)) /\ Len(a) = i - 1
      BY <1>1, <1>2, <2>2
    <3> QED
      BY <2>1, <3>1
  <2> QED
    BY <2>1, <2>2, <2>3, <2>4
<1>5. \A j \in i..(Len(s) - 1) : j - (i - 1) \in 1..(Len(s) - i) /\ i + (j - (i - 1)) = j + 1
  BY <1>1
<1>6. RemoveAt(s, i) = a \o b
  BY DEF RemoveAt, a, b
<1>7. \A j \in i..(Len(s) - 1) : (a \o b)[j] = s[j + 1]
  BY <1>3, <1>4, <1>5
<1> QED
  BY <1>2, <1>4, <1>6, <1>7

\* A sequence with an element more, the i-th.
LEMMA InsertAtIs ==
  ASSUME NEW S, NEW s \in Seq(S), NEW e \in S, NEW i \in 1..(Len(s) + 1)
  PROVE  /\ InsertAt(s, i, e) \in Seq(S) /\ Len(InsertAt(s, i, e)) = Len(s) + 1
         /\ InsertAt(s, i, e)[i] = e
         /\ \A j \in 1..(i - 1) : InsertAt(s, i, e)[j] = s[j]
         /\ \A j \in (i + 1)..(Len(s) + 1) : InsertAt(s, i, e)[j] = s[j - 1]
<1> DEFINE a == SubSeq(s, 1, i - 1)
           b == SubSeq(s, i, Len(s))
           c == a \o <<e>>
<1>1. Len(s) \in Nat /\ i \in Nat
  BY LenProperties
<1>2. a \in Seq(S) /\ Len(a) = i - 1 /\ \A j \in 1..(i - 1) : a[j] = s[j]
  BY <1>1, SubSeqProperties
<1>3. b \in Seq(S) /\ Len(b) = Len(s) + 1 - i /\ \A j \in 1..(Len(s) + 1 - i) : b[j] = s[i + j - 1]
  BY <1>1, SubSeqProperties
<1>4. <<e>> \in Seq(S) /\ Len(<<e>>) = 1 /\ <<e>>[1] = e
  OBVIOUS
<1> HIDE DEF a, b
<1>5. c \in Seq(S) /\ Len(c) = i /\ c[i] = e /\ \A j \in 1..(i - 1) : c[j] = s[j]
  BY <1>1, <1>2, <1>4, ConcatProperties, SMTT(40)
<1>6. InsertAt(s, i, e) = c \o b
  BY DEF InsertAt, a, b
<1> HIDE DEF c
<1>7. /\ c \o b \in Seq(S) /\ Len(c \o b) = Len(s) + 1
      /\ \A j \in 1..i : (c \o b)[j] = c[j]
      /\ \A j \in (i + 1)..(Len(s) + 1) : (c \o b)[j] = b[j - i]
  BY <1>1, <1>3, <1>5, ConcatProperties
<1>8. \A j \in (i + 1)..(Len(s) + 1) : j - i \in 1..(Len(s) + 1 - i) /\ i + (j - i) - 1 = j - 1
  BY <1>1
<1>9. \A j \in (i + 1)..(Len(s) + 1) : (c \o b)[j] = s[j - 1]
  BY <1>3, <1>7, <1>8
<1>10. i \in 1..i /\ \A j \in 1..(i - 1) : j \in 1..i
  BY <1>1
<1> QED
  BY <1>5, <1>6, <1>7, <1>9, <1>10

\* Without its i-th element, a sequence of different ones has the others, each once.
LEMMA RemoveAtApart ==
  ASSUME NEW S, NEW s \in Seq(S), NEW i \in 1..Len(s), IsInjective(s)
  PROVE  IsInjective(RemoveAt(s, i)) /\ ToSet(RemoveAt(s, i)) = ToSet(s) \ {s[i]}
<1> DEFINE r == RemoveAt(s, i)
           from(j) == IF j < i THEN j ELSE j + 1
<1>1. Len(s) \in Nat /\ DOMAIN s = 1..Len(s) /\ i \in Nat
  BY LenProperties
<1>2. /\ r \in Seq(S) /\ Len(r) = Len(s) - 1
      /\ \A j \in 1..(i - 1) : r[j] = s[j]
      /\ \A j \in i..(Len(s) - 1) : r[j] = s[j + 1]
  BY RemoveAtIs
<1> HIDE DEF r
<1>3. DOMAIN r = 1..(Len(s) - 1)
  BY <1>2, LenProperties
<1>4. \A j \in 1..(Len(s) - 1) : r[j] = s[from(j)] /\ from(j) \in 1..Len(s) /\ from(j) # i
  <2> TAKE j \in 1..(Len(s) - 1)
  <2>1. CASE j < i
    <3>1. j \in 1..(i - 1) /\ from(j) = j
      BY <1>1, <2>1
    <3> QED
      BY <1>1, <1>2, <2>1, <3>1
  <2>2. CASE ~(j < i)
    <3>1. j \in i..(Len(s) - 1) /\ from(j) = j + 1
      BY <1>1, <2>2
    <3> QED
      BY <1>1, <1>2, <3>1
  <2> QED
    BY <2>1, <2>2
<1>5. \A j, k \in 1..(Len(s) - 1) : from(j) = from(k) => j = k
  BY <1>1
<1>6. \A m \in 1..Len(s) : m # i => \E j \in 1..(Len(s) - 1) : from(j) = m
  <2> TAKE m \in 1..Len(s)
  <2> HAVE m # i
  <2> DEFINE j == IF m < i THEN m ELSE m - 1
  <2>1. j \in 1..(Len(s) - 1) /\ from(j) = m
    BY <1>1
  <2> QED
    BY <2>1
<1> HIDE DEF from
<1>7. IsInjective(r)
  BY <1>1, <1>3, <1>4, <1>5 DEF IsInjective
<1>8. ToSet(r) = ToSet(s) \ {s[i]}
  <2>1. ASSUME NEW x \in ToSet(r) PROVE x \in ToSet(s) \ {s[i]}
    BY <1>1, <1>3, <1>4, <2>1 DEF ToSet, IsInjective
  <2>2. ASSUME NEW x \in ToSet(s), x # s[i] PROVE x \in ToSet(r)
    <3>1. PICK m \in 1..Len(s) : x = s[m] /\ m # i
      BY <1>1, <2>2 DEF ToSet
    <3>2. PICK j \in 1..(Len(s) - 1) : from(j) = m
      BY <1>6, <3>1
    <3>3. r[j] = x
      BY <1>4, <3>1, <3>2
    <3> QED
      BY <1>3, <3>3 DEF ToSet
  <2> QED
    BY <2>1, <2>2
<1> QED
  BY <1>7, <1>8 DEF r

\* With a new element, a sequence of different ones has them and the new one, each once.
LEMMA InsertAtApart ==
  ASSUME NEW S, NEW s \in Seq(S), NEW e \in S, e \notin ToSet(s), NEW i \in 1..(Len(s) + 1), IsInjective(s)
  PROVE  IsInjective(InsertAt(s, i, e)) /\ ToSet(InsertAt(s, i, e)) = ToSet(s) \cup {e}
<1> DEFINE r == InsertAt(s, i, e)
           from(j) == IF j < i THEN j ELSE j - 1
<1>1. Len(s) \in Nat /\ DOMAIN s = 1..Len(s) /\ i \in Nat /\ i \in 1..(Len(s) + 1)
  BY LenProperties
<1>2. /\ r \in Seq(S) /\ Len(r) = Len(s) + 1 /\ r[i] = e
      /\ \A j \in 1..(i - 1) : r[j] = s[j]
      /\ \A j \in (i + 1)..(Len(s) + 1) : r[j] = s[j - 1]
  BY InsertAtIs
<1> HIDE DEF r
<1>3. DOMAIN r = 1..(Len(s) + 1)
  BY <1>2, LenProperties
<1>4. \A j \in 1..(Len(s) + 1) : j # i => r[j] = s[from(j)] /\ from(j) \in 1..Len(s)
  BY <1>1, <1>2
<1>5. \A j, k \in 1..(Len(s) + 1) : j # i /\ k # i /\ from(j) = from(k) => j = k
  BY <1>1
<1>6. \A m \in 1..Len(s) : \E j \in 1..(Len(s) + 1) : j # i /\ from(j) = m
  <2> TAKE m \in 1..Len(s)
  <2> DEFINE j == IF m < i THEN m ELSE m + 1
  <2>1. j \in 1..(Len(s) + 1) /\ j # i /\ from(j) = m
    BY <1>1
  <2> QED
    BY <2>1
<1> HIDE DEF from
<1>7. \A j \in 1..(Len(s) + 1) : j # i => r[j] \in ToSet(s)
  BY <1>1, <1>4 DEF ToSet
<1>8. IsInjective(r)
  <2> SUFFICES ASSUME NEW j \in DOMAIN r, NEW k \in DOMAIN r, r[j] = r[k] PROVE j = k
    BY DEF IsInjective
  <2>1. CASE j # i /\ k # i
    BY <1>1, <1>3, <1>4, <1>5, <2>1 DEF IsInjective
  <2>2. CASE j = i \/ k = i
    BY <1>2, <1>3, <1>7, <2>2
  <2> QED
    BY <2>1, <2>2
<1>9. ToSet(r) = ToSet(s) \cup {e}
  <2>1. ASSUME NEW x \in ToSet(r) PROVE x \in ToSet(s) \cup {e}
    BY <1>2, <1>3, <1>7, <2>1 DEF ToSet
  <2>2. ASSUME NEW x \in ToSet(s) PROVE x \in ToSet(r)
    <3>1. PICK m \in 1..Len(s) : x = s[m]
      BY <1>1, <2>2 DEF ToSet
    <3>2. PICK j \in 1..(Len(s) + 1) : j # i /\ from(j) = m
      BY <1>6, <3>1
    <3>3. r[j] = x
      BY <1>4, <3>1, <3>2
    <3> QED
      BY <1>3, <3>3 DEF ToSet
  <2>3. e \in ToSet(r)
    BY <1>1, <1>2, <1>3 DEF ToSet
  <2> QED
    BY <2>1, <2>2, <2>3
<1> QED
  BY <1>8, <1>9 DEF r


\* Windows with the same tabs hold the same.
LEMMA SameHeld ==
  ASSUME NEW v, NEW r, r.tabs = v.tabs, r.floating = v.floating
  PROVE  HeldTabs(r) = HeldTabs(v)
  BY DEF HeldTabs

\* The button goes down on a tab, or a tab is picked in the summary.
LEMMA TabPressed ==
  ASSUME NEW v, TabsKept(v), ~v.dragging, NEW i \in 0..(Len(v.tabs) - 1)
  PROVE  /\ TabsKept(ButtonPress(v, i)) /\ HeldTabs(ButtonPress(v, i)) = HeldTabs(v)
         /\ TabsKept(ActivateTab(v, i)) /\ HeldTabs(ActivateTab(v, i)) = HeldTabs(v)
<1> DEFINE p == ButtonPress(v, i)
           a == ActivateTab(v, i)
<1>1. /\ v \in TabWindows /\ IsInjective(v.tabs) /\ v.floating \notin ToSet(v.tabs) /\ v.floating = NoTab
  BY DEF TabsKept
<1>2. Len(v.tabs) \in Nat /\ i + 1 \in 1..Len(v.tabs) /\ v.tabs \in Seq(Tabs) /\ v.tabs # <<>>
  BY <1>1, LenProperties DEF TabWindows
<1>3. v.tabs[i + 1] \in Tabs
  BY <1>2, ElementOfSeq
<1>4. /\ p \in TabWindows /\ p.tabs = v.tabs /\ p.active = i /\ p.floating = v.floating
      /\ p.dragging /\ p.pressed = v.tabs[i + 1]
  <2> DEFINE t == v.tabs[i + 1]
  <2>1. p = [v EXCEPT !.dragging = TRUE, !.active = i, !.pressed = t]
    BY DEF ButtonPress
  <2> HIDE DEF t, p
  <2>2. t \in Tabs /\ i \in Int
    BY <1>2, <1>3 DEF t
  <2>3. /\ p \in TabWindows /\ p.tabs = v.tabs /\ p.active = i /\ p.floating = v.floating
        /\ p.dragging /\ p.pressed = t
    BY <1>1, <2>1, <2>2 DEF TabWindows
  <2> QED
    BY <2>3 DEF t
<1>5. /\ a \in TabWindows /\ a.tabs = v.tabs /\ a.active = i /\ a.floating = v.floating
      /\ a.dragging = v.dragging
  BY <1>1 DEF TabWindows, ActivateTab
<1> HIDE DEF p, a
<1>6. TabsKept(p)
  BY <1>1, <1>2, <1>4 DEF TabsKept
<1>7. TabsKept(a)
  BY <1>1, <1>2, <1>5 DEF TabsKept
<1> QED
  BY <1>4, <1>5, <1>6, <1>7, SameHeld DEF p, a

\* The summary comes, goes or follows the pointer.
LEMMA SummaryChanged ==
  ASSUME NEW v, TabsKept(v), NEW i \in Int
  PROVE  LET r == [v EXCEPT !.summary = i] IN TabsKept(r) /\ HeldTabs(r) = HeldTabs(v)
<1> DEFINE r == [v EXCEPT !.summary = i]
<1>1. v \in TabWindows
  BY DEF TabsKept
<1>2. /\ r \in TabWindows /\ r.tabs = v.tabs /\ r.active = v.active /\ r.floating = v.floating
      /\ r.dragging = v.dragging /\ r.pressed = v.pressed
  BY <1>1 DEF TabWindows
<1> HIDE DEF r
<1>3. TabsKept(r)
  BY <1>2 DEF TabsKept
<1> QED
  BY <1>2, <1>3, SameHeld DEF r

\* The button goes up, and no tab floats any more.
LEMMA TabReleased ==
  ASSUME NEW v, TabsKept(v), NEW r, r = [v EXCEPT !.floating = NoTab, !.dragging = FALSE, !.pressed = NoTab]
  PROVE  TabsKept(r) /\ HeldTabs(r) = ToSet(v.tabs)
<1>1. v \in TabWindows
  BY DEF TabsKept
<1>2. /\ r \in TabWindows /\ r.tabs = v.tabs /\ r.active = v.active /\ r.floating = NoTab /\ ~r.dragging
  BY <1>1 DEF TabWindows
<1>3. NoTab \notin ToSet(r.tabs)
  BY <1>1, <1>2, ChromeAssumption, ElementOfSeq, LenProperties DEF TabWindows, ToSet
<1>4. TabsKept(r)
  BY <1>2, <1>3 DEF TabsKept
<1> QED
  BY <1>2, <1>4 DEF HeldTabs

\* InsertTab(), field by field.
LEMMA InsertTabIs ==
  ASSUME NEW v \in TabWindows, NEW tab \in Tabs, NEW at \in Nat, NEW index,
         index = IF at > Len(v.tabs) THEN Len(v.tabs) ELSE at
  PROVE  LET r == InsertTab(v, tab, at) IN
         /\ r \in TabWindows /\ r.tabs = InsertAt(v.tabs, index + 1, tab)
         /\ r.active = IF index <= v.active THEN v.active + 1 ELSE IF v.active < 0 THEN 0 ELSE v.active
         /\ r.dragging = v.dragging /\ r.floating = v.floating /\ r.pressed = v.pressed
         /\ index + 1 \in 1..(Len(v.tabs) + 1)
<1> DEFINE s == InsertAt(v.tabs, index + 1, tab)
           shifted == IF index <= v.active THEN v.active + 1 ELSE v.active
           active == IF shifted < 0 THEN 0 ELSE shifted
           summary == IF v.summary = NoSummary THEN v.summary ELSE -1
           r == InsertTab(v, tab, at)
<1>1. v.tabs \in Seq(Tabs) /\ Len(v.tabs) \in Nat /\ v.active \in Int /\ v.summary \in Int
  BY LenProperties DEF TabWindows
<1>2. index \in Nat /\ index + 1 \in 1..(Len(v.tabs) + 1)
  BY <1>1
<1>3. s \in Seq(Tabs)
  BY <1>1, <1>2, InsertAtIs
<1>4. active \in Int /\ active = IF index <= v.active THEN v.active + 1 ELSE IF v.active < 0 THEN 0 ELSE v.active
  BY <1>1, <1>2
<1>5. summary \in Int
  BY <1>1
<1>6. r = [v EXCEPT !.tabs = s, !.active = active, !.summary = summary]
  BY DEF InsertTab
<1> HIDE DEF s, active, summary, r
<1>7. /\ r \in TabWindows /\ r.tabs = s /\ r.active = active
      /\ r.dragging = v.dragging /\ r.floating = v.floating /\ r.pressed = v.pressed
  BY <1>3, <1>4, <1>5, <1>6 DEF TabWindows
<1> QED
  BY <1>2, <1>4, <1>7 DEF r, s

\* A tab that the window does not have is inserted: the active tab stays the one it was.
LEMMA TabInserted ==
  ASSUME NEW v, TabsKept(v), NEW tab \in Tabs, tab \notin HeldTabs(v), NEW at \in Nat
  PROVE  LET r == InsertTab(v, tab, at) IN
         TabsKept(r) /\ HeldTabs(r) = HeldTabs(v) \cup {tab} /\ r.dragging = v.dragging /\ r.floating = v.floating
<1> DEFINE index == IF at > Len(v.tabs) THEN Len(v.tabs) ELSE at
           r == InsertTab(v, tab, at)
<1>1. v \in TabWindows /\ v.tabs \in Seq(Tabs) /\ Len(v.tabs) \in Nat /\ IsInjective(v.tabs)
      /\ v.active \in Int
  BY LenProperties DEF TabsKept, TabWindows
<1>2. tab \notin ToSet(v.tabs) /\ tab # v.floating
  BY ChromeAssumption DEF HeldTabs
<1>3. /\ r \in TabWindows /\ r.tabs = InsertAt(v.tabs, index + 1, tab)
      /\ r.active = IF index <= v.active THEN v.active + 1 ELSE IF v.active < 0 THEN 0 ELSE v.active
      /\ r.dragging = v.dragging /\ r.floating = v.floating /\ r.pressed = v.pressed
      /\ index + 1 \in 1..(Len(v.tabs) + 1)
  BY <1>1, InsertTabIs
<1>4. index \in Nat
  BY <1>1
<1> HIDE DEF r, index
<1>5. IsInjective(r.tabs) /\ ToSet(r.tabs) = ToSet(v.tabs) \cup {tab}
  BY <1>1, <1>2, <1>3, InsertAtApart
<1>6. /\ Len(r.tabs) = Len(v.tabs) + 1 /\ r.tabs \in Seq(Tabs)
      /\ \A j \in 1..index : r.tabs[j] = v.tabs[j]
      /\ \A j \in (index + 2)..(Len(v.tabs) + 1) : r.tabs[j] = v.tabs[j - 1]
  <2> DEFINE k == index + 1
             t == v.tabs
  <2>1. k - 1 = index /\ k + 1 = index + 2 /\ k \in 1..(Len(t) + 1) /\ t \in Seq(Tabs)
    BY <1>1, <1>3, <1>4
  <2>2. r.tabs = InsertAt(t, k, tab)
    BY <1>3
  <2> HIDE DEF k, t
  <2>3. /\ InsertAt(t, k, tab) \in Seq(Tabs) /\ Len(InsertAt(t, k, tab)) = Len(t) + 1
        /\ \A j \in 1..(k - 1) : InsertAt(t, k, tab)[j] = t[j]
        /\ \A j \in (k + 1)..(Len(t) + 1) : InsertAt(t, k, tab)[j] = t[j - 1]
    BY <2>1, InsertAtIs
  <2> QED
    BY <2>1, <2>2, <2>3 DEF t
<1>7. r.tabs # <<>>
  BY <1>1, <1>6
<1>8. CASE v.tabs = <<>>
  <2>1. v.active = -1 /\ ~(v.dragging /\ v.floating = NoTab) /\ Len(v.tabs) = 0
    BY <1>8 DEF TabsKept
  <2>2. r.active = 0
    BY <1>3, <1>4, <2>1
  <2> QED
    BY <1>2, <1>3, <1>5, <1>6, <1>7, <2>1, <2>2 DEF TabsKept, HeldTabs, r
<1>9. CASE v.tabs # <<>>
  <2>1. v.active \in 0..(Len(v.tabs) - 1)
    BY <1>9 DEF TabsKept
  <2>2. r.active \in 0..(Len(r.tabs) - 1) /\ r.tabs[r.active + 1] = v.tabs[v.active + 1]
    <3>1. CASE index <= v.active
      <4>1. r.active = v.active + 1 /\ v.active + 2 \in (index + 2)..(Len(v.tabs) + 1)
        BY <1>1, <1>3, <1>4, <2>1, <3>1
      <4>2. r.tabs[v.active + 2] = v.tabs[(v.active + 2) - 1]
        BY <1>6, <4>1
      <4>3. (v.active + 2) - 1 = v.active + 1 /\ r.active + 1 = v.active + 2 /\ r.active \in 0..(Len(r.tabs) - 1)
        BY <1>1, <1>6, <2>1, <4>1
      <4> QED
        BY <4>2, <4>3
    <3>2. CASE ~(index <= v.active)
      <4>1. r.active = v.active /\ v.active + 1 \in 1..index /\ r.active \in 0..(Len(r.tabs) - 1)
        BY <1>1, <1>3, <1>4, <1>6, <2>1, <3>2
      <4> QED
        BY <1>6, <4>1
    <3> QED
      BY <3>1, <3>2
  <2>3. TabsKept(r)
    BY <1>2, <1>3, <1>5, <1>7, <1>9, <2>2 DEF TabsKept
  <2> QED
    BY <1>3, <1>5, <2>3 DEF HeldTabs, r
<1> QED
  BY <1>8, <1>9


\* RemoveTab(), field by field.
LEMMA RemoveTabIs ==
  ASSUME NEW v \in TabWindows, NEW index \in 0..(Len(v.tabs) - 1)
  PROVE  LET r == RemoveTab(v, index) IN
         /\ r \in TabWindows /\ r.tabs = RemoveAt(v.tabs, index + 1)
         /\ r.active = IF v.active >= Len(v.tabs) - 1 THEN Len(v.tabs) - 2 ELSE v.active
         /\ r.dragging = v.dragging /\ r.floating = v.floating /\ r.pressed = v.pressed
         /\ index + 1 \in 1..Len(v.tabs) /\ Len(r.tabs) = Len(v.tabs) - 1
<1> DEFINE t == v.tabs
           k == index + 1
           s == RemoveAt(t, k)
           active == IF v.active >= Len(s) THEN Len(s) - 1 ELSE v.active
           r == RemoveTab(v, index)
<1>1. t \in Seq(Tabs) /\ Len(t) \in Nat /\ v.active \in Int /\ k \in 1..Len(t)
  BY LenProperties DEF TabWindows
<1>2. r = [v EXCEPT !.tabs = s, !.active = active]
  BY DEF RemoveTab
<1> HIDE DEF t, k
<1>3. s \in Seq(Tabs) /\ Len(s) = Len(t) - 1
  BY <1>1, RemoveAtIs
<1>4. active \in Int /\ active = IF v.active >= Len(t) - 1 THEN Len(t) - 2 ELSE v.active
  BY <1>1, <1>3
<1> HIDE DEF s, active, r
<1>5. /\ r \in TabWindows /\ r.tabs = s /\ r.active = active
      /\ r.dragging = v.dragging /\ r.floating = v.floating /\ r.pressed = v.pressed
  BY <1>2, <1>3, <1>4 DEF TabWindows
<1> QED
  BY <1>1, <1>3, <1>4, <1>5 DEF r, s, t, k

\* The floating tab goes back into the tab bar, and is the active one there.
LEMMA TabReattached ==
  ASSUME NEW v, TabsKept(v), v.floating # NoTab, NEW index \in 0..Len(v.tabs)
  PROVE  TabsKept(Reattach(v, index)) /\ HeldTabs(Reattach(v, index)) = HeldTabs(v)
<1> DEFINE f == v.floating
           n == InsertTab(v, f, index)
           r == Reattach(v, index)
           t == v.tabs
           k == index + 1
<1>1. /\ v \in TabWindows /\ t \in Seq(Tabs) /\ Len(t) \in Nat /\ IsInjective(t) /\ f \in Tabs
      /\ f \notin ToSet(t) /\ f = v.pressed /\ index \in Nat
  BY LenProperties DEF TabsKept, TabWindows
<1>2. index = IF index > Len(v.tabs) THEN Len(v.tabs) ELSE index
  BY <1>1
<1>3. n \in TabWindows /\ n.tabs = InsertAt(t, k, f) /\ n.pressed = f
  BY <1>1, <1>2, InsertTabIs
<1>4. r = [n EXCEPT !.floating = NoTab, !.active = index]
  BY DEF Reattach
<1>5. k \in 1..(Len(t) + 1) /\ index \in Int
  BY <1>1
<1> HIDE DEF n, r, f, t, k
<1>6. r \in TabWindows /\ r.tabs = InsertAt(t, k, f) /\ r.pressed = f /\ r.floating = NoTab /\ r.active = index
  BY <1>3, <1>4, <1>5 DEF TabWindows
<1>7. /\ IsInjective(r.tabs) /\ ToSet(r.tabs) = ToSet(t) \cup {f}
  BY <1>1, <1>5, <1>6, InsertAtApart
<1>8. r.tabs \in Seq(Tabs) /\ Len(r.tabs) = Len(t) + 1 /\ r.tabs[k] = f
  BY <1>1, <1>5, <1>6, InsertAtIs
<1>9. r.tabs # <<>> /\ r.active \in 0..(Len(r.tabs) - 1) /\ r.tabs[r.active + 1] = f
  BY <1>1, <1>5, <1>6, <1>8 DEF k
<1>10. NoTab \notin ToSet(r.tabs)
  BY <1>8, ChromeAssumption, ElementOfSeq, LenProperties DEF ToSet
<1>11. TabsKept(r)
  BY <1>6, <1>7, <1>9, <1>10 DEF TabsKept
<1>12. HeldTabs(r) = HeldTabs(v)
  BY <1>1, <1>6, <1>7, ChromeAssumption DEF HeldTabs, f, t
<1> QED
  BY <1>11, <1>12 DEF r

\* The active tab leaves the tab bar.
LEMMA TabDetached ==
  ASSUME NEW v, TabsKept(v), v.dragging, v.floating = NoTab
  PROVE  TabsKept(Detach(v)) /\ HeldTabs(Detach(v)) = HeldTabs(v)
<1> DEFINE t == v.tabs
           k == v.active + 1
           n == RemoveTab(v, v.active)
           r == Detach(v)
           f == t[k]
<1>1. /\ v \in TabWindows /\ t \in Seq(Tabs) /\ Len(t) \in Nat /\ IsInjective(t) /\ t # <<>>
      /\ v.active \in 0..(Len(t) - 1) /\ k \in 1..Len(t) /\ f = v.pressed
  BY LenProperties DEF TabsKept, TabWindows
<1>2. /\ n \in TabWindows /\ n.tabs = RemoveAt(t, k)
      /\ n.active = IF v.active >= Len(t) - 1 THEN Len(t) - 2 ELSE v.active
      /\ n.dragging = v.dragging /\ n.pressed = v.pressed /\ Len(n.tabs) = Len(t) - 1
  BY <1>1, RemoveTabIs
<1>3. r = [n EXCEPT !.floating = f]
  BY DEF Detach
<1> HIDE DEF t, k, n, r
<1>4. f \in Tabs
  BY <1>1, ElementOfSeq
<1>5. IsInjective(RemoveAt(t, k)) /\ ToSet(RemoveAt(t, k)) = ToSet(t) \ {f}
  BY <1>1, RemoveAtApart
<1>6. f \in ToSet(t)
  BY <1>1, LenProperties DEF ToSet
<1> HIDE DEF f
<1>7. /\ r \in TabWindows /\ r.tabs = n.tabs /\ r.active = n.active /\ r.floating = f
      /\ r.dragging = v.dragging /\ r.pressed = v.pressed
  BY <1>2, <1>3, <1>4 DEF TabWindows
<1>8. IF r.tabs = <<>> THEN r.active = -1 ELSE r.active \in 0..(Len(r.tabs) - 1)
  <2>1. r.tabs \in Seq(Tabs) /\ Len(r.tabs) = Len(t) - 1
    BY <1>2, <1>7 DEF TabWindows
  <2>2. CASE r.tabs = <<>>
    <3>1. Len(r.tabs) = 0
      BY <2>2
    <3>0. Len(t) \in Nat /\ v.active \in 0..(Len(t) - 1) /\ Len(r.tabs) = Len(t) - 1
      BY <1>1, <2>1
    <3> DEFINE len == Len(t)
               a == v.active
    <3> HIDE DEF len, a
    <3>2. len = 1 /\ a = 0
      <4>1. len \in Nat /\ a \in 0..(len - 1) /\ len - 1 = 0
        BY <3>0, <3>1 DEF len, a
      <4> QED
        BY <4>1
    <3>3. n.active = -1
      BY <1>2, <3>2 DEF len, a
    <3> QED
      BY <1>7, <2>2, <3>3
  <2>3. CASE r.tabs # <<>>
    <3>1. Len(r.tabs) # 0
      BY <2>1, <2>3, EmptySeq
    <3> QED
      BY <1>1, <1>2, <1>7, <2>1, <2>3, <3>1
  <2> QED
    BY <2>2, <2>3
<1>9. f # NoTab
  BY <1>4, ChromeAssumption
<1>10. TabsKept(r)
  BY <1>1, <1>2, <1>5, <1>7, <1>8, <1>9 DEF TabsKept
<1>11. HeldTabs(r) = HeldTabs(v)
  BY <1>2, <1>5, <1>6, <1>7, <1>9 DEF HeldTabs, t
<1> QED
  BY <1>10, <1>11 DEF r

\* The active tab moves within the tab bar and stays active.
LEMMA TabReordered ==
  ASSUME NEW v, TabsKept(v), v.dragging, v.floating = NoTab, NEW index \in Nat
  PROVE  TabsKept(Reorder(v, index)) /\ HeldTabs(Reorder(v, index)) = HeldTabs(v)
<1> DEFINE t == v.tabs
           k == v.active + 1
           f == t[k]
           to == IF index >= Len(t) THEN Len(t) - 1 ELSE index
           n == RemoveTab(v, v.active)
           m == InsertTab(n, f, to)
           r == Reorder(v, index)
           left == RemoveAt(t, k)
           s == InsertAt(left, to + 1, f)
<1>1. /\ v \in TabWindows /\ t \in Seq(Tabs) /\ Len(t) \in Nat /\ IsInjective(t) /\ t # <<>>
      /\ v.active \in 0..(Len(t) - 1) /\ k \in 1..Len(t) /\ f = v.pressed
  BY LenProperties DEF TabsKept, TabWindows
<1>2. f \in Tabs
  BY <1>1, ElementOfSeq
<1>3. to \in 0..(Len(t) - 1)
  BY <1>1
<1>4. /\ n \in TabWindows /\ n.tabs = left /\ n.dragging = v.dragging /\ n.floating = v.floating
      /\ n.pressed = v.pressed /\ Len(n.tabs) = Len(t) - 1
  BY <1>1, RemoveTabIs
<1>5. CASE to = v.active
  BY <1>5 DEF Reorder
<1>6. CASE to # v.active
  <2>1. r = [m EXCEPT !.active = to]
    BY <1>6 DEF Reorder
  <2>2. to = (IF to > Len(n.tabs) THEN Len(n.tabs) ELSE to) /\ to \in Nat
    BY <1>1, <1>3, <1>4
  <2>3. ToSet(left) = ToSet(t) \ {f} /\ IsInjective(left) /\ f \in ToSet(t)
    <3>1. f \in ToSet(t)
      BY <1>1, LenProperties DEF ToSet
    <3> HIDE DEF t, k
    <3>2. ToSet(RemoveAt(t, k)) = ToSet(t) \ {t[k]} /\ IsInjective(RemoveAt(t, k))
      BY <1>1, RemoveAtApart
    <3> QED
      BY <3>1, <3>2
  <2>4. to + 1 \in 1..(Len(left) + 1) /\ left \in Seq(Tabs)
    BY <1>1, <1>3, <1>4 DEF TabWindows
  <2>5. m \in TabWindows /\ m.tabs = s /\ m.dragging = v.dragging /\ m.floating = v.floating /\ m.pressed = v.pressed
    <3> HIDE DEF n, to, f
    <3>0. n \in TabWindows /\ f \in Tabs /\ to \in Nat
      BY <1>2, <1>4, <2>2
    <3>1. /\ m \in TabWindows /\ m.tabs = InsertAt(n.tabs, to + 1, f)
          /\ m.dragging = n.dragging /\ m.floating = n.floating /\ m.pressed = n.pressed
      BY <2>2, <3>0, InsertTabIs
    <3> QED
      BY <1>4, <3>1
  <2> HIDE DEF m, n, to, f, left, t, k
  <2>6. /\ IsInjective(s) /\ ToSet(s) = ToSet(left) \cup {f}
    BY <1>2, <2>3, <2>4, InsertAtApart
  <2>7. /\ s \in Seq(Tabs) /\ Len(s) = Len(left) + 1 /\ s[to + 1] = f
    BY <1>2, <2>4, InsertAtIs
  <2> HIDE DEF s, r
  <2>8. /\ r \in TabWindows /\ r.tabs = s /\ r.active = to /\ r.dragging = v.dragging /\ r.floating = v.floating
        /\ r.pressed = v.pressed
    <3>1. to \in Int
      BY <2>2
    <3> QED
      BY <2>1, <2>5, <3>1 DEF TabWindows
  <2>9. s # <<>> /\ to \in 0..(Len(s) - 1)
    BY <1>1, <1>3, <1>4, <2>7
  <2>10. NoTab \notin ToSet(s)
    BY <2>7, ChromeAssumption, ElementOfSeq, LenProperties DEF ToSet
  <2>11. TabsKept(r)
    BY <1>1, <2>6, <2>7, <2>8, <2>9, <2>10 DEF TabsKept
  <2>12. HeldTabs(r) = HeldTabs(v)
    BY <2>3, <2>6, <2>8 DEF HeldTabs, t
  <2> QED
    BY <2>11, <2>12 DEF r
<1> QED
  BY <1>5, <1>6

\* The pointer moves with the button down.
LEMMA TabMoved ==
  ASSUME NEW v, TabsKept(v), v.dragging, NEW index \in TabPositions(v), NEW inBar \in BOOLEAN
  PROVE  TabsKept(Motion(v, index, inBar)) /\ HeldTabs(Motion(v, index, inBar)) = HeldTabs(v)
<1>1. Len(v.tabs) \in Nat /\ index \in -1..Len(v.tabs)
  BY LenProperties DEF TabsKept, TabWindows, TabPositions
<1>2. CASE Motion(v, index, inBar) = v
  BY <1>2
<1>3. CASE v.floating # NoTab /\ index >= 0
  <2>1. index \in 0..Len(v.tabs)
    BY <1>1, <1>3
  <2> QED
    BY <1>2, <1>3, <2>1, TabReattached DEF Motion
<1>4. CASE v.floating # NoTab /\ ~(index >= 0)
  BY <1>2, <1>4 DEF Motion
<1>5. CASE v.floating = NoTab /\ (index < 0 \/ ~inBar)
  BY <1>2, <1>5, TabDetached DEF Motion
<1>6. CASE v.floating = NoTab /\ ~(index < 0 \/ ~inBar)
  <2>1. index \in Nat
    BY <1>1, <1>6
  <2> QED
    BY <1>2, <1>6, <2>1, TabReordered DEF Motion
<1> QED
  BY <1>3, <1>4, <1>5, <1>6


\* No tab changes its window.
LEMMA ShareStays ==
  ASSUME NEW ws, NEW lost, SharedOut(ws, lost), NEW n, DOMAIN n = DOMAIN ws,
         \A x \in DOMAIN ws : HeldTabs(n[x]) = HeldTabs(ws[x])
  PROVE  SharedOut(n, lost)
<1>1. {HeldTabs(n[x]) : x \in DOMAIN n} = {HeldTabs(ws[x]) : x \in DOMAIN ws}
  OBVIOUS
<1> QED
  BY <1>1 DEF SharedOut

\* A tab goes from one window to another, or into a new one.
LEMMA ShareMoves ==
  ASSUME NEW ws, NEW lost, SharedOut(ws, lost), NEW w \in DOMAIN ws, NEW u, u # w, NEW tab \in HeldTabs(ws[w]),
         NEW n, DOMAIN n = DOMAIN ws \cup {u}, NEW held,
         u \in DOMAIN ws => held = HeldTabs(ws[u]), u \notin DOMAIN ws => held = {},
         HeldTabs(n[w]) = HeldTabs(ws[w]) \ {tab}, HeldTabs(n[u]) = held \cup {tab},
         \A x \in DOMAIN ws \ {w, u} : HeldTabs(n[x]) = HeldTabs(ws[x])
  PROVE  SharedOut(n, lost)
<1>0. \A x, y \in DOMAIN ws : x # y => HeldTabs(ws[x]) \cap HeldTabs(ws[y]) = {}
  BY DEF SharedOut
<1>1. \A x \in DOMAIN ws : HeldTabs(ws[x]) \cap lost = {} /\ HeldTabs(ws[x]) \subseteq Tabs
  BY DEF SharedOut
<1>2. held \subseteq Tabs /\ held \cap lost = {} /\ tab \notin held /\ tab \in Tabs /\ tab \notin lost
  BY <1>0, <1>1
<1>3. ASSUME NEW x \in DOMAIN n
      PROVE  HeldTabs(n[x]) \subseteq Tabs /\ HeldTabs(n[x]) \cap lost = {}
  BY <1>1, <1>2
<1>4. ASSUME NEW x \in DOMAIN n, NEW y \in DOMAIN n, x # y
      PROVE  HeldTabs(n[x]) \cap HeldTabs(n[y]) = {}
  <2>1. \A z \in DOMAIN ws \ {w, u} : /\ HeldTabs(n[z]) \cap HeldTabs(n[w]) = {}
                                      /\ HeldTabs(n[z]) \cap HeldTabs(n[u]) = {}
    BY <1>0
  <2>2. HeldTabs(n[w]) \cap HeldTabs(n[u]) = {}
    BY <1>0
  <2>3. CASE x \in {w, u} /\ y \in {w, u}
    BY <1>4, <2>2, <2>3
  <2>4. CASE x \in {w, u} /\ y \notin {w, u}
    BY <2>1, <2>4
  <2>5. CASE x \notin {w, u} /\ y \in {w, u}
    BY <2>1, <2>5
  <2>6. CASE x \notin {w, u} /\ y \notin {w, u}
    BY <1>0, <1>4, <2>6
  <2> QED
    BY <2>3, <2>4, <2>5, <2>6
<1>5. ASSUME NEW t \in Tabs, t \notin lost PROVE \E x \in DOMAIN n : t \in HeldTabs(n[x])
  <2>1. PICK y \in DOMAIN ws : t \in HeldTabs(ws[y])
    BY <1>5 DEF SharedOut
  <2>2. CASE t = tab
    BY <2>2
  <2>3. CASE t # tab /\ y = w
    BY <2>1, <2>3
  <2>4. CASE t # tab /\ y = u
    BY <2>1, <2>4
  <2>5. CASE y # w /\ y # u
    BY <2>1, <2>5
  <2> QED
    BY <2>2, <2>3, <2>4, <2>5
<1>6. lost \subseteq Tabs
  BY DEF SharedOut
<1>7. Tabs = lost \cup UNION {HeldTabs(n[x]) : x \in DOMAIN n}
  BY <1>3, <1>5, <1>6
<1> QED
  BY <1>3, <1>4, <1>7 DEF SharedOut

\* A window is closed with its tabs.
LEMMA ShareCloses ==
  ASSUME NEW ws, NEW lost, SharedOut(ws, lost), NEW w \in DOMAIN ws, NEW n, DOMAIN n = DOMAIN ws \ {w},
         \A x \in DOMAIN n : n[x] = ws[x]
  PROVE  SharedOut(n, lost \cup HeldTabs(ws[w]))
<1>1. ASSUME NEW x \in DOMAIN n
      PROVE  /\ HeldTabs(n[x]) \subseteq Tabs /\ HeldTabs(n[x]) \cap (lost \cup HeldTabs(ws[w])) = {}
             /\ \A y \in DOMAIN n \ {x} : HeldTabs(n[x]) \cap HeldTabs(n[y]) = {}
  BY DEF SharedOut
<1>2. ASSUME NEW t \in Tabs, t \notin lost \cup HeldTabs(ws[w]) PROVE \E x \in DOMAIN n : t \in HeldTabs(n[x])
  BY <1>2 DEF SharedOut
<1>3. lost \cup HeldTabs(ws[w]) \subseteq Tabs
  BY DEF SharedOut
<1>4. Tabs = (lost \cup HeldTabs(ws[w])) \cup UNION {HeldTabs(n[x]) : x \in DOMAIN n}
  BY <1>1, <1>2, <1>3
<1> QED
  BY <1>1, <1>4 DEF SharedOut

\* A window without tabs is opened.
LEMMA ShareOpens ==
  ASSUME NEW ws, NEW lost, SharedOut(ws, lost), NEW u, u \notin DOMAIN ws, NEW n, DOMAIN n = DOMAIN ws \cup {u},
         HeldTabs(n[u]) = {}, \A x \in DOMAIN ws : n[x] = ws[x]
  PROVE  SharedOut(n, lost)
<1>1. ASSUME NEW x \in DOMAIN n
      PROVE  /\ HeldTabs(n[x]) \subseteq Tabs /\ HeldTabs(n[x]) \cap lost = {}
             /\ \A y \in DOMAIN n \ {x} : HeldTabs(n[x]) \cap HeldTabs(n[y]) = {}
  BY DEF SharedOut
<1>2. ASSUME NEW t \in Tabs, t \notin lost PROVE \E x \in DOMAIN n : t \in HeldTabs(n[x])
  BY <1>2 DEF SharedOut
<1>3. Tabs = lost \cup UNION {HeldTabs(n[x]) : x \in DOMAIN n}
  BY <1>1, <1>2 DEF SharedOut
<1> QED
  BY <1>1, <1>3 DEF SharedOut

\* A window with the tabs it is given, all different.
LEMMA WindowOpened ==
  ASSUME NEW tabs \in Seq(Tabs), IsInjective(tabs)
  PROVE  TabsKept(NewWindow(tabs)) /\ HeldTabs(NewWindow(tabs)) = ToSet(tabs)
<1> DEFINE v == NewWindow(tabs)
           active == IF tabs = <<>> THEN -1 ELSE 0
<1>1. v = [tabs |-> tabs, active |-> active, dragging |-> FALSE, floating |-> NoTab,
           summary |-> -2, pressed |-> NoTab]
  BY DEF NewWindow, NoSummary
<1>2. Len(tabs) \in Nat /\ DOMAIN tabs = 1..Len(tabs) /\ \A i \in 1..Len(tabs) : tabs[i] \in Tabs
  BY LenProperties, ElementOfSeq
<1>3. NoTab \notin ToSet(tabs)
  BY <1>2, ChromeAssumption DEF ToSet
<1>4. active \in Int
  OBVIOUS
<1>5. tabs # <<>> => Len(tabs) # 0
  BY EmptySeq
<1>6. IF tabs = <<>> THEN active = -1 ELSE active \in 0..(Len(tabs) - 1)
  BY <1>2, <1>5
<1> HIDE DEF v, active
<1>7. v \in TabWindows /\ v.tabs = tabs /\ v.active = active /\ ~v.dragging /\ v.floating = NoTab
  BY <1>1, <1>4 DEF TabWindows
<1>8. TabsKept(v)
  BY <1>3, <1>6, <1>7 DEF TabsKept
<1> QED
  BY <1>7, <1>8 DEF HeldTabs, v

\* Every tab, once: what main() starts with.
LEMMA AllTabs == SetToSeq(Tabs) \in Seq(Tabs) /\ IsInjective(SetToSeq(Tabs)) /\ ToSet(SetToSeq(Tabs)) = Tabs
<1> DEFINE n == Cardinality(Tabs)
           s == SetToSeq(Tabs)
<1>1. IsFiniteSet(Tabs) /\ n \in Nat /\ ExistsBijection(1..n, Tabs)
  BY ChromeAssumption, FS_CardinalityType
<1>2. PICK f \in Bijection(1..n, Tabs) : TRUE
  BY <1>1 DEF ExistsBijection
<1>3. f \in [1..n -> Tabs] /\ IsInjective(f)
  BY DEF Bijection, Injection, IsInjective
<1>4. s \in [1..n -> Tabs] /\ IsInjective(s)
  BY <1>3 DEF SetToSeq
<1> HIDE DEF n, s
<1>5. s \in Injection(1..n, Tabs)
  BY <1>4 DEF Injection
<1>6. IsFiniteSet(1..n) /\ Cardinality(1..n) = n
  BY <1>1, FS_Interval
<1>7. s \in Surjection(1..n, Tabs)
  BY <1>1, <1>5, <1>6, FS_Injection DEF n
<1>8. s \in Seq(Tabs) /\ DOMAIN s = 1..n
  BY <1>1, <1>4
<1>9. ToSet(s) = Tabs
  BY <1>4, <1>7, <1>8 DEF ToSet, Surjection
<1> QED
  BY <1>4, <1>8, <1>9 DEF s


\* Chrome sends a message that is not about a drag, or that the drag is over.
LEMMA ToldMore ==
  ASSUME NEW ms \in Seq(TitlebarMessages), NEW m \in TitlebarMessages, m # "dragged"
  PROVE  /\ Append(ms, m) \in Seq(TitlebarMessages)
         /\ NoDragTold(ms) => NoDragTold(Append(ms, m))
         /\ DragToldOver(ms) \/ m = "drag_complete" => DragToldOver(Append(ms, m))
<1> DEFINE n == Append(ms, m)
<1>1. /\ n \in Seq(TitlebarMessages) /\ Len(ms) \in Nat /\ Len(n) = Len(ms) + 1
      /\ \A i \in 1..Len(ms) : n[i] = ms[i]
      /\ n[Len(ms) + 1] = m
  BY LenProperties, AppendProperties
<1> HIDE DEF n
<1>2. ASSUME NoDragTold(ms) PROVE NoDragTold(n)
  BY <1>1, <1>2 DEF NoDragTold
<1>3. ASSUME DragToldOver(ms) PROVE DragToldOver(n)
  <2>1. PICK i \in 1..Len(ms) : ms[i] = "drag_complete" /\ \A j \in (i + 1)..Len(ms) : ms[j] # "dragged"
    BY <1>3 DEF DragToldOver
  <2>2. i \in 1..Len(n) /\ n[i] = "drag_complete"
    BY <1>1, <2>1
  <2>3. ASSUME NEW j \in (i + 1)..Len(n) PROVE n[j] # "dragged"
    <3>1. j \in (i + 1)..Len(ms) \/ j = Len(ms) + 1
      BY <1>1, <2>3
    <3>2. CASE j = Len(ms) + 1
      BY <1>1, <3>2
    <3>3. CASE j \in (i + 1)..Len(ms)
      <4>1. j \in 1..Len(ms)
        BY <1>1, <3>3
      <4> QED
        BY <1>1, <2>1, <3>3, <4>1
    <3> QED
      BY <3>1, <3>2, <3>3
  <2> QED
    BY <2>2, <2>3 DEF DragToldOver
<1>4. ASSUME m = "drag_complete" PROVE DragToldOver(n)
  <2>1. Len(ms) + 1 \in 1..Len(n) /\ (Len(ms) + 1 + 1)..Len(n) = {}
    BY <1>1
  <2> QED
    BY <1>1, <1>4, <2>1 DEF DragToldOver
<1> QED
  BY <1>1, <1>2, <1>3, <1>4 DEF n

\* The window manager reads the first message.
LEMMA ToldLess ==
  ASSUME NEW ms \in Seq(TitlebarMessages), ms # <<>>
  PROVE  /\ Tail(ms) \in Seq(TitlebarMessages) /\ Head(ms) \in TitlebarMessages
         /\ NoDragTold(ms) => NoDragTold(Tail(ms)) /\ Head(ms) # "dragged"
         /\ DragToldOver(ms) => DragToldOver(Tail(ms)) \/ (Head(ms) = "drag_complete" /\ NoDragTold(Tail(ms)))
<1> DEFINE n == Tail(ms)
<1>1. /\ n \in Seq(TitlebarMessages) /\ Len(ms) \in Nat /\ Len(ms) # 0 /\ Len(n) = Len(ms) - 1
      /\ \A i \in 1..Len(n) : n[i] = ms[i + 1]
      /\ Head(ms) = ms[1] /\ Head(ms) \in TitlebarMessages
  BY LenProperties, EmptySeq, HeadTailProperties
<1> HIDE DEF n
<1>2. ASSUME NoDragTold(ms) PROVE NoDragTold(n) /\ Head(ms) # "dragged"
  <2>1. \A i \in 1..Len(n) : i + 1 \in 1..Len(ms)
    BY <1>1
  <2>2. 1 \in 1..Len(ms)
    BY <1>1
  <2> QED
    BY <1>1, <1>2, <2>1, <2>2 DEF NoDragTold
<1>3. ASSUME DragToldOver(ms) PROVE DragToldOver(n) \/ (Head(ms) = "drag_complete" /\ NoDragTold(n))
  <2>1. PICK i \in 1..Len(ms) : ms[i] = "drag_complete" /\ \A j \in (i + 1)..Len(ms) : ms[j] # "dragged"
    BY <1>3 DEF DragToldOver
  <2>2. CASE i = 1
    <3>1. \A j \in 1..Len(n) : j + 1 \in (i + 1)..Len(ms)
      BY <1>1, <2>2
    <3> QED
      BY <1>1, <2>1, <2>2, <3>1 DEF NoDragTold
  <2>3. CASE i # 1
    <3> DEFINE k == i - 1
    <3>1. k \in 1..Len(n) /\ k + 1 = i /\ \A j \in (k + 1)..Len(n) : j \in 1..Len(n) /\ j + 1 \in (i + 1)..Len(ms)
      BY <1>1, <2>3
    <3> HIDE DEF k
    <3>2. n[k] = "drag_complete" /\ \A j \in (k + 1)..Len(n) : n[j] # "dragged"
      BY <1>1, <2>1, <3>1
    <3> QED
      BY <3>1, <3>2 DEF DragToldOver
  <2> QED
    BY <2>2, <2>3
<1> QED
  BY <1>1, <1>2, <1>3 DEF n

\* The last of some messages, when one more is sent and when the first is read.
LEMMA LastIs ==
  ASSUME NEW bs \in Seq(BOOLEAN), NEW b \in BOOLEAN
  PROVE  /\ Append(bs, b) \in Seq(BOOLEAN) /\ Append(bs, b) # <<>>
         /\ Append(bs, b)[Len(Append(bs, b))] = b
         /\ bs # <<>> => /\ Tail(bs) \in Seq(BOOLEAN) /\ Head(bs) \in BOOLEAN
                         /\ Tail(bs) = <<>> => Head(bs) = bs[Len(bs)]
                         /\ Tail(bs) # <<>> => Tail(bs)[Len(Tail(bs))] = bs[Len(bs)]
<1>1. /\ Append(bs, b) \in Seq(BOOLEAN) /\ Len(bs) \in Nat /\ Len(Append(bs, b)) = Len(bs) + 1
      /\ Append(bs, b)[Len(bs) + 1] = b
  BY LenProperties, AppendProperties
<1>2. Append(bs, b) # <<>>
  BY <1>1
<1>3. ASSUME bs # <<>>
      PROVE  /\ Tail(bs) \in Seq(BOOLEAN) /\ Head(bs) \in BOOLEAN
             /\ Tail(bs) = <<>> => Head(bs) = bs[Len(bs)]
             /\ Tail(bs) # <<>> => Tail(bs)[Len(Tail(bs))] = bs[Len(bs)]
  <2> DEFINE n == Tail(bs)
  <2>1. /\ n \in Seq(BOOLEAN) /\ Len(bs) # 0 /\ Len(n) = Len(bs) - 1 /\ Len(n) \in Nat
        /\ \A i \in 1..Len(n) : n[i] = bs[i + 1]
        /\ Head(bs) = bs[1] /\ Head(bs) \in BOOLEAN
    BY <1>3, LenProperties, EmptySeq, HeadTailProperties
  <2> HIDE DEF n
  <2>2. ASSUME n = <<>> PROVE Head(bs) = bs[Len(bs)]
    <3>1. Len(n) = 0
      BY <2>2
    <3>2. Len(bs) = 1
      BY <1>1, <2>1, <3>1
    <3> QED
      BY <2>1, <3>2
  <2>3. ASSUME n # <<>> PROVE n[Len(n)] = bs[Len(bs)]
    <3>1. Len(n) # 0
      BY <2>1, <2>3, EmptySeq
    <3>2. Len(n) \in 1..Len(n) /\ Len(n) + 1 = Len(bs)
      BY <1>1, <2>1, <3>1
    <3> QED
      BY <2>1, <3>2
  <2> QED
    BY <2>1, <2>2, <2>3 DEF n
<1> QED
  BY <1>1, <1>2, <1>3


\* The fields of a titlebar.
LEMMA TitlebarIs ==
  ASSUME NEW p \in Titlebars
  PROVE  /\ p.mouseDown \in BOOLEAN /\ p.dragging \in BOOLEAN /\ p.expanded \in BOOLEAN /\ p.shown \in BOOLEAN
         /\ p.dragged \in BOOLEAN /\ p.toWm \in Seq(TitlebarMessages) /\ p.toChrome \in Seq(BOOLEAN)
         /\ p.told \in BOOLEAN
  BY DEF Titlebars

\* The button goes down on the titlebar.
LEMMA PressInTouch ==
  ASSUME NEW p, InTouch(p)
  PROVE  InTouch(TitlebarPress(p))
<1> DEFINE q == TitlebarPress(p)
<1>1. CASE p.mouseDown
  BY <1>1 DEF TitlebarPress
<1>2. CASE ~p.mouseDown
  <2>1. p \in Titlebars /\ ~p.dragging
    BY <1>2 DEF InTouch
  <2>2. q = [p EXCEPT !.mouseDown = TRUE, !.dragging = FALSE]
    BY <1>2 DEF TitlebarPress
  <2> HIDE DEF q
  <2>3. /\ q \in Titlebars /\ q.mouseDown /\ ~q.dragging /\ q.toChrome = p.toChrome /\ q.expanded = p.expanded
        /\ q.shown = p.shown /\ q.toWm = p.toWm /\ q.dragged = p.dragged /\ q.told = p.told
    BY <2>1, <2>2 DEF Titlebars
  <2> QED
    BY <2>1, <2>3 DEF InTouch, q
<1> QED
  BY <1>1, <1>2

\* The pointer moves with the button down.
LEMMA MotionInTouch ==
  ASSUME NEW p, InTouch(p), NEW far \in BOOLEAN
  PROVE  InTouch(TitlebarMotion(p, far))
<1> DEFINE q == TitlebarMotion(p, far)
           ms == Append(p.toWm, "dragged")
<1>1. CASE q = p
  BY <1>1
<1>2. CASE q # p
  <2>1. p \in Titlebars
    BY DEF InTouch
  <2>2. q = [p EXCEPT !.dragging = TRUE, !.toWm = ms] /\ p.mouseDown
    BY <1>2 DEF TitlebarMotion
  <2>3. ms \in Seq(TitlebarMessages)
    BY <2>1, TitlebarIs, AppendProperties DEF TitlebarMessages
  <2> HIDE DEF q, ms
  <2>4. /\ q \in Titlebars /\ q.mouseDown = p.mouseDown /\ q.dragging /\ q.toChrome = p.toChrome
        /\ q.expanded = p.expanded /\ q.shown = p.shown /\ q.told = p.told
    BY <2>1, <2>2, <2>3 DEF Titlebars
  <2> QED
    BY <2>2, <2>4 DEF InTouch, q
<1> QED
  BY <1>1, <1>2

\* The button goes up: a click, or the end of a drag.
LEMMA ReleaseInTouch ==
  ASSUME NEW p, InTouch(p)
  PROVE  InTouch(TitlebarRelease(p))
<1> DEFINE q == TitlebarRelease(p)
<1>1. p \in Titlebars /\ p.toWm \in Seq(TitlebarMessages)
  BY TitlebarIs DEF InTouch
<1>2. CASE ~p.mouseDown
  BY <1>2 DEF TitlebarRelease
<1>3. CASE p.mouseDown /\ ~p.dragging
  <2> DEFINE m == IF p.expanded THEN "collapse" ELSE "expand"
             ms == Append(p.toWm, m)
  <2>1. q = [p EXCEPT !.mouseDown = FALSE, !.toWm = ms]
    BY <1>3 DEF TitlebarRelease
  <2>2. m \in TitlebarMessages /\ m # "dragged"
    BY DEF TitlebarMessages
  <2> HIDE DEF m, q
  <2>3. /\ ms \in Seq(TitlebarMessages) /\ (NoDragTold(p.toWm) => NoDragTold(ms))
        /\ (DragToldOver(p.toWm) => DragToldOver(ms))
    BY <1>1, <2>2, ToldMore
  <2> HIDE DEF ms
  <2>4. /\ q \in Titlebars /\ q.dragging = p.dragging /\ q.toChrome = p.toChrome /\ q.expanded = p.expanded
        /\ q.shown = p.shown /\ q.toWm = ms /\ q.dragged = p.dragged /\ q.told = p.told
    BY <1>1, <2>1, <2>3 DEF Titlebars
  <2> QED
    BY <1>3, <2>3, <2>4 DEF InTouch, q
<1>4. CASE p.mouseDown /\ p.dragging
  <2> DEFINE ms == Append(p.toWm, "drag_complete")
  <2>1. q = [p EXCEPT !.mouseDown = FALSE, !.dragging = FALSE, !.toWm = ms]
    BY <1>4 DEF TitlebarRelease
  <2>2. "drag_complete" \in TitlebarMessages
    BY DEF TitlebarMessages
  <2> HIDE DEF q
  <2>3. ms \in Seq(TitlebarMessages) /\ DragToldOver(ms)
    BY <1>1, <2>2, ToldMore
  <2> HIDE DEF ms
  <2>4. /\ q \in Titlebars /\ ~q.dragging /\ q.toChrome = p.toChrome /\ q.expanded = p.expanded
        /\ q.shown = p.shown /\ q.toWm = ms /\ q.told = p.told
    BY <1>1, <2>1, <2>3 DEF Titlebars
  <2> QED
    BY <2>3, <2>4 DEF InTouch, q
<1> QED
  BY <1>2, <1>3, <1>4

\* The window manager shows the panel in state b, for a message or by itself, and says so.
LEMMA ShownInTouch ==
  ASSUME NEW p, InTouch(p), NEW b \in BOOLEAN, NEW q, DOMAIN q = DOMAIN p, q \in Titlebars,
         q.shown = b, q.toChrome = Append(p.toChrome, b), q.dragging = p.dragging, q.mouseDown = p.mouseDown,
         q.dragging \/ DragToldOver(q.toWm) \/ (~q.dragged /\ NoDragTold(q.toWm))
  PROVE  InTouch(q)
<1>1. p.toChrome \in Seq(BOOLEAN)
  BY TitlebarIs DEF InTouch
<1>2. Append(p.toChrome, b) # <<>> /\ Append(p.toChrome, b)[Len(Append(p.toChrome, b))] = b
  BY <1>1, LastIs
<1> QED
  BY <1>2 DEF InTouch

\* The window manager changes the state, for a message or by itself.
LEMMA ChangeInTouch ==
  ASSUME NEW p, InTouch(p)
  PROVE  InTouch(ChangeExpandedState(p))
<1> DEFINE b == ~p.shown
           bs == Append(p.toChrome, b)
           q == [p EXCEPT !.shown = b, !.toChrome = bs, !.told = TRUE]
<1>1. p \in Titlebars /\ b \in BOOLEAN /\ p.toChrome \in Seq(BOOLEAN)
  BY TitlebarIs DEF InTouch
<1>2. ChangeExpandedState(p) = q
  BY DEF ChangeExpandedState
<1> HIDE DEF b
<1>3. bs \in Seq(BOOLEAN)
  BY <1>1, LastIs
<1>4. /\ q \in Titlebars /\ DOMAIN q = DOMAIN p /\ q.shown = b /\ q.toChrome = bs /\ q.dragging = p.dragging
      /\ q.mouseDown = p.mouseDown /\ q.dragged = p.dragged /\ q.toWm = p.toWm
  <2> HIDE DEF bs
  <2> QED
    BY <1>1, <1>3 DEF Titlebars
<1>5. q.dragging \/ DragToldOver(q.toWm) \/ (~q.dragged /\ NoDragTold(q.toWm))
  BY <1>4 DEF InTouch
<1> HIDE DEF q
<1>6. InTouch(q)
  BY <1>1, <1>4, <1>5, ShownInTouch
<1> QED
  BY <1>2, <1>6

\* Chrome hears of the state.
LEMMA HearInTouch ==
  ASSUME NEW p, InTouch(p), p.toChrome # <<>>
  PROVE  InTouch(PanelHearsState(p))
<1> DEFINE bs == p.toChrome
           h == Head(bs)
           n == Tail(bs)
           q == PanelHearsState(p)
<1>1. p \in Titlebars /\ bs \in Seq(BOOLEAN) /\ bs # <<>> /\ bs[Len(bs)] = p.shown
  BY TitlebarIs DEF InTouch
<1>2. q = [p EXCEPT !.expanded = h, !.toChrome = n]
  BY DEF PanelHearsState
<1> HIDE DEF bs, q
<1>3. /\ n \in Seq(BOOLEAN) /\ h \in BOOLEAN /\ (n = <<>> => h = bs[Len(bs)])
      /\ (n # <<>> => n[Len(n)] = bs[Len(bs)])
  BY <1>1, LastIs
<1> HIDE DEF n, h
<1>4. /\ q \in Titlebars /\ q.expanded = h /\ q.toChrome = n /\ q.shown = p.shown /\ q.dragging = p.dragging
      /\ q.mouseDown = p.mouseDown /\ q.dragged = p.dragged /\ q.toWm = p.toWm /\ q.told = p.told
  BY <1>1, <1>2, <1>3 DEF Titlebars
<1> QED
  BY <1>1, <1>3, <1>4 DEF InTouch, q

\* The window manager reads a message about the panel.
LEMMA HandleInTouch ==
  ASSUME NEW p, InTouch(p), p.toWm # <<>>, NEW x \in WmHandlesPanelMessage(p)
  PROVE  InTouch(x)
<1> DEFINE ms == p.toWm
           m == Head(ms)
           n == Tail(ms)
           d == IF m \in {"dragged", "drag_complete"} THEN m = "dragged" ELSE p.dragged
           q == [p EXCEPT !.toWm = n, !.dragged = d]
<1>1. p \in Titlebars /\ ms \in Seq(TitlebarMessages) /\ ms # <<>> /\ p.dragged \in BOOLEAN
  BY TitlebarIs DEF InTouch
<1>2. p.dragging \/ DragToldOver(ms) \/ (~p.dragged /\ NoDragTold(ms))
  BY DEF InTouch
<1>3. x = q \/ x = ChangeExpandedState(q)
  BY DEF WmHandlesPanelMessage
<1> HIDE DEF ms
<1>4. /\ n \in Seq(TitlebarMessages) /\ m \in TitlebarMessages
      /\ NoDragTold(ms) => NoDragTold(n) /\ m # "dragged"
      /\ DragToldOver(ms) => DragToldOver(n) \/ (m = "drag_complete" /\ NoDragTold(n))
  BY <1>1, ToldLess
<1>5. d \in BOOLEAN /\ (m = "drag_complete" => ~d) /\ (m # "dragged" => (d => p.dragged))
  BY <1>1
<1> HIDE DEF n, m, d
<1>6. /\ q \in Titlebars /\ q.mouseDown = p.mouseDown /\ q.dragging = p.dragging /\ q.expanded = p.expanded
      /\ q.shown = p.shown /\ q.dragged = d /\ q.toWm = n /\ q.toChrome = p.toChrome /\ q.told = p.told
  BY <1>1, <1>4, <1>5 DEF Titlebars
<1> HIDE DEF q
<1>7. q.dragging \/ DragToldOver(n) \/ (~q.dragged /\ NoDragTold(n))
  BY <1>2, <1>4, <1>5, <1>6
<1>8. InTouch(q)
  BY <1>6, <1>7 DEF InTouch
<1> QED
  BY <1>3, <1>8, ChangeInTouch


\* An event is counted, and nothing else is changed by that.
LEMMA Counted ==
  ASSUME NEW c, DOMAIN c = ChromeFields, ChromeStep(c)
  PROVE  /\ DOMAIN chrome' = ChromeFields /\ chrome'.windows = c.windows /\ chrome'.fresh = c.fresh
         /\ chrome'.lost = c.lost /\ chrome'.panel = c.panel
  BY DEF ChromeStep, ChromeFields

\* One window changes and keeps its tabs.
LEMMA WindowChanges ==
  ASSUME ChromeInv(chrome), NEW w \in Opened(chrome), NEW r, TabsKept(r), HeldTabs(r) = HeldTabs(chrome.windows[w]),
         ChromeStep([chrome EXCEPT !.windows[w] = r])
  PROVE  ChromeInv(chrome')
<1> DEFINE ws == chrome.windows
           n == [ws EXCEPT ![w] = r]
           c == [chrome EXCEPT !.windows = n]
<1>1. /\ DOMAIN chrome = ChromeFields /\ ws = [x \in DOMAIN ws |-> ws[x]] /\ w \in DOMAIN ws
      /\ chrome.fresh \cap DOMAIN ws = {} /\ SharedOut(ws, chrome.lost) /\ InTouch(chrome.panel)
      /\ \A x \in DOMAIN ws : TabsKept(ws[x])
  BY DEF ChromeInv, Opened
<1>2. ChromeStep(c)
  OBVIOUS
<1>3. DOMAIN n = DOMAIN ws /\ n = [x \in DOMAIN n |-> n[x]] /\ \A x \in DOMAIN ws : n[x] = IF x = w THEN r ELSE ws[x]
  BY <1>1
<1> HIDE DEF n
<1>4. /\ DOMAIN c = ChromeFields /\ c.windows = n /\ c.fresh = chrome.fresh /\ c.lost = chrome.lost
      /\ c.panel = chrome.panel
  BY <1>1 DEF ChromeFields
<1> HIDE DEF c
<1>5. /\ DOMAIN chrome' = ChromeFields /\ chrome'.windows = n /\ chrome'.fresh = chrome.fresh
      /\ chrome'.lost = chrome.lost /\ chrome'.panel = chrome.panel
  BY <1>2, <1>4, Counted
<1>6. SharedOut(n, chrome.lost)
  <2>1. \A x \in DOMAIN ws : HeldTabs(n[x]) = HeldTabs(ws[x])
    BY <1>3
  <2> HIDE DEF ws
  <2> QED
    BY <1>1, <1>3, <2>1, ShareStays
<1>7. \A x \in DOMAIN n : TabsKept(n[x])
  BY <1>1, <1>3
<1> HIDE DEF ws
<1> QED
  BY <1>1, <1>3, <1>5, <1>6, <1>7 DEF ChromeInv

\* The button goes down on a tab, in the tab bar or in the summary.
LEMMA PressesInv ==
  ASSUME ChromeInv(chrome), NEW w \in Opened(chrome), UserPresses(w) \/ UserPicksInSummary(w)
  PROVE  ChromeInv(chrome')
<1> DEFINE v == chrome.windows[w]
<1>1. TabsKept(v) /\ ~v.dragging
  BY DEF ChromeInv, Opened, UserPresses, UserPicksInSummary, Grabbing
<1>2. PICK i \in 0..(Len(v.tabs) - 1) : \/ ChromeStep([chrome EXCEPT !.windows[w] = ButtonPress(v, i)])
                                        \/ ChromeStep([chrome EXCEPT !.windows[w] = ActivateTab(v, i)])
  BY DEF UserPresses, UserPicksInSummary
<1> HIDE DEF v
<1>3. /\ TabsKept(ButtonPress(v, i)) /\ HeldTabs(ButtonPress(v, i)) = HeldTabs(v)
      /\ TabsKept(ActivateTab(v, i)) /\ HeldTabs(ActivateTab(v, i)) = HeldTabs(v)
  BY <1>1, TabPressed
<1> QED
  BY <1>2, <1>3, WindowChanges DEF v

\* The pointer moves with a tab.
LEMMA MovesInv ==
  ASSUME ChromeInv(chrome), NEW w \in Opened(chrome), UserMoves(w)
  PROVE  ChromeInv(chrome')
<1> DEFINE v == chrome.windows[w]
<1>1. TabsKept(v) /\ v.dragging
  BY DEF ChromeInv, Opened, UserMoves, Grabbing
<1>2. PICK i \in TabPositions(v), inBar \in BOOLEAN :
        ChromeStep([chrome EXCEPT !.windows[w] = Motion(v, i, inBar)])
  BY DEF UserMoves
<1> HIDE DEF v
<1>3. TabsKept(Motion(v, i, inBar)) /\ HeldTabs(Motion(v, i, inBar)) = HeldTabs(v)
  BY <1>1, TabMoved
<1> QED
  BY <1>2, <1>3, WindowChanges DEF v

\* Messages of the window manager move the summary; the one about the window under a floating
\* tab changes nothing that is held.
LEMMA MessageInv ==
  ASSUME ChromeInv(chrome), NEW w \in Opened(chrome), WmMessage(w)
  PROVE  ChromeInv(chrome')
<1> DEFINE v == chrome.windows[w]
<1>1. TabsKept(v) /\ v.summary \in Int /\ Len(v.tabs) \in Nat
  BY LenProperties DEF ChromeInv, Opened, TabsKept, TabWindows
<1>2. ASSUME NEW i \in Int, ChromeStep([chrome EXCEPT !.windows[w] = [v EXCEPT !.summary = i]])
      PROVE  ChromeInv(chrome')
  <2> DEFINE r == [v EXCEPT !.summary = i]
  <2> HIDE DEF v
  <2>1. TabsKept(r) /\ HeldTabs(r) = HeldTabs(v)
    BY <1>1, SummaryChanged
  <2> HIDE DEF r
  <2>2. ChromeStep([chrome EXCEPT !.windows[w] = r])
    BY <1>2 DEF r
  <2> QED
    BY <2>1, <2>2, WindowChanges DEF v
<1>3. CASE \E entered \in BOOLEAN : ChromeStep(NotifyAboutFloatingTab(chrome, w, entered))
  <2>1. PICK entered \in BOOLEAN : ChromeStep(NotifyAboutFloatingTab(chrome, w, entered))
    BY <1>3
  <2> DEFINE c == NotifyAboutFloatingTab(chrome, w, entered)
  <2>2. /\ DOMAIN c = ChromeFields /\ c.windows = chrome.windows /\ c.fresh = chrome.fresh /\ c.lost = chrome.lost
        /\ c.panel = chrome.panel
    BY DEF NotifyAboutFloatingTab, ChromeInv, ChromeFields
  <2> HIDE DEF c
  <2>3. /\ DOMAIN chrome' = ChromeFields /\ chrome'.windows = chrome.windows /\ chrome'.fresh = chrome.fresh
        /\ chrome'.lost = chrome.lost /\ chrome'.panel = chrome.panel
    BY <2>1, <2>2, Counted DEF c
  <2> QED
    BY <2>3 DEF ChromeInv
<1>4. CASE \E visible \in BOOLEAN : ChromeStep([chrome EXCEPT !.windows[w] = SetTabSummaryVisibility(v, visible)])
  <2>1. PICK visible \in BOOLEAN : ChromeStep([chrome EXCEPT !.windows[w] = SetTabSummaryVisibility(v, visible)])
    BY <1>4
  <2> DEFINE i == IF ~visible THEN NoSummary ELSE IF v.summary = NoSummary THEN -1 ELSE v.summary
  <2>2. i \in Int
    BY <1>1 DEF NoSummary
  <2>3. SetTabSummaryVisibility(v, visible) = [v EXCEPT !.summary = i]
    BY DEF SetTabSummaryVisibility
  <2> HIDE DEF i, v
  <2> QED
    BY <1>2, <2>1, <2>2, <2>3
<1>5. CASE \E i \in -1..(Len(v.tabs) + 1) : ChromeStep([chrome EXCEPT !.windows[w] = HandleFloatingTabMovement(v, i)])
  <2>1. PICK i \in -1..(Len(v.tabs) + 1) : ChromeStep([chrome EXCEPT !.windows[w] = HandleFloatingTabMovement(v, i)])
    BY <1>5
  <2>2. i \in Int
    BY <1>1
  <2> HIDE DEF v
  <2> QED
    BY <1>2, <2>1, <2>2 DEF HandleFloatingTabMovement
<1> QED
  BY <1>3, <1>4, <1>5 DEF WmMessage

\* A window is closed.
LEMMA ClosesInv ==
  ASSUME ChromeInv(chrome), NEW w \in Opened(chrome), UserCloses(w)
  PROVE  ChromeInv(chrome')
<1> DEFINE ws == chrome.windows
           n == [x \in DOMAIN ws \ {w} |-> ws[x]]
           gone == chrome.lost \cup HeldTabs(ws[w])
           c == [chrome EXCEPT !.windows = n, !.lost = gone]
<1>1. /\ DOMAIN chrome = ChromeFields /\ w \in DOMAIN ws
      /\ chrome.fresh \cap DOMAIN ws = {} /\ SharedOut(ws, chrome.lost) /\ InTouch(chrome.panel)
      /\ \A x \in DOMAIN ws : TabsKept(ws[x])
  BY DEF ChromeInv, Opened
<1>2. ChromeStep(c)
  BY DEF UserCloses, CloseWindow
<1>3. DOMAIN n = DOMAIN ws \ {w} /\ n = [x \in DOMAIN n |-> n[x]] /\ \A x \in DOMAIN n : n[x] = ws[x]
  OBVIOUS
<1>4. SharedOut(n, gone)
  <2> HIDE DEF ws, n
  <2> QED
    BY <1>1, <1>3, ShareCloses
<1> HIDE DEF n, gone
<1>5. /\ DOMAIN c = ChromeFields /\ c.windows = n /\ c.fresh = chrome.fresh /\ c.lost = gone
      /\ c.panel = chrome.panel
  BY <1>1 DEF ChromeFields
<1> HIDE DEF c
<1>6. /\ DOMAIN chrome' = ChromeFields /\ chrome'.windows = n /\ chrome'.fresh = chrome.fresh
      /\ chrome'.lost = gone /\ chrome'.panel = chrome.panel
  BY <1>2, <1>5, Counted
<1> HIDE DEF ws
<1> QED
  BY <1>1, <1>3, <1>4, <1>6 DEF ChromeInv

\* A window without tabs is opened.
LEMMA OpensInv ==
  ASSUME ChromeInv(chrome), UserOpens
  PROVE  ChromeInv(chrome')
<1>0. PICK u \in chrome.fresh : ChromeStep(CreateWindow(chrome, u, <<>>))
  BY DEF UserOpens
<1> DEFINE ws == chrome.windows
           n == [x \in DOMAIN ws \cup {u} |-> IF x = u THEN NewWindow(<<>>) ELSE ws[x]]
           fresh == chrome.fresh \ {u}
           c == [chrome EXCEPT !.windows = n, !.fresh = fresh]
<1>1. /\ DOMAIN chrome = ChromeFields /\ u \notin DOMAIN ws
      /\ chrome.fresh \cap DOMAIN ws = {} /\ SharedOut(ws, chrome.lost) /\ InTouch(chrome.panel)
      /\ \A x \in DOMAIN ws : TabsKept(ws[x])
  BY DEF ChromeInv, Opened
<1>2. ChromeStep(c)
  BY <1>0 DEF CreateWindow
<1>3. TabsKept(NewWindow(<<>>)) /\ HeldTabs(NewWindow(<<>>)) = {}
  <2>1. <<>> \in Seq(Tabs) /\ IsInjective(<<>>) /\ ToSet(<<>>) = {}
    BY DEF IsInjective, ToSet
  <2> QED
    BY <2>1, WindowOpened
<1>4. /\ DOMAIN n = DOMAIN ws \cup {u} /\ n = [x \in DOMAIN n |-> n[x]] /\ n[u] = NewWindow(<<>>)
      /\ \A x \in DOMAIN ws : n[x] = ws[x]
  BY <1>1
<1>5. SharedOut(n, chrome.lost)
  <2> HIDE DEF ws, n
  <2> QED
    BY <1>1, <1>3, <1>4, ShareOpens
<1> HIDE DEF n, fresh
<1>6. /\ DOMAIN c = ChromeFields /\ c.windows = n /\ c.fresh = fresh /\ c.lost = chrome.lost
      /\ c.panel = chrome.panel
  BY <1>1 DEF ChromeFields
<1> HIDE DEF c
<1>7. /\ DOMAIN chrome' = ChromeFields /\ chrome'.windows = n /\ chrome'.fresh = fresh
      /\ chrome'.lost = chrome.lost /\ chrome'.panel = chrome.panel
  BY <1>2, <1>6, Counted
<1>8. fresh \cap DOMAIN n = {}
  BY <1>1, <1>4 DEF fresh
<1> HIDE DEF ws
<1>9. \A x \in DOMAIN n : TabsKept(n[x])
  BY <1>1, <1>3, <1>4
<1> QED
  BY <1>1, <1>4, <1>5, <1>7, <1>8, <1>9 DEF ChromeInv


\* The button goes up, for a window, and for the window w of the state c.
Released(v) == [v EXCEPT !.floating = NoTab, !.dragging = FALSE, !.pressed = NoTab]
Releasing(c, w) ==
  [c EXCEPT !.windows[w].floating = NoTab, !.windows[w].dragging = FALSE, !.windows[w].pressed = NoTab]

\* Only the window changes.
LEMMA ReleasingIs ==
  ASSUME NEW d, NEW w
  PROVE  Releasing(d, w) = [d EXCEPT !.windows = [d.windows EXCEPT ![w] = Released(d.windows[w])]]
<1> DEFINE d1 == [d EXCEPT !.windows[w].floating = NoTab]
           d2 == [d1 EXCEPT !.windows[w].dragging = FALSE]
           d3 == [d2 EXCEPT !.windows[w].pressed = NoTab]
           v == d.windows[w]
           r == Released(v)
           n == [d.windows EXCEPT ![w] = r]
<1>1. Releasing(d, w) = d3
  BY DEF Releasing
<1>2. r = [[[v EXCEPT !.floating = NoTab] EXCEPT !.dragging = FALSE] EXCEPT !.pressed = NoTab]
  BY DEF Released
<1>3. [d EXCEPT !.windows = n] = d3
  BY <1>2
<1> QED
  BY <1>1, <1>3

\* The window w lets go, in a state d that was reached by dropping a tab or not.
LEMMA LetGo ==
  ASSUME NEW d, DOMAIN d = ChromeFields, d.windows = [x \in DOMAIN d.windows |-> d.windows[x]],
         d.fresh \cap DOMAIN d.windows = {}, InTouch(d.panel), NEW w \in DOMAIN d.windows,
         \A x \in DOMAIN d.windows \ {w} : TabsKept(d.windows[x]), TabsKept(Released(d.windows[w])),
         SharedOut([d.windows EXCEPT ![w] = Released(d.windows[w])], d.lost),
         ChromeStep(Releasing(d, w))
  PROVE  ChromeInv(chrome')
<1> DEFINE ws == d.windows
           r == Released(ws[w])
           n == [ws EXCEPT ![w] = r]
           c == [d EXCEPT !.windows = n]
<1> HIDE DEF r
<1>1. DOMAIN n = DOMAIN ws /\ n = [x \in DOMAIN n |-> n[x]] /\ \A x \in DOMAIN ws : n[x] = IF x = w THEN r ELSE ws[x]
  OBVIOUS
<1>2. Releasing(d, w) = c
  BY ReleasingIs DEF r
<1>3. ChromeStep(c) /\ SharedOut(n, d.lost)
  BY <1>2 DEF r
<1>7. \A x \in DOMAIN n : TabsKept(n[x])
  BY <1>1 DEF r
<1> HIDE DEF n
<1>4. /\ DOMAIN c = ChromeFields /\ c.windows = n /\ c.fresh = d.fresh /\ c.lost = d.lost /\ c.panel = d.panel
  BY DEF ChromeFields
<1> HIDE DEF c
<1>5. /\ DOMAIN chrome' = ChromeFields /\ chrome'.windows = n /\ chrome'.fresh = d.fresh
      /\ chrome'.lost = d.lost /\ chrome'.panel = d.panel
  BY <1>3, <1>4, Counted
<1> QED
  BY <1>1, <1>3, <1>5, <1>7 DEF ChromeInv

\* A floating tab is dropped on the window that it was taken from.
LEMMA DroppedAtHome ==
  ASSUME NEW v, TabsKept(v), v.floating # NoTab, NEW at \in Nat, NEW n, n = InsertTab(v, v.floating, at),
         NEW r, r = [n EXCEPT !.floating = NoTab, !.dragging = FALSE, !.pressed = NoTab]
  PROVE  n \in TabWindows /\ TabsKept(r) /\ HeldTabs(r) = HeldTabs(v)
<1> DEFINE t == v.tabs
           f == v.floating
           index == IF at > Len(t) THEN Len(t) ELSE at
           k == index + 1
<1>1. /\ v \in TabWindows /\ t \in Seq(Tabs) /\ Len(t) \in Nat /\ IsInjective(t) /\ f \in Tabs
      /\ f \notin ToSet(t) /\ v.active \in Int
      /\ IF t = <<>> THEN v.active = -1 ELSE v.active \in 0..(Len(t) - 1)
  BY LenProperties DEF TabsKept, TabWindows
<1>2. index \in Nat /\ k \in 1..(Len(t) + 1)
  BY <1>1
<1>3. /\ n \in TabWindows /\ n.tabs = InsertAt(t, k, f)
      /\ n.active = IF index <= v.active THEN v.active + 1 ELSE IF v.active < 0 THEN 0 ELSE v.active
  BY <1>1, InsertTabIs
<1> HIDE DEF t, f, index, k
<1>4. r \in TabWindows /\ r.tabs = n.tabs /\ r.active = n.active /\ r.floating = NoTab /\ ~r.dragging
  BY <1>3 DEF TabWindows
<1>5. IsInjective(r.tabs) /\ ToSet(r.tabs) = ToSet(t) \cup {f}
  BY <1>1, <1>2, <1>3, <1>4, InsertAtApart
<1>6. r.tabs \in Seq(Tabs) /\ Len(r.tabs) = Len(t) + 1
  BY <1>1, <1>2, <1>3, <1>4, InsertAtIs
<1>7. NoTab \notin ToSet(r.tabs)
  BY <1>6, ChromeAssumption, ElementOfSeq, LenProperties DEF ToSet
<1>8. r.tabs # <<>>
  BY <1>1, <1>6
<1>9. r.active \in 0..(Len(r.tabs) - 1)
  <2> DEFINE l == Len(t)
             a == v.active
             b == r.active
  <2>1. l \in Nat /\ index \in Nat /\ Len(r.tabs) = l + 1 /\ b = IF index <= a THEN a + 1 ELSE IF a < 0 THEN 0 ELSE a
    BY <1>1, <1>2, <1>3, <1>4, <1>6
  <2>2. a = -1 \/ a \in 0..(l - 1)
    BY <1>1
  <2> HIDE DEF l, a, b
  <2>3. b \in 0..((l + 1) - 1)
    BY <2>1, <2>2
  <2> QED
    BY <2>1, <2>3 DEF b
<1>10. TabsKept(r)
  BY <1>4, <1>5, <1>7, <1>8, <1>9 DEF TabsKept
<1>11. HeldTabs(r) = HeldTabs(v)
  BY <1>1, <1>4, <1>5, ChromeAssumption DEF HeldTabs, t, f
<1> QED
  BY <1>3, <1>10, <1>11

\* What a window holds when its floating tab is gone.
LEMMA WithoutFloating ==
  ASSUME NEW v, TabsKept(v)
  PROVE  ToSet(v.tabs) = HeldTabs(v) \ {v.floating}
<1>1. NoTab \notin ToSet(v.tabs)
  BY ChromeAssumption, ElementOfSeq, LenProperties DEF ToSet, TabsKept, TabWindows
<1> QED
  BY <1>1 DEF HeldTabs, TabsKept

\* The button goes up with no tab floating.
LEMMA ReleasesNothing ==
  ASSUME ChromeInv(chrome), NEW w \in Opened(chrome), chrome.windows[w].floating = NoTab, NEW u,
         ChromeStep(ButtonRelease(chrome, w, u))
  PROVE  ChromeInv(chrome')
<1> DEFINE ws == chrome.windows
           v == ws[w]
           r == Released(v)
           n == [ws EXCEPT ![w] = r]
<1>1. /\ DOMAIN chrome = ChromeFields /\ ws = [x \in DOMAIN ws |-> ws[x]] /\ w \in DOMAIN ws
      /\ chrome.fresh \cap DOMAIN ws = {} /\ SharedOut(ws, chrome.lost) /\ InTouch(chrome.panel)
      /\ \A x \in DOMAIN ws : TabsKept(ws[x])
  BY DEF ChromeInv, Opened
<1>2. ChromeStep(Releasing(chrome, w))
  BY DEF ButtonRelease, Releasing
<1>3. TabsKept(v) /\ v.floating = NoTab
  BY <1>1
<1>4. TabsKept(r) /\ HeldTabs(r) = HeldTabs(v)
  <2>1. r = [v EXCEPT !.floating = NoTab, !.dragging = FALSE, !.pressed = NoTab]
    BY DEF Released
  <2> HIDE DEF v, r
  <2>2. TabsKept(r) /\ HeldTabs(r) = ToSet(v.tabs)
    BY <1>3, <2>1, TabReleased
  <2>3. HeldTabs(v) = ToSet(v.tabs)
    BY <1>3 DEF HeldTabs
  <2> QED
    BY <2>2, <2>3
<1>5. SharedOut(n, chrome.lost)
  <2>1. DOMAIN n = DOMAIN ws /\ \A x \in DOMAIN ws : HeldTabs(n[x]) = HeldTabs(ws[x])
    BY <1>1, <1>4
  <2> HIDE DEF ws, n
  <2> QED
    BY <1>1, <2>1, ShareStays
<1> QED
  BY <1>1, <1>2, <1>4, <1>5, LetGo

\* A floating tab is dropped where no window is: into a new one.
LEMMA ReleasesIntoNew ==
  ASSUME ChromeInv(chrome), NEW w \in Opened(chrome), chrome.windows[w].floating # NoTab,
         chrome.under = NoWindow, NEW u \in chrome.fresh, ChromeStep(ButtonRelease(chrome, w, u))
  PROVE  ChromeInv(chrome')
<1> DEFINE ws == chrome.windows
           v == ws[w]
           tab == v.floating
           r == Released(v)
           o == NewWindow(<<tab>>)
           s == [x \in DOMAIN ws \cup {u} |-> IF x = u THEN o ELSE ws[x]]
           fresh == chrome.fresh \ {u}
           d == [chrome EXCEPT !.windows = s, !.fresh = fresh]
           n == [s EXCEPT ![w] = r]
<1>1. /\ DOMAIN chrome = ChromeFields /\ ws = [x \in DOMAIN ws |-> ws[x]] /\ w \in DOMAIN ws
      /\ chrome.fresh \cap DOMAIN ws = {} /\ SharedOut(ws, chrome.lost) /\ InTouch(chrome.panel)
      /\ \A x \in DOMAIN ws : TabsKept(ws[x])
  BY DEF ChromeInv, Opened
<1>2. d = HandleDroppedFloatingTab(chrome, tab, u)
  BY DEF HandleDroppedFloatingTab, CreateWindow
<1>3. ChromeStep(Releasing(d, w))
  BY <1>2 DEF ButtonRelease, Releasing
<1>4. TabsKept(v) /\ tab \in Tabs /\ u \notin DOMAIN ws /\ u # w /\ tab \in HeldTabs(v)
  BY <1>1 DEF TabsKept, TabWindows, HeldTabs
<1>5. TabsKept(r) /\ HeldTabs(r) = HeldTabs(v) \ {tab}
  <2>1. r = [v EXCEPT !.floating = NoTab, !.dragging = FALSE, !.pressed = NoTab]
    BY DEF Released
  <2> HIDE DEF v, r
  <2> QED
    BY <1>4, <2>1, TabReleased, WithoutFloating
<1>6. TabsKept(o) /\ HeldTabs(o) = {tab}
  <2> HIDE DEF v, tab
  <2>1. <<tab>> \in Seq(Tabs) /\ IsInjective(<<tab>>) /\ ToSet(<<tab>>) = {tab}
    BY <1>4 DEF IsInjective, ToSet
  <2> QED
    BY <2>1, WindowOpened
<1>7. /\ DOMAIN s = DOMAIN ws \cup {u} /\ s = [x \in DOMAIN s |-> s[x]] /\ s[u] = o
      /\ \A x \in DOMAIN ws : s[x] = ws[x]
  BY <1>4
<1> HIDE DEF o, s, fresh
<1>8. DOMAIN d = ChromeFields /\ d.windows = s /\ d.fresh = fresh /\ d.lost = chrome.lost /\ d.panel = chrome.panel
  BY <1>1 DEF ChromeFields
<1> HIDE DEF d
<1>9. SharedOut(n, chrome.lost)
  <2>1. /\ HeldTabs(n[w]) = HeldTabs(ws[w]) \ {tab} /\ HeldTabs(n[u]) = {} \cup {tab}
        /\ \A x \in DOMAIN ws \ {w, u} : HeldTabs(n[x]) = HeldTabs(ws[x])
    BY <1>1, <1>4, <1>5, <1>6, <1>7
  <2>2. tab \in HeldTabs(ws[w]) /\ w \in DOMAIN ws /\ u \notin DOMAIN ws /\ u # w /\ SharedOut(ws, chrome.lost)
    BY <1>1, <1>4
  <2>3. DOMAIN n = DOMAIN ws \cup {u}
    BY <1>7
  <2> DEFINE held == {}
             m == n
  <2>4. HeldTabs(m[u]) = held \cup {tab} /\ (u \in DOMAIN ws => held = HeldTabs(ws[u])) /\ held = {}
    BY <2>1, <2>2
  <2>5. /\ HeldTabs(m[w]) = HeldTabs(ws[w]) \ {tab} /\ DOMAIN m = DOMAIN ws \cup {u}
        /\ \A x \in DOMAIN ws \ {w, u} : HeldTabs(m[x]) = HeldTabs(ws[x])
    BY <2>1, <2>3
  <2> HIDE DEF ws, tab, m, held
  <2>6. SharedOut(m, chrome.lost)
    BY <2>2, <2>4, <2>5, ShareMoves
  <2> QED
    BY <2>6 DEF m
<1>10. fresh \cap DOMAIN s = {}
  BY <1>1, <1>7 DEF fresh
<1>11. \A x \in DOMAIN s \ {w} : TabsKept(s[x])
  BY <1>1, <1>6, <1>7
<1>12. s[w] = v /\ w \in DOMAIN s
  BY <1>1, <1>7
<1> HIDE DEF ws, v
<1>13. /\ d.windows = [x \in DOMAIN d.windows |-> d.windows[x]] /\ d.fresh \cap DOMAIN d.windows = {}
       /\ InTouch(d.panel) /\ w \in DOMAIN d.windows /\ \A x \in DOMAIN d.windows \ {w} : TabsKept(d.windows[x])
  BY <1>1, <1>7, <1>8, <1>10, <1>11, <1>12
<1>14. TabsKept(Released(d.windows[w])) /\ SharedOut([d.windows EXCEPT ![w] = Released(d.windows[w])], d.lost)
  BY <1>5, <1>8, <1>9, <1>12
<1> QED
  BY <1>3, <1>8, <1>13, <1>14, LetGo

\* A floating tab is dropped on a window, which may be the one that it was taken from.
LEMMA ReleasesIntoOpened ==
  ASSUME ChromeInv(chrome), NEW w \in Opened(chrome), chrome.windows[w].floating # NoTab,
         chrome.under \in Opened(chrome), chrome.under # NoWindow, NEW u, ChromeStep(ButtonRelease(chrome, w, u))
  PROVE  ChromeInv(chrome')
<1> DEFINE ws == chrome.windows
           v == ws[w]
           y == chrome.under
           tab == v.floating
           at == IF ws[y].summary >= 0 THEN ws[y].summary ELSE Len(ws[y].tabs)
           o == InsertTab(ws[y], tab, at)
           s == [ws EXCEPT ![y] = o]
           d == [chrome EXCEPT !.windows = s]
           r == Released(s[w])
           n == [s EXCEPT ![w] = r]
<1>1. /\ DOMAIN chrome = ChromeFields /\ ws = [x \in DOMAIN ws |-> ws[x]] /\ w \in DOMAIN ws /\ y \in DOMAIN ws
      /\ chrome.fresh \cap DOMAIN ws = {} /\ SharedOut(ws, chrome.lost) /\ InTouch(chrome.panel)
      /\ \A x \in DOMAIN ws : TabsKept(ws[x])
  BY DEF ChromeInv, Opened
<1>2. d = HandleDroppedFloatingTab(chrome, tab, u)
  BY DEF HandleDroppedFloatingTab
<1>3. ChromeStep(Releasing(d, w))
  BY <1>2 DEF ButtonRelease, Releasing
<1>4. TabsKept(v) /\ tab \in Tabs /\ tab \in HeldTabs(v) /\ tab # NoTab
  BY <1>1 DEF TabsKept, TabWindows, HeldTabs
<1>5. at \in Nat
  <2>1. ws[y].summary \in Int /\ Len(ws[y].tabs) \in Nat
    BY <1>1, LenProperties DEF TabsKept, TabWindows
  <2> QED
    BY <2>1
<1>6. DOMAIN s = DOMAIN ws /\ s = [x \in DOMAIN s |-> s[x]] /\ s[y] = o /\ \A x \in DOMAIN ws \ {y} : s[x] = ws[x]
  BY <1>1
<1> HIDE DEF at, s
<1>7. DOMAIN d = ChromeFields /\ d.windows = s /\ d.fresh = chrome.fresh /\ d.lost = chrome.lost /\ d.panel = chrome.panel
  BY <1>1 DEF ChromeFields
<1> HIDE DEF d
<1>8. SUFFICES TabsKept(r) /\ (\A x \in DOMAIN s \ {w} : TabsKept(s[x])) /\ SharedOut(n, chrome.lost)
  <2> HIDE DEF ws
  <2> QED
    BY <1>1, <1>3, <1>6, <1>7, <1>8, LetGo, ZenonT(40)
<1>9. CASE y = w
  <2>1. s[w] = InsertTab(v, v.floating, at) /\ v.floating # NoTab
    BY <1>4, <1>6, <1>9
  <2>2. r = [s[w] EXCEPT !.floating = NoTab, !.dragging = FALSE, !.pressed = NoTab]
    BY DEF Released
  <2> HIDE DEF r, v
  <2>3. TabsKept(r) /\ HeldTabs(r) = HeldTabs(v)
    BY <1>4, <1>5, <2>1, <2>2, DroppedAtHome
  <2>4. SharedOut(n, chrome.lost)
    <3>1. DOMAIN n = DOMAIN ws /\ \A x \in DOMAIN ws : HeldTabs(n[x]) = HeldTabs(ws[x])
      BY <1>6, <1>9, <2>3 DEF v
    <3> HIDE DEF ws, n
    <3> QED
      BY <1>1, <3>1, ShareStays
  <2>5. \A x \in DOMAIN s \ {w} : TabsKept(s[x])
    BY <1>1, <1>6, <1>9
  <2> QED
    BY <2>3, <2>4, <2>5
<1>10. CASE y # w
  <2>1. s[w] = v
    BY <1>1, <1>6, <1>10
  <2>2. tab \notin HeldTabs(ws[y])
    BY <1>1, <1>4, <1>10 DEF SharedOut
  <2>3. TabsKept(o) /\ HeldTabs(o) = HeldTabs(ws[y]) \cup {tab}
    <3>1. TabsKept(ws[y])
      BY <1>1
    <3> DEFINE z == ws[y]
    <3> HIDE DEF z, tab
    <3> QED
      BY <1>4, <1>5, <2>2, <3>1, TabInserted DEF z
  <2>4. r = [v EXCEPT !.floating = NoTab, !.dragging = FALSE, !.pressed = NoTab]
    BY <2>1 DEF Released
  <2> HIDE DEF r, o
  <2>5. TabsKept(r) /\ HeldTabs(r) = HeldTabs(v) \ {tab}
    <3> HIDE DEF v
    <3> QED
      BY <1>4, <2>4, TabReleased, WithoutFloating
  <2>6. SharedOut(n, chrome.lost)
    <3>1. /\ HeldTabs(n[w]) = HeldTabs(ws[w]) \ {tab} /\ HeldTabs(n[y]) = HeldTabs(ws[y]) \cup {tab}
          /\ \A x \in DOMAIN ws \ {w, y} : HeldTabs(n[x]) = HeldTabs(ws[x])
      BY <1>1, <1>6, <1>10, <2>3, <2>5
    <3>2. tab \in HeldTabs(ws[w]) /\ DOMAIN n = DOMAIN ws \cup {y} /\ w \in DOMAIN ws /\ y \in DOMAIN ws
      BY <1>1, <1>4, <1>6
    <3> HIDE DEF ws, tab, y, n
    <3> QED
      BY <1>1, <1>10, <3>1, <3>2, ShareMoves
  <2>7. \A x \in DOMAIN s \ {w} : TabsKept(s[x])
    BY <1>1, <1>6, <2>3
  <2> QED
    BY <2>5, <2>6, <2>7
<1> QED
  BY <1>9, <1>10


\* The button goes up, over a window, over none, or with no tab floating.
LEMMA ReleasesInv ==
  ASSUME ChromeInv(chrome), NEW w \in Opened(chrome), UserReleases(w)
  PROVE  ChromeInv(chrome')
<1>1. CASE chrome.windows[w].floating = NoTab
  <2>1. PICK u : ChromeStep(ButtonRelease(chrome, w, u))
    BY DEF UserReleases
  <2> QED
    BY <1>1, <2>1, ReleasesNothing
<1>2. CASE chrome.windows[w].floating # NoTab /\ chrome.under = NoWindow
  <2>1. PICK u \in chrome.fresh : ChromeStep(ButtonRelease(chrome, w, u))
    BY <1>2 DEF UserReleases
  <2> QED
    BY <1>2, <2>1, ReleasesIntoNew
<1>3. CASE chrome.windows[w].floating # NoTab /\ chrome.under # NoWindow
  <2>1. chrome.under \in Opened(chrome)
    BY <1>3 DEF UserReleases
  <2>2. PICK u : ChromeStep(ButtonRelease(chrome, w, u))
    BY DEF UserReleases
  <2> QED
    BY <1>3, <2>1, <2>2, ReleasesIntoOpened
<1> QED
  BY <1>1, <1>2, <1>3

\* The user at the panel's titlebar, the window manager, and their messages.
LEMMA PanelStepInv ==
  ASSUME ChromeInv(chrome), PanelStep
  PROVE  ChromeInv(chrome')
<1> DEFINE p == chrome.panel
<1>1. PICK q : /\ \/ q \in {TitlebarPress(p), TitlebarMotion(p, TRUE), TitlebarMotion(p, FALSE), TitlebarRelease(p),
                            ChangeExpandedState(p)}
                  \/ p.toChrome # <<>> /\ q = PanelHearsState(p)
                  \/ p.toWm # <<>> /\ q \in WmHandlesPanelMessage(p)
               /\ ChromeStep([chrome EXCEPT !.panel = q])
  BY DEF PanelStep
<1>2. InTouch(p)
  BY DEF ChromeInv
<1> DEFINE c == [chrome EXCEPT !.panel = q]
<1>3. /\ DOMAIN c = ChromeFields /\ c.windows = chrome.windows /\ c.fresh = chrome.fresh /\ c.lost = chrome.lost
      /\ c.panel = q
  BY DEF ChromeInv, ChromeFields
<1> HIDE DEF p
<1>4. InTouch(q)
  BY <1>1, <1>2, PressInTouch, MotionInTouch, ReleaseInTouch, ChangeInTouch, HearInTouch, HandleInTouch
<1>5. ChromeStep(c)
  BY <1>1
<1> HIDE DEF c
<1>6. /\ DOMAIN chrome' = ChromeFields /\ chrome'.windows = chrome.windows /\ chrome'.fresh = chrome.fresh
      /\ chrome'.lost = chrome.lost /\ chrome'.panel = q
  BY <1>3, <1>5, Counted
<1> QED
  BY <1>4, <1>6 DEF ChromeInv

\* One window with every tab, and a panel about whose state Chrome has not been told.
LEMMA ChromeInitInv == ChromeInit => ChromeInv(chrome)
<1> SUFFICES ASSUME ChromeInit PROVE ChromeInv(chrome)
  OBVIOUS
<1> DEFINE v == NewWindow(SetToSeq(Tabs))
<1>1. TabsKept(v) /\ HeldTabs(v) = Tabs
  BY AllTabs, WindowOpened
<1> HIDE DEF v
<1>2. PICK first \in ChromeWindows, expanded \in BOOLEAN :
        chrome = [windows |-> [w \in {first} |-> v], fresh |-> ChromeWindows \ {first},
                  under |-> NoWindow, lost |-> {}, panel |-> NewChromePanel(expanded), steps |-> 0]
  BY DEF ChromeInit, v
<1> DEFINE ws == [w \in {first} |-> v]
           p == NewChromePanel(expanded)
<1>3. /\ DOMAIN chrome = ChromeFields /\ chrome.windows = ws /\ chrome.fresh = ChromeWindows \ {first}
      /\ chrome.lost = {} /\ chrome.panel = p
  BY <1>2 DEF ChromeFields
<1>4. DOMAIN ws = {first} /\ ws[first] = v /\ ws = [w \in DOMAIN ws |-> ws[w]]
  OBVIOUS
<1>5. InTouch(p)
  <2> DEFINE none == <<>>
  <2>1. none \in Seq(TitlebarMessages) /\ none \in Seq(BOOLEAN) /\ Len(none) = 0
    OBVIOUS
  <2>2. p = [mouseDown |-> FALSE, dragging |-> FALSE, expanded |-> FALSE, shown |-> expanded, dragged |-> FALSE,
             toWm |-> none, toChrome |-> none, told |-> FALSE]
    BY DEF NewChromePanel, NewPanelTitlebar
  <2>3. NoDragTold(none)
    BY <2>1 DEF NoDragTold
  <2>4. none = <<>>
    OBVIOUS
  <2> HIDE DEF p, none
  <2>5. /\ p \in Titlebars /\ p.toChrome = none /\ p.shown = expanded /\ p.expanded = FALSE /\ p.told = FALSE
        /\ ~p.dragging /\ ~p.dragged /\ p.toWm = none
    BY <2>1, <2>2 DEF Titlebars
  <2> QED
    BY <2>3, <2>4, <2>5 DEF InTouch
<1> HIDE DEF ws, p
<1>6. SharedOut(ws, {})
  <2>1. {HeldTabs(ws[w]) : w \in DOMAIN ws} = {Tabs}
    BY <1>1, <1>4
  <2> QED
    BY <1>4, <2>1 DEF SharedOut
<1>7. \A w \in DOMAIN ws : TabsKept(ws[w])
  BY <1>1, <1>4
<1> QED
  BY <1>3, <1>4, <1>5, <1>6, <1>7 DEF ChromeInv

\* The invariant says all that ChromeAgrees does.
LEMMA ChromeInvImplies == ChromeInv(chrome) => ChromeAgrees
<1> SUFFICES ASSUME ChromeInv(chrome) PROVE ChromeAgrees
  OBVIOUS
<1>1. ASSUME NEW w \in Opened(chrome) PROVE TabsKept(chrome.windows[w])
  BY DEF ChromeInv, Opened
<1>2. TabsInOnePlace
  <2>1. SharedOut(chrome.windows, chrome.lost)
    BY DEF ChromeInv
  <2>2. ASSUME NEW w \in Opened(chrome)
        PROVE  IsInjective(chrome.windows[w].tabs) /\ ~Contains(chrome.windows[w].tabs, chrome.windows[w].floating)
    <3> DEFINE v == chrome.windows[w]
    <3>1. TabsKept(v)
      BY <1>1
    <3> HIDE DEF v
    <3>2. v.tabs \in Seq(Tabs)
      BY <3>1 DEF TabsKept, TabWindows
    <3>3. IsInjective(v.tabs) /\ ~Contains(v.tabs, v.floating)
      BY <3>1, <3>2, LenProperties DEF TabsKept, Contains, ToSet
    <3> QED
      BY <3>3 DEF v
  <2> QED
    BY <2>1, <2>2 DEF TabsInOnePlace, SharedOut, Opened
<1>3. DragsPressedTab
  BY <1>1 DEF DragsPressedTab, TabsKept
<1>4. PanelStateAgrees
  <2> DEFINE p == chrome.panel
  <2>1. InTouch(p)
    BY DEF ChromeInv
  <2> HIDE DEF p
  <2>2. p.toWm = <<>> => ~DragToldOver(p.toWm)
    BY DEF DragToldOver
  <2> QED
    BY <2>1, <2>2 DEF PanelStateAgrees, InTouch, p
<1> QED
  BY <1>2, <1>3, <1>4 DEF ChromeAgrees

\* Every step of Chrome and of what is around it.
LEMMA ChromeNextInv ==
  ASSUME ChromeInv(chrome), ChromeNext
  PROVE  ChromeInv(chrome')
<1>1. CASE PanelStep
  BY <1>1, PanelStepInv
<1>2. CASE UserOpens
  BY <1>2, OpensInv
<1>3. ASSUME NEW w \in Opened(chrome),
             \/ UserPresses(w) \/ UserMoves(w) \/ UserReleases(w)
             \/ UserPicksInSummary(w) \/ UserCloses(w) \/ WmMessage(w)
      PROVE  ChromeInv(chrome')
  BY <1>3, PressesInv, MovesInv, ReleasesInv, ClosesInv, MessageInv
<1> QED
  BY <1>1, <1>2, <1>3 DEF ChromeNext

\* Tabs that are dragged within windows, between them and out of them, with the window
\* manager's messages arriving whenever they do, are never lost or doubled, the tab that was
\* pressed is the one dragged, and once every message was read Chrome and the window manager
\* agree about the panel: mock_chrome.cc, for any tabs, windows and number of events.
THEOREM ChromeSafety == MCSpec => []ChromeAgrees
<1>1. MCInit => ChromeInv(chrome)
  BY ChromeInitInv DEF MCInit
<1>2. ChromeInv(chrome) /\ [MCNext]_vars => ChromeInv(chrome)'
  <2> SUFFICES ASSUME ChromeInv(chrome), [MCNext]_vars PROVE ChromeInv(chrome')
    OBVIOUS
  <2>1. ChromeNext \/ UNCHANGED chrome
    BY DEF MCNext, vars, SelectionUnit
  <2>2. CASE UNCHANGED chrome
    BY <2>2
  <2>3. CASE ChromeNext
    BY <2>3, ChromeNextInv
  <2> QED
    BY <2>1, <2>2, <2>3
<1>3. ChromeInv(chrome) => ChromeAgrees
  BY ChromeInvImplies
<1> QED
  BY <1>1, <1>2, <1>3, PTL DEF MCSpec

-----------------------------------------------------------------------------
(* The event consumers.                                                    *)

\* The consumers of the window's manager.
ClientOwner(r) ==
  CASE r \in {"toplevel", "transient"} -> {"layout"}
    [] r \in {"panel", "titlebar"} -> {"panels"}
    [] OTHER -> {}
HintsOwner(r) == IF r = "panel" THEN {"panels"} ELSE {}

\* The objects that may exist, and those that do.
AllObjects ==
  {LayoutManagerObject, PanelManagerObject} \cup {Toplevel(x) : x \in ConsumerXids}
    \cup {PanelOf(x) : x \in ConsumerXids}
LiveObjects(role) ==
  {LayoutManagerObject, PanelManagerObject}
    \cup {Toplevel(x) : x \in {y \in ConsumerXids : role[y] = "toplevel"}}
    \cup {PanelOf(x) : x \in {y \in ConsumerXids : role[y] = "panel"}}
ObjectOwner(role, o) == IF o \in LiveObjects(role) THEN {Consumer(o)} ELSE {}

\* A map has no key without a consumer.
NoneEmpty(m) == \A k \in DOMAIN m : m[k] # {}

\* The maps hold exactly what the objects have registered.
WindowsRegistered(m, role) ==
  /\ NoneEmpty(m)
  /\ \A k \in DOMAIN m : \/ \E x \in ConsumerXids : k = Client(x)
                         \/ \E o \in AllObjects : k \in InputsOf(o)
  /\ \A x \in ConsumerXids : EventConsumersOf(m, Client(x)) = ClientOwner(role[x])
  /\ \A o \in AllObjects : \A k \in InputsOf(o) : EventConsumersOf(m, k) = ObjectOwner(role, o)
HintsRegistered(m, role) ==
  /\ NoneEmpty(m)
  /\ \A k \in DOMAIN m : \E x \in ConsumerXids : k = PropertyOf(x, "WM_HINTS")
  /\ \A x \in ConsumerXids : EventConsumersOf(m, PropertyOf(x, "WM_HINTS")) = HintsOwner(role[x])

\* Each registrar remembers what its object needs.
RegistrarFields == {"xids", "properties", "messages"}
RegistrarsRemember(r, role, titlebar) ==
  /\ DOMAIN r = LiveObjects(role)
  /\ \A o \in DOMAIN r : DOMAIN r[o] = RegistrarFields
  /\ \A x \in ConsumerXids : role[x] = "toplevel" =>
       /\ r[Toplevel(x)].xids = {Client(x)} \cup InputsOf(Toplevel(x))
       /\ r[Toplevel(x)].properties = {}
  /\ \A x \in ConsumerXids : role[x] = "panel" =>
       /\ r[PanelOf(x)].xids = {Client(x), Client(titlebar[x])} \cup InputsOf(PanelOf(x))
       /\ r[PanelOf(x)].properties = {PropertyOf(x, "WM_HINTS")}

\* A transient has an owner that is mapped, a panel a titlebar of its own.
Roles == {"unmapped", "toplevel", "transient", "other", "panel", "titlebar", "orphan"}
RolesFit(role, owner, titlebar) ==
  /\ role \in [ConsumerXids -> Roles]
  /\ owner \in [ConsumerXids -> ConsumerXids \cup {"none"}]
  /\ titlebar \in [ConsumerXids -> ConsumerXids \cup {"none"}]
  /\ \A x \in ConsumerXids : IF role[x] = "transient" THEN owner[x] \in ConsumerXids /\ role[owner[x]] = "toplevel"
                             ELSE owner[x] = "none"
  /\ \A x \in ConsumerXids : IF role[x] = "panel" THEN titlebar[x] \in ConsumerXids /\ role[titlebar[x]] = "titlebar"
                             ELSE titlebar[x] = "none"
  /\ \A x, y \in ConsumerXids : titlebar[x] = titlebar[y] /\ titlebar[x] # "none" => x = y

ConsumerFields == {"window", "property", "message", "registrars", "role", "owner", "titlebar", "heard", "steps"}
Registered(s) ==
  /\ DOMAIN s = ConsumerFields
  /\ RolesFit(s.role, s.owner, s.titlebar)
  /\ WindowsRegistered(s.window, s.role)
  /\ HintsRegistered(s.property, s.role)
  /\ RegistrarsRemember(s.registrars, s.role, s.titlebar)
HeardByOwner(s) ==
  s.heard.sort \in {"pointer", "focus", "client_message", "configure"} =>
    \/ \E x \in ConsumerXids : s.heard.key = Client(x) /\ s.heard.to = ClientOwner(s.role[x])
    \/ \E o \in LiveObjects(s.role) : s.heard.key = Input(o, 1) /\ s.heard.to = {Consumer(o)}
ConsumersInv(s) == Registered(s) /\ HeardByOwner(s)

-----------------------------------------------------------------------------
\* The ids of windows and objects differ.
LEMMA ClientsDiffer ==
  /\ \A x, y : Client(x) = Client(y) => x = y
  /\ \A x, o, i : Client(x) # Input(o, i)
  /\ \A x, a : Client(x)[1] = "client" /\ Client(x)[2] = x
  /\ \A o, i : Input(o, i)[1] = "input" /\ Input(o, i)[2] = o
  /\ \A x, y, a, b : PropertyOf(x, a) = PropertyOf(y, b) => x = y
BY DEF Client, Input, PropertyOf

\* The objects differ, and each has its manager.
LEMMA ObjectsDiffer ==
  /\ \A x, y : Toplevel(x) = Toplevel(y) => x = y
  /\ \A x, y : PanelOf(x) = PanelOf(y) => x = y
  /\ \A x, y : Toplevel(x) # PanelOf(y)
  /\ \A x : Toplevel(x) # LayoutManagerObject /\ Toplevel(x) # PanelManagerObject
  /\ \A x : PanelOf(x) # LayoutManagerObject /\ PanelOf(x) # PanelManagerObject
  /\ LayoutManagerObject # PanelManagerObject
  /\ \A x : Consumer(Toplevel(x)) = "layout" /\ Consumer(PanelOf(x)) = "panels"
  /\ Consumer(LayoutManagerObject) = "layout" /\ Consumer(PanelManagerObject) = "panels"
BY DEF Toplevel, PanelOf, LayoutManagerObject, PanelManagerObject, Consumer

\* An input window belongs to one object and is no client's.
LEMMA InputsDiffer ==
  /\ \A o, p, k : k \in InputsOf(o) /\ k \in InputsOf(p) => o = p
  /\ \A o, x : Client(x) \notin InputsOf(o)
  /\ \A o : Input(o, 1) \in InputsOf(o)
<1>1. \A o, k : k \in InputsOf(o) => \E i : k = Input(o, i)
  BY DEF InputsOf
<1>2. \A o, p, i, j : Input(o, i) = Input(p, j) => o = p
  BY ClientsDiffer
<1>3. \A o : Input(o, 1) \in InputsOf(o)
  BY DEF InputsOf, InputCount
<1> QED
  BY <1>1, <1>2, <1>3, ClientsDiffer

\* What is in a map once a consumer has registered.
LEMMA RegisterIs ==
  ASSUME NEW m, NEW K, NEW c
  PROVE  /\ \A k : k \in K => EventConsumersOf(Register(m, K, c), k) = EventConsumersOf(m, k) \cup {c}
         /\ \A k : k \notin K => EventConsumersOf(Register(m, K, c), k) = EventConsumersOf(m, k)
         /\ DOMAIN Register(m, K, c) = DOMAIN m \cup K
         /\ NoneEmpty(m) => NoneEmpty(Register(m, K, c))
BY DEF Register, EventConsumersOf, NoneEmpty

\* What is left in a map once a consumer has taken back its registrations.
LEMMA UnregisterIs ==
  ASSUME NEW m, NEW K, NEW c, NoneEmpty(m)
  PROVE  /\ \A k : k \in K => EventConsumersOf(Unregister(m, K, c), k) = EventConsumersOf(m, k) \ {c}
         /\ \A k : k \notin K => EventConsumersOf(Unregister(m, K, c), k) = EventConsumersOf(m, k)
         /\ DOMAIN Unregister(m, K, c) \subseteq DOMAIN m
         /\ NoneEmpty(Unregister(m, K, c))
<1> DEFINE D == {j \in DOMAIN m : j \notin K \/ m[j] # {c}}
           u == Unregister(m, K, c)
<1>1. u = [k \in D |-> IF k \in K THEN m[k] \ {c} ELSE m[k]]
  BY DEF Unregister
<1>2. DOMAIN u = D /\ \A k \in D : u[k] = IF k \in K THEN m[k] \ {c} ELSE m[k]
  BY <1>1
<1>3. \A k : k \in K => EventConsumersOf(u, k) = EventConsumersOf(m, k) \ {c}
  BY <1>2 DEF EventConsumersOf
<1>4. \A k : k \notin K => EventConsumersOf(u, k) = EventConsumersOf(m, k)
  BY <1>2 DEF EventConsumersOf
<1>5. NoneEmpty(u)
  BY <1>2 DEF NoneEmpty
<1> QED
  BY <1>2, <1>3, <1>4, <1>5

\* The manager of a window, role by role.
LEMMA ClientOwnerIs ==
  /\ ClientOwner("toplevel") = {"layout"} /\ ClientOwner("transient") = {"layout"}
  /\ ClientOwner("panel") = {"panels"} /\ ClientOwner("titlebar") = {"panels"}
  /\ ClientOwner("unmapped") = {} /\ ClientOwner("other") = {} /\ ClientOwner("orphan") = {}
BY DEF ClientOwner

\* What two states of the maps have in common, whoever registers.
Alike(s, t) ==
  /\ DOMAIN t = ConsumerFields /\ t.role = s.role /\ t.owner = s.owner /\ t.titlebar = s.titlebar

\* The registrars r and q differ in what o's remembers.
OthersAlike(r, q, o) == DOMAIN q = DOMAIN r /\ \A p \in DOMAIN r : p # o => q[p] = r[p]
Remembers(r, xids, properties) ==
  DOMAIN r = RegistrarFields /\ r.xids = xids /\ r.properties = properties

\* A new registrar remembers nothing.
LEMMA NewRegistrarIs ==
  ASSUME NEW s, DOMAIN s = ConsumerFields, NEW o, NEW t, t = NewRegistrar(s, o)
  PROVE  /\ Alike(s, t) /\ t.window = s.window /\ t.property = s.property
         /\ DOMAIN t.registrars = DOMAIN s.registrars \cup {o}
         /\ \A p \in DOMAIN s.registrars : p # o => t.registrars[p] = s.registrars[p]
         /\ Remembers(t.registrars[o], {}, {})
<1> DEFINE e == [xids |-> {}, properties |-> {}, messages |-> {}]
           R == [p \in DOMAIN s.registrars \cup {o} |-> IF p = o THEN e ELSE s.registrars[p]]
<1>1. t = [s EXCEPT !.registrars = R]
  BY DEF NewRegistrar
<1>2. DOMAIN R = DOMAIN s.registrars \cup {o} /\ R[o] = e /\ \A p \in DOMAIN s.registrars : p # o => R[p] = s.registrars[p]
  OBVIOUS
<1>3. Remembers(e, {}, {})
  BY DEF Remembers, RegistrarFields
<1> HIDE DEF R, e
<1>4. /\ DOMAIN t = ConsumerFields /\ t.registrars = R /\ t.window = s.window /\ t.property = s.property
      /\ t.role = s.role /\ t.owner = s.owner /\ t.titlebar = s.titlebar
  BY <1>1 DEF ConsumerFields
<1> QED
  BY <1>2, <1>3, <1>4 DEF Alike

\* RegisterForWindowEvents() changes the map of windows and its registrar.
LEMMA RegistersWindows ==
  ASSUME NEW s, DOMAIN s = ConsumerFields, NEW o \in DOMAIN s.registrars, NEW K, NEW X, NEW P,
         Remembers(s.registrars[o], X, P), NEW t, t = RegisterForWindowEvents(s, o, K)
  PROVE  /\ Alike(s, t) /\ t.window = Register(s.window, K, Consumer(o)) /\ t.property = s.property
         /\ OthersAlike(s.registrars, t.registrars, o) /\ Remembers(t.registrars[o], X \cup K, P)
<1> DEFINE w == [s EXCEPT !.window = Register(s.window, K, Consumer(o))]
           r == w.registrars[o]
           q == [r EXCEPT !.xids = r.xids \cup K]
           R == [w.registrars EXCEPT ![o] = q]
<1>1. t = [w EXCEPT !.registrars = R]
  BY DEF RegisterForWindowEvents, RegisterEventConsumerForWindowEvents
<1>2. /\ DOMAIN w = ConsumerFields /\ w.registrars = s.registrars
      /\ w.window = Register(s.window, K, Consumer(o))
      /\ w.property = s.property /\ w.role = s.role /\ w.owner = s.owner /\ w.titlebar = s.titlebar
  BY DEF ConsumerFields
<1> HIDE DEF w
<1>3. Remembers(r, X, P)
  BY <1>2
<1> HIDE DEF r
<1>4. Remembers(q, X \cup K, P)
  BY <1>3 DEF Remembers, RegistrarFields
<1> HIDE DEF q
<1>5. OthersAlike(s.registrars, R, o) /\ R[o] = q
  BY <1>2 DEF OthersAlike
<1> HIDE DEF R
<1>6. /\ DOMAIN t = ConsumerFields /\ t.registrars = R /\ t.window = w.window
      /\ t.property = w.property /\ t.role = w.role /\ t.owner = w.owner /\ t.titlebar = w.titlebar
  BY <1>1, <1>2 DEF ConsumerFields
<1> QED
  BY <1>2, <1>4, <1>5, <1>6 DEF Alike

\* RegisterForPropertyChanges() changes the map of properties and its registrar.
LEMMA RegistersProperties ==
  ASSUME NEW s, DOMAIN s = ConsumerFields, NEW o \in DOMAIN s.registrars, NEW K, NEW X, NEW P,
         Remembers(s.registrars[o], X, P), NEW t, t = RegisterForPropertyChanges(s, o, K)
  PROVE  /\ Alike(s, t) /\ t.window = s.window /\ t.property = Register(s.property, K, Consumer(o))
         /\ OthersAlike(s.registrars, t.registrars, o) /\ Remembers(t.registrars[o], X, P \cup K)
<1> DEFINE w == [s EXCEPT !.property = Register(s.property, K, Consumer(o))]
           r == w.registrars[o]
           q == [r EXCEPT !.properties = r.properties \cup K]
           R == [w.registrars EXCEPT ![o] = q]
<1>1. t = [w EXCEPT !.registrars = R]
  BY DEF RegisterForPropertyChanges, RegisterEventConsumerForPropertyChanges
<1>2. /\ DOMAIN w = ConsumerFields /\ w.registrars = s.registrars
      /\ w.property = Register(s.property, K, Consumer(o))
      /\ w.window = s.window /\ w.role = s.role /\ w.owner = s.owner /\ w.titlebar = s.titlebar
  BY DEF ConsumerFields
<1> HIDE DEF w
<1>3. Remembers(r, X, P)
  BY <1>2
<1> HIDE DEF r
<1>4. Remembers(q, X, P \cup K)
  BY <1>3 DEF Remembers, RegistrarFields
<1> HIDE DEF q
<1>5. OthersAlike(s.registrars, R, o) /\ R[o] = q
  BY <1>2 DEF OthersAlike
<1> HIDE DEF R
<1>6. /\ DOMAIN t = ConsumerFields /\ t.registrars = R /\ t.window = w.window
      /\ t.property = w.property /\ t.role = w.role /\ t.owner = w.owner /\ t.titlebar = w.titlebar
  BY <1>1, <1>2 DEF ConsumerFields
<1> QED
  BY <1>2, <1>4, <1>5, <1>6 DEF Alike

\* RegisterForChromeMessages() changes the map of messages and its registrar.
LEMMA RegistersMessages ==
  ASSUME NEW s, DOMAIN s = ConsumerFields, NEW o \in DOMAIN s.registrars, NEW K, NEW X, NEW P,
         Remembers(s.registrars[o], X, P), NEW t, t = RegisterForChromeMessages(s, o, K)
  PROVE  /\ Alike(s, t) /\ t.window = s.window /\ t.property = s.property
         /\ OthersAlike(s.registrars, t.registrars, o) /\ Remembers(t.registrars[o], X, P)
<1> DEFINE w == [s EXCEPT !.message = Register(s.message, K, Consumer(o))]
           r == w.registrars[o]
           q == [r EXCEPT !.messages = r.messages \cup K]
           R == [w.registrars EXCEPT ![o] = q]
<1>1. t = [w EXCEPT !.registrars = R]
  BY DEF RegisterForChromeMessages, RegisterEventConsumerForChromeMessages
<1>2. /\ DOMAIN w = ConsumerFields /\ w.registrars = s.registrars /\ w.property = s.property
      /\ w.window = s.window /\ w.role = s.role /\ w.owner = s.owner /\ w.titlebar = s.titlebar
  BY DEF ConsumerFields
<1> HIDE DEF w
<1>3. Remembers(r, X, P)
  BY <1>2
<1> HIDE DEF r
<1>4. Remembers(q, X, P)
  BY <1>3 DEF Remembers, RegistrarFields
<1> HIDE DEF q
<1>5. OthersAlike(s.registrars, R, o) /\ R[o] = q
  BY <1>2 DEF OthersAlike
<1> HIDE DEF R
<1>6. /\ DOMAIN t = ConsumerFields /\ t.registrars = R /\ t.window = w.window
      /\ t.property = w.property /\ t.role = w.role /\ t.owner = w.owner /\ t.titlebar = w.titlebar
  BY <1>1, <1>2 DEF ConsumerFields
<1> QED
  BY <1>2, <1>4, <1>5, <1>6 DEF Alike

\* The registrar of o is gone from t, and its registrations X and P with it.
Destroyed(s, o, X, P, t) ==
  /\ Alike(s, t) /\ t.window = Unregister(s.window, X, Consumer(o))
  /\ t.property = Unregister(s.property, P, Consumer(o))
  /\ DOMAIN t.registrars = DOMAIN s.registrars \ {o}
  /\ \A p \in DOMAIN t.registrars : t.registrars[p] = s.registrars[p]

\* ~EventConsumerRegistrar() takes back what the registrar remembers.
LEMMA DestroysRegistrar ==
  ASSUME NEW s, DOMAIN s = ConsumerFields, NEW o \in DOMAIN s.registrars, NEW X, NEW P,
         Remembers(s.registrars[o], X, P)
  PROVE  Destroyed(s, o, X, P, DestroyRegistrar(s, o))
<1> DEFINE t == DestroyRegistrar(s, o)
           c == Consumer(o)
           W == Unregister(s.window, X, c)
           w == [s EXCEPT !.window = W]
           Q == Unregister(w.property, P, c)
           q == [w EXCEPT !.property = Q]
           M == Unregister(q.message, s.registrars[o].messages, c)
           a == [q EXCEPT !.message = M]
           R == [p \in DOMAIN a.registrars \ {o} |-> a.registrars[p]]
<1>1. t = [a EXCEPT !.registrars = R]
  <2>1. s.registrars[o].xids = X /\ s.registrars[o].properties = P
    BY DEF Remembers
  <2>2. UnregisterEventConsumerForWindowEvents(s, X, c) = w
    BY DEF UnregisterEventConsumerForWindowEvents
  <2>3. UnregisterEventConsumerForPropertyChanges(w, P, c) = q
    BY DEF UnregisterEventConsumerForPropertyChanges
  <2>4. UnregisterEventConsumerForChromeMessages(q, s.registrars[o].messages, c) = a
    BY DEF UnregisterEventConsumerForChromeMessages
  <2>5. DestroyRegistrar(s, o) = [a EXCEPT !.registrars = R]
    <3> HIDE DEF a, q, w
    <3> QED
      BY <2>1, <2>2, <2>3, <2>4 DEF DestroyRegistrar
  <2> QED
    BY <2>5
<1> HIDE DEF W, t
<1>2. /\ DOMAIN w = ConsumerFields /\ w.registrars = s.registrars /\ w.window = W /\ w.message = s.message
      /\ w.property = s.property /\ w.role = s.role /\ w.owner = s.owner /\ w.titlebar = s.titlebar
  BY DEF ConsumerFields
<1> HIDE DEF w, Q
<1>3. /\ DOMAIN q = ConsumerFields /\ q.registrars = s.registrars /\ q.window = W /\ q.message = s.message
      /\ q.property = Q /\ q.role = s.role /\ q.owner = s.owner /\ q.titlebar = s.titlebar
  BY <1>2 DEF ConsumerFields
<1> HIDE DEF q, M
<1>4. /\ DOMAIN a = ConsumerFields /\ a.registrars = s.registrars /\ a.window = W
      /\ a.property = Q /\ a.role = s.role /\ a.owner = s.owner /\ a.titlebar = s.titlebar
  BY <1>3 DEF ConsumerFields
<1> HIDE DEF a
<1>5. DOMAIN R = DOMAIN s.registrars \ {o} /\ \A p \in DOMAIN R : R[p] = s.registrars[p]
  BY <1>4
<1> HIDE DEF R
<1>6. /\ DOMAIN t = ConsumerFields /\ t.registrars = R /\ t.window = W /\ t.property = Q
      /\ t.role = s.role /\ t.owner = s.owner /\ t.titlebar = s.titlebar
  BY <1>1, <1>4 DEF ConsumerFields
<1>7. Q = Unregister(s.property, P, Consumer(o)) /\ W = Unregister(s.window, X, Consumer(o))
  BY <1>2 DEF Q, W
<1> QED
  BY <1>5, <1>6, <1>7 DEF Alike, Destroyed, t

-----------------------------------------------------------------------------
\* Which objects there are.
LEMMA LiveIs ==
  ASSUME NEW role
  PROVE  /\ \A x \in ConsumerXids : Toplevel(x) \in LiveObjects(role) <=> role[x] = "toplevel"
         /\ \A x \in ConsumerXids : PanelOf(x) \in LiveObjects(role) <=> role[x] = "panel"
         /\ LayoutManagerObject \in LiveObjects(role) /\ PanelManagerObject \in LiveObjects(role)
         /\ LiveObjects(role) \subseteq AllObjects
<1> DEFINE T == {Toplevel(x) : x \in {y \in ConsumerXids : role[y] = "toplevel"}}
           P == {PanelOf(x) : x \in {y \in ConsumerXids : role[y] = "panel"}}
<1>1. LiveObjects(role) = {LayoutManagerObject, PanelManagerObject} \cup T \cup P
  BY DEF LiveObjects
<1>2. \A x \in ConsumerXids : Toplevel(x) \in T <=> role[x] = "toplevel"
  BY ObjectsDiffer
<1>3. \A x \in ConsumerXids : PanelOf(x) \in P <=> role[x] = "panel"
  BY ObjectsDiffer
<1>4. \A x : Toplevel(x) \notin P
  BY ObjectsDiffer
<1>5. \A x : PanelOf(x) \notin T
  BY ObjectsDiffer
<1>6. T \subseteq AllObjects
  BY DEF AllObjects
<1>7. P \subseteq AllObjects
  BY DEF AllObjects
<1> HIDE DEF T, P
<1>8. LiveObjects(role) \subseteq AllObjects
  BY <1>1, <1>6, <1>7 DEF AllObjects
<1> QED
  BY <1>1, <1>2, <1>3, <1>4, <1>5, <1>8, ObjectsDiffer

\* The objects of other windows stay.
LEMMA LiveStays ==
  ASSUME NEW role, NEW new, NEW o \in AllObjects,
         \A x \in ConsumerXids : o = Toplevel(x) => (role[x] = "toplevel" <=> new[x] = "toplevel"),
         \A x \in ConsumerXids : o = PanelOf(x) => (role[x] = "panel" <=> new[x] = "panel")
  PROVE  /\ o \in LiveObjects(role) <=> o \in LiveObjects(new)
         /\ ObjectOwner(new, o) = ObjectOwner(role, o)
<1>1. o \in LiveObjects(role) <=> o \in LiveObjects(new)
  <2>1. CASE o \in {LayoutManagerObject, PanelManagerObject}
    BY <2>1, LiveIs
  <2>2. CASE \E x \in ConsumerXids : o = Toplevel(x)
    BY <2>2, LiveIs
  <2>3. CASE \E x \in ConsumerXids : o = PanelOf(x)
    BY <2>3, LiveIs
  <2> QED
    BY <2>1, <2>2, <2>3 DEF AllObjects
<1> QED
  BY <1>1 DEF ObjectOwner

\* A map of windows follows the roles, if every key does.
LEMMA WindowsFollow ==
  ASSUME NEW m, NEW role, WindowsRegistered(m, role), NEW n, NEW new, NoneEmpty(n),
         \A k \in DOMAIN n :
           \/ k \in DOMAIN m
           \/ \E x \in ConsumerXids : k = Client(x)
           \/ \E o \in AllObjects : k \in InputsOf(o),
         \A x \in ConsumerXids :
           \/ EventConsumersOf(n, Client(x)) = ClientOwner(new[x])
           \/ EventConsumersOf(n, Client(x)) = EventConsumersOf(m, Client(x))
               /\ ClientOwner(new[x]) = ClientOwner(role[x]),
         \A o \in AllObjects : \A k \in InputsOf(o) :
           \/ EventConsumersOf(n, k) = ObjectOwner(new, o)
           \/ EventConsumersOf(n, k) = EventConsumersOf(m, k) /\ ObjectOwner(new, o) = ObjectOwner(role, o)
  PROVE  WindowsRegistered(n, new)
<1>1. \A k \in DOMAIN n :
        \/ \E x \in ConsumerXids : k = Client(x)
        \/ \E o \in AllObjects : k \in InputsOf(o)
  BY DEF WindowsRegistered
<1>2. \A x \in ConsumerXids : EventConsumersOf(n, Client(x)) = ClientOwner(new[x])
  BY DEF WindowsRegistered
<1>3. \A o \in AllObjects : \A k \in InputsOf(o) : EventConsumersOf(n, k) = ObjectOwner(new, o)
  BY DEF WindowsRegistered
<1> QED
  BY <1>1, <1>2, <1>3 DEF WindowsRegistered

\* A toplevel window is mapped.
LEMMA ToplevelRegistered ==
  ASSUME NEW s, Registered(s), NEW x \in ConsumerXids, s.role[x] = "unmapped",
         NEW t, t = [NewToplevelWindow(s, x) EXCEPT !.role[x] = "toplevel"]
  PROVE  Registered(t)
<1> DEFINE o == Toplevel(x)
           K == {Client(x)} \cup InputsOf(o)
           r == NewRegistrar(s, o)
           u == RegisterForWindowEvents(r, o, K)
           new == [s.role EXCEPT ![x] = "toplevel"]
<1>0. /\ DOMAIN s = ConsumerFields /\ RolesFit(s.role, s.owner, s.titlebar)
      /\ WindowsRegistered(s.window, s.role) /\ HintsRegistered(s.property, s.role)
      /\ RegistrarsRemember(s.registrars, s.role, s.titlebar)
  BY DEF Registered
<1>1. NewToplevelWindow(s, x) = u
  BY DEF NewToplevelWindow
<1>2. o \in AllObjects /\ o \notin LiveObjects(s.role) /\ Consumer(o) = "layout"
  BY LiveIs, ObjectsDiffer DEF AllObjects
<1>3. /\ Alike(s, r) /\ r.window = s.window /\ r.property = s.property
      /\ DOMAIN r.registrars = DOMAIN s.registrars \cup {o}
      /\ \A p \in DOMAIN s.registrars : p # o => r.registrars[p] = s.registrars[p]
      /\ Remembers(r.registrars[o], {}, {})
  BY <1>0, NewRegistrarIs
<1> HIDE DEF r, o, K
<1>4. DOMAIN r = ConsumerFields /\ o \in DOMAIN r.registrars
  BY <1>3 DEF Alike
<1>5. /\ Alike(r, u) /\ u.window = Register(r.window, K, Consumer(o)) /\ u.property = r.property
      /\ OthersAlike(r.registrars, u.registrars, o) /\ Remembers(u.registrars[o], {} \cup K, {})
  BY <1>3, <1>4, RegistersWindows
<1> HIDE DEF u
<1>6. /\ DOMAIN t = ConsumerFields /\ t.role = new /\ t.owner = s.owner /\ t.titlebar = s.titlebar
      /\ t.window = Register(s.window, K, "layout") /\ t.property = s.property
      /\ t.registrars = u.registrars
  BY <1>1, <1>2, <1>3, <1>5 DEF Alike, ConsumerFields
<1>7. /\ DOMAIN u.registrars = DOMAIN s.registrars \cup {o}
      /\ \A p \in DOMAIN s.registrars : p # o => u.registrars[p] = s.registrars[p]
      /\ DOMAIN u.registrars[o] = RegistrarFields /\ u.registrars[o].xids = K
      /\ u.registrars[o].properties = {}
  BY <1>3, <1>5 DEF OthersAlike, Remembers
<1>8. /\ s.role \in [ConsumerXids -> Roles] /\ new \in [ConsumerXids -> Roles] /\ new[x] = "toplevel"
      /\ \A y \in ConsumerXids : y # x => new[y] = s.role[y]
  BY <1>0 DEF RolesFit, Roles
<1> HIDE DEF new
<1>9. RolesFit(new, s.owner, s.titlebar)
  BY <1>0, <1>8 DEF RolesFit
<1>10. \A p \in AllObjects : p # o =>
         (p \in LiveObjects(s.role) <=> p \in LiveObjects(new)) /\ ObjectOwner(new, p) = ObjectOwner(s.role, p)
  BY <1>8, LiveStays, ObjectsDiffer DEF o
<1>11. o \in LiveObjects(new)
  BY <1>8, LiveIs DEF o
<1>12. WindowsRegistered(t.window, new)
  <2>0. NoneEmpty(s.window)
    BY <1>0 DEF WindowsRegistered
  <2> DEFINE w == Register(s.window, K, "layout")
  <2>a. /\ \A k : k \in K => EventConsumersOf(w, k) = EventConsumersOf(s.window, k) \cup {"layout"}
        /\ \A k : k \notin K => EventConsumersOf(w, k) = EventConsumersOf(s.window, k)
        /\ DOMAIN w = DOMAIN s.window \cup K
        /\ NoneEmpty(s.window) => NoneEmpty(w)
    BY RegisterIs
  <2> HIDE DEF w
  <2>1. /\ \A k : k \in K => EventConsumersOf(t.window, k) = EventConsumersOf(s.window, k) \cup {"layout"}
        /\ \A k : k \notin K => EventConsumersOf(t.window, k) = EventConsumersOf(s.window, k)
        /\ DOMAIN t.window = DOMAIN s.window \cup K /\ NoneEmpty(t.window)
    BY <1>6, <2>0, <2>a DEF w
  <2>2. \A y \in ConsumerXids : Client(y) \in K <=> y = x
    BY ClientsDiffer, InputsDiffer DEF K
  <2>3. \A y \in ConsumerXids :
           \/ EventConsumersOf(t.window, Client(y)) = ClientOwner(new[y])
           \/ EventConsumersOf(t.window, Client(y)) = EventConsumersOf(s.window, Client(y))
               /\ ClientOwner(new[y]) = ClientOwner(s.role[y])
    <3>1. EventConsumersOf(s.window, Client(x)) = {}
      BY <1>0, ClientOwnerIs DEF WindowsRegistered
    <3>2. EventConsumersOf(t.window, Client(x)) = ClientOwner(new[x])
      BY <1>8, <2>1, <2>2, <3>1, ClientOwnerIs
    <3> QED
      BY <1>8, <2>1, <2>2, <3>2
  <2>4. \A p \in AllObjects : \A k \in InputsOf(p) :
           \/ EventConsumersOf(t.window, k) = ObjectOwner(new, p)
           \/ EventConsumersOf(t.window, k) = EventConsumersOf(s.window, k) /\ ObjectOwner(new, p) = ObjectOwner(s.role, p)
    <3> SUFFICES ASSUME NEW p \in AllObjects, NEW k \in InputsOf(p)
                 PROVE  \/ EventConsumersOf(t.window, k) = ObjectOwner(new, p)
                        \/ EventConsumersOf(t.window, k) = EventConsumersOf(s.window, k) /\ ObjectOwner(new, p) = ObjectOwner(s.role, p)
      OBVIOUS
    <3>1. CASE p = o
      <4>1. k \in K /\ EventConsumersOf(s.window, k) = {}
        BY <1>0, <1>2, <3>1 DEF WindowsRegistered, ObjectOwner, K
      <4> QED
        BY <1>2, <1>11, <2>1, <3>1, <4>1 DEF ObjectOwner
    <3>2. CASE p # o
      <4>1. k \notin K
        BY <3>2, InputsDiffer DEF K
      <4> QED
        BY <1>10, <2>1, <3>2, <4>1
    <3> QED
      BY <3>1, <3>2
  <2>5. \A k \in DOMAIN t.window :
          \/ k \in DOMAIN s.window
          \/ \E y \in ConsumerXids : k = Client(y)
          \/ \E p \in AllObjects : k \in InputsOf(p)
    BY <1>2, <2>1 DEF K
  <2> QED
    BY <1>0, <2>1, <2>3, <2>4, <2>5, WindowsFollow
<1>13. HintsRegistered(s.property, new)
  <2>1. \A y \in ConsumerXids : HintsOwner(new[y]) = HintsOwner(s.role[y])
    BY <1>8 DEF HintsOwner
  <2> QED
    BY <1>0, <2>1 DEF HintsRegistered
<1>14. RegistrarsRemember(u.registrars, new, s.titlebar)
  <2>1. DOMAIN s.registrars = LiveObjects(s.role) /\ \A p \in DOMAIN s.registrars : DOMAIN s.registrars[p] = RegistrarFields
    BY <1>0 DEF RegistrarsRemember
  <2>2. DOMAIN u.registrars = LiveObjects(new)
    BY <1>2, <1>7, <1>10, <1>11, <2>1, LiveIs
  <2>3. \A p \in DOMAIN u.registrars : DOMAIN u.registrars[p] = RegistrarFields
    BY <1>7, <2>1
  <2>4. \A y \in ConsumerXids : new[y] = "toplevel" =>
          /\ u.registrars[Toplevel(y)].xids = {Client(y)} \cup InputsOf(Toplevel(y))
          /\ u.registrars[Toplevel(y)].properties = {}
    <3> SUFFICES ASSUME NEW y \in ConsumerXids, new[y] = "toplevel"
                 PROVE  /\ u.registrars[Toplevel(y)].xids = {Client(y)} \cup InputsOf(Toplevel(y))
                        /\ u.registrars[Toplevel(y)].properties = {}
      OBVIOUS
    <3>1. CASE y = x
      BY <1>7, <3>1 DEF o, K
    <3>2. CASE y # x
      <4>1. s.role[y] = "toplevel" /\ Toplevel(y) # o /\ Toplevel(y) \in DOMAIN s.registrars
        BY <1>8, <2>1, <3>2, LiveIs, ObjectsDiffer DEF o
      <4> QED
        BY <1>0, <1>7, <4>1 DEF RegistrarsRemember
    <3> QED
      BY <3>1, <3>2
  <2>5. \A y \in ConsumerXids : new[y] = "panel" =>
          /\ u.registrars[PanelOf(y)].xids = {Client(y), Client(s.titlebar[y])} \cup InputsOf(PanelOf(y))
          /\ u.registrars[PanelOf(y)].properties = {PropertyOf(y, "WM_HINTS")}
    <3> SUFFICES ASSUME NEW y \in ConsumerXids, new[y] = "panel"
                 PROVE  /\ u.registrars[PanelOf(y)].xids = {Client(y), Client(s.titlebar[y])} \cup InputsOf(PanelOf(y))
                        /\ u.registrars[PanelOf(y)].properties = {PropertyOf(y, "WM_HINTS")}
      OBVIOUS
    <3>1. s.role[y] = "panel" /\ PanelOf(y) # o /\ PanelOf(y) \in DOMAIN s.registrars
      BY <1>8, <2>1, LiveIs, ObjectsDiffer DEF o
    <3> QED
      BY <1>0, <1>7, <3>1 DEF RegistrarsRemember
  <2> QED
    BY <2>2, <2>3, <2>4, <2>5 DEF RegistrarsRemember
<1> QED
  BY <1>6, <1>9, <1>12, <1>13, <1>14 DEF Registered

\* Each registrar stays, or remembers what its object needs.
ToplevelsRemember(r, role, q, new) ==
  \A x \in ConsumerXids : new[x] = "toplevel" =>
    \/ role[x] = "toplevel" /\ q[Toplevel(x)] = r[Toplevel(x)]
    \/ Remembers(q[Toplevel(x)], {Client(x)} \cup InputsOf(Toplevel(x)), {})
PanelsRemember(r, role, bar, q, new, titlebar) ==
  \A x \in ConsumerXids : new[x] = "panel" =>
    \/ role[x] = "panel" /\ titlebar[x] = bar[x] /\ q[PanelOf(x)] = r[PanelOf(x)]
    \/ Remembers(q[PanelOf(x)], {Client(x), Client(titlebar[x])} \cup InputsOf(PanelOf(x)),
                 {PropertyOf(x, "WM_HINTS")})

\* The registrars follow the roles then.
LEMMA RegistrarsFollow ==
  ASSUME NEW r, NEW role, NEW bar, RegistrarsRemember(r, role, bar), NEW q, NEW new, NEW titlebar,
         DOMAIN q = LiveObjects(new), \A o \in DOMAIN q : DOMAIN q[o] = RegistrarFields,
         ToplevelsRemember(r, role, q, new), PanelsRemember(r, role, bar, q, new, titlebar)
  PROVE  RegistrarsRemember(q, new, titlebar)
BY DEF RegistrarsRemember, Remembers, ToplevelsRemember, PanelsRemember

\* The map of properties follows the roles.
LEMMA HintsFollow ==
  ASSUME NEW m, NEW role, HintsRegistered(m, role), NEW new,
         \A x \in ConsumerXids : role[x] = "panel" <=> new[x] = "panel"
  PROVE  HintsRegistered(m, new)
<1>1. \A x \in ConsumerXids : HintsOwner(new[x]) = HintsOwner(role[x])
  BY DEF HintsOwner
<1> QED
  BY <1>1 DEF HintsRegistered

\* The same windows have objects; only clients' windows are registered anew or no longer,
\* as their roles say.
SameObjectsIn(role, new) ==
  /\ \A x \in ConsumerXids : role[x] = "toplevel" <=> new[x] = "toplevel"
  /\ \A x \in ConsumerXids : role[x] = "panel" <=> new[x] = "panel"
ClientsFollow(m, role, n, new) ==
  /\ NoneEmpty(n)
  /\ \A k \in DOMAIN n : k \in DOMAIN m \/ \E x \in ConsumerXids : k = Client(x)
  /\ \A x \in ConsumerXids :
       \/ EventConsumersOf(n, Client(x)) = ClientOwner(new[x])
       \/ /\ EventConsumersOf(n, Client(x)) = EventConsumersOf(m, Client(x))
          /\ ClientOwner(new[x]) = ClientOwner(role[x])
  /\ \A k : (\A x : k # Client(x)) => EventConsumersOf(n, k) = EventConsumersOf(m, k)

\* Nothing but roles and the registrations of clients' windows changes.
LEMMA ObjectsStay ==
  ASSUME NEW s, Registered(s), NEW t, DOMAIN t = ConsumerFields, RolesFit(t.role, t.owner, t.titlebar),
         t.titlebar = s.titlebar, t.registrars = s.registrars, t.property = s.property,
         SameObjectsIn(s.role, t.role), ClientsFollow(s.window, s.role, t.window, t.role)
  PROVE  Registered(t)
<1>0. /\ WindowsRegistered(s.window, s.role) /\ HintsRegistered(s.property, s.role)
      /\ RegistrarsRemember(s.registrars, s.role, s.titlebar)
  BY DEF Registered
<1>1. \A o \in AllObjects : /\ o \in LiveObjects(s.role) <=> o \in LiveObjects(t.role)
                            /\ ObjectOwner(t.role, o) = ObjectOwner(s.role, o)
  BY LiveStays DEF SameObjectsIn
<1>2. \A o \in AllObjects : \A k \in InputsOf(o) :
        \/ EventConsumersOf(t.window, k) = ObjectOwner(t.role, o)
        \/ /\ EventConsumersOf(t.window, k) = EventConsumersOf(s.window, k)
           /\ ObjectOwner(t.role, o) = ObjectOwner(s.role, o)
  <2> SUFFICES ASSUME NEW o \in AllObjects, NEW k \in InputsOf(o)
               PROVE  /\ EventConsumersOf(t.window, k) = EventConsumersOf(s.window, k)
                      /\ ObjectOwner(t.role, o) = ObjectOwner(s.role, o)
    OBVIOUS
  <2>1. \A x : k # Client(x)
    BY InputsDiffer
  <2>2. EventConsumersOf(t.window, k) = EventConsumersOf(s.window, k)
    BY <2>1 DEF ClientsFollow
  <2> QED
    BY <1>1, <2>2
<1>3. WindowsRegistered(t.window, t.role)
  BY <1>0, <1>2, WindowsFollow DEF ClientsFollow
<1>4. HintsRegistered(t.property, t.role)
  BY <1>0, HintsFollow DEF SameObjectsIn
<1>5. RegistrarsRemember(t.registrars, t.role, t.titlebar)
  <2>1. LiveObjects(t.role) = LiveObjects(s.role)
    BY <1>1, LiveIs
  <2> QED
    BY <1>0, <2>1 DEF RegistrarsRemember, SameObjectsIn
<1> QED
  BY <1>3, <1>4, <1>5 DEF Registered

\* A transient window is mapped.
LEMMA TransientRegistered ==
  ASSUME NEW s, Registered(s), NEW x \in ConsumerXids, NEW w \in ConsumerXids,
         s.role[x] = "unmapped", s.role[w] = "toplevel"
  PROVE  Registered([AddTransientWindow(s, x, w) EXCEPT !.role[x] = "transient"])
<1> DEFINE K == {Client(x)}
           m == Register(s.window, K, "layout")
           a == [s EXCEPT !.window = m]
           b == [a EXCEPT !.owner[x] = w]
           t == [b EXCEPT !.role[x] = "transient"]
<1>0. /\ DOMAIN s = ConsumerFields /\ RolesFit(s.role, s.owner, s.titlebar)
      /\ WindowsRegistered(s.window, s.role)
  BY DEF Registered
<1>1. AddTransientWindow(s, x, w) = b
  BY DEF AddTransientWindow, RegisterEventConsumerForWindowEvents
<1>2. /\ \A k : k \in K => EventConsumersOf(m, k) = EventConsumersOf(s.window, k) \cup {"layout"}
      /\ \A k : k \notin K => EventConsumersOf(m, k) = EventConsumersOf(s.window, k)
      /\ DOMAIN m = DOMAIN s.window \cup K
      /\ NoneEmpty(s.window) => NoneEmpty(m)
  BY RegisterIs
<1> HIDE DEF m
<1>3. /\ DOMAIN a = ConsumerFields /\ a.window = m /\ a.property = s.property /\ a.role = s.role
      /\ a.owner = s.owner /\ a.titlebar = s.titlebar /\ a.registrars = s.registrars
  BY <1>0 DEF ConsumerFields
<1> HIDE DEF a
<1>4. /\ DOMAIN b = ConsumerFields /\ b.window = m /\ b.property = s.property /\ b.role = s.role
      /\ b.owner = [s.owner EXCEPT ![x] = w] /\ b.titlebar = s.titlebar /\ b.registrars = s.registrars
  BY <1>3 DEF ConsumerFields
<1> HIDE DEF b
<1>5. /\ DOMAIN t = ConsumerFields /\ t.window = m /\ t.property = s.property
      /\ t.role = [s.role EXCEPT ![x] = "transient"]
      /\ t.owner = [s.owner EXCEPT ![x] = w] /\ t.titlebar = s.titlebar /\ t.registrars = s.registrars
  BY <1>4 DEF ConsumerFields
<1> HIDE DEF t
<1>6. /\ t.role \in [ConsumerXids -> Roles] /\ t.role[x] = "transient"
      /\ \A y \in ConsumerXids : y # x => t.role[y] = s.role[y]
  BY <1>0, <1>5 DEF RolesFit, Roles
<1>a. /\ t.owner \in [ConsumerXids -> ConsumerXids \cup {"none"}] /\ t.owner[x] = w
      /\ \A y \in ConsumerXids : y # x => t.owner[y] = s.owner[y]
  BY <1>0, <1>5 DEF RolesFit
<1>7. RolesFit(t.role, t.owner, t.titlebar)
  BY <1>0, <1>5, <1>6, <1>a DEF RolesFit
<1>8. EventConsumersOf(m, Client(x)) = ClientOwner(t.role[x])
  <2>1. EventConsumersOf(s.window, Client(x)) = {}
    BY <1>0, ClientOwnerIs DEF WindowsRegistered
  <2>2. EventConsumersOf(m, Client(x)) = EventConsumersOf(s.window, Client(x)) \cup {"layout"}
    BY <1>2
  <2> QED
    BY <1>6, <2>1, <2>2, ClientOwnerIs
<1>9. \A y \in ConsumerXids : y # x => Client(y) \notin K
  BY ClientsDiffer
<1>10. ClientsFollow(s.window, s.role, m, t.role)
  <2>1. NoneEmpty(s.window)
    BY <1>0 DEF WindowsRegistered
  <2> QED
    BY <1>2, <1>6, <1>8, <1>9, <2>1 DEF ClientsFollow
<1>11. SameObjectsIn(s.role, t.role)
  BY <1>6 DEF SameObjectsIn
<1> HIDE DEF K
<1>12. ClientsFollow(s.window, s.role, t.window, t.role)
  BY <1>5, <1>10
<1>13. Registered(t)
  BY <1>5, <1>7, <1>11, <1>12, ObjectsStay
<1> QED
  BY <1>1, <1>13 DEF t

\* A window that no manager has an object for comes or goes.
LEMMA OtherRegistered ==
  ASSUME NEW s, Registered(s), NEW x \in ConsumerXids, s.role[x] \in {"unmapped", "other"},
         NEW r \in {"unmapped", "other"}, NEW t, t = [s EXCEPT !.role[x] = r]
  PROVE  Registered(t)
<1>0. /\ DOMAIN s = ConsumerFields /\ RolesFit(s.role, s.owner, s.titlebar)
      /\ WindowsRegistered(s.window, s.role)
  BY DEF Registered
<1>1. /\ DOMAIN t = ConsumerFields /\ t.window = s.window /\ t.property = s.property
      /\ t.role = [s.role EXCEPT ![x] = r]
      /\ t.owner = s.owner /\ t.titlebar = s.titlebar /\ t.registrars = s.registrars
  BY <1>0 DEF ConsumerFields
<1>2. /\ t.role \in [ConsumerXids -> Roles] /\ t.role[x] = r
      /\ \A y \in ConsumerXids : y # x => t.role[y] = s.role[y]
  BY <1>0, <1>1 DEF RolesFit, Roles
<1>3. RolesFit(t.role, t.owner, t.titlebar)
  BY <1>0, <1>1, <1>2 DEF RolesFit
<1>4. ClientOwner(t.role[x]) = ClientOwner(s.role[x])
  BY <1>2, ClientOwnerIs
<1>5. ClientsFollow(s.window, s.role, s.window, t.role)
  <2>1. NoneEmpty(s.window)
    BY <1>0 DEF WindowsRegistered
  <2> QED
    BY <1>2, <1>4, <2>1 DEF ClientsFollow
<1>6. SameObjectsIn(s.role, t.role)
  BY <1>2 DEF SameObjectsIn
<1>7. ClientsFollow(s.window, s.role, t.window, t.role)
  BY <1>1, <1>5
<1> QED
  BY <1>1, <1>3, <1>6, <1>7, ObjectsStay

\* Transients are removed from their owners.
LEMMA TransientsRemoved ==
  ASSUME NEW s, DOMAIN s = ConsumerFields, NoneEmpty(s.window), NEW X \in SUBSET ConsumerXids,
         NEW t, t = RemoveTransientWindow(s, X)
  PROVE  /\ DOMAIN t = ConsumerFields /\ NoneEmpty(t.window) /\ t.property = s.property
         /\ t.role = s.role /\ t.titlebar = s.titlebar /\ t.registrars = s.registrars
         /\ t.owner = [x \in ConsumerXids |-> IF x \in X THEN "none" ELSE s.owner[x]]
         /\ DOMAIN t.window \subseteq DOMAIN s.window
         /\ \A x : EventConsumersOf(t.window, Client(x)) =
              IF x \in X THEN EventConsumersOf(s.window, Client(x)) \ {"layout"}
              ELSE EventConsumersOf(s.window, Client(x))
         /\ \A k : (\A x : k # Client(x)) => EventConsumersOf(t.window, k) = EventConsumersOf(s.window, k)
<1> DEFINE K == {Client(x) : x \in X}
           m == Unregister(s.window, K, "layout")
           a == [s EXCEPT !.window = m]
           b == [x \in ConsumerXids |-> IF x \in X THEN "none" ELSE a.owner[x]]
<1>1. t = [a EXCEPT !.owner = b]
  BY DEF RemoveTransientWindow, UnregisterEventConsumerForWindowEvents
<1>2. \A x : Client(x) \in K <=> x \in X
  BY ClientsDiffer
<1>3. \A k : (\A x : k # Client(x)) => k \notin K
  OBVIOUS
<1> HIDE DEF K
<1>4. /\ \A k : k \in K => EventConsumersOf(m, k) = EventConsumersOf(s.window, k) \ {"layout"}
      /\ \A k : k \notin K => EventConsumersOf(m, k) = EventConsumersOf(s.window, k)
      /\ DOMAIN m \subseteq DOMAIN s.window
      /\ NoneEmpty(m)
  BY UnregisterIs
<1> HIDE DEF m
<1>5. /\ DOMAIN a = ConsumerFields /\ a.window = m /\ a.property = s.property /\ a.role = s.role
      /\ a.owner = s.owner /\ a.titlebar = s.titlebar /\ a.registrars = s.registrars
  BY DEF ConsumerFields
<1> HIDE DEF a
<1>6. b = [x \in ConsumerXids |-> IF x \in X THEN "none" ELSE s.owner[x]]
  BY <1>5
<1> HIDE DEF b
<1>7. /\ DOMAIN t = ConsumerFields /\ t.window = m /\ t.property = s.property /\ t.role = s.role
      /\ t.owner = b /\ t.titlebar = s.titlebar /\ t.registrars = s.registrars
  BY <1>1, <1>5 DEF ConsumerFields
<1> QED
  BY <1>2, <1>3, <1>4, <1>6, <1>7

\* A transient window is unmapped.
LEMMA TransientUnregistered ==
  ASSUME NEW s, Registered(s), NEW x \in ConsumerXids, s.role[x] = "transient"
  PROVE  Registered([RemoveTransientWindow(s, {x}) EXCEPT !.role[x] = "unmapped"])
<1> DEFINE X == {x}
           b == RemoveTransientWindow(s, X)
           t == [b EXCEPT !.role[x] = "unmapped"]
<1>0. /\ DOMAIN s = ConsumerFields /\ RolesFit(s.role, s.owner, s.titlebar)
      /\ WindowsRegistered(s.window, s.role) /\ NoneEmpty(s.window)
  BY DEF Registered, WindowsRegistered
<1>X. X \in SUBSET ConsumerXids /\ \A y : y \in X <=> y = x
  OBVIOUS
<1> HIDE DEF X
<1>1. /\ DOMAIN b = ConsumerFields /\ NoneEmpty(b.window) /\ b.property = s.property
      /\ b.role = s.role /\ b.titlebar = s.titlebar /\ b.registrars = s.registrars
      /\ b.owner = [y \in ConsumerXids |-> IF y \in X THEN "none" ELSE s.owner[y]]
      /\ DOMAIN b.window \subseteq DOMAIN s.window
      /\ \A y : EventConsumersOf(b.window, Client(y)) =
           IF y \in X THEN EventConsumersOf(s.window, Client(y)) \ {"layout"}
           ELSE EventConsumersOf(s.window, Client(y))
      /\ \A k : (\A y : k # Client(y)) => EventConsumersOf(b.window, k) = EventConsumersOf(s.window, k)
  BY <1>0, <1>X, TransientsRemoved
<1> HIDE DEF b
<1>5. /\ DOMAIN t = ConsumerFields /\ t.window = b.window /\ t.property = s.property
      /\ t.role = [s.role EXCEPT ![x] = "unmapped"]
      /\ t.owner = b.owner /\ t.titlebar = s.titlebar /\ t.registrars = s.registrars
  BY <1>1 DEF ConsumerFields
<1> HIDE DEF t
<1>6. /\ t.role \in [ConsumerXids -> Roles] /\ t.role[x] = "unmapped"
      /\ \A y \in ConsumerXids : y # x => t.role[y] = s.role[y]
  BY <1>0, <1>5 DEF RolesFit, Roles
<1>a. /\ t.owner \in [ConsumerXids -> ConsumerXids \cup {"none"}] /\ t.owner[x] = "none"
      /\ \A y \in ConsumerXids : y # x => t.owner[y] = s.owner[y]
  BY <1>0, <1>1, <1>5, <1>X DEF RolesFit
<1>7. RolesFit(t.role, t.owner, t.titlebar)
  BY <1>0, <1>5, <1>6, <1>a DEF RolesFit
<1>8. EventConsumersOf(b.window, Client(x)) = ClientOwner(t.role[x])
  <2>1. EventConsumersOf(s.window, Client(x)) = {"layout"}
    BY <1>0, ClientOwnerIs DEF WindowsRegistered
  <2>2. EventConsumersOf(b.window, Client(x)) = EventConsumersOf(s.window, Client(x)) \ {"layout"}
    BY <1>1, <1>X
  <2> QED
    BY <1>6, <2>1, <2>2, ClientOwnerIs
<1>9. \A y \in ConsumerXids : y # x =>
        EventConsumersOf(b.window, Client(y)) = EventConsumersOf(s.window, Client(y))
  BY <1>1, <1>X
<1>10. ClientsFollow(s.window, s.role, b.window, t.role)
  BY <1>1, <1>6, <1>8, <1>9 DEF ClientsFollow
<1>11. SameObjectsIn(s.role, t.role)
  BY <1>6 DEF SameObjectsIn
<1>12. ClientsFollow(s.window, s.role, t.window, t.role)
  BY <1>5, <1>10
<1>15. Registered(t)
  BY <1>5, <1>7, <1>11, <1>12, ObjectsStay
<1> QED
  BY <1>15 DEF t, b, X


\* A panel is mapped, whose titlebar is.
LEMMA PanelRegistered ==
  ASSUME NEW s, Registered(s), NEW x \in ConsumerXids, NEW b \in ConsumerXids,
         s.role[x] = "unmapped", s.role[b] = "other"
  PROVE  Registered([NewPanel(s, x, b) EXCEPT !.role[x] = "panel", !.role[b] = "titlebar",
                                              !.titlebar[x] = b])
<1> DEFINE o == PanelOf(x)
           K == {Client(x), Client(b)} \cup InputsOf(o)
           H == {PropertyOf(x, "WM_HINTS")}
           r == NewRegistrar(s, o)
           u == RegisterForWindowEvents(r, o, K)
           v == RegisterForPropertyChanges(u, o, H)
           t == [v EXCEPT !.role[x] = "panel", !.role[b] = "titlebar", !.titlebar[x] = b]
<1>0. /\ DOMAIN s = ConsumerFields /\ RolesFit(s.role, s.owner, s.titlebar)
      /\ WindowsRegistered(s.window, s.role) /\ HintsRegistered(s.property, s.role)
      /\ RegistrarsRemember(s.registrars, s.role, s.titlebar)
  BY DEF Registered
<1>1. NewPanel(s, x, b) = v
  BY DEF NewPanel
<1>2. o \in AllObjects /\ o \notin LiveObjects(s.role) /\ Consumer(o) = "panels"
  BY LiveIs, ObjectsDiffer DEF AllObjects
<1> HIDE DEF o, K, H
<1>3. /\ Alike(s, r) /\ r.window = s.window /\ r.property = s.property
      /\ DOMAIN r.registrars = DOMAIN s.registrars \cup {o}
      /\ \A p \in DOMAIN s.registrars : p # o => r.registrars[p] = s.registrars[p]
      /\ Remembers(r.registrars[o], {}, {})
  BY <1>0, NewRegistrarIs
<1> HIDE DEF r
<1>4. DOMAIN r = ConsumerFields /\ o \in DOMAIN r.registrars
  BY <1>3 DEF Alike
<1>5. /\ Alike(r, u) /\ u.window = Register(r.window, K, Consumer(o)) /\ u.property = r.property
      /\ OthersAlike(r.registrars, u.registrars, o) /\ Remembers(u.registrars[o], {} \cup K, {})
  BY <1>3, <1>4, RegistersWindows
<1> HIDE DEF u
<1>6. DOMAIN u = ConsumerFields /\ o \in DOMAIN u.registrars /\ Remembers(u.registrars[o], K, {})
  <2>1. {} \cup K = K
    OBVIOUS
  <2> QED
    BY <1>4, <1>5, <2>1 DEF Alike, OthersAlike
<1>7. /\ Alike(u, v) /\ v.window = u.window /\ v.property = Register(u.property, H, Consumer(o))
      /\ OthersAlike(u.registrars, v.registrars, o) /\ Remembers(v.registrars[o], K, {} \cup H)
  BY <1>6, RegistersProperties
<1> HIDE DEF v
<1> DEFINE W == Register(s.window, K, "panels")
           Q == Register(s.property, H, "panels")
<1>8. /\ DOMAIN v = ConsumerFields /\ v.window = W /\ v.property = Q
      /\ v.role = s.role /\ v.owner = s.owner /\ v.titlebar = s.titlebar
  BY <1>2, <1>3, <1>5, <1>7 DEF Alike
<1>9. /\ DOMAIN v.registrars = DOMAIN s.registrars \cup {o}
      /\ \A p \in DOMAIN s.registrars : p # o => v.registrars[p] = s.registrars[p]
      /\ Remembers(v.registrars[o], K, H)
  <2>1. {} \cup H = H
    OBVIOUS
  <2> QED
    BY <1>3, <1>5, <1>7, <2>1 DEF OthersAlike
<1>10. /\ \A k : k \in K => EventConsumersOf(W, k) = EventConsumersOf(s.window, k) \cup {"panels"}
       /\ \A k : k \notin K => EventConsumersOf(W, k) = EventConsumersOf(s.window, k)
       /\ DOMAIN W = DOMAIN s.window \cup K
       /\ NoneEmpty(s.window) => NoneEmpty(W)
  BY RegisterIs
<1>11. /\ \A k : k \in H => EventConsumersOf(Q, k) = EventConsumersOf(s.property, k) \cup {"panels"}
       /\ \A k : k \notin H => EventConsumersOf(Q, k) = EventConsumersOf(s.property, k)
       /\ DOMAIN Q = DOMAIN s.property \cup H
       /\ NoneEmpty(s.property) => NoneEmpty(Q)
  BY RegisterIs
<1> HIDE DEF W, Q
<1>12. /\ DOMAIN t = ConsumerFields /\ t.window = W /\ t.property = Q /\ t.owner = s.owner
       /\ t.role = [[s.role EXCEPT ![x] = "panel"] EXCEPT ![b] = "titlebar"]
       /\ t.titlebar = [s.titlebar EXCEPT ![x] = b] /\ t.registrars = v.registrars
  BY <1>8 DEF ConsumerFields
<1> HIDE DEF t
<1>13. /\ t.role \in [ConsumerXids -> Roles] /\ t.role[x] = "panel" /\ t.role[b] = "titlebar" /\ b # x
       /\ \A y \in ConsumerXids : y # x /\ y # b => t.role[y] = s.role[y]
  BY <1>0, <1>12 DEF RolesFit, Roles
<1>14. /\ t.titlebar \in [ConsumerXids -> ConsumerXids \cup {"none"}] /\ t.titlebar[x] = b
       /\ \A y \in ConsumerXids : y # x => t.titlebar[y] = s.titlebar[y]
  BY <1>0, <1>12 DEF RolesFit
<1>15. RolesFit(t.role, t.owner, t.titlebar)
  <2>1. \A y \in ConsumerXids :
          IF t.role[y] = "transient" THEN s.owner[y] \in ConsumerXids /\ t.role[s.owner[y]] = "toplevel"
          ELSE s.owner[y] = "none"
    BY <1>0, <1>13 DEF RolesFit
  <2>2. \A y \in ConsumerXids :
          IF t.role[y] = "panel" THEN t.titlebar[y] \in ConsumerXids /\ t.role[t.titlebar[y]] = "titlebar"
          ELSE t.titlebar[y] = "none"
    <3> SUFFICES ASSUME NEW y \in ConsumerXids
                 PROVE  IF t.role[y] = "panel"
                        THEN t.titlebar[y] \in ConsumerXids /\ t.role[t.titlebar[y]] = "titlebar"
                        ELSE t.titlebar[y] = "none"
      OBVIOUS
    <3>1. CASE y = x
      BY <1>13, <1>14, <3>1
    <3>2. CASE y = b
      BY <1>0, <1>13, <1>14, <3>2 DEF RolesFit
    <3>3. CASE y # x /\ y # b
      <4>1. t.role[y] = s.role[y] /\ t.titlebar[y] = s.titlebar[y]
        BY <1>13, <1>14, <3>3
      <4>2. IF s.role[y] = "panel" THEN s.titlebar[y] \in ConsumerXids /\ s.role[s.titlebar[y]] = "titlebar"
            ELSE s.titlebar[y] = "none"
        BY <1>0 DEF RolesFit
      <4> QED
        BY <1>13, <4>1, <4>2
    <3> QED
      BY <3>1, <3>2, <3>3
  <2>3. \A y \in ConsumerXids : s.titlebar[y] # b
    BY <1>0, ConsumerAssumption DEF RolesFit
  <2>4. \A y, z \in ConsumerXids : t.titlebar[y] = t.titlebar[z] /\ t.titlebar[y] # "none" => y = z
    BY <1>0, <1>14, <2>3 DEF RolesFit
  <2> QED
    BY <1>0, <1>12, <1>13, <1>14, <2>1, <2>2, <2>4 DEF RolesFit
<1>16. \A p \in AllObjects : p # o =>
         (p \in LiveObjects(s.role) <=> p \in LiveObjects(t.role)) /\ ObjectOwner(t.role, p) = ObjectOwner(s.role, p)
  BY <1>13, LiveStays, ObjectsDiffer DEF o
<1>17. o \in LiveObjects(t.role)
  BY <1>13, LiveIs DEF o
<1>18. WindowsRegistered(W, t.role)
  <2>0. NoneEmpty(W)
    BY <1>0, <1>10 DEF WindowsRegistered
  <2>1. /\ Client(x) \in K /\ Client(b) \in K
        /\ \A y \in ConsumerXids : y # x /\ y # b => Client(y) \notin K
    BY ClientsDiffer, InputsDiffer DEF K
  <2>2. EventConsumersOf(W, Client(x)) = ClientOwner(t.role[x])
    <3>1. EventConsumersOf(s.window, Client(x)) = {}
      BY <1>0, ClientOwnerIs DEF WindowsRegistered
    <3>2. EventConsumersOf(W, Client(x)) = EventConsumersOf(s.window, Client(x)) \cup {"panels"}
      BY <1>10, <2>1
    <3> QED
      BY <1>13, <3>1, <3>2, ClientOwnerIs
  <2>3. EventConsumersOf(W, Client(b)) = ClientOwner(t.role[b])
    <3>1. EventConsumersOf(s.window, Client(b)) = {}
      BY <1>0, ClientOwnerIs DEF WindowsRegistered
    <3>2. EventConsumersOf(W, Client(b)) = EventConsumersOf(s.window, Client(b)) \cup {"panels"}
      BY <1>10, <2>1
    <3> QED
      BY <1>13, <3>1, <3>2, ClientOwnerIs
  <2>4. \A y \in ConsumerXids :
           \/ EventConsumersOf(W, Client(y)) = ClientOwner(t.role[y])
           \/ EventConsumersOf(W, Client(y)) = EventConsumersOf(s.window, Client(y))
               /\ ClientOwner(t.role[y]) = ClientOwner(s.role[y])
    BY <1>10, <1>13, <2>1, <2>2, <2>3
  <2>5. \A p \in AllObjects : \A k \in InputsOf(p) :
           \/ EventConsumersOf(W, k) = ObjectOwner(t.role, p)
           \/ EventConsumersOf(W, k) = EventConsumersOf(s.window, k) /\ ObjectOwner(t.role, p) = ObjectOwner(s.role, p)
    <3> SUFFICES ASSUME NEW p \in AllObjects, NEW k \in InputsOf(p)
                 PROVE  \/ EventConsumersOf(W, k) = ObjectOwner(t.role, p)
                        \/ EventConsumersOf(W, k) = EventConsumersOf(s.window, k) /\ ObjectOwner(t.role, p) = ObjectOwner(s.role, p)
      OBVIOUS
    <3>1. CASE p = o
      <4>1. k \in K /\ EventConsumersOf(s.window, k) = {}
        BY <1>0, <1>2, <3>1 DEF WindowsRegistered, ObjectOwner, K
      <4> QED
        BY <1>2, <1>17, <1>10, <3>1, <4>1 DEF ObjectOwner
    <3>2. CASE p # o
      <4>1. k \notin K
        BY <3>2, InputsDiffer DEF K
      <4> QED
        BY <1>16, <1>10, <3>2, <4>1
    <3> QED
      BY <3>1, <3>2
  <2>6. \A k \in DOMAIN W :
          \/ k \in DOMAIN s.window
          \/ \E y \in ConsumerXids : k = Client(y)
          \/ \E p \in AllObjects : k \in InputsOf(p)
    BY <1>2, <1>10 DEF K
  <2> QED
    BY <1>0, <2>0, <2>4, <2>5, <2>6, WindowsFollow
<1>19. HintsRegistered(Q, t.role)
  <2>1. NoneEmpty(Q)
    BY <1>0, <1>11 DEF HintsRegistered
  <2>2. \A k \in DOMAIN Q : \E y \in ConsumerXids : k = PropertyOf(y, "WM_HINTS")
    BY <1>0, <1>11 DEF HintsRegistered, H
  <2>3. EventConsumersOf(Q, PropertyOf(x, "WM_HINTS")) = HintsOwner(t.role[x])
    <3>1. EventConsumersOf(s.property, PropertyOf(x, "WM_HINTS")) = {}
      BY <1>0 DEF HintsRegistered, HintsOwner
    <3>2. EventConsumersOf(Q, PropertyOf(x, "WM_HINTS")) =
            EventConsumersOf(s.property, PropertyOf(x, "WM_HINTS")) \cup {"panels"}
      BY <1>11 DEF H
    <3> QED
      BY <1>13, <3>1, <3>2 DEF HintsOwner
  <2>4. ASSUME NEW y \in ConsumerXids, y # x
        PROVE  EventConsumersOf(Q, PropertyOf(y, "WM_HINTS")) = HintsOwner(t.role[y])
    <3>1. PropertyOf(y, "WM_HINTS") \notin H
      BY <2>4, ClientsDiffer DEF H
    <3>2. HintsOwner(t.role[y]) = HintsOwner(s.role[y])
      BY <1>13, <2>4 DEF HintsOwner
    <3> QED
      BY <1>0, <1>11, <3>1, <3>2 DEF HintsRegistered
  <2> QED
    BY <2>1, <2>2, <2>3, <2>4 DEF HintsRegistered
<1>20. RegistrarsRemember(v.registrars, t.role, t.titlebar)
  <2>1. DOMAIN s.registrars = LiveObjects(s.role) /\ \A p \in DOMAIN s.registrars : DOMAIN s.registrars[p] = RegistrarFields
    BY <1>0 DEF RegistrarsRemember
  <2>2. DOMAIN v.registrars = LiveObjects(t.role)
    BY <1>2, <1>9, <1>16, <1>17, <2>1, LiveIs
  <2>3. \A p \in DOMAIN v.registrars : DOMAIN v.registrars[p] = RegistrarFields
    BY <1>9, <2>1 DEF Remembers
  <2>4. ToplevelsRemember(s.registrars, s.role, v.registrars, t.role)
    <3> SUFFICES ASSUME NEW y \in ConsumerXids, t.role[y] = "toplevel"
                 PROVE  s.role[y] = "toplevel" /\ v.registrars[Toplevel(y)] = s.registrars[Toplevel(y)]
      BY DEF ToplevelsRemember
    <3>1. s.role[y] = "toplevel" /\ Toplevel(y) # o /\ Toplevel(y) \in DOMAIN s.registrars
      BY <1>13, <2>1, LiveIs, ObjectsDiffer DEF o
    <3> QED
      BY <1>9, <3>1
  <2>5. PanelsRemember(s.registrars, s.role, s.titlebar, v.registrars, t.role, t.titlebar)
    <3> SUFFICES ASSUME NEW y \in ConsumerXids, t.role[y] = "panel"
                 PROVE  \/ /\ s.role[y] = "panel" /\ t.titlebar[y] = s.titlebar[y]
                           /\ v.registrars[PanelOf(y)] = s.registrars[PanelOf(y)]
                        \/ Remembers(v.registrars[PanelOf(y)], {Client(y), Client(t.titlebar[y])} \cup InputsOf(PanelOf(y)),
                                     {PropertyOf(y, "WM_HINTS")})
      BY DEF PanelsRemember
    <3>1. CASE y = x
      BY <1>9, <1>14, <3>1 DEF o, K, H
    <3>2. CASE y # x
      <4>1. s.role[y] = "panel" /\ PanelOf(y) # o /\ PanelOf(y) \in DOMAIN s.registrars
        BY <1>13, <2>1, <3>2, LiveIs, ObjectsDiffer DEF o
      <4> QED
        BY <1>9, <1>14, <3>2, <4>1
    <3> QED
      BY <3>1, <3>2
  <2> QED
    BY <1>0, <2>2, <2>3, <2>4, <2>5, RegistrarsFollow
<1>21. Registered(t)
  BY <1>12, <1>15, <1>18, <1>19, <1>20 DEF Registered
<1> QED
  BY <1>1, <1>21 DEF t


\* A panel's content window or its titlebar is unmapped.
LEMMA PanelUnregistered ==
  ASSUME NEW s, Registered(s), NEW x \in ConsumerXids, s.role[x] = "panel", NEW gone, gone \in {x, s.titlebar[x]}
  PROVE  LET b == s.titlebar[x]
         IN  Registered([DestroyRegistrar(s, PanelOf(x)) EXCEPT !.titlebar[x] = "none",
               !.role = [y \in ConsumerXids |->
                 IF y = gone THEN "unmapped" ELSE IF y \in {x, b} THEN "other" ELSE s.role[y]]])
<1> DEFINE b == s.titlebar[x]
           o == PanelOf(x)
           K == {Client(x), Client(b)} \cup InputsOf(o)
           H == {PropertyOf(x, "WM_HINTS")}
           v == DestroyRegistrar(s, o)
           new == [y \in ConsumerXids |->
                    IF y = gone THEN "unmapped" ELSE IF y \in {x, b} THEN "other" ELSE s.role[y]]
           t == [v EXCEPT !.titlebar[x] = "none", !.role = new]
<1> SUFFICES Registered(t)
  OBVIOUS
<1>0. /\ DOMAIN s = ConsumerFields /\ RolesFit(s.role, s.owner, s.titlebar)
      /\ WindowsRegistered(s.window, s.role) /\ HintsRegistered(s.property, s.role)
      /\ RegistrarsRemember(s.registrars, s.role, s.titlebar)
  BY DEF Registered
<1>1. b \in ConsumerXids /\ s.role[b] = "titlebar" /\ b # x
  BY <1>0 DEF RolesFit
<1>2. o \in AllObjects /\ o \in LiveObjects(s.role) /\ Consumer(o) = "panels"
  BY LiveIs, ObjectsDiffer DEF AllObjects
<1>3. DOMAIN s.registrars = LiveObjects(s.role) /\ \A p \in DOMAIN s.registrars : DOMAIN s.registrars[p] = RegistrarFields
  BY <1>0 DEF RegistrarsRemember
<1>4. o \in DOMAIN s.registrars /\ Remembers(s.registrars[o], K, H)
  BY <1>0, <1>2, <1>3 DEF RegistrarsRemember, Remembers
<1>5. /\ new \in [ConsumerXids -> Roles] /\ new[x] \in {"unmapped", "other"} /\ new[b] \in {"unmapped", "other"}
      /\ \A y \in ConsumerXids : y # x /\ y # b => new[y] = s.role[y]
  BY <1>0, <1>1 DEF RolesFit, Roles
<1> HIDE DEF o, K, H, b, new
<1>6. /\ Alike(s, v) /\ v.window = Unregister(s.window, K, Consumer(o))
      /\ v.property = Unregister(s.property, H, Consumer(o))
      /\ DOMAIN v.registrars = DOMAIN s.registrars \ {o}
      /\ \A p \in DOMAIN v.registrars : v.registrars[p] = s.registrars[p]
  <2>1. DOMAIN s = ConsumerFields
    BY <1>0
  <2>2. o \in DOMAIN s.registrars
    BY <1>4
  <2>3. Remembers(s.registrars[o], K, H)
    BY <1>4
  <2>4. Destroyed(s, o, K, H, DestroyRegistrar(s, o))
    BY <2>1, <2>2, <2>3, DestroysRegistrar
  <2> QED
    BY <2>4 DEF Destroyed
<1> HIDE DEF v
<1> DEFINE W == Unregister(s.window, K, "panels")
           Q == Unregister(s.property, H, "panels")
<1>7. NoneEmpty(s.window) /\ NoneEmpty(s.property)
  BY <1>0 DEF WindowsRegistered, HintsRegistered
<1>8. /\ \A k : k \in K => EventConsumersOf(W, k) = EventConsumersOf(s.window, k) \ {"panels"}
      /\ \A k : k \notin K => EventConsumersOf(W, k) = EventConsumersOf(s.window, k)
      /\ DOMAIN W \subseteq DOMAIN s.window
      /\ NoneEmpty(W)
  BY <1>7, UnregisterIs
<1>9. /\ \A k : k \in H => EventConsumersOf(Q, k) = EventConsumersOf(s.property, k) \ {"panels"}
      /\ \A k : k \notin H => EventConsumersOf(Q, k) = EventConsumersOf(s.property, k)
      /\ DOMAIN Q \subseteq DOMAIN s.property
      /\ NoneEmpty(Q)
  BY <1>7, UnregisterIs
<1>10. v.window = W /\ v.property = Q
  BY <1>2, <1>6
<1> HIDE DEF W, Q
<1>11. /\ DOMAIN t = ConsumerFields /\ t.window = W /\ t.property = Q /\ t.owner = s.owner
       /\ t.role = new /\ t.titlebar = [s.titlebar EXCEPT ![x] = "none"] /\ t.registrars = v.registrars
  BY <1>6, <1>10 DEF ConsumerFields, Alike
<1> HIDE DEF t
<1>12. /\ t.titlebar \in [ConsumerXids -> ConsumerXids \cup {"none"}] /\ t.titlebar[x] = "none"
       /\ \A y \in ConsumerXids : y # x => t.titlebar[y] = s.titlebar[y]
  BY <1>0, <1>11 DEF RolesFit
<1>13. RolesFit(new, s.owner, t.titlebar)
  <2>1. \A y \in ConsumerXids :
          IF new[y] = "transient" THEN s.owner[y] \in ConsumerXids /\ new[s.owner[y]] = "toplevel"
          ELSE s.owner[y] = "none"
    <3> SUFFICES ASSUME NEW y \in ConsumerXids
                 PROVE  IF new[y] = "transient" THEN s.owner[y] \in ConsumerXids /\ new[s.owner[y]] = "toplevel"
                        ELSE s.owner[y] = "none"
      OBVIOUS
    <3>1. IF s.role[y] = "transient" THEN s.owner[y] \in ConsumerXids /\ s.role[s.owner[y]] = "toplevel"
          ELSE s.owner[y] = "none"
      BY <1>0 DEF RolesFit
    <3> QED
      BY <1>1, <1>5, <3>1
  <2>2. \A y \in ConsumerXids :
          IF new[y] = "panel" THEN t.titlebar[y] \in ConsumerXids /\ new[t.titlebar[y]] = "titlebar"
          ELSE t.titlebar[y] = "none"
    <3> SUFFICES ASSUME NEW y \in ConsumerXids
                 PROVE  IF new[y] = "panel" THEN t.titlebar[y] \in ConsumerXids /\ new[t.titlebar[y]] = "titlebar"
                        ELSE t.titlebar[y] = "none"
      OBVIOUS
    <3>1. IF s.role[y] = "panel" THEN s.titlebar[y] \in ConsumerXids /\ s.role[s.titlebar[y]] = "titlebar"
          ELSE s.titlebar[y] = "none"
      BY <1>0 DEF RolesFit
    <3>2. s.titlebar[y] = b => y = x
      BY <1>0, <1>1, ConsumerAssumption DEF RolesFit, b
    <3>3. CASE y = x
      BY <1>5, <1>12, <3>3
    <3>4. CASE y # x
      <4>1. t.titlebar[y] = s.titlebar[y] /\ s.titlebar[y] # b
        BY <1>12, <3>2, <3>4
      <4>2. s.titlebar[y] # x \/ s.titlebar[y] \notin ConsumerXids \/ s.role[y] # "panel"
        BY <3>1
      <4> QED
        BY <1>1, <1>5, <3>1, <3>4, <4>1, <4>2
    <3> QED
      BY <3>3, <3>4
  <2>3. \A y, z \in ConsumerXids : t.titlebar[y] = t.titlebar[z] /\ t.titlebar[y] # "none" => y = z
    BY <1>0, <1>12 DEF RolesFit
  <2> QED
    BY <1>0, <1>5, <1>12, <2>1, <2>2, <2>3 DEF RolesFit
<1>14. \A p \in AllObjects : p # o =>
         (p \in LiveObjects(s.role) <=> p \in LiveObjects(new)) /\ ObjectOwner(new, p) = ObjectOwner(s.role, p)
  BY <1>1, <1>5, LiveStays, ObjectsDiffer DEF o
<1>15. o \notin LiveObjects(new)
  BY <1>5, LiveIs DEF o
<1>16. WindowsRegistered(W, new)
  <2>1. /\ Client(x) \in K /\ Client(b) \in K
        /\ \A y \in ConsumerXids : y # x /\ y # b => Client(y) \notin K
    BY ClientsDiffer, InputsDiffer DEF K
  <2>2. EventConsumersOf(W, Client(x)) = ClientOwner(new[x])
    <3>1. EventConsumersOf(s.window, Client(x)) = {"panels"}
      BY <1>0, ClientOwnerIs DEF WindowsRegistered
    <3>2. EventConsumersOf(W, Client(x)) = EventConsumersOf(s.window, Client(x)) \ {"panels"}
      BY <1>8, <2>1
    <3> QED
      BY <1>5, <3>1, <3>2, ClientOwnerIs
  <2>3. EventConsumersOf(W, Client(b)) = ClientOwner(new[b])
    <3>1. EventConsumersOf(s.window, Client(b)) = {"panels"}
      BY <1>0, <1>1, ClientOwnerIs DEF WindowsRegistered
    <3>2. EventConsumersOf(W, Client(b)) = EventConsumersOf(s.window, Client(b)) \ {"panels"}
      BY <1>8, <2>1
    <3> QED
      BY <1>5, <3>1, <3>2, ClientOwnerIs
  <2>4. \A y \in ConsumerXids :
           \/ EventConsumersOf(W, Client(y)) = ClientOwner(new[y])
           \/ EventConsumersOf(W, Client(y)) = EventConsumersOf(s.window, Client(y))
               /\ ClientOwner(new[y]) = ClientOwner(s.role[y])
    BY <1>5, <1>8, <2>1, <2>2, <2>3
  <2>5. \A p \in AllObjects : \A k \in InputsOf(p) :
           \/ EventConsumersOf(W, k) = ObjectOwner(new, p)
           \/ EventConsumersOf(W, k) = EventConsumersOf(s.window, k) /\ ObjectOwner(new, p) = ObjectOwner(s.role, p)
    <3> SUFFICES ASSUME NEW p \in AllObjects, NEW k \in InputsOf(p)
                 PROVE  \/ EventConsumersOf(W, k) = ObjectOwner(new, p)
                        \/ EventConsumersOf(W, k) = EventConsumersOf(s.window, k) /\ ObjectOwner(new, p) = ObjectOwner(s.role, p)
      OBVIOUS
    <3>1. CASE p = o
      <4>1. k \in K /\ EventConsumersOf(s.window, k) = {"panels"}
        BY <1>0, <1>2, <3>1 DEF WindowsRegistered, ObjectOwner, K
      <4>2. ObjectOwner(new, p) = {}
        BY <1>15, <3>1 DEF ObjectOwner
      <4> QED
        BY <1>8, <4>1, <4>2
    <3>2. CASE p # o
      <4>1. k \notin K
        BY <3>2, InputsDiffer DEF K
      <4> QED
        BY <1>14, <1>8, <3>2, <4>1
    <3> QED
      BY <3>1, <3>2
  <2>6. \A k \in DOMAIN W :
          \/ k \in DOMAIN s.window
          \/ \E y \in ConsumerXids : k = Client(y)
          \/ \E p \in AllObjects : k \in InputsOf(p)
    BY <1>8
  <2> QED
    BY <1>0, <1>8, <2>4, <2>5, <2>6, WindowsFollow
<1>17. HintsRegistered(Q, new)
  <2>2. \A k \in DOMAIN Q : \E y \in ConsumerXids : k = PropertyOf(y, "WM_HINTS")
    BY <1>0, <1>9 DEF HintsRegistered
  <2>3. EventConsumersOf(Q, PropertyOf(x, "WM_HINTS")) = HintsOwner(new[x])
    <3>1. EventConsumersOf(s.property, PropertyOf(x, "WM_HINTS")) = {"panels"}
      BY <1>0 DEF HintsRegistered, HintsOwner
    <3>2. EventConsumersOf(Q, PropertyOf(x, "WM_HINTS")) =
            EventConsumersOf(s.property, PropertyOf(x, "WM_HINTS")) \ {"panels"}
      BY <1>9 DEF H
    <3> QED
      BY <1>5, <3>1, <3>2 DEF HintsOwner
  <2>4. ASSUME NEW y \in ConsumerXids, y # x
        PROVE  EventConsumersOf(Q, PropertyOf(y, "WM_HINTS")) = HintsOwner(new[y])
    <3>1. PropertyOf(y, "WM_HINTS") \notin H
      BY <2>4, ClientsDiffer DEF H
    <3>2. HintsOwner(new[y]) = HintsOwner(s.role[y])
      BY <1>1, <1>5, <2>4 DEF HintsOwner
    <3> QED
      BY <1>0, <1>9, <3>1, <3>2 DEF HintsRegistered
  <2> QED
    BY <1>9, <2>2, <2>3, <2>4 DEF HintsRegistered
<1>18. RegistrarsRemember(v.registrars, new, t.titlebar)
  <2>2. DOMAIN v.registrars = LiveObjects(new)
    BY <1>3, <1>6, <1>14, <1>15, LiveIs
  <2>3. \A p \in DOMAIN v.registrars : DOMAIN v.registrars[p] = RegistrarFields
    BY <1>3, <1>6
  <2>4. ToplevelsRemember(s.registrars, s.role, v.registrars, new)
    <3> SUFFICES ASSUME NEW y \in ConsumerXids, new[y] = "toplevel"
                 PROVE  s.role[y] = "toplevel" /\ v.registrars[Toplevel(y)] = s.registrars[Toplevel(y)]
      BY DEF ToplevelsRemember
    <3>1. s.role[y] = "toplevel" /\ Toplevel(y) \in DOMAIN v.registrars
      BY <1>5, <2>2, LiveIs
    <3> QED
      BY <1>6, <3>1
  <2>5. PanelsRemember(s.registrars, s.role, s.titlebar, v.registrars, new, t.titlebar)
    <3> SUFFICES ASSUME NEW y \in ConsumerXids, new[y] = "panel"
                 PROVE  /\ s.role[y] = "panel" /\ t.titlebar[y] = s.titlebar[y]
                        /\ v.registrars[PanelOf(y)] = s.registrars[PanelOf(y)]
      BY DEF PanelsRemember
    <3>1. s.role[y] = "panel" /\ PanelOf(y) \in DOMAIN v.registrars /\ y # x
      BY <1>5, <2>2, LiveIs
    <3> QED
      BY <1>6, <1>12, <3>1
  <2> QED
    BY <1>0, <2>2, <2>3, <2>4, <2>5, RegistrarsFollow
<1> QED
  BY <1>11, <1>13, <1>16, <1>17, <1>18 DEF Registered


\* A toplevel window is unmapped: its transients stay, without an owner.
LEMMA ToplevelUnregistered ==
  ASSUME NEW s, Registered(s), NEW x \in ConsumerXids, s.role[x] = "toplevel"
  PROVE  Registered([DestroyToplevelWindow(s, x) EXCEPT
           !.role = [y \in ConsumerXids |->
             IF y = x THEN "unmapped" ELSE IF s.owner[y] = x THEN "orphan" ELSE s.role[y]]])
<1> DEFINE o == Toplevel(x)
           K == {Client(x)} \cup InputsOf(o)
           T == {y \in ConsumerXids : s.owner[y] = x}
           b == RemoveTransientWindow(s, T)
           v == DestroyRegistrar(b, o)
           new == [y \in ConsumerXids |->
                    IF y = x THEN "unmapped" ELSE IF s.owner[y] = x THEN "orphan" ELSE s.role[y]]
           own == [y \in ConsumerXids |-> IF y \in T THEN "none" ELSE s.owner[y]]
           t == [v EXCEPT !.role = new]
<1>0. /\ DOMAIN s = ConsumerFields /\ RolesFit(s.role, s.owner, s.titlebar)
      /\ WindowsRegistered(s.window, s.role) /\ HintsRegistered(s.property, s.role)
      /\ RegistrarsRemember(s.registrars, s.role, s.titlebar)
  BY DEF Registered
<1>1. DestroyToplevelWindow(s, x) = v
  BY DEF DestroyToplevelWindow
<1>2. o \in AllObjects /\ o \in LiveObjects(s.role) /\ Consumer(o) = "layout"
  BY LiveIs, ObjectsDiffer DEF AllObjects
<1>3. DOMAIN s.registrars = LiveObjects(s.role) /\ \A p \in DOMAIN s.registrars : DOMAIN s.registrars[p] = RegistrarFields
  BY <1>0 DEF RegistrarsRemember
<1>4. o \in DOMAIN s.registrars /\ Remembers(s.registrars[o], K, {})
  BY <1>0, <1>2, <1>3 DEF RegistrarsRemember, Remembers
<1>5. \A y \in ConsumerXids : y \in T <=> s.owner[y] = x
  OBVIOUS
<1>6. \A y \in ConsumerXids : y \in T => s.role[y] = "transient" /\ y # x
  BY <1>0, ConsumerAssumption DEF RolesFit
<1>7. T \in SUBSET ConsumerXids
  OBVIOUS
<1>8. /\ new \in [ConsumerXids -> Roles] /\ new[x] = "unmapped"
      /\ \A y \in ConsumerXids : y \in T => new[y] = "orphan"
      /\ \A y \in ConsumerXids : y # x /\ y \notin T => new[y] = s.role[y]
  BY <1>0, <1>6 DEF RolesFit, Roles
<1>9. /\ own \in [ConsumerXids -> ConsumerXids \cup {"none"}]
      /\ \A y \in ConsumerXids : y \in T => own[y] = "none"
      /\ \A y \in ConsumerXids : y \notin T => own[y] = s.owner[y]
  BY <1>0 DEF RolesFit
<1> HIDE DEF o, K, T, new
<1>10. NoneEmpty(s.window) /\ NoneEmpty(s.property)
  BY <1>0 DEF WindowsRegistered, HintsRegistered
<1>11. /\ DOMAIN b = ConsumerFields /\ NoneEmpty(b.window) /\ b.property = s.property
       /\ b.role = s.role /\ b.titlebar = s.titlebar /\ b.registrars = s.registrars
       /\ b.owner = own
       /\ DOMAIN b.window \subseteq DOMAIN s.window
       /\ \A y : EventConsumersOf(b.window, Client(y)) =
            IF y \in T THEN EventConsumersOf(s.window, Client(y)) \ {"layout"}
            ELSE EventConsumersOf(s.window, Client(y))
       /\ \A k : (\A y : k # Client(y)) => EventConsumersOf(b.window, k) = EventConsumersOf(s.window, k)
  BY <1>0, <1>7, <1>10, TransientsRemoved
<1> HIDE DEF b, own
<1> DEFINE E == {}
<1>12. Remembers(b.registrars[o], K, E) /\ o \in DOMAIN b.registrars /\ DOMAIN b = ConsumerFields
  BY <1>4, <1>11
<1>13. NoneEmpty(b.window) /\ NoneEmpty(b.property) /\ \A k : k \notin E
  BY <1>10, <1>11
<1> HIDE DEF E
<1>14. /\ Alike(b, v) /\ v.window = Unregister(b.window, K, Consumer(o))
       /\ v.property = Unregister(b.property, E, Consumer(o))
       /\ DOMAIN v.registrars = DOMAIN b.registrars \ {o}
       /\ \A p \in DOMAIN v.registrars : v.registrars[p] = b.registrars[p]
  <2>1. Remembers(b.registrars[o], K, E)
    BY <1>12
  <2>2. o \in DOMAIN b.registrars
    BY <1>12
  <2>3. DOMAIN b = ConsumerFields
    BY <1>12
  <2>4. Destroyed(b, o, K, E, DestroyRegistrar(b, o))
    BY <2>1, <2>2, <2>3, DestroysRegistrar
  <2> QED
    BY <2>4 DEF Destroyed
<1> HIDE DEF v
<1> DEFINE W == Unregister(b.window, K, "layout")
           Q == Unregister(b.property, E, "layout")
<1>15. /\ \A k : k \in K => EventConsumersOf(W, k) = EventConsumersOf(b.window, k) \ {"layout"}
       /\ \A k : k \notin K => EventConsumersOf(W, k) = EventConsumersOf(b.window, k)
       /\ DOMAIN W \subseteq DOMAIN b.window
       /\ NoneEmpty(W)
  BY <1>13, UnregisterIs
<1>16. /\ \A k : k \notin E => EventConsumersOf(Q, k) = EventConsumersOf(b.property, k)
       /\ DOMAIN Q \subseteq DOMAIN b.property
       /\ NoneEmpty(Q)
  BY <1>13, UnregisterIs
<1>17. v.window = W /\ v.property = Q
  BY <1>2, <1>14
<1> HIDE DEF W, Q
<1>18. /\ DOMAIN t = ConsumerFields /\ t.window = W /\ t.property = Q /\ t.owner = own
       /\ t.role = new /\ t.titlebar = s.titlebar /\ t.registrars = v.registrars
  BY <1>11, <1>14, <1>17 DEF ConsumerFields, Alike
<1> HIDE DEF t
<1>19. RolesFit(new, own, s.titlebar)
  <2>1. \A y \in ConsumerXids :
          IF new[y] = "transient" THEN own[y] \in ConsumerXids /\ new[own[y]] = "toplevel"
          ELSE own[y] = "none"
    <3> SUFFICES ASSUME NEW y \in ConsumerXids
                 PROVE  IF new[y] = "transient" THEN own[y] \in ConsumerXids /\ new[own[y]] = "toplevel"
                        ELSE own[y] = "none"
      OBVIOUS
    <3>1. IF s.role[y] = "transient" THEN s.owner[y] \in ConsumerXids /\ s.role[s.owner[y]] = "toplevel"
          ELSE s.owner[y] = "none"
      BY <1>0 DEF RolesFit
    <3>2. CASE y \in T
      BY <1>8, <1>9, <3>2
    <3>3. CASE y = x
      BY <1>6, <1>8, <1>9, <3>1, <3>3
    <3>4. CASE y # x /\ y \notin T
      <4>1. new[y] = s.role[y] /\ own[y] = s.owner[y] /\ s.owner[y] # x
        BY <1>5, <1>8, <1>9, <3>4
      <4>2. s.role[y] = "transient" => s.owner[y] \notin T
        BY <1>6, <3>1
      <4> QED
        BY <1>8, <3>1, <4>1, <4>2
    <3> QED
      BY <3>2, <3>3, <3>4
  <2>2. \A y \in ConsumerXids :
          IF new[y] = "panel" THEN s.titlebar[y] \in ConsumerXids /\ new[s.titlebar[y]] = "titlebar"
          ELSE s.titlebar[y] = "none"
    <3> SUFFICES ASSUME NEW y \in ConsumerXids
                 PROVE  IF new[y] = "panel" THEN s.titlebar[y] \in ConsumerXids /\ new[s.titlebar[y]] = "titlebar"
                        ELSE s.titlebar[y] = "none"
      OBVIOUS
    <3>1. IF s.role[y] = "panel" THEN s.titlebar[y] \in ConsumerXids /\ s.role[s.titlebar[y]] = "titlebar"
          ELSE s.titlebar[y] = "none"
      BY <1>0 DEF RolesFit
    <3>2. s.role[y] = "panel" <=> new[y] = "panel"
      BY <1>6, <1>8
    <3>3. \A z \in ConsumerXids : s.role[z] = "titlebar" => new[z] = "titlebar"
      BY <1>6, <1>8
    <3> QED
      BY <3>1, <3>2, <3>3
  <2> QED
    BY <1>0, <1>8, <1>9, <2>1, <2>2 DEF RolesFit
<1>20. \A p \in AllObjects : p # o =>
         (p \in LiveObjects(s.role) <=> p \in LiveObjects(new)) /\ ObjectOwner(new, p) = ObjectOwner(s.role, p)
  <2>1. \A y \in ConsumerXids : y # x => (s.role[y] = "toplevel" <=> new[y] = "toplevel")
    BY <1>6, <1>8
  <2>2. \A y \in ConsumerXids : s.role[y] = "panel" <=> new[y] = "panel"
    BY <1>6, <1>8
  <2> QED
    BY <2>1, <2>2, LiveStays, ObjectsDiffer DEF o
<1>21. o \notin LiveObjects(new)
  BY <1>8, LiveIs DEF o
<1>22. WindowsRegistered(W, new)
  <2>1. Client(x) \in K /\ \A y \in ConsumerXids : y # x => Client(y) \notin K
    BY ClientsDiffer, InputsDiffer DEF K
  <2>2. EventConsumersOf(W, Client(x)) = ClientOwner(new[x])
    <3>1. EventConsumersOf(s.window, Client(x)) = {"layout"}
      BY <1>0, ClientOwnerIs DEF WindowsRegistered
    <3>2. EventConsumersOf(b.window, Client(x)) = {"layout"} \/ EventConsumersOf(b.window, Client(x)) = {}
      BY <1>11, <3>1
    <3>3. EventConsumersOf(W, Client(x)) = EventConsumersOf(b.window, Client(x)) \ {"layout"}
      BY <1>15, <2>1
    <3> QED
      BY <1>8, <3>2, <3>3, ClientOwnerIs
  <2>3. ASSUME NEW y \in ConsumerXids, y \in T
        PROVE  EventConsumersOf(W, Client(y)) = ClientOwner(new[y])
    <3>1. EventConsumersOf(s.window, Client(y)) = {"layout"}
      BY <1>0, <1>6, <2>3, ClientOwnerIs DEF WindowsRegistered
    <3>2. EventConsumersOf(b.window, Client(y)) = EventConsumersOf(s.window, Client(y)) \ {"layout"}
      BY <1>11, <2>3
    <3>3. EventConsumersOf(W, Client(y)) = EventConsumersOf(b.window, Client(y))
      BY <1>6, <1>15, <2>1, <2>3
    <3> QED
      BY <1>8, <2>3, <3>1, <3>2, <3>3, ClientOwnerIs
  <2>4. ASSUME NEW y \in ConsumerXids, y # x, y \notin T
        PROVE  EventConsumersOf(W, Client(y)) = EventConsumersOf(s.window, Client(y))
               /\ ClientOwner(new[y]) = ClientOwner(s.role[y])
    <3>1. EventConsumersOf(b.window, Client(y)) = EventConsumersOf(s.window, Client(y))
      BY <1>11, <2>4
    <3> QED
      BY <1>8, <1>15, <2>1, <2>4, <3>1
  <2>5. \A y \in ConsumerXids :
           \/ EventConsumersOf(W, Client(y)) = ClientOwner(new[y])
           \/ EventConsumersOf(W, Client(y)) = EventConsumersOf(s.window, Client(y))
               /\ ClientOwner(new[y]) = ClientOwner(s.role[y])
    BY <2>2, <2>3, <2>4
  <2>6. \A p \in AllObjects : \A k \in InputsOf(p) :
           \/ EventConsumersOf(W, k) = ObjectOwner(new, p)
           \/ EventConsumersOf(W, k) = EventConsumersOf(s.window, k) /\ ObjectOwner(new, p) = ObjectOwner(s.role, p)
    <3> SUFFICES ASSUME NEW p \in AllObjects, NEW k \in InputsOf(p)
                 PROVE  \/ EventConsumersOf(W, k) = ObjectOwner(new, p)
                        \/ EventConsumersOf(W, k) = EventConsumersOf(s.window, k) /\ ObjectOwner(new, p) = ObjectOwner(s.role, p)
      OBVIOUS
    <3>0. EventConsumersOf(b.window, k) = EventConsumersOf(s.window, k)
      <4>1. \A y : k # Client(y)
        BY InputsDiffer
      <4> QED
        BY <1>11, <4>1
    <3>1. CASE p = o
      <4>1. k \in K /\ EventConsumersOf(s.window, k) = {"layout"}
        BY <1>0, <1>2, <3>1 DEF WindowsRegistered, ObjectOwner, K
      <4>2. ObjectOwner(new, p) = {}
        BY <1>21, <3>1 DEF ObjectOwner
      <4> QED
        BY <1>15, <3>0, <4>1, <4>2
    <3>2. CASE p # o
      <4>1. k \notin K
        BY <3>2, InputsDiffer DEF K
      <4> QED
        BY <1>20, <1>15, <3>0, <3>2, <4>1
    <3> QED
      BY <3>1, <3>2
  <2>7. \A k \in DOMAIN W :
          \/ k \in DOMAIN s.window
          \/ \E y \in ConsumerXids : k = Client(y)
          \/ \E p \in AllObjects : k \in InputsOf(p)
    BY <1>11, <1>15
  <2> QED
    BY <1>0, <1>15, <2>5, <2>6, <2>7, WindowsFollow
<1>23. HintsRegistered(Q, new)
  <2>1. \A k \in DOMAIN Q : \E y \in ConsumerXids : k = PropertyOf(y, "WM_HINTS")
    BY <1>0, <1>11, <1>16 DEF HintsRegistered
  <2>2. ASSUME NEW y \in ConsumerXids
        PROVE  EventConsumersOf(Q, PropertyOf(y, "WM_HINTS")) = HintsOwner(new[y])
    <3>1. EventConsumersOf(Q, PropertyOf(y, "WM_HINTS")) = EventConsumersOf(s.property, PropertyOf(y, "WM_HINTS"))
      BY <1>11, <1>13, <1>16
    <3>2. HintsOwner(new[y]) = HintsOwner(s.role[y])
      BY <1>6, <1>8 DEF HintsOwner
    <3> QED
      BY <1>0, <3>1, <3>2 DEF HintsRegistered
  <2> QED
    BY <1>16, <2>1, <2>2 DEF HintsRegistered
<1>24. RegistrarsRemember(v.registrars, new, s.titlebar)
  <2>1. DOMAIN v.registrars = DOMAIN s.registrars \ {o} /\ \A p \in DOMAIN v.registrars : v.registrars[p] = s.registrars[p]
    BY <1>11, <1>14
  <2>2. DOMAIN v.registrars = LiveObjects(new)
    BY <1>3, <1>20, <1>21, <2>1, LiveIs
  <2>3. \A p \in DOMAIN v.registrars : DOMAIN v.registrars[p] = RegistrarFields
    BY <1>3, <2>1
  <2>4. ToplevelsRemember(s.registrars, s.role, v.registrars, new)
    <3> SUFFICES ASSUME NEW y \in ConsumerXids, new[y] = "toplevel"
                 PROVE  s.role[y] = "toplevel" /\ v.registrars[Toplevel(y)] = s.registrars[Toplevel(y)]
      BY DEF ToplevelsRemember
    <3>1. s.role[y] = "toplevel" /\ Toplevel(y) \in DOMAIN v.registrars
      BY <1>8, <2>2, LiveIs
    <3> QED
      BY <2>1, <3>1
  <2>5. PanelsRemember(s.registrars, s.role, s.titlebar, v.registrars, new, s.titlebar)
    <3> SUFFICES ASSUME NEW y \in ConsumerXids, new[y] = "panel"
                 PROVE  /\ s.role[y] = "panel" /\ s.titlebar[y] = s.titlebar[y]
                        /\ v.registrars[PanelOf(y)] = s.registrars[PanelOf(y)]
      BY DEF PanelsRemember
    <3>1. s.role[y] = "panel" /\ PanelOf(y) \in DOMAIN v.registrars
      BY <1>8, <2>2, LiveIs
    <3> QED
      BY <2>1, <3>1
  <2> QED
    BY <1>0, <2>2, <2>3, <2>4, <2>5, RegistrarsFollow
<1>25. Registered(t)
  BY <1>18, <1>19, <1>22, <1>23, <1>24 DEF Registered
<1> QED
  BY <1>1, <1>25 DEF t, new


-----------------------------------------------------------------------------
\* An event is handed to the consumers of its window, or of the message or property it is about.
LEMMA EventHeard ==
  ASSUME Registered(consumers), NEW sort, NEW key, NEW to, Hears(sort, key, to),
         \/ sort \notin {"pointer", "focus", "client_message", "configure"}
         \/ \E x \in ConsumerXids : key = Client(x) /\ to = ClientOwner(consumers.role[x])
         \/ \E o \in LiveObjects(consumers.role) : key = Input(o, 1) /\ to = {Consumer(o)}
  PROVE  ConsumersInv(consumers')
<1> DEFINE s == consumers
           t == consumers'
           h == [sort |-> sort, key |-> key, to |-> to]
<1>1. t = [s EXCEPT !.heard = h, !.steps = @ + 1]
  BY DEF Hears
<1>2. DOMAIN s = ConsumerFields
  BY DEF Registered
<1>3. h.sort = sort /\ h.key = key /\ h.to = to
  OBVIOUS
<1> HIDE DEF h
<1>4. /\ DOMAIN t = ConsumerFields /\ t.window = s.window /\ t.property = s.property /\ t.role = s.role
      /\ t.owner = s.owner /\ t.titlebar = s.titlebar /\ t.registrars = s.registrars /\ t.heard = h
  BY <1>1, <1>2 DEF ConsumerFields
<1> HIDE DEF t, s
<1>5. Registered(t)
  <2>1. Registered(s)
    BY DEF s
  <2> QED
    BY <1>4, <2>1 DEF Registered
<1>6. HeardByOwner(t)
  BY <1>3, <1>4 DEF HeardByOwner, s
<1> QED
  BY <1>5, <1>6 DEF ConsumersInv, t

\* The consumers of a window are those of its owner.
LEMMA ConsumersAre ==
  ASSUME NEW s, Registered(s)
  PROVE  /\ \A x \in ConsumerXids : EventConsumersOf(s.window, Client(x)) = ClientOwner(s.role[x])
         /\ \A o \in LiveObjects(s.role) : EventConsumersOf(s.window, Input(o, 1)) = {Consumer(o)}
         /\ DOMAIN s.registrars = LiveObjects(s.role)
<1>1. WindowsRegistered(s.window, s.role) /\ RegistrarsRemember(s.registrars, s.role, s.titlebar)
  BY DEF Registered
<1>2. \A o \in LiveObjects(s.role) : o \in AllObjects /\ Input(o, 1) \in InputsOf(o)
  BY LiveIs, InputsDiffer
<1> QED
  BY <1>1, <1>2 DEF WindowsRegistered, RegistrarsRemember, ObjectOwner

\* Every event handler keeps the invariant.
LEMMA EventInv ==
  ASSUME Registered(consumers),
         \/ HandlePointerEvent \/ HandleFocusChange \/ HandlePropertyEvent \/ HandleClientMessage
         \/ HandleConfigureRequest
  PROVE  ConsumersInv(consumers')
<1> DEFINE Fits(key) ==
             LET to == EventConsumersOf(consumers.window, key)
             IN  \/ \E x \in ConsumerXids : key = Client(x) /\ to = ClientOwner(consumers.role[x])
                 \/ \E o \in LiveObjects(consumers.role) : key = Input(o, 1) /\ to = {Consumer(o)}
<1>1. \A xid \in EventXids : Fits(xid)
  BY ConsumersAre DEF EventXids
<1>2. \A x \in ConsumerXids : Fits(Client(x))
  BY ConsumersAre
<1>3. ASSUME NEW sort, NEW key, Fits(key), Hears(sort, key, EventConsumersOf(consumers.window, key))
      PROVE  ConsumersInv(consumers')
  BY <1>3, EventHeard
<1> HIDE DEF Fits
<1>4. ASSUME NEW sort, sort \notin {"pointer", "focus", "client_message", "configure"}, NEW key, NEW to,
             Hears(sort, key, to)
      PROVE  ConsumersInv(consumers')
  BY <1>4, EventHeard
<1>5. CASE HandlePointerEvent
  BY <1>1, <1>3, <1>5 DEF HandlePointerEvent
<1>6. CASE HandleFocusChange
  <2>1. PICK xid \in EventXids :
          \/ Hears("none", xid, {})
          \/ Hears("focus", xid, EventConsumersOf(consumers.window, xid))
    BY <1>6 DEF HandleFocusChange
  <2> QED
    BY <1>1, <1>3, <1>4, <2>1
<1>7. CASE HandlePropertyEvent
  BY <1>4, <1>7 DEF HandlePropertyEvent
<1>8. CASE HandleClientMessage
  <2>1. PICK xid \in EventXids : \E type :
          \/ Hears("none", xid, {})
          \/ Hears("message", <<"message", type>>, EventConsumersOf(consumers.message, type))
          \/ Hears("client_message", xid, EventConsumersOf(consumers.window, xid))
    BY <1>8, Zenon DEF HandleClientMessage
  <2>2. PICK type :
          \/ Hears("none", xid, {})
          \/ Hears("message", <<"message", type>>, EventConsumersOf(consumers.message, type))
          \/ Hears("client_message", xid, EventConsumersOf(consumers.window, xid))
    BY <2>1
  <2> QED
    BY <1>1, <1>3, <1>4, <2>2
<1>9. CASE HandleConfigureRequest
  <2>1. PICK x \in ConsumerXids :
          \/ Hears("none", Client(x), {})
          \/ Hears("configure", Client(x), EventConsumersOf(consumers.window, Client(x)))
    BY <1>9 DEF HandleConfigureRequest
  <2> QED
    BY <1>2, <1>3, <1>4, <2>1
<1> QED
  BY <1>5, <1>6, <1>7, <1>8, <1>9

\* A step of a manager.
LEMMA StepRegistered ==
  ASSUME NEW s, Registered(s), ConsumersStep(s)
  PROVE  ConsumersInv(consumers')
<1> DEFINE t == consumers'
<1>1. t = [s EXCEPT !.heard = NothingHeard, !.steps = @ + 1]
  BY DEF ConsumersStep
<1>2. DOMAIN s = ConsumerFields
  BY DEF Registered
<1>3. NothingHeard.sort = "none"
  BY DEF NothingHeard
<1>4. /\ DOMAIN t = ConsumerFields /\ t.window = s.window /\ t.property = s.property /\ t.role = s.role
      /\ t.owner = s.owner /\ t.titlebar = s.titlebar /\ t.registrars = s.registrars
      /\ t.heard = NothingHeard
  BY <1>1, <1>2 DEF ConsumerFields
<1> HIDE DEF t
<1>5. Registered(t)
  BY <1>4 DEF Registered
<1>6. HeardByOwner(t)
  BY <1>3, <1>4 DEF HeardByOwner
<1> QED
  BY <1>5, <1>6 DEF ConsumersInv, t

\* Every step of the managers and every event keeps the invariant.
LEMMA ConsumersNextInv ==
  ASSUME ConsumersInv(consumers), ConsumersNext
  PROVE  ConsumersInv(consumers')
<1>0. Registered(consumers)
  BY DEF ConsumersInv
<1>1. ASSUME NEW x \in ConsumerXids, MapToplevel(x) PROVE ConsumersInv(consumers')
  BY <1>0, <1>1, ToplevelRegistered, StepRegistered DEF MapToplevel
<1>2. ASSUME NEW x \in ConsumerXids, MapOther(x) \/ UnmapOther(x) PROVE ConsumersInv(consumers')
  BY <1>0, <1>2, OtherRegistered, StepRegistered DEF MapOther, UnmapOther
<1>3. ASSUME NEW x \in ConsumerXids, UnmapToplevel(x) PROVE ConsumersInv(consumers')
  BY <1>0, <1>3, ToplevelUnregistered, StepRegistered DEF UnmapToplevel
<1>4. ASSUME NEW x \in ConsumerXids, UnmapTransient(x) PROVE ConsumersInv(consumers')
  BY <1>0, <1>4, TransientUnregistered, StepRegistered DEF UnmapTransient
<1>5. ASSUME NEW x \in ConsumerXids, NEW y \in ConsumerXids, MapTransient(x, y) PROVE ConsumersInv(consumers')
  BY <1>0, <1>5, TransientRegistered, StepRegistered DEF MapTransient
<1>6. ASSUME NEW x \in ConsumerXids, NEW y \in ConsumerXids, MapPanel(x, y) PROVE ConsumersInv(consumers')
  BY <1>0, <1>6, PanelRegistered, StepRegistered DEF MapPanel
<1>7. ASSUME NEW x \in ConsumerXids, NEW y \in ConsumerXids, UnmapPanel(x, y) PROVE ConsumersInv(consumers')
  <2> DEFINE u == [DestroyRegistrar(consumers, PanelOf(x)) EXCEPT !.titlebar[x] = "none",
                    !.role = [z \in ConsumerXids |->
                      IF z = y THEN "unmapped" ELSE IF z \in {x, consumers.titlebar[x]} THEN "other"
                      ELSE consumers.role[z]]]
  <2>1. consumers.role[x] = "panel"
    BY <1>7 DEF UnmapPanel
  <2>2. y \in {x, consumers.titlebar[x]}
    BY <1>7 DEF UnmapPanel
  <2>3. ConsumersStep(u)
    BY <1>7 DEF UnmapPanel
  <2>4. Registered(u)
    BY <1>0, <2>1, <2>2, PanelUnregistered
  <2> HIDE DEF u
  <2> QED
    BY <2>3, <2>4, StepRegistered
<1> QED
  BY <1>0, <1>1, <1>2, <1>3, <1>4, <1>5, <1>6, <1>7, EventInv DEF ConsumersNext

-----------------------------------------------------------------------------
\* What the constructor of a manager with input windows and messages registers.
ManagerWith(s, o, messages) ==
  RegisterForWindowEvents(RegisterForChromeMessages(NewRegistrar(s, o), o, messages), o, InputsOf(o))
ManagerMade(s, o, t) ==
  /\ Alike(s, t) /\ t.window = Register(s.window, InputsOf(o), Consumer(o)) /\ t.property = s.property
  /\ DOMAIN t.registrars = DOMAIN s.registrars \cup {o}
  /\ \A p \in DOMAIN s.registrars : p # o => t.registrars[p] = s.registrars[p]
  /\ DOMAIN t.registrars[o] = RegistrarFields
  /\ t.heard = s.heard

\* A manager's registrations are its input windows.
LEMMA ManagerRegistered ==
  ASSUME NEW s, DOMAIN s = ConsumerFields, NEW o, NEW messages
  PROVE  ManagerMade(s, o, ManagerWith(s, o, messages))
<1> DEFINE r == NewRegistrar(s, o)
           m == RegisterForChromeMessages(r, o, messages)
           K == InputsOf(o)
           t == RegisterForWindowEvents(m, o, K)
<1>1. /\ Alike(s, r) /\ r.window = s.window /\ r.property = s.property
      /\ DOMAIN r.registrars = DOMAIN s.registrars \cup {o}
      /\ \A p \in DOMAIN s.registrars : p # o => r.registrars[p] = s.registrars[p]
      /\ Remembers(r.registrars[o], {}, {})
  BY NewRegistrarIs
<1>2. r.heard = s.heard
  BY DEF NewRegistrar, ConsumerFields
<1> HIDE DEF r
<1>3. DOMAIN r = ConsumerFields /\ o \in DOMAIN r.registrars
  BY <1>1 DEF Alike
<1>4. /\ Alike(r, m) /\ m.window = r.window /\ m.property = r.property
      /\ OthersAlike(r.registrars, m.registrars, o) /\ Remembers(m.registrars[o], {}, {})
  BY <1>1, <1>3, RegistersMessages
<1>5. m.heard = r.heard
  BY <1>3 DEF RegisterForChromeMessages, RegisterEventConsumerForChromeMessages, ConsumerFields
<1> HIDE DEF m, K
<1>6. DOMAIN m = ConsumerFields /\ o \in DOMAIN m.registrars
  BY <1>3, <1>4 DEF Alike, OthersAlike
<1>7. /\ Alike(m, t) /\ t.window = Register(m.window, K, Consumer(o)) /\ t.property = m.property
      /\ OthersAlike(m.registrars, t.registrars, o) /\ Remembers(t.registrars[o], {} \cup K, {})
  BY <1>4, <1>6, RegistersWindows
<1>8. t.heard = m.heard
  BY <1>6 DEF RegisterForWindowEvents, RegisterEventConsumerForWindowEvents, ConsumerFields
<1>9. ManagerWith(s, o, messages) = t
  BY DEF ManagerWith, r, m, K
<1> HIDE DEF t
<1>10. Alike(s, t)
  BY <1>1, <1>4, <1>7 DEF Alike
<1>11. /\ DOMAIN t.registrars = DOMAIN s.registrars \cup {o}
       /\ \A p \in DOMAIN s.registrars : p # o => t.registrars[p] = s.registrars[p]
       /\ DOMAIN t.registrars[o] = RegistrarFields
  BY <1>1, <1>4, <1>7 DEF OthersAlike, Remembers
<1>12. t.window = Register(s.window, InputsOf(o), Consumer(o)) /\ t.property = s.property /\ t.heard = s.heard
  BY <1>1, <1>2, <1>4, <1>5, <1>7, <1>8 DEF K
<1> QED
  BY <1>9, <1>10, <1>11, <1>12 DEF ManagerMade

\* At first there are the managers, and no window is mapped.
LEMMA ConsumersInitInv ==
  ASSUME ConsumersInit
  PROVE  ConsumersInv(consumers)
<1> DEFINE empty == [key \in {} |-> {}]
           role == [x \in ConsumerXids |-> "unmapped"]
           none == [x \in ConsumerXids |-> "none"]
           e == [window |-> empty, property |-> empty, message |-> empty, registrars |-> empty,
                 role |-> role, owner |-> none, titlebar |-> none, heard |-> NothingHeard, steps |-> 0]
           L == LayoutManagerObject
           P == PanelManagerObject
           l == NewLayoutManager(e)
           t == consumers
<1>1. t = NewPanelManager(l)
  BY DEF ConsumersInit
<1>2. DOMAIN empty = {}
  OBVIOUS
<1>3. /\ role \in [ConsumerXids -> Roles] /\ \A x \in ConsumerXids : role[x] = "unmapped"
  BY DEF Roles
<1>4. /\ none \in [ConsumerXids -> ConsumerXids \cup {"none"}] /\ \A x \in ConsumerXids : none[x] = "none"
  OBVIOUS
<1> HIDE DEF empty, role, none, t
<1>5. /\ DOMAIN e = ConsumerFields /\ e.window = empty /\ e.property = empty /\ e.registrars = empty
      /\ e.role = role /\ e.owner = none /\ e.titlebar = none /\ e.heard = NothingHeard
  BY DEF ConsumerFields
<1> HIDE DEF e
<1>6. ManagerMade(e, L, l)
  BY <1>5, ManagerRegistered DEF NewLayoutManager, ManagerWith
<1> HIDE DEF l
<1>7. DOMAIN l = ConsumerFields
  BY <1>6 DEF ManagerMade, Alike
<1>8. ManagerMade(l, P, t)
  BY <1>1, <1>7, ManagerRegistered DEF NewPanelManager, ManagerWith
<1> HIDE DEF L, P
<1>9. L # P /\ Consumer(L) = "layout" /\ Consumer(P) = "panels"
  BY ObjectsDiffer DEF L, P
<1>10. /\ DOMAIN t = ConsumerFields /\ t.role = role /\ t.owner = none /\ t.titlebar = none
       /\ t.property = empty /\ t.heard = NothingHeard
       /\ t.window = Register(Register(empty, InputsOf(L), Consumer(L)), InputsOf(P), Consumer(P))
  BY <1>5, <1>6, <1>8 DEF ManagerMade, Alike
<1>11. DOMAIN t.registrars = {L, P} /\ \A o \in {L, P} : DOMAIN t.registrars[o] = RegistrarFields
  BY <1>2, <1>5, <1>6, <1>8 DEF ManagerMade
<1>12. LiveObjects(role) = {L, P}
  <2>1. {Toplevel(x) : x \in {y \in ConsumerXids : role[y] = "toplevel"}} = {}
    BY <1>3
  <2>2. {PanelOf(x) : x \in {y \in ConsumerXids : role[y] = "panel"}} = {}
    BY <1>3
  <2> QED
    BY <2>1, <2>2 DEF LiveObjects, L, P
<1>13. RolesFit(role, none, none)
  BY <1>3, <1>4 DEF RolesFit
<1>14. WindowsRegistered(t.window, role)
  <2> DEFINE v == Register(empty, InputsOf(L), Consumer(L))
             w == Register(v, InputsOf(P), Consumer(P))
  <2>1. \A k : EventConsumersOf(empty, k) = {}
    BY <1>2 DEF EventConsumersOf
  <2>2. NoneEmpty(empty)
    BY <1>2 DEF NoneEmpty
  <2>3. /\ \A k : k \in InputsOf(L) => EventConsumersOf(v, k) = EventConsumersOf(empty, k) \cup {Consumer(L)}
        /\ \A k : k \notin InputsOf(L) => EventConsumersOf(v, k) = EventConsumersOf(empty, k)
        /\ DOMAIN v = DOMAIN empty \cup InputsOf(L)
        /\ NoneEmpty(empty) => NoneEmpty(v)
    BY RegisterIs
  <2> HIDE DEF v
  <2>4. /\ \A k : k \in InputsOf(P) => EventConsumersOf(w, k) = EventConsumersOf(v, k) \cup {Consumer(P)}
        /\ \A k : k \notin InputsOf(P) => EventConsumersOf(w, k) = EventConsumersOf(v, k)
        /\ DOMAIN w = DOMAIN v \cup InputsOf(P)
        /\ NoneEmpty(v) => NoneEmpty(w)
    BY RegisterIs
  <2>5. t.window = w
    BY <1>10 DEF v
  <2> HIDE DEF w
  <2>6. L \in AllObjects /\ P \in AllObjects
    BY DEF AllObjects, L, P
  <2>7. \A k \in DOMAIN w : \E o \in AllObjects : k \in InputsOf(o)
    BY <1>2, <2>3, <2>4, <2>6
  <2>8. \A x \in ConsumerXids : EventConsumersOf(w, Client(x)) = ClientOwner(role[x])
    BY <1>3, <2>1, <2>3, <2>4, InputsDiffer, ClientOwnerIs
  <2>9. \A o \in AllObjects : \A k \in InputsOf(o) : EventConsumersOf(w, k) = ObjectOwner(role, o)
    <3> SUFFICES ASSUME NEW o \in AllObjects, NEW k \in InputsOf(o)
                 PROVE  EventConsumersOf(w, k) = ObjectOwner(role, o)
      OBVIOUS
    <3>1. CASE o = L
      <4>1. k \notin InputsOf(P)
        BY <1>9, <3>1, InputsDiffer
      <4> QED
        BY <1>12, <2>1, <2>3, <2>4, <3>1, <4>1 DEF ObjectOwner
    <3>2. CASE o = P
      <4>1. k \notin InputsOf(L)
        BY <1>9, <3>2, InputsDiffer
      <4> QED
        BY <1>12, <2>1, <2>3, <2>4, <3>2, <4>1 DEF ObjectOwner
    <3>3. CASE o # L /\ o # P
      <4>1. k \notin InputsOf(L) /\ k \notin InputsOf(P)
        BY <3>3, InputsDiffer
      <4> QED
        BY <1>12, <2>1, <2>3, <2>4, <3>3, <4>1 DEF ObjectOwner
    <3> QED
      BY <3>1, <3>2, <3>3
  <2> QED
    BY <2>2, <2>3, <2>4, <2>5, <2>7, <2>8, <2>9 DEF WindowsRegistered
<1>15. HintsRegistered(t.property, role)
  BY <1>2, <1>3, <1>10 DEF HintsRegistered, NoneEmpty, EventConsumersOf, HintsOwner
<1>16. RegistrarsRemember(t.registrars, role, none)
  BY <1>3, <1>11, <1>12 DEF RegistrarsRemember
<1>17. Registered(t)
  BY <1>10, <1>13, <1>14, <1>15, <1>16 DEF Registered
<1>18. HeardByOwner(t)
  BY <1>10 DEF HeardByOwner, NothingHeard
<1> QED
  BY <1>17, <1>18 DEF ConsumersInv, t

\* The invariant is stronger than the property.
LEMMA ConsumersInvImplies ==
  ASSUME ConsumersInv(consumers)
  PROVE  EventsReachOwner
<1> DEFINE s == consumers
<1>0. /\ DOMAIN s = ConsumerFields /\ RolesFit(s.role, s.owner, s.titlebar)
      /\ WindowsRegistered(s.window, s.role) /\ HintsRegistered(s.property, s.role)
      /\ RegistrarsRemember(s.registrars, s.role, s.titlebar) /\ HeardByOwner(s)
  BY DEF ConsumersInv, Registered
<1>1. \A x \in ConsumerXids : OwnerOf(Client(x)) = ClientOwner(s.role[x])
  <2> SUFFICES ASSUME NEW x \in ConsumerXids PROVE OwnerOf(Client(x)) = ClientOwner(s.role[x])
    OBVIOUS
  <2>1. Client(x)[1] # "input" /\ Client(x)[2] = x
    BY ClientsDiffer
  <2> QED
    BY <2>1, Zenon DEF OwnerOf, ClientOwner
<1>2. \A o, i : OwnerOf(Input(o, i)) = {Consumer(o)}
  BY ClientsDiffer, Zenon DEF OwnerOf
<1>3. DOMAIN s.registrars = LiveObjects(s.role) /\ LiveObjects(s.role) \subseteq AllObjects
  BY <1>0, LiveIs DEF RegistrarsRemember
<1>4. \A m, k : NoneEmpty(m) => (k \in DOMAIN m <=> EventConsumersOf(m, k) # {})
  BY DEF NoneEmpty, EventConsumersOf
<1>5. DOMAIN s.window = {Client(x) : x \in {y \in ConsumerXids : OwnerOf(Client(y)) # {}}}
                          \cup UNION {InputsOf(o) : o \in DOMAIN s.registrars}
  <2> DEFINE C == {Client(x) : x \in {y \in ConsumerXids : OwnerOf(Client(y)) # {}}}
             I == UNION {InputsOf(o) : o \in DOMAIN s.registrars}
  <2>1. \A k : k \in C <=> \E x \in ConsumerXids : k = Client(x) /\ ClientOwner(s.role[x]) # {}
    BY <1>1
  <2>2. \A k : k \in I <=> \E o \in LiveObjects(s.role) : k \in InputsOf(o)
    BY <1>3
  <2> HIDE DEF C, I, s
  <2>3. ASSUME NEW k \in DOMAIN s.window PROVE k \in C \cup I
    <3>1. EventConsumersOf(s.window, k) # {}
      BY <1>0, <1>4, <2>3 DEF WindowsRegistered
    <3>2. CASE \E x \in ConsumerXids : k = Client(x)
      BY <1>0, <2>1, <3>1, <3>2 DEF WindowsRegistered
    <3>3. CASE \E o \in AllObjects : k \in InputsOf(o)
      BY <1>0, <2>2, <3>1, <3>3 DEF WindowsRegistered, ObjectOwner
    <3> QED
      BY <1>0, <2>3, <3>2, <3>3 DEF WindowsRegistered
  <2>4. ASSUME NEW k \in C PROVE k \in DOMAIN s.window
    BY <1>0, <1>4, <2>1, <2>4 DEF WindowsRegistered
  <2>5. ASSUME NEW k \in I PROVE k \in DOMAIN s.window
    <3>1. PICK o \in LiveObjects(s.role) : k \in InputsOf(o)
      BY <2>2, <2>5
    <3>2. EventConsumersOf(s.window, k) = {Consumer(o)}
      BY <1>0, <1>3, <3>1 DEF WindowsRegistered, ObjectOwner
    <3> QED
      BY <1>0, <1>4, <3>2 DEF WindowsRegistered
  <2>6. DOMAIN s.window = C \cup I
    BY <2>3, <2>4, <2>5
  <2> QED
    BY <2>6 DEF C, I
<1>6. DOMAIN s.property = {PropertyOf(x, "WM_HINTS") : x \in {y \in ConsumerXids : s.role[y] = "panel"}}
  <2> HIDE DEF s
  <2>1. \A x \in ConsumerXids : PropertyOf(x, "WM_HINTS") \in DOMAIN s.property <=> s.role[x] = "panel"
    BY <1>0, <1>4 DEF HintsRegistered, HintsOwner
  <2> QED
    BY <1>0, <2>1 DEF HintsRegistered
<1>7. s.heard.sort \in {"pointer", "focus", "client_message", "configure"} => s.heard.to = OwnerOf(s.heard.key)
  BY <1>0, <1>1, <1>2 DEF HeardByOwner
<1> QED
  BY <1>5, <1>6, <1>7 DEF EventsReachOwner

\* However windows come and go, an event reaches the one manager that has an object for its
\* window, and what an object registered goes with it: event_consumer_registrar.cc and the
\* maps of window_manager.cc, for any windows and number of events.
THEOREM ConsumersSafety == MCSpec => []EventsReachOwner
<1>1. MCInit => ConsumersInv(consumers)
  BY ConsumersInitInv DEF MCInit
<1>2. ConsumersInv(consumers) /\ [MCNext]_vars => ConsumersInv(consumers)'
  <2> SUFFICES ASSUME ConsumersInv(consumers), [MCNext]_vars PROVE ConsumersInv(consumers')
    OBVIOUS
  <2>1. ConsumersNext \/ UNCHANGED consumers
    BY DEF MCNext, vars, SelectionUnit
  <2>2. CASE UNCHANGED consumers
    BY <2>2
  <2>3. CASE ConsumersNext
    BY <2>3, ConsumersNextInv
  <2> QED
    BY <2>1, <2>2, <2>3
<1>3. ConsumersInv(consumers) => EventsReachOwner
  BY ConsumersInvImplies
<1> QED
  BY <1>1, <1>2, <1>3, PTL DEF MCSpec

-----------------------------------------------------------------------------
(* The stacking order.                                                   *)

\* What is stacked, and the orders of it.
StackItems ==
  {LayerActor(l) : l \in Layers} \cup {WindowActor(w) : w \in StackedWindows}
    \cup {ShadowGroup(w) : w \in StackedWindows}
StackOrder(q) == q \in Seq(StackItems) /\ IsInjective(q)

\* The items differ.
LEMMA ItemsDiffer ==
  /\ \A l, m : LayerActor(l) = LayerActor(m) => l = m
  /\ \A v, w : WindowActor(v) = WindowActor(w) => v = w
  /\ \A v, w : ShadowGroup(v) = ShadowGroup(w) => v = w
  /\ \A l, w : LayerActor(l) # WindowActor(w) /\ LayerActor(l) # ShadowGroup(w)
  /\ \A v, w : WindowActor(v) # ShadowGroup(w)
BY DEF LayerActor, WindowActor, ShadowGroup

\* An order is strict and total.
LEMMA OrderIs ==
  ASSUME NEW q, StackOrder(q)
  PROVE  /\ \A a, b : Above(q, a, b) => ~Above(q, b, a) /\ a # b /\ Contains(q, a) /\ Contains(q, b)
         /\ \A a, b : Contains(q, a) /\ Contains(q, b) /\ a # b => Above(q, a, b) \/ Above(q, b, a)
         /\ \A a, b, c : Above(q, a, b) /\ Above(q, b, c) => Above(q, a, c)
<1>1. q \in Seq(StackItems) /\ Len(q) \in Nat /\ DOMAIN q = 1..Len(q)
  BY LenProperties DEF StackOrder
<1>2. \A i, j \in DOMAIN q : q[i] = q[j] => i = j
  BY DEF StackOrder, IsInjective
<1>3. \A a, b : Above(q, a, b) => ~Above(q, b, a) /\ a # b /\ Contains(q, a) /\ Contains(q, b)
  <2> SUFFICES ASSUME NEW a, NEW b, Above(q, a, b)
               PROVE  ~Above(q, b, a) /\ a # b /\ Contains(q, a) /\ Contains(q, b)
    OBVIOUS
  <2>1. PICK i \in DOMAIN q, j \in DOMAIN q : i < j /\ q[i] = a /\ q[j] = b
    BY DEF Above
  <2>2. a # b
    BY <1>1, <1>2, <2>1
  <2>3. ~Above(q, b, a)
    <3> SUFFICES ASSUME NEW k \in DOMAIN q, NEW m \in DOMAIN q, k < m, q[k] = b, q[m] = a PROVE FALSE
      BY DEF Above
    <3>1. k = j /\ m = i
      BY <1>2, <2>1
    <3> QED
      BY <1>1, <2>1, <3>1
  <2> QED
    BY <1>1, <2>1, <2>2, <2>3 DEF Contains
<1>4. \A a, b : Contains(q, a) /\ Contains(q, b) /\ a # b => Above(q, a, b) \/ Above(q, b, a)
  <2> SUFFICES ASSUME NEW a, NEW b, Contains(q, a), Contains(q, b), a # b
               PROVE  Above(q, a, b) \/ Above(q, b, a)
    OBVIOUS
  <2>1. PICK i \in 1..Len(q) : q[i] = a
    BY DEF Contains
  <2>2. PICK j \in 1..Len(q) : q[j] = b
    BY DEF Contains
  <2>3. i < j \/ j < i
    BY <1>1, <2>1, <2>2
  <2> QED
    BY <1>1, <2>1, <2>2, <2>3 DEF Above
<1>5. \A a, b, c : Above(q, a, b) /\ Above(q, b, c) => Above(q, a, c)
  <2> SUFFICES ASSUME NEW a, NEW b, NEW c, Above(q, a, b), Above(q, b, c) PROVE Above(q, a, c)
    OBVIOUS
  <2>1. PICK i \in DOMAIN q, j \in DOMAIN q : i < j /\ q[i] = a /\ q[j] = b
    BY DEF Above
  <2>2. PICK k \in DOMAIN q, m \in DOMAIN q : k < m /\ q[k] = b /\ q[m] = c
    BY DEF Above
  <2>3. k = j
    BY <1>2, <2>1, <2>2
  <2>4. i < m
    BY <1>1, <2>1, <2>2, <2>3
  <2> QED
    BY <2>1, <2>2, <2>4 DEF Above
<1> QED
  BY <1>3, <1>4, <1>5

\* Without one item the others keep their order.
LEMMA EraseIs ==
  ASSUME NEW q, StackOrder(q), NEW x
  PROVE  /\ StackOrder(Erase(q, x))
         /\ \A a : Contains(Erase(q, x), a) <=> Contains(q, a) /\ a # x
         /\ \A a, b : Above(Erase(q, x), a, b) <=> Above(q, a, b) /\ a # x /\ b # x
<1> DEFINE r == Erase(q, x)
<1>0. q \in Seq(StackItems) /\ IsInjective(q) /\ Len(q) \in Nat /\ DOMAIN q = 1..Len(q)
  BY LenProperties DEF StackOrder
<1>1. CASE ~Contains(q, x)
  <2>1. r = q
    BY <1>1 DEF Erase
  <2>2. \A a, b : Above(q, a, b) => Contains(q, a) /\ Contains(q, b)
    BY OrderIs
  <2> HIDE DEF r
  <2> QED
    BY <1>1, <2>1, <2>2 DEF r
<1>2. CASE Contains(q, x)
  <2> DEFINE k == Index(q, x)
             from(j) == IF j < k THEN j ELSE j + 1
  <2>1. k \in 1..Len(q) /\ q[k] = x /\ k \in Nat
    <3>1. \E j \in DOMAIN q : q[j] = x
      BY <1>0, <1>2 DEF Contains
    <3>2. k \in DOMAIN q /\ q[k] = x
      BY <3>1 DEF Index
    <3> QED
      BY <1>0, <3>2
  <2>2. r = RemoveAt(q, k)
    BY <1>2 DEF Erase
  <2> HIDE DEF r, k
  <2>3. /\ r \in Seq(StackItems) /\ Len(r) = Len(q) - 1
        /\ \A j \in 1..(k - 1) : r[j] = q[j]
        /\ \A j \in k..(Len(q) - 1) : r[j] = q[j + 1]
    BY <1>0, <2>1, <2>2, RemoveAtIs
  <2>4. IsInjective(r) /\ ToSet(r) = ToSet(q) \ {x}
    BY <1>0, <2>1, <2>2, RemoveAtApart
  <2>5. DOMAIN r = 1..(Len(q) - 1)
    BY <2>3, LenProperties
  <2>6. \A j \in 1..(Len(q) - 1) : r[j] = q[from(j)] /\ from(j) \in 1..Len(q) /\ from(j) # k
    BY <1>0, <2>1, <2>3
  <2>7. \A i, j \in 1..(Len(q) - 1) : i < j <=> from(i) < from(j)
    BY <1>0, <2>1
  <2>8. \A m \in 1..Len(q) : m # k => \E j \in 1..(Len(q) - 1) : from(j) = m
    <3> TAKE m \in 1..Len(q)
    <3> HAVE m # k
    <3> DEFINE j == IF m < k THEN m ELSE m - 1
    <3>1. j \in 1..(Len(q) - 1) /\ from(j) = m
      BY <1>0, <2>1
    <3> QED
      BY <3>1
  <2> HIDE DEF from
  <2>9. \A a : Contains(r, a) <=> Contains(q, a) /\ a # x
    <3>1. \A a : Contains(r, a) <=> a \in ToSet(r)
      BY <2>3, <2>5 DEF Contains, ToSet
    <3>2. \A a : Contains(q, a) <=> a \in ToSet(q)
      BY <1>0 DEF Contains, ToSet
    <3> QED
      BY <2>4, <3>1, <3>2
  <2>10. ASSUME NEW a, NEW b, Above(r, a, b) PROVE Above(q, a, b) /\ a # x /\ b # x
    <3>1. PICK i \in DOMAIN r, j \in DOMAIN r : i < j /\ r[i] = a /\ r[j] = b
      BY <2>10 DEF Above
    <3>2. from(i) < from(j) /\ q[from(i)] = a /\ q[from(j)] = b /\ from(i) \in DOMAIN q /\ from(j) \in DOMAIN q
          /\ from(i) # k /\ from(j) # k
      BY <1>0, <2>5, <2>6, <2>7, <3>1
    <3>3. a # x /\ b # x
      BY <1>0, <2>1, <3>2 DEF IsInjective
    <3> QED
      BY <3>2, <3>3 DEF Above
  <2>11. ASSUME NEW a, NEW b, Above(q, a, b), a # x, b # x PROVE Above(r, a, b)
    <3>1. PICK i \in DOMAIN q, j \in DOMAIN q : i < j /\ q[i] = a /\ q[j] = b
      BY <2>11 DEF Above
    <3>2. i # k /\ j # k
      BY <2>1, <2>11, <3>1
    <3>3. PICK m \in 1..(Len(q) - 1) : from(m) = i
      BY <1>0, <2>8, <3>1, <3>2
    <3>4. PICK n \in 1..(Len(q) - 1) : from(n) = j
      BY <1>0, <2>8, <3>1, <3>2
    <3>5. m < n /\ r[m] = a /\ r[n] = b
      BY <2>6, <2>7, <3>1, <3>3, <3>4
    <3> QED
      BY <2>5, <3>5 DEF Above
  <2> QED
    BY <2>3, <2>4, <2>9, <2>10, <2>11 DEF StackOrder, r
<1> QED
  BY <1>1, <1>2

\* An item that is inserted is above what was at its place and below.
LEMMA InsertIs ==
  ASSUME NEW q, StackOrder(q), NEW x \in StackItems, ~Contains(q, x), NEW k \in 1..(Len(q) + 1)
  PROVE  /\ StackOrder(InsertAt(q, k, x))
         /\ \A a : Contains(InsertAt(q, k, x), a) <=> Contains(q, a) \/ a = x
         /\ \A a, b : a # x /\ b # x => (Above(InsertAt(q, k, x), a, b) <=> Above(q, a, b))
         /\ \A b : b # x => (Above(InsertAt(q, k, x), x, b) <=> \E j \in DOMAIN q : j >= k /\ q[j] = b)
<1> DEFINE r == InsertAt(q, k, x)
           to(j) == IF j < k THEN j ELSE j + 1
<1>0. q \in Seq(StackItems) /\ IsInjective(q) /\ Len(q) \in Nat /\ DOMAIN q = 1..Len(q) /\ k \in Nat
  BY LenProperties DEF StackOrder
<1>1. /\ r \in Seq(StackItems) /\ Len(r) = Len(q) + 1 /\ r[k] = x
      /\ \A j \in 1..(k - 1) : r[j] = q[j]
      /\ \A j \in (k + 1)..(Len(q) + 1) : r[j] = q[j - 1]
  <2>1. q \in Seq(StackItems)
    BY <1>0
  <2> HIDE DEF to
  <2> QED
    BY <2>1, InsertAtIs
<1>2. x \notin ToSet(q)
  BY <1>0 DEF Contains, ToSet
<1>3. IsInjective(r) /\ ToSet(r) = ToSet(q) \cup {x}
  BY <1>0, <1>2, InsertAtApart
<1> HIDE DEF r
<1>4. DOMAIN r = 1..(Len(q) + 1)
  BY <1>1, LenProperties
<1>5. \A j \in 1..Len(q) : r[to(j)] = q[j] /\ to(j) \in 1..(Len(q) + 1) /\ to(j) # k
  BY <1>0, <1>1
<1>6. \A i, j \in 1..Len(q) : i < j <=> to(i) < to(j)
  BY <1>0
<1>7. \A j \in 1..Len(q) : j >= k <=> k < to(j)
  BY <1>0
<1>8. \A m \in 1..(Len(q) + 1) : m # k => \E j \in 1..Len(q) : to(j) = m
  <2> TAKE m \in 1..(Len(q) + 1)
  <2> HAVE m # k
  <2> DEFINE j == IF m < k THEN m ELSE m - 1
  <2>1. j \in 1..Len(q) /\ to(j) = m
    BY <1>0
  <2> QED
    BY <2>1
<1> HIDE DEF to
<1>9. \A a : Contains(r, a) <=> Contains(q, a) \/ a = x
  <2>1. \A a : Contains(r, a) <=> a \in ToSet(r)
    BY <1>1, <1>4 DEF Contains, ToSet
  <2>2. \A a : Contains(q, a) <=> a \in ToSet(q)
    BY <1>0 DEF Contains, ToSet
  <2> QED
    BY <1>3, <2>1, <2>2
<1>10. ASSUME NEW a, NEW b, a # x, b # x, Above(r, a, b) PROVE Above(q, a, b)
  <2>1. PICK i \in DOMAIN r, j \in DOMAIN r : i < j /\ r[i] = a /\ r[j] = b
    BY <1>10 DEF Above
  <2>2. i # k /\ j # k
    BY <1>1, <1>10, <2>1
  <2>3. PICK m \in 1..Len(q) : to(m) = i
    BY <1>4, <1>8, <2>1, <2>2
  <2>4. PICK n \in 1..Len(q) : to(n) = j
    BY <1>4, <1>8, <2>1, <2>2
  <2>5. m < n /\ q[m] = a /\ q[n] = b
    BY <1>5, <1>6, <2>1, <2>3, <2>4
  <2> QED
    BY <1>0, <2>5 DEF Above
<1>11. ASSUME NEW a, NEW b, Above(q, a, b) PROVE Above(r, a, b)
  <2>1. PICK i \in DOMAIN q, j \in DOMAIN q : i < j /\ q[i] = a /\ q[j] = b
    BY <1>11 DEF Above
  <2>2. to(i) < to(j) /\ r[to(i)] = a /\ r[to(j)] = b /\ to(i) \in DOMAIN r /\ to(j) \in DOMAIN r
    BY <1>0, <1>4, <1>5, <1>6, <2>1
  <2> QED
    BY <2>2 DEF Above
<1>12. ASSUME NEW b, b # x, Above(r, x, b) PROVE \E j \in DOMAIN q : j >= k /\ q[j] = b
  <2>1. PICK i \in DOMAIN r, j \in DOMAIN r : i < j /\ r[i] = x /\ r[j] = b
    BY <1>12 DEF Above
  <2>2. i = k /\ j # k
    BY <1>0, <1>1, <1>3, <1>4, <1>12, <2>1 DEF IsInjective
  <2>3. PICK m \in 1..Len(q) : to(m) = j
    BY <1>4, <1>8, <2>1, <2>2
  <2>4. m >= k /\ q[m] = b
    BY <1>5, <1>7, <2>1, <2>2, <2>3
  <2> QED
    BY <1>0, <2>4
<1>13. ASSUME NEW b, NEW j \in DOMAIN q, j >= k, q[j] = b PROVE Above(r, x, b)
  <2>1. k < to(j) /\ r[to(j)] = b /\ to(j) \in DOMAIN r /\ k \in DOMAIN r
    BY <1>0, <1>4, <1>5, <1>7, <1>13
  <2> QED
    BY <1>1, <2>1 DEF Above
<1> QED
  BY <1>1, <1>3, <1>9, <1>10, <1>11, <1>12, <1>13 DEF StackOrder, r

\* r is q with x moved right above y, or right below it.
Beside(q, r, x, y, above) ==
  /\ StackOrder(r)
  /\ \A a : Contains(r, a) <=> Contains(q, a)
  /\ \A a, b : a # x /\ b # x => (Above(r, a, b) <=> Above(q, a, b))
  /\ \A b : b # x => (Above(r, x, b) <=> Above(q, y, b) \/ (above /\ b = y))

\* ContainerActor::RaiseChild() and LowerChild() with a sibling.
LEMMA MovesBeside ==
  ASSUME NEW q, StackOrder(q), NEW x \in StackItems, NEW y, Contains(q, x), Contains(q, y), x # y, y # None
  PROVE  /\ Beside(q, RaiseChild(q, x, y), x, y, TRUE)
         /\ Beside(q, LowerChild(q, x, y), x, y, FALSE)
<1> DEFINE o == Erase(q, x)
           k == Index(o, y)
<1>1. /\ StackOrder(o) /\ \A a : Contains(o, a) <=> Contains(q, a) /\ a # x
      /\ \A a, b : Above(o, a, b) <=> Above(q, a, b) /\ a # x /\ b # x
  BY EraseIs
<1>2. RaiseChild(q, x, y) = InsertAt(o, k, x) /\ LowerChild(q, x, y) = InsertAt(o, k + 1, x)
  BY DEF RaiseChild, LowerChild
<1> HIDE DEF o
<1>3. o \in Seq(StackItems) /\ IsInjective(o) /\ Len(o) \in Nat /\ DOMAIN o = 1..Len(o)
  BY <1>1, LenProperties DEF StackOrder
<1>4. k \in DOMAIN o /\ o[k] = y
  <2>1. \E j \in DOMAIN o : o[j] = y
    BY <1>1, <1>3 DEF Contains
  <2> QED
    BY <2>1 DEF Index
<1> HIDE DEF k
<1>5. k \in 1..(Len(o) + 1) /\ k + 1 \in 1..(Len(o) + 1)
  BY <1>3, <1>4
<1>6. ~Contains(o, x)
  BY <1>1
<1>7. \A b : (\E j \in DOMAIN o : j >= k + 1 /\ o[j] = b) <=> Above(o, y, b)
  <2> SUFFICES ASSUME NEW b PROVE (\E j \in DOMAIN o : j >= k + 1 /\ o[j] = b) <=> Above(o, y, b)
    OBVIOUS
  <2>1. ASSUME NEW j \in DOMAIN o, j >= k + 1, o[j] = b PROVE Above(o, y, b)
    <3>1. k < j
      BY <1>3, <1>4, <2>1
    <3> QED
      BY <1>4, <2>1, <3>1 DEF Above
  <2>2. ASSUME Above(o, y, b) PROVE \E j \in DOMAIN o : j >= k + 1 /\ o[j] = b
    <3>1. PICK i \in DOMAIN o, j \in DOMAIN o : i < j /\ o[i] = y /\ o[j] = b
      BY <2>2 DEF Above
    <3>2. i = k
      BY <1>3, <1>4, <3>1 DEF IsInjective
    <3>3. j >= k + 1
      BY <1>3, <1>4, <3>1, <3>2
    <3> QED
      BY <3>1, <3>3
  <2> QED
    BY <2>1, <2>2
<1>8. \A b : (\E j \in DOMAIN o : j >= k /\ o[j] = b) <=> b = y \/ Above(o, y, b)
  <2>1. \A j \in DOMAIN o : j >= k <=> j = k \/ j >= k + 1
    BY <1>3, <1>4
  <2>2. k >= k
    BY <1>3, <1>4
  <2> QED
    BY <1>4, <1>7, <2>1, <2>2
<1>9. Beside(q, InsertAt(o, k, x), x, y, TRUE)
  <2> DEFINE r == InsertAt(o, k, x)
  <2>1. /\ StackOrder(r) /\ \A a : Contains(r, a) <=> Contains(o, a) \/ a = x
        /\ \A a, b : a # x /\ b # x => (Above(r, a, b) <=> Above(o, a, b))
        /\ \A b : b # x => (Above(r, x, b) <=> \E j \in DOMAIN o : j >= k /\ o[j] = b)
    BY <1>1, <1>5, <1>6, InsertIs
  <2> HIDE DEF r
  <2>2. Beside(q, r, x, y, TRUE)
    BY <1>1, <1>8, <2>1 DEF Beside
  <2> QED
    BY <2>2 DEF r
<1>10. Beside(q, InsertAt(o, k + 1, x), x, y, FALSE)
  <2> DEFINE n == k + 1
             r == InsertAt(o, n, x)
  <2>a. n \in 1..(Len(o) + 1)
    BY <1>5
  <2>b. \A b : (\E j \in DOMAIN o : j >= n /\ o[j] = b) <=> Above(o, y, b)
    BY <1>7
  <2> HIDE DEF n
  <2>1. /\ StackOrder(r) /\ \A a : Contains(r, a) <=> Contains(o, a) \/ a = x
        /\ \A a, b : a # x /\ b # x => (Above(r, a, b) <=> Above(o, a, b))
        /\ \A b : b # x => (Above(r, x, b) <=> \E j \in DOMAIN o : j >= n /\ o[j] = b)
    BY <1>1, <2>a, <1>6, InsertIs
  <2> HIDE DEF r
  <2>2. Beside(q, r, x, y, FALSE)
    BY <1>1, <2>b, <2>1 DEF Beside
  <2> QED
    BY <2>2 DEF r, n
<1> QED
  BY <1>2, <1>9, <1>10

\* What is put on top of an order leaves it as it is.
LEMMA OnTopIs ==
  ASSUME NEW q, StackOrder(q), NEW p, StackOrder(p), \A a : Contains(p, a) => ~Contains(q, a)
  PROVE  /\ StackOrder(p \o q) /\ \A a : Contains(p \o q, a) <=> Contains(p, a) \/ Contains(q, a)
         /\ \A a, b : ~Contains(p, a) /\ ~Contains(p, b) => (Above(p \o q, a, b) <=> Above(q, a, b))
<1> DEFINE r == p \o q
           n == Len(p)
<1>0. q \in Seq(StackItems) /\ IsInjective(q) /\ Len(q) \in Nat /\ DOMAIN q = 1..Len(q)
  BY LenProperties DEF StackOrder
<1>1. p \in Seq(StackItems) /\ IsInjective(p) /\ n \in Nat /\ DOMAIN p = 1..n
  BY LenProperties DEF StackOrder
<1>2. /\ r \in Seq(StackItems) /\ Len(r) = n + Len(q)
      /\ \A i \in 1..(n + Len(q)) : r[i] = IF i <= n THEN p[i] ELSE q[i - n]
  BY <1>0, <1>1, ConcatProperties
<1> HIDE DEF r
<1>3. DOMAIN r = 1..(n + Len(q))
  BY <1>2, LenProperties
<1> HIDE DEF n
<1>4. \A i \in DOMAIN p : i \in DOMAIN r /\ r[i] = p[i] /\ Contains(p, r[i])
  BY <1>0, <1>1, <1>2, <1>3 DEF Contains, n
<1>5. \A i \in DOMAIN q : i + n \in DOMAIN r /\ r[i + n] = q[i] /\ Contains(q, r[i + n])
  BY <1>0, <1>1, <1>2, <1>3 DEF Contains
<1>6. \A i \in DOMAIN r : i \in DOMAIN p \/ \E j \in DOMAIN q : i = j + n
  <2> TAKE i \in DOMAIN r
  <2>1. CASE i <= n
    BY <1>0, <1>1, <1>3, <2>1
  <2>2. CASE ~(i <= n)
    <3>1. i - n \in DOMAIN q /\ i = (i - n) + n
      BY <1>0, <1>1, <1>3, <2>2
    <3> QED
      BY <3>1
  <2> QED
    BY <2>1, <2>2
<1>7. \A i, j \in DOMAIN q : (i < j <=> i + n < j + n) /\ (i + n = j + n => i = j)
  BY <1>0, <1>1
<1>8. IsInjective(r)
  <2> SUFFICES ASSUME NEW i \in DOMAIN r, NEW j \in DOMAIN r, r[i] = r[j] PROVE i = j
    BY DEF IsInjective
  <2>1. CASE i \in DOMAIN p
    BY <1>1, <1>4, <1>5, <1>6, <2>1 DEF IsInjective
  <2>2. CASE j \in DOMAIN p
    BY <1>1, <1>4, <1>5, <1>6, <2>2 DEF IsInjective
  <2>3. CASE i \notin DOMAIN p /\ j \notin DOMAIN p
    BY <1>0, <1>5, <1>6, <2>3 DEF IsInjective
  <2> QED
    BY <2>1, <2>2, <2>3
<1>9. \A a : Contains(r, a) <=> Contains(p, a) \/ Contains(q, a)
  <2>1. \A a : Contains(r, a) <=> \E i \in DOMAIN r : r[i] = a
    BY <1>2, <1>3 DEF Contains
  <2>2. \A a : Contains(p, a) <=> \E i \in DOMAIN p : p[i] = a
    BY <1>1 DEF Contains, n
  <2>3. \A a : Contains(q, a) <=> \E i \in DOMAIN q : q[i] = a
    BY <1>0 DEF Contains
  <2> QED
    BY <1>4, <1>5, <1>6, <2>1, <2>2, <2>3
<1>10. ASSUME NEW a, NEW b, ~Contains(p, a), ~Contains(p, b), Above(r, a, b) PROVE Above(q, a, b)
  <2>1. PICK i \in DOMAIN r, j \in DOMAIN r : i < j /\ r[i] = a /\ r[j] = b
    BY <1>10 DEF Above
  <2>2. PICK k \in DOMAIN q : i = k + n
    BY <1>4, <1>6, <1>10, <2>1
  <2>3. PICK m \in DOMAIN q : j = m + n
    BY <1>4, <1>6, <1>10, <2>1
  <2>4. k < m /\ q[k] = a /\ q[m] = b
    BY <1>5, <1>7, <2>1, <2>2, <2>3
  <2> QED
    BY <2>4 DEF Above
<1>11. ASSUME NEW a, NEW b, Above(q, a, b) PROVE Above(r, a, b)
  <2>1. PICK i \in DOMAIN q, j \in DOMAIN q : i < j /\ q[i] = a /\ q[j] = b
    BY <1>11 DEF Above
  <2>2. i + n < j + n /\ r[i + n] = a /\ r[j + n] = b /\ i + n \in DOMAIN r /\ j + n \in DOMAIN r
    BY <1>5, <1>7, <2>1
  <2> QED
    BY <2>2 DEF Above
<1> QED
  BY <1>2, <1>8, <1>9, <1>10, <1>11 DEF StackOrder, r

-----------------------------------------------------------------------------
StackFields == {"actors", "xids", "layer", "known", "loose", "over", "steps"}
StackedOf(s) == {w \in s.known : s.layer[w] # 0}

\* Both orders have the layers, and the windows that exist.
StackKnown(s) ==
  /\ s.known \subseteq StackedWindows
  /\ s.layer \in [StackedWindows -> {0} \cup ManagedLayers]
  /\ \A w \in StackedWindows : w \notin s.known => s.layer[w] = 0
  /\ \A l \in Layers : Contains(s.actors, LayerActor(l)) /\ Contains(s.xids, LayerActor(l))
  /\ \A w \in StackedWindows : Contains(s.actors, WindowActor(w)) <=> w \in s.known
  /\ \A w \in StackedWindows : Contains(s.actors, ShadowGroup(w)) <=> w \in s.known
  /\ \A w \in StackedWindows : Contains(s.xids, WindowActor(w)) => w \in s.known

\* The reference points are in order.
LayersInOrder(s) == \A l \in ManagedLayers : Above(s.actors, LayerActor(l), LayerActor(l + 1))

\* The two orders agree about what is settled.
SettledItems(s) ==
  {WindowActor(w) : w \in StackedOf(s) \ s.loose} \cup {LayerActor(l) : l \in Layers}
OrdersAgree(s) ==
  \A a, b \in SettledItems(s) :
    Contains(s.xids, a) /\ Contains(s.xids, b) => (Above(s.xids, a, b) <=> Above(s.actors, a, b))

\* Windows are in their layers, and shadows below the windows.
WithinLayers(s) ==
  \A w \in StackedOf(s) :
    /\ Above(s.actors, LayerActor(s.layer[w]), WindowActor(w))
    /\ Above(s.actors, WindowActor(w), LayerActor(s.layer[w] + 1))
ShadowsUnder(s) ==
  \A w \in StackedOf(s) :
    /\ Above(s.actors, ShadowGroup(w), LayerActor(s.layer[w] + 1))
    /\ Above(s.actors, WindowActor(w), ShadowGroup(w))
    /\ \A v \in StackedOf(s) :
         s.layer[v] = s.layer[w] /\ w \notin s.over => Above(s.actors, WindowActor(v), ShadowGroup(w))

StackInv(s) ==
  /\ DOMAIN s = StackFields /\ StackOrder(s.actors) /\ StackOrder(s.xids) /\ StackKnown(s)
  /\ LayersInOrder(s) /\ OrdersAgree(s) /\ WithinLayers(s) /\ ShadowsUnder(s)

\* y is what w may be stacked next to in layer l: its top, or another window of it.
Sibling(s, w, l, y, above) ==
  \/ y = LayerActor(l) /\ ~above
  \/ \E v \in StackedOf(s) : v # w /\ y = WindowActor(v) /\ s.layer[v] = l

\* In r, window w is next to y and its shadow below it, at the bottom of layer l unless over.
PlacedNextTo(s, r, w, l, y, above, over) ==
  /\ StackOrder(r) /\ \A a : Contains(r, a) <=> Contains(s.actors, a)
  /\ \A a, b : a \notin {WindowActor(w), ShadowGroup(w)} /\ b \notin {WindowActor(w), ShadowGroup(w)} =>
       (Above(r, a, b) <=> Above(s.actors, a, b))
  /\ \A b : b \notin {WindowActor(w), ShadowGroup(w)} =>
       (Above(r, WindowActor(w), b) <=> Above(s.actors, y, b) \/ (above /\ b = y))
  /\ Above(r, LayerActor(l), WindowActor(w)) /\ Above(r, WindowActor(w), LayerActor(l + 1))
  /\ Above(r, ShadowGroup(w), LayerActor(l + 1)) /\ Above(r, WindowActor(w), ShadowGroup(w))
  /\ \A v \in StackedOf(s) : v # w /\ s.layer[v] = l =>
       /\ ~over => Above(r, WindowActor(v), ShadowGroup(w))
       /\ v \notin s.over => Above(r, WindowActor(w), ShadowGroup(v))

\* What a sibling is above of.
LEMMA SiblingIs ==
  ASSUME NEW s, StackInv(s), NEW w \in s.known, NEW l \in ManagedLayers, NEW y, NEW above \in BOOLEAN,
         Sibling(s, w, l, y, above)
  PROVE  /\ y \in StackItems /\ y # None /\ y # WindowActor(w) /\ y # ShadowGroup(w) /\ Contains(s.actors, y)
         /\ Above(s.actors, y, LayerActor(l + 1))
         /\ ~Above(s.actors, y, LayerActor(l)) /\ ~(above /\ y = LayerActor(l))
         /\ \A v \in StackedOf(s) : s.layer[v] = l /\ v \notin s.over => Above(s.actors, y, ShadowGroup(v))
<1>0. /\ StackOrder(s.actors) /\ StackKnown(s) /\ LayersInOrder(s) /\ WithinLayers(s) /\ ShadowsUnder(s)
  BY DEF StackInv
<1>1. /\ \A a, b : Above(s.actors, a, b) => ~Above(s.actors, b, a) /\ a # b /\ Contains(s.actors, a) /\ Contains(s.actors, b)
      /\ \A a, b, c : Above(s.actors, a, b) /\ Above(s.actors, b, c) => Above(s.actors, a, c)
  BY <1>0, OrderIs
<1>2. l \in Layers /\ LayerActor(l) \in StackItems /\ LayerActor(l) # None
  BY LayersAssumption DEF ManagedLayers, StackItems
<1>3. \A v \in StackedOf(s) : v \in StackedWindows /\ WindowActor(v) \in StackItems /\ WindowActor(v) # None
  BY <1>0, LayersAssumption DEF StackedOf, StackKnown, StackItems
<1>4. CASE y = LayerActor(l) /\ ~above
  <2>1. Above(s.actors, y, LayerActor(l + 1))
    BY <1>0, <1>4 DEF LayersInOrder
  <2>2. \A v \in StackedOf(s) : s.layer[v] = l => Above(s.actors, y, WindowActor(v)) /\ Above(s.actors, WindowActor(v), ShadowGroup(v))
    BY <1>0, <1>4 DEF WithinLayers, ShadowsUnder
  <2> QED
    BY <1>1, <1>2, <1>4, <2>1, <2>2, ItemsDiffer
<1>5. CASE \E v \in StackedOf(s) : v # w /\ y = WindowActor(v) /\ s.layer[v] = l
  <2>1. PICK u \in StackedOf(s) : u # w /\ y = WindowActor(u) /\ s.layer[u] = l
    BY <1>5
  <2>2. Above(s.actors, LayerActor(l), y) /\ Above(s.actors, y, LayerActor(l + 1))
    BY <1>0, <2>1 DEF WithinLayers
  <2>3. \A v \in StackedOf(s) : s.layer[v] = l /\ v \notin s.over => Above(s.actors, y, ShadowGroup(v))
    BY <1>0, <2>1 DEF ShadowsUnder
  <2> QED
    BY <1>1, <1>3, <2>1, <2>2, <2>3, ItemsDiffer
<1> QED
  BY <1>4, <1>5 DEF Sibling

\* The actor is moved next to the sibling, and then its shadow to the bottom of the layer
\* or right below the actor.
LEMMA ActorsPlaced ==
  ASSUME NEW s, StackInv(s), NEW w \in s.known, NEW l \in ManagedLayers, NEW y, NEW above \in BOOLEAN,
         Sibling(s, w, l, y, above), NEW m, Beside(s.actors, m, WindowActor(w), y, above), NEW r, NEW over \in BOOLEAN,
         IF over THEN Beside(m, r, ShadowGroup(w), WindowActor(w), FALSE)
                 ELSE Beside(m, r, ShadowGroup(w), LayerActor(l + 1), TRUE)
  PROVE  PlacedNextTo(s, r, w, l, y, above, over)
<1> DEFINE q == s.actors
           W == WindowActor(w)
           S == ShadowGroup(w)
           top == LayerActor(l)
           bottom == LayerActor(l + 1)
<1>0. /\ StackOrder(q) /\ StackKnown(s) /\ WithinLayers(s)
  BY DEF StackInv
<1>1. /\ y # W /\ y # S /\ Above(q, y, bottom) /\ ~Above(q, y, top) /\ ~(above /\ y = top)
      /\ \A v \in StackedOf(s) : s.layer[v] = l /\ v \notin s.over => Above(q, y, ShadowGroup(v))
  BY SiblingIs
<1>2. /\ StackOrder(m) /\ \A a : Contains(m, a) <=> Contains(q, a)
      /\ \A a, b : a # W /\ b # W => (Above(m, a, b) <=> Above(q, a, b))
      /\ \A b : b # W => (Above(m, W, b) <=> Above(q, y, b) \/ (above /\ b = y))
  BY DEF Beside
<1>3. /\ StackOrder(r) /\ \A a : Contains(r, a) <=> Contains(m, a)
      /\ \A a, b : a # S /\ b # S => (Above(r, a, b) <=> Above(m, a, b))
  BY DEF Beside
<1>4. W # S /\ top # W /\ top # S /\ bottom # W /\ bottom # S
  BY ItemsDiffer
<1>5. Contains(q, top) /\ Contains(q, W) /\ Contains(q, S)
  BY <1>0 DEF StackKnown, ManagedLayers
<1>6. \A a, b : Above(m, a, b) => ~Above(m, b, a) /\ a # b /\ Contains(m, a) /\ Contains(m, b)
  BY <1>2, OrderIs
<1>7. /\ \A a, b : Above(r, a, b) => ~Above(r, b, a)
      /\ \A a, b : Contains(r, a) /\ Contains(r, b) /\ a # b => Above(r, a, b) \/ Above(r, b, a)
  BY <1>3, OrderIs
<1>8. \A v \in StackedOf(s) : v # w => WindowActor(v) # W /\ WindowActor(v) # S /\ ShadowGroup(v) # W /\ ShadowGroup(v) # S
  BY ItemsDiffer
<1>9. \A v \in StackedOf(s) : s.layer[v] = l => Above(q, WindowActor(v), bottom)
  BY <1>0 DEF WithinLayers
<1> HIDE DEF q, W, S, top, bottom
<1>10. Above(m, W, bottom) /\ Above(r, W, bottom)
  BY <1>1, <1>2, <1>3, <1>4
<1>11. Above(r, top, W)
  <2>1. ~Above(r, W, top)
    BY <1>1, <1>2, <1>3, <1>4
  <2> QED
    BY <1>2, <1>3, <1>4, <1>5, <1>7, <2>1
<1>12. \A v \in StackedOf(s) : v # w /\ s.layer[v] = l /\ v \notin s.over => Above(r, W, ShadowGroup(v))
  BY <1>1, <1>2, <1>3, <1>4, <1>8
<1>13. Above(r, S, bottom) /\ ~Above(r, S, W)
  <2>1. CASE over
    <3>1. \A b : b # S => (Above(r, S, b) <=> Above(m, W, b))
      BY <2>1 DEF Beside, S, W
    <3> QED
      BY <1>4, <1>6, <1>10, <3>1
  <2>2. CASE ~over
    <3>1. \A b : b # S => (Above(r, S, b) <=> Above(m, bottom, b) \/ b = bottom)
      BY <2>2 DEF Beside, S, bottom
    <3> QED
      BY <1>4, <1>6, <1>10, <3>1
  <2> QED
    BY <2>1, <2>2
<1>14. Above(r, W, S)
  BY <1>2, <1>3, <1>4, <1>5, <1>7, <1>13
<1>15. ~over => \A v \in StackedOf(s) : v # w /\ s.layer[v] = l => Above(r, WindowActor(v), S)
  <2> SUFFICES ASSUME ~over, NEW v \in StackedOf(s), v # w, s.layer[v] = l PROVE Above(r, WindowActor(v), S)
    OBVIOUS
  <2>1. \A b : b # S => (Above(r, S, b) <=> Above(m, bottom, b) \/ b = bottom)
    BY DEF Beside, S, bottom
  <2>2. Above(m, WindowActor(v), bottom)
    BY <1>2, <1>4, <1>8, <1>9
  <2>3. ~Above(r, S, WindowActor(v))
    BY <1>6, <1>8, <2>1, <2>2
  <2> QED
    BY <1>2, <1>3, <1>5, <1>6, <1>7, <1>8, <2>2, <2>3
<1>16. \A a, b : a \notin {W, S} /\ b \notin {W, S} => (Above(r, a, b) <=> Above(q, a, b))
  BY <1>2, <1>3
<1>17. \A b : b \notin {W, S} => (Above(r, W, b) <=> Above(q, y, b) \/ (above /\ b = y))
  BY <1>2, <1>3, <1>4
<1>18. \A a : Contains(r, a) <=> Contains(q, a)
  BY <1>2, <1>3
<1> QED
  BY <1>3, <1>10, <1>11, <1>12, <1>13, <1>14, <1>15, <1>16, <1>17, <1>18 DEF PlacedNextTo, q, W, S, top, bottom

\* XConnection::StackWindow() for w and y, from s to t.
XMoved(s, t, w, y, above) ==
  LET x == WindowActor(w) IN
  IF ~Contains(s.xids, x) \/ ~Contains(s.xids, y) THEN t.xids = s.xids /\ t.loose = s.loose \cup {w}
  ELSE /\ t.xids = IF above THEN RaiseChild(s.xids, x, y) ELSE LowerChild(s.xids, x, y)
       /\ t.loose = IF \E v \in s.loose \ {w} : y = WindowActor(v) THEN s.loose \cup {w} ELSE s.loose \ {w}

\* A window is stacked anew: in layer l, next to y, over its owner or not.
Restacked(s, t, w, l, y, above, over) ==
  /\ DOMAIN t = StackFields /\ t.known = s.known /\ t.layer = [s.layer EXCEPT ![w] = l]
  /\ t.over = IF over THEN s.over \cup {w} ELSE s.over \ {w}
  /\ PlacedNextTo(s, t.actors, w, l, y, above, over) /\ XMoved(s, t, w, y, above)
Restacking(s, t, w, l) ==
  \E y, above, over : above \in BOOLEAN /\ over \in BOOLEAN /\ Sibling(s, w, l, y, above)
                        /\ Restacked(s, t, w, l, y, above, over)
XAgrees(s, t) ==
  OrdersAgree(t) /\ StackOrder(t.xids) /\ \A a : Contains(t.xids, a) <=> Contains(s.xids, a)

\* The X window goes where the actor does, or is loose.
LEMMA OrdersStayAgreed ==
  ASSUME NEW s, StackInv(s), NEW w \in s.known, NEW l \in ManagedLayers, NEW t, Restacking(s, t, w, l)
  PROVE  XAgrees(s, t)
<1> USE DEF XAgrees
<1> DEFINE W == WindowActor(w)
           S == ShadowGroup(w)
<1>0. StackOrder(s.xids) /\ StackKnown(s) /\ OrdersAgree(s)
  BY DEF StackInv
<1>a. PICK y, above, over : /\ above \in BOOLEAN /\ over \in BOOLEAN /\ Sibling(s, w, l, y, above)
                            /\ Restacked(s, t, w, l, y, above, over)
  BY DEF Restacking
<1>1. /\ t.known = s.known /\ t.layer = [s.layer EXCEPT ![w] = l] /\ XMoved(s, t, w, y, above)
      /\ PlacedNextTo(s, t.actors, w, l, y, above, over)
  BY <1>a DEF Restacked
<1>2. \A v : v # w => (v \in StackedOf(t) <=> v \in StackedOf(s))
  BY <1>0, <1>1 DEF StackedOf, StackKnown
<1>3. W # S /\ (\A v : v # w => WindowActor(v) # W) /\ (\A v : WindowActor(v) # S)
      /\ \A k : LayerActor(k) # W /\ LayerActor(k) # S
  BY ItemsDiffer
<1>4. /\ \A a, b : a \notin {W, S} /\ b \notin {W, S} => (Above(t.actors, a, b) <=> Above(s.actors, a, b))
      /\ \A b : b \notin {W, S} => (Above(t.actors, W, b) <=> Above(s.actors, y, b) \/ (above /\ b = y))
      /\ StackOrder(t.actors) /\ \A a : Contains(t.actors, a) <=> Contains(s.actors, a)
  BY <1>1 DEF PlacedNextTo
<1>5. y \in StackItems /\ y # None /\ y # W /\ y # S
  BY <1>a, SiblingIs
<1>6. W \in StackItems /\ Contains(s.actors, W)
  BY <1>0 DEF StackKnown, StackItems
<1>7. /\ \A a \in SettledItems(t) : a # W => a \in SettledItems(s) /\ a # S
  <2>1. \A v : v # w => (v \in s.loose <=> v \in t.loose)
    BY <1>1 DEF XMoved
  <2> SUFFICES ASSUME NEW a \in SettledItems(t), a # W PROVE a \in SettledItems(s) /\ a # S
    OBVIOUS
  <2>2. CASE \E k \in Layers : a = LayerActor(k)
    BY <1>3, <2>2 DEF SettledItems
  <2>3. CASE \E v \in StackedOf(t) \ t.loose : a = WindowActor(v)
    <3>1. PICK v \in StackedOf(t) \ t.loose : a = WindowActor(v)
      BY <2>3
    <3>2. v # w
      BY <3>1
    <3>3. v \in StackedOf(s) \ s.loose
      BY <1>2, <2>1, <3>1, <3>2
    <3> QED
      BY <1>3, <3>1, <3>3 DEF SettledItems
  <2> QED
    BY <2>2, <2>3 DEF SettledItems
<1>8. w \in t.loose => W \notin SettledItems(t)
  BY ItemsDiffer DEF SettledItems
<1>9. CASE ~Contains(s.xids, W) \/ ~Contains(s.xids, y)
  <2>1. t.xids = s.xids /\ w \in t.loose
    BY <1>1, <1>9 DEF XMoved
  <2>2. OrdersAgree(t)
    <3> SUFFICES ASSUME NEW a \in SettledItems(t), NEW b \in SettledItems(t), Contains(t.xids, a), Contains(t.xids, b)
                 PROVE  Above(t.xids, a, b) <=> Above(t.actors, a, b)
      BY DEF OrdersAgree
    <3>1. a # W /\ b # W /\ a # S /\ b # S /\ a \in SettledItems(s) /\ b \in SettledItems(s)
      BY <1>7, <1>8, <2>1
    <3> HIDE DEF W, S
    <3> QED
      BY <1>0, <1>4, <2>1, <3>1 DEF OrdersAgree
  <2> QED
    BY <1>0, <2>1, <2>2
<1>10. CASE Contains(s.xids, W) /\ Contains(s.xids, y)
  <2>1. Beside(s.xids, t.xids, W, y, above)
    <3>1. t.xids = IF above THEN RaiseChild(s.xids, W, y) ELSE LowerChild(s.xids, W, y)
      BY <1>1, <1>10 DEF XMoved
    <3>2. /\ Beside(s.xids, RaiseChild(s.xids, W, y), W, y, TRUE)
          /\ Beside(s.xids, LowerChild(s.xids, W, y), W, y, FALSE)
      <4> HIDE DEF W
      <4> QED
        BY <1>0, <1>5, <1>6, <1>10, MovesBeside
    <3>3. CASE above
      <4>1. above = TRUE
        BY <1>a, <3>3
      <4> QED
        BY <3>1, <3>2, <4>1
    <3>4. CASE ~above
      <4>1. above = FALSE
        BY <1>a, <3>4
      <4> QED
        BY <3>1, <3>2, <4>1
    <3> QED
      BY <3>3, <3>4
  <2>2. /\ StackOrder(t.xids) /\ \A a : Contains(t.xids, a) <=> Contains(s.xids, a)
        /\ \A a, b : a # W /\ b # W => (Above(t.xids, a, b) <=> Above(s.xids, a, b))
        /\ \A b : b # W => (Above(t.xids, W, b) <=> Above(s.xids, y, b) \/ (above /\ b = y))
    BY <2>1 DEF Beside
  <2>3. W \in SettledItems(t) => y \in SettledItems(s)
    <3> SUFFICES ASSUME W \in SettledItems(t) PROVE y \in SettledItems(s)
      OBVIOUS
    <3>1. w \notin t.loose
      BY <1>8
    <3>2. ~\E v \in s.loose \ {w} : y = WindowActor(v)
      BY <1>1, <1>10, <3>1 DEF XMoved
    <3>3. CASE y = LayerActor(l)
      BY <3>3 DEF SettledItems, ManagedLayers
    <3>4. CASE \E v \in StackedOf(s) : v # w /\ y = WindowActor(v)
      BY <3>2, <3>4 DEF SettledItems
    <3> QED
      BY <1>a, <3>3, <3>4 DEF Sibling
  <2>4. ASSUME NEW a \in SettledItems(t), a # W, NEW b \in SettledItems(t), b # W, Contains(s.xids, a), Contains(s.xids, b)
        PROVE  Above(t.xids, a, b) <=> Above(t.actors, a, b)
    <3>1. a # S /\ b # S /\ a \in SettledItems(s) /\ b \in SettledItems(s)
      BY <1>7, <2>4
    <3> HIDE DEF W, S
    <3> QED
      BY <1>0, <1>4, <2>2, <2>4, <3>1 DEF OrdersAgree
  <2>5. ASSUME NEW b \in SettledItems(t), b # W, Contains(s.xids, b), W \in SettledItems(t)
        PROVE  Above(t.xids, W, b) <=> Above(t.actors, W, b)
    <3>1. b # S /\ b \in SettledItems(s) /\ y \in SettledItems(s)
      BY <1>7, <2>3, <2>5
    <3>2. Above(s.xids, y, b) <=> Above(s.actors, y, b)
      BY <1>0, <1>10, <2>5, <3>1 DEF OrdersAgree
    <3> HIDE DEF W, S
    <3> QED
      BY <1>4, <2>2, <2>5, <3>1, <3>2
  <2>6. \A b \in SettledItems(t) : Contains(s.xids, b) => Contains(s.actors, b)
    <3>1. \A v \in StackedWindows : Contains(s.xids, WindowActor(v)) => Contains(s.actors, WindowActor(v))
      BY <1>0 DEF StackKnown
    <3>2. \A v \in StackedOf(t) : v \in StackedWindows
      BY <1>0, <1>1 DEF StackKnown, StackedOf
    <3>3. \A k \in Layers : Contains(s.actors, LayerActor(k))
      BY <1>0 DEF StackKnown
    <3> QED
      BY <3>1, <3>2, <3>3 DEF SettledItems
  <2>7. OrdersAgree(t)
    <3> SUFFICES ASSUME NEW a \in SettledItems(t), NEW b \in SettledItems(t), Contains(t.xids, a), Contains(t.xids, b)
                 PROVE  Above(t.xids, a, b) <=> Above(t.actors, a, b)
      BY DEF OrdersAgree
    <3>1. Contains(s.xids, a) /\ Contains(s.xids, b)
      BY <2>2
    <3>2. /\ \A c, d : Above(t.xids, c, d) => ~Above(t.xids, d, c) /\ c # d
          /\ \A c, d : Contains(t.xids, c) /\ Contains(t.xids, d) /\ c # d => Above(t.xids, c, d) \/ Above(t.xids, d, c)
      BY <2>2, OrderIs
    <3>3. /\ \A c, d : Above(t.actors, c, d) => ~Above(t.actors, d, c) /\ c # d
          /\ \A c, d : Contains(t.actors, c) /\ Contains(t.actors, d) /\ c # d => Above(t.actors, c, d) \/ Above(t.actors, d, c)
      BY <1>4, OrderIs
    <3>4. Contains(t.actors, a) /\ Contains(t.actors, b)
      BY <1>4, <2>6, <3>1
    <3>5. CASE a # W /\ b # W
      BY <2>4, <3>1, <3>5
    <3>6. CASE a = W /\ b # W
      BY <2>5, <3>1, <3>6
    <3>7. CASE a # W /\ b = W
      <4>1. Above(t.xids, b, a) <=> Above(t.actors, b, a)
        BY <2>5, <3>1, <3>7
      <4> QED
        BY <3>2, <3>3, <3>4, <3>7, <4>1
    <3>8. CASE a = W /\ b = W
      BY <3>2, <3>3, <3>8
    <3> QED
      BY <3>5, <3>6, <3>7, <3>8
  <2> QED
    BY <2>2, <2>7
<1> QED
  BY <1>9, <1>10

\* A window that is stacked anew keeps the invariant.
LEMMA RestackedInv ==
  ASSUME NEW s, StackInv(s), NEW w \in s.known, NEW l \in ManagedLayers, NEW t, Restacking(s, t, w, l)
  PROVE  StackInv(t) /\ w \in StackedOf(t) /\ t.layer[w] = l /\ \A v : v # w => (v \in StackedOf(t) <=> v \in StackedOf(s))
<1> DEFINE W == WindowActor(w)
           S == ShadowGroup(w)
<1>0. StackKnown(s) /\ LayersInOrder(s) /\ WithinLayers(s) /\ ShadowsUnder(s)
  BY DEF StackInv
<1>a. PICK y, above, over : /\ above \in BOOLEAN /\ over \in BOOLEAN /\ Sibling(s, w, l, y, above)
                            /\ Restacked(s, t, w, l, y, above, over)
  BY DEF Restacking
<1>1. /\ DOMAIN t = StackFields /\ t.known = s.known /\ t.layer = [s.layer EXCEPT ![w] = l]
      /\ t.over = IF over THEN s.over \cup {w} ELSE s.over \ {w}
      /\ PlacedNextTo(s, t.actors, w, l, y, above, over)
  BY <1>a DEF Restacked
<1>2. OrdersAgree(t) /\ StackOrder(t.xids) /\ \A a : Contains(t.xids, a) <=> Contains(s.xids, a)
  BY OrdersStayAgreed DEF XAgrees
<1>3. w \in StackedWindows /\ s.known \subseteq StackedWindows
  BY <1>0 DEF StackKnown
<1>4. t.layer[w] = l /\ \A v \in StackedWindows : v # w => t.layer[v] = s.layer[v]
  BY <1>0, <1>1, <1>3 DEF StackKnown
<1>5. l # 0 /\ l \in Layers
  <2>1. Cardinality(Layers) \in Nat /\ Layers = 1..Cardinality(Layers)
    BY LayersAssumption, FS_CardinalityType
  <2> QED
    BY <2>1 DEF ManagedLayers
<1>6. \A v : v # w => (v \in StackedOf(t) <=> v \in StackedOf(s))
  BY <1>1, <1>3, <1>4 DEF StackedOf
<1>7. w \in StackedOf(t)
  BY <1>1, <1>4, <1>5 DEF StackedOf
<1>8. \A v \in StackedOf(t) : v \in StackedWindows
  BY <1>1, <1>3 DEF StackedOf
<1>9. /\ StackOrder(t.actors) /\ \A a : Contains(t.actors, a) <=> Contains(s.actors, a)
      /\ \A a, b : a \notin {W, S} /\ b \notin {W, S} => (Above(t.actors, a, b) <=> Above(s.actors, a, b))
      /\ Above(t.actors, LayerActor(l), W) /\ Above(t.actors, W, LayerActor(l + 1))
      /\ Above(t.actors, S, LayerActor(l + 1)) /\ Above(t.actors, W, S)
      /\ \A v \in StackedOf(s) : v # w /\ s.layer[v] = l =>
           /\ ~over => Above(t.actors, WindowActor(v), S)
           /\ v \notin s.over => Above(t.actors, W, ShadowGroup(v))
  BY <1>1 DEF PlacedNextTo
<1>10. /\ \A v : v # w => WindowActor(v) \notin {W, S} /\ ShadowGroup(v) \notin {W, S}
       /\ \A k : LayerActor(k) \notin {W, S}
  BY ItemsDiffer
<1>11. StackKnown(t)
  <2>1. t.layer \in [StackedWindows -> {0} \cup ManagedLayers]
    BY <1>0, <1>1 DEF StackKnown
  <2>2. \A v \in StackedWindows : v \notin t.known => t.layer[v] = 0
    BY <1>0, <1>1, <1>4 DEF StackKnown
  <2> QED
    BY <1>0, <1>1, <1>2, <1>9, <2>1, <2>2 DEF StackKnown
<1> HIDE DEF W, S
<1>12. LayersInOrder(t)
  BY <1>0, <1>9, <1>10 DEF LayersInOrder
<1>13. WithinLayers(t)
  <2> SUFFICES ASSUME NEW v \in StackedOf(t)
               PROVE  /\ Above(t.actors, LayerActor(t.layer[v]), WindowActor(v))
                      /\ Above(t.actors, WindowActor(v), LayerActor(t.layer[v] + 1))
    BY DEF WithinLayers
  <2>1. CASE v = w
    BY <1>4, <1>9, <2>1 DEF W
  <2>2. CASE v # w
    <3>1. v \in StackedOf(s) /\ t.layer[v] = s.layer[v]
      BY <1>4, <1>6, <1>8, <2>2
    <3> QED
      BY <1>0, <1>9, <1>10, <2>2, <3>1 DEF WithinLayers
  <2> QED
    BY <2>1, <2>2
<1>14. ShadowsUnder(t)
  <2> SUFFICES ASSUME NEW v \in StackedOf(t)
               PROVE  /\ Above(t.actors, ShadowGroup(v), LayerActor(t.layer[v] + 1))
                      /\ Above(t.actors, WindowActor(v), ShadowGroup(v))
                      /\ \A u \in StackedOf(t) : t.layer[u] = t.layer[v] /\ v \notin t.over =>
                           Above(t.actors, WindowActor(u), ShadowGroup(v))
    BY DEF ShadowsUnder
  <2>1. CASE v = w
    <3>1. v \notin t.over => ~over
      BY <1>1, <2>1
    <3>2. ASSUME NEW u \in StackedOf(t), t.layer[u] = t.layer[v], v \notin t.over
          PROVE  Above(t.actors, WindowActor(u), ShadowGroup(v))
      <4>1. CASE u = w
        BY <1>9, <2>1, <4>1 DEF W, S
      <4>2. CASE u # w
        <5>1. u \in StackedOf(s) /\ s.layer[u] = l
          BY <1>4, <1>6, <1>8, <2>1, <3>2, <4>2
        <5> QED
          BY <1>9, <2>1, <3>1, <3>2, <4>2, <5>1 DEF S
      <4> QED
        BY <4>1, <4>2
    <3> QED
      BY <1>4, <1>9, <2>1, <3>2 DEF W, S
  <2>2. CASE v # w
    <3>1. v \in StackedOf(s) /\ t.layer[v] = s.layer[v] /\ (v \in t.over <=> v \in s.over)
      BY <1>1, <1>4, <1>6, <1>8, <2>2
    <3>2. ASSUME NEW u \in StackedOf(t), t.layer[u] = t.layer[v], v \notin t.over
          PROVE  Above(t.actors, WindowActor(u), ShadowGroup(v))
      <4>1. CASE u = w
        BY <1>4, <1>9, <2>2, <3>1, <3>2, <4>1 DEF W
      <4>2. CASE u # w
        <5>1. u \in StackedOf(s) /\ s.layer[u] = s.layer[v]
          BY <1>4, <1>6, <1>8, <3>1, <3>2, <4>2
        <5> QED
          BY <1>0, <1>9, <1>10, <2>2, <3>1, <3>2, <4>2, <5>1 DEF ShadowsUnder
      <4> QED
        BY <4>1, <4>2
    <3> QED
      BY <1>0, <1>9, <1>10, <2>2, <3>1, <3>2 DEF ShadowsUnder
  <2> QED
    BY <2>1, <2>2
<1> QED
  BY <1>1, <1>2, <1>4, <1>6, <1>7, <1>9, <1>11, <1>12, <1>13, <1>14 DEF StackInv

Moved(q, x, y, above) == IF above THEN RaiseChild(q, x, y) ELSE LowerChild(q, x, y)

\* The actors after the window and its shadow were moved.
LEMMA MovesPlace ==
  ASSUME NEW s, StackInv(s), NEW w \in s.known, NEW l \in ManagedLayers, NEW y, NEW above, above \in BOOLEAN,
         Sibling(s, w, l, y, above)
  PROVE  LET m == Moved(s.actors, WindowActor(w), y, above)
         IN  /\ PlacedNextTo(s, RaiseChild(m, ShadowGroup(w), LayerActor(l + 1)), w, l, y, above, FALSE)
             /\ PlacedNextTo(s, LowerChild(m, ShadowGroup(w), WindowActor(w)), w, l, y, above, TRUE)
<1> DEFINE W == WindowActor(w)
           S == ShadowGroup(w)
           m == Moved(s.actors, W, y, above)
           bottom == LayerActor(l + 1)
<1>0. StackOrder(s.actors) /\ StackKnown(s)
  BY DEF StackInv
<1>1. y \in StackItems /\ y # None /\ y # W /\ Contains(s.actors, y)
  BY SiblingIs
<1>2. w \in StackedWindows /\ W \in StackItems /\ S \in StackItems /\ W # None
  BY <1>0, LayersAssumption DEF StackKnown, StackItems
<1>3. Contains(s.actors, W) /\ Contains(s.actors, S)
  BY <1>0, <1>2 DEF StackKnown
<1>4. bottom # None /\ Contains(s.actors, bottom) /\ bottom # S
  BY <1>0, LayersAssumption, ItemsDiffer DEF StackKnown, ManagedLayers
<1>5. Beside(s.actors, m, W, y, above)
  <2>1. /\ Beside(s.actors, RaiseChild(s.actors, W, y), W, y, TRUE)
        /\ Beside(s.actors, LowerChild(s.actors, W, y), W, y, FALSE)
    <3> HIDE DEF W
    <3> QED
      BY <1>0, <1>1, <1>2, <1>3, MovesBeside
  <2>2. CASE above
    <3>1. above = TRUE
      BY <2>2
    <3> QED
      BY <2>1, <3>1 DEF Moved
  <2>3. CASE ~above
    <3>1. above = FALSE
      BY <2>3
    <3> QED
      BY <2>1, <3>1 DEF Moved
  <2> QED
    BY <2>2, <2>3
<1> HIDE DEF m
<1>6. StackOrder(m) /\ Contains(m, W) /\ Contains(m, S) /\ Contains(m, bottom)
  BY <1>3, <1>4, <1>5 DEF Beside
<1>7. S # W
  BY ItemsDiffer
<1> HIDE DEF W, S, bottom
<1>8. Beside(m, RaiseChild(m, S, bottom), S, bottom, TRUE)
  BY <1>2, <1>4, <1>6, MovesBeside
<1>9. Beside(m, LowerChild(m, S, W), S, W, FALSE)
  BY <1>2, <1>6, <1>7, MovesBeside
<1>10. ASSUME NEW r, Beside(m, r, S, bottom, TRUE) PROVE PlacedNextTo(s, r, w, l, y, above, FALSE)
  BY <1>5, <1>10, ActorsPlaced DEF W, S, bottom
<1>11. ASSUME NEW r, Beside(m, r, S, W, FALSE) PROVE PlacedNextTo(s, r, w, l, y, above, TRUE)
  BY <1>5, <1>11, ActorsPlaced DEF W, S
<1>12. PlacedNextTo(s, RaiseChild(m, S, bottom), w, l, y, above, FALSE)
  BY <1>8, <1>10
<1>13. PlacedNextTo(s, LowerChild(m, S, W), w, l, y, above, TRUE)
  BY <1>9, <1>11
<1> QED
  BY <1>12, <1>13 DEF m, W, S, bottom

\* What XStackWindow() leaves alone.
LEMMA XStackIs ==
  ASSUME NEW s, DOMAIN s = StackFields, NEW w, NEW y, NEW above
  PROVE  LET t == XStackWindow(s, w, y, above)
         IN  /\ DOMAIN t = StackFields /\ t.actors = s.actors /\ t.layer = s.layer /\ t.known = s.known
             /\ t.over = s.over /\ XMoved(s, t, w, y, above)
<1> DEFINE x == WindowActor(w)
           t == XStackWindow(s, w, y, above)
           q == IF above THEN RaiseChild(s.xids, x, y) ELSE LowerChild(s.xids, x, y)
           o == IF \E v \in s.loose \ {w} : y = WindowActor(v) THEN s.loose \cup {w} ELSE s.loose \ {w}
<1>1. CASE ~Contains(s.xids, x) \/ ~Contains(s.xids, y)
  <2>1. t = [s EXCEPT !.loose = s.loose \cup {w}]
    BY <1>1 DEF XStackWindow
  <2> HIDE DEF t
  <2>2. /\ DOMAIN t = StackFields /\ t.actors = s.actors /\ t.layer = s.layer /\ t.known = s.known
        /\ t.over = s.over /\ t.xids = s.xids /\ t.loose = s.loose \cup {w}
    BY <2>1 DEF StackFields
  <2>3. XMoved(s, t, w, y, above)
    BY <1>1, <2>2 DEF XMoved
  <2> QED
    BY <2>2, <2>3 DEF t
<1>2. CASE Contains(s.xids, x) /\ Contains(s.xids, y)
  <2>1. t = [s EXCEPT !.xids = q, !.loose = o]
    BY <1>2 DEF XStackWindow
  <2>a. (t.xids = q /\ t.loose = o) => XMoved(s, t, w, y, above)
    BY <1>2 DEF XMoved
  <2> HIDE DEF t, q, o
  <2>2. /\ DOMAIN t = StackFields /\ t.actors = s.actors /\ t.layer = s.layer /\ t.known = s.known
        /\ t.over = s.over /\ t.xids = q /\ t.loose = o
    BY <2>1 DEF StackFields
  <2> QED
    BY <2>2, <2>a DEF t
<1> QED
  BY <1>1, <1>2

\* What stacking an actor and its shadow leaves alone.
Composited(s, t, q) ==
  /\ DOMAIN t = StackFields /\ t.actors = q /\ t.layer = s.layer /\ t.known = s.known /\ t.over = s.over
  /\ t.xids = s.xids /\ t.loose = s.loose

\* Stacking an actor and its shadow does that.
LEMMA CompositedIs ==
  ASSUME NEW s, DOMAIN s = StackFields, NEW w, NEW y, NEW z, z # None
  PROVE  /\ Composited(s, StackCompositedAbove(s, w, y, z),
                       RaiseChild(Moved(s.actors, WindowActor(w), y, TRUE), ShadowGroup(w), z))
         /\ Composited(s, StackCompositedBelow(s, w, y, z),
                       RaiseChild(Moved(s.actors, WindowActor(w), y, FALSE), ShadowGroup(w), z))
         /\ Composited(s, StackCompositedAbove(s, w, y, None),
                       LowerChild(Moved(s.actors, WindowActor(w), y, TRUE), ShadowGroup(w), WindowActor(w)))
<1>1. ASSUME NEW m, NEW q PROVE Composited(s, [[s EXCEPT !.actors = m] EXCEPT !.actors = q], q)
  BY DEF Composited, StackFields
<1>2. ASSUME NEW m PROVE [s EXCEPT !.actors = m].actors = m
  BY DEF StackFields
<1> DEFINE a == RaiseChild(s.actors, WindowActor(w), y)
           b == LowerChild(s.actors, WindowActor(w), y)
<1>3. StackCompositedAbove(s, w, y, z) = [[s EXCEPT !.actors = a] EXCEPT !.actors = RaiseChild(a, ShadowGroup(w), z)]
  BY <1>2 DEF StackCompositedAbove, StackShadow
<1>4. StackCompositedBelow(s, w, y, z) = [[s EXCEPT !.actors = b] EXCEPT !.actors = RaiseChild(b, ShadowGroup(w), z)]
  BY <1>2 DEF StackCompositedBelow, StackShadow
<1>5. StackCompositedAbove(s, w, y, None) =
        [[s EXCEPT !.actors = a] EXCEPT !.actors = LowerChild(a, ShadowGroup(w), WindowActor(w))]
  BY <1>2 DEF StackCompositedAbove, StackShadow
<1>6. Moved(s.actors, WindowActor(w), y, TRUE) = a /\ Moved(s.actors, WindowActor(w), y, FALSE) = b
  BY DEF Moved
<1> QED
  BY <1>1, <1>3, <1>4, <1>5, <1>6

\* A window gets a layer.
InLayer(s, i, w, l) ==
  /\ DOMAIN i = StackFields /\ i.layer = [s.layer EXCEPT ![w] = l] /\ i.over = s.over \ {w}
  /\ i.actors = s.actors /\ i.xids = s.xids /\ i.loose = s.loose /\ i.known = s.known

\* What the window manager knows once a window has its layer.
LEMMA InIs ==
  ASSUME NEW s, DOMAIN s = StackFields, NEW w, NEW l
  PROVE  InLayer(s, In(s, w, l), w, l)
<1> DEFINE a == [s.layer EXCEPT ![w] = l]
           b == s.over \ {w}
<1>1. In(s, w, l) = [s EXCEPT !.layer = a, !.over = b]
  BY DEF In
<1> HIDE DEF a, b
<1>2. /\ DOMAIN In(s, w, l) = StackFields /\ In(s, w, l).layer = a
      /\ In(s, w, l).over = b /\ In(s, w, l).actors = s.actors /\ In(s, w, l).xids = s.xids
      /\ In(s, w, l).loose = s.loose /\ In(s, w, l).known = s.known
  BY <1>1 DEF StackFields
<1> QED
  BY <1>2 DEF InLayer, a, b

-----------------------------------------------------------------------------
\* A window is stacked next to another in the layer, or at the top of it: actors and X window.
LEMMA RestacksBy ==
  ASSUME NEW s, StackInv(s), NEW w \in s.known, NEW l \in ManagedLayers, NEW y, NEW above, above \in BOOLEAN,
         Sibling(s, w, l, y, above),
         NEW c, Composited(In(s, w, l), c, RaiseChild(Moved(s.actors, WindowActor(w), y, above), ShadowGroup(w), LayerActor(l + 1)))
  PROVE  Restacking(s, XStackWindow(c, w, y, above), w, l)
<1> DEFINE i == In(s, w, l)
           q == RaiseChild(Moved(s.actors, WindowActor(w), y, above), ShadowGroup(w), LayerActor(l + 1))
           t == XStackWindow(c, w, y, above)
<1>1. DOMAIN s = StackFields
  BY DEF StackInv
<1>2. /\ i.layer = [s.layer EXCEPT ![w] = l] /\ i.over = s.over \ {w} /\ i.xids = s.xids
      /\ i.loose = s.loose /\ i.known = s.known
  <2>1. InLayer(s, i, w, l)
    BY <1>1, InIs
  <2> HIDE DEF i
  <2> QED
    BY <2>1 DEF InLayer
<1>3. PlacedNextTo(s, q, w, l, y, above, FALSE)
  BY MovesPlace
<1> HIDE DEF q, i
<1>4. /\ DOMAIN c = StackFields /\ c.actors = q /\ c.layer = i.layer /\ c.known = i.known /\ c.over = i.over
      /\ c.xids = i.xids /\ c.loose = i.loose
  BY DEF Composited, q, i
<1>5. /\ DOMAIN t = StackFields /\ t.actors = c.actors /\ t.layer = c.layer /\ t.known = c.known
      /\ t.over = c.over /\ XMoved(c, t, w, y, above)
  BY <1>4, XStackIs
<1> HIDE DEF t
<1>6. XMoved(s, t, w, y, above)
  BY <1>2, <1>4, <1>5 DEF XMoved
<1>7. /\ DOMAIN t = StackFields /\ t.known = s.known /\ t.layer = [s.layer EXCEPT ![w] = l] /\ t.over = s.over \ {w}
      /\ t.actors = q
  BY <1>2, <1>4, <1>5
<1>8. Restacked(s, t, w, l, y, above, FALSE)
  BY <1>3, <1>6, <1>7 DEF Restacked
<1>9. Restacking(s, t, w, l)
  BY <1>8 DEF Restacking
<1> QED
  BY <1>9 DEF t

\* What a call gives: w is stacked in layer l, the other windows as they were.
StackedAnew(s, t, w, l) ==
  /\ StackInv(t) /\ w \in StackedOf(t) /\ t.layer[w] = l /\ t.known = s.known
  /\ \A v : v # w => (v \in StackedOf(t) <=> v \in StackedOf(s))
  /\ \A v \in s.known : v # w => t.layer[v] = s.layer[v]

\* A call of the stacking manager gives that.
LEMMA RestackingInv ==
  ASSUME NEW s, StackInv(s), NEW w \in s.known, NEW l \in ManagedLayers, NEW t, Restacking(s, t, w, l)
  PROVE  StackedAnew(s, t, w, l)
<1>1. StackInv(t) /\ w \in StackedOf(t) /\ t.layer[w] = l /\ \A v : v # w => (v \in StackedOf(t) <=> v \in StackedOf(s))
  BY RestackedInv
<1>2. t.known = s.known /\ t.layer = [s.layer EXCEPT ![w] = l]
  BY DEF Restacking, Restacked
<1>3. s.layer \in [StackedWindows -> {0} \cup ManagedLayers] /\ s.known \subseteq StackedWindows
  BY DEF StackInv, StackKnown
<1>4. \A v \in s.known : v # w => t.layer[v] = s.layer[v]
  BY <1>2, <1>3
<1> QED
  BY <1>1, <1>2, <1>4 DEF StackedAnew

\* StackWindowAtTopOfLayer().
LEMMA AtTopInv ==
  ASSUME NEW s, StackInv(s), NEW w \in s.known, NEW l \in ManagedLayers
  PROVE  StackedAnew(s, StackWindowAtTopOfLayer(s, w, l), w, l)
<1> DEFINE i == In(s, w, l)
           y == LayerActor(l)
           z == LayerActor(l + 1)
           c == StackCompositedBelow(i, w, y, z)
<1>1. DOMAIN i = StackFields /\ i.actors = s.actors
  <2>1. InLayer(s, i, w, l)
    BY InIs DEF StackInv
  <2> HIDE DEF i
  <2> QED
    BY <2>1 DEF InLayer
<1>2. z # None
  BY LayersAssumption DEF ManagedLayers
<1>3. Sibling(s, w, l, y, FALSE)
  BY DEF Sibling
<1> HIDE DEF i, z, y
<1>4. Composited(i, c, RaiseChild(Moved(i.actors, WindowActor(w), y, FALSE), ShadowGroup(w), z))
  BY <1>1, <1>2, CompositedIs
<1>5. StackWindowAtTopOfLayer(s, w, l) = XStackWindow(c, w, y, FALSE)
  BY DEF StackWindowAtTopOfLayer, c, i, y, z
<1> HIDE DEF c
<1>6. Composited(In(s, w, l), c, RaiseChild(Moved(s.actors, WindowActor(w), y, FALSE), ShadowGroup(w), LayerActor(l + 1)))
  BY <1>1, <1>4 DEF i, z
<1>7. Restacking(s, XStackWindow(c, w, y, FALSE), w, l)
  BY <1>3, <1>6, RestacksBy
<1> QED
  BY <1>5, <1>7, RestackingInv

\* StackWindowRelativeToOtherWindow().
LEMMA RelativeInv ==
  ASSUME NEW s, StackInv(s), NEW w \in s.known, NEW v \in StackedOf(s), v # w, NEW above, above \in BOOLEAN
  PROVE  StackedAnew(s, StackWindowRelativeToOtherWindow(s, w, v, above, s.layer[v]), w, s.layer[v])
<1> DEFINE l == s.layer[v]
           i == In(s, w, l)
           y == WindowActor(v)
           z == LayerActor(l + 1)
           c == IF above THEN StackCompositedAbove(i, w, y, z) ELSE StackCompositedBelow(i, w, y, z)
<1>0. l \in ManagedLayers
  BY DEF StackInv, StackKnown, StackedOf
<1>3. Sibling(s, w, l, y, above)
  BY DEF Sibling
<1>1. DOMAIN i = StackFields /\ i.actors = s.actors
  <2> HIDE DEF l
  <2>1. InLayer(s, i, w, l)
    BY InIs DEF StackInv
  <2> HIDE DEF i
  <2> QED
    BY <2>1 DEF InLayer
<1> HIDE DEF l
<1>2. z # None
  BY <1>0, LayersAssumption DEF ManagedLayers
<1> HIDE DEF i, z, y
<1>a. Composited(i, StackCompositedAbove(i, w, y, z), RaiseChild(Moved(i.actors, WindowActor(w), y, TRUE), ShadowGroup(w), z))
  BY <1>1, <1>2, CompositedIs
<1>b. Composited(i, StackCompositedBelow(i, w, y, z), RaiseChild(Moved(i.actors, WindowActor(w), y, FALSE), ShadowGroup(w), z))
  BY <1>1, <1>2, CompositedIs
<1>4. Composited(i, c, RaiseChild(Moved(i.actors, WindowActor(w), y, above), ShadowGroup(w), z))
  <2>1. CASE above = TRUE
    BY <1>a, <2>1
  <2>2. CASE above = FALSE
    BY <1>b, <2>2
  <2> QED
    BY <2>1, <2>2
<1>5. StackWindowRelativeToOtherWindow(s, w, v, above, l) = XStackWindow(c, w, y, above)
  BY DEF StackWindowRelativeToOtherWindow, c, i, y, z
<1> HIDE DEF c
<1>6. Composited(In(s, w, l), c, RaiseChild(Moved(s.actors, WindowActor(w), y, above), ShadowGroup(w), LayerActor(l + 1)))
  BY <1>1, <1>4 DEF i, z
<1>7. Restacking(s, XStackWindow(c, w, y, above), w, l)
  BY <1>0, <1>3, <1>6, RestacksBy
<1>8. StackedAnew(s, StackWindowRelativeToOtherWindow(s, w, v, above, l), w, l)
  BY <1>0, <1>5, <1>7, RestackingInv
<1> QED
  BY <1>8 DEF l

\* ApplyStackingForTransientWindow().
LEMMA TransientInv ==
  ASSUME NEW s, StackInv(s), NEW w \in s.known, NEW v \in StackedOf(s), v # w
  PROVE  StackInv(StackTransient(s, w, v))
<1> DEFINE l == s.layer[v]
           i == In(s, w, l)
           y == WindowActor(v)
           x == XStackWindow(i, w, y, TRUE)
           c == StackCompositedAbove(x, w, y, None)
           o == c.over \cup {w}
           t == [c EXCEPT !.over = o]
           q == LowerChild(Moved(s.actors, WindowActor(w), y, TRUE), ShadowGroup(w), WindowActor(w))
<1>0. l \in ManagedLayers
  BY DEF StackInv, StackKnown, StackedOf
<1>1. Sibling(s, w, l, y, TRUE)
  BY DEF Sibling
<1>2. StackTransient(s, w, v) = t
  BY DEF StackTransient
<1> HIDE DEF l
<1>3. /\ DOMAIN i = StackFields /\ i.layer = [s.layer EXCEPT ![w] = l] /\ i.over = s.over \ {w}
      /\ i.actors = s.actors /\ i.xids = s.xids /\ i.loose = s.loose /\ i.known = s.known
  <2>1. InLayer(s, i, w, l)
    BY InIs DEF StackInv
  <2> HIDE DEF i
  <2> QED
    BY <2>1 DEF InLayer
<1> HIDE DEF i, y
<1>4. PlacedNextTo(s, q, w, l, y, TRUE, TRUE)
  BY <1>0, <1>1, MovesPlace
<1>5. /\ DOMAIN x = StackFields /\ x.actors = i.actors /\ x.layer = i.layer /\ x.known = i.known
      /\ x.over = i.over /\ XMoved(i, x, w, y, TRUE)
  BY <1>3, XStackIs
<1> HIDE DEF x
<1>6. Composited(x, c, LowerChild(Moved(x.actors, WindowActor(w), y, TRUE), ShadowGroup(w), WindowActor(w)))
  <2>1. LayerActor(l + 1) # None
    BY <1>0, LayersAssumption DEF ManagedLayers
  <2> QED
    BY <1>5, <2>1, CompositedIs
<1>7. /\ DOMAIN c = StackFields /\ c.actors = q /\ c.layer = x.layer /\ c.known = x.known /\ c.over = x.over
      /\ c.xids = x.xids /\ c.loose = x.loose
  BY <1>3, <1>5, <1>6 DEF Composited
<1>8. o = s.over \cup {w}
  BY <1>3, <1>5, <1>7
<1> HIDE DEF c, q, o
<1>9. /\ DOMAIN t = StackFields /\ t.actors = c.actors /\ t.layer = c.layer /\ t.known = c.known
      /\ t.over = o /\ t.xids = c.xids /\ t.loose = c.loose
  BY <1>7 DEF StackFields
<1> HIDE DEF t
<1>10. XMoved(s, t, w, y, TRUE)
  BY <1>3, <1>5, <1>7, <1>9 DEF XMoved
<1>11. Restacked(s, t, w, l, y, TRUE, TRUE)
  BY <1>3, <1>4, <1>5, <1>7, <1>8, <1>9, <1>10 DEF Restacked
<1>12. Restacking(s, t, w, l)
  BY <1>1, <1>11 DEF Restacking
<1>13. StackedAnew(s, t, w, l)
  BY <1>0, <1>12, RestackingInv
<1> QED
  BY <1>2, <1>13 DEF StackedAnew

\* Panel::StackAtTopOfLayer() and StackAbovePanel().
LEMMA PanelInv ==
  ASSUME NEW s, StackInv(s), NEW w \in s.known, NEW v \in s.known, v # w
  PROVE  /\ \A l \in ManagedLayers : StackInv(StackPanelAtTopOfLayer(s, w, v, l))
         /\ \A u \in StackedOf(s) \ {w, v} : StackInv(StackAbovePanel(s, w, v, u, s.layer[u]))
<1>1. ASSUME NEW l \in ManagedLayers PROVE StackInv(StackPanelAtTopOfLayer(s, w, v, l))
  <2> DEFINE t == StackWindowAtTopOfLayer(s, w, l)
  <2>1. StackInv(t) /\ v \in t.known
    BY <1>1, AtTopInv DEF StackedAnew
  <2> HIDE DEF t
  <2>2. StackInv(StackWindowAtTopOfLayer(t, v, l))
    BY <1>1, <2>1, AtTopInv DEF StackedAnew
  <2> QED
    BY <2>2 DEF StackPanelAtTopOfLayer, t
<1>2. ASSUME NEW u \in StackedOf(s) \ {w, v} PROVE StackInv(StackAbovePanel(s, w, v, u, s.layer[u]))
  <2> DEFINE l == s.layer[u]
             t == StackWindowRelativeToOtherWindow(s, v, u, TRUE, l)
  <2>0. u \in StackedOf(s) /\ u # v
    BY <1>2
  <2>1. StackedAnew(s, t, v, l)
    BY <2>0, RelativeInv
  <2>2. StackInv(t) /\ v \in StackedOf(t) /\ t.layer[v] = l /\ w \in t.known
    BY <2>1 DEF StackedAnew
  <2> HIDE DEF t, l
  <2>3. StackedAnew(t, StackWindowRelativeToOtherWindow(t, w, v, FALSE, t.layer[v]), w, t.layer[v])
    BY <2>2, RelativeInv
  <2>4. StackInv(StackWindowRelativeToOtherWindow(t, w, v, FALSE, l))
    BY <2>2, <2>3 DEF StackedAnew
  <2> QED
    BY <2>4 DEF StackAbovePanel, t, l
<1> QED
  BY <1>1, <1>2

-----------------------------------------------------------------------------
\* Windows come and go: what is stacked in t was in s, and in the same order.
StackItemsOf(s) ==
  {LayerActor(l) : l \in Layers} \cup {WindowActor(w) : w \in StackedOf(s)} \cup {ShadowGroup(w) : w \in StackedOf(s)}
StackKept(s, t) ==
  /\ \A v \in StackedOf(t) : /\ v \in StackedOf(s) /\ t.layer[v] = s.layer[v]
                             /\ v \in t.over <=> v \in s.over
                             /\ v \in t.loose <=> v \in s.loose
  /\ \A a, b \in StackItemsOf(t) : Above(t.actors, a, b) <=> Above(s.actors, a, b)
  /\ \A a \in StackItemsOf(t) : Contains(t.xids, a) => Contains(s.xids, a)
  /\ \A a, b \in StackItemsOf(t) : Contains(t.xids, a) /\ Contains(t.xids, b) => (Above(t.xids, a, b) <=> Above(s.xids, a, b))

\* Such a change keeps the invariant.
LEMMA KeptInv ==
  ASSUME NEW s, StackInv(s), NEW t, DOMAIN t = StackFields, StackOrder(t.actors), StackOrder(t.xids), StackKnown(t),
         StackKept(s, t)
  PROVE  StackInv(t)
<1>0. /\ StackKnown(s) /\ LayersInOrder(s) /\ OrdersAgree(s) /\ WithinLayers(s) /\ ShadowsUnder(s)
  BY DEF StackInv
<1>1. /\ \A l \in Layers : LayerActor(l) \in StackItemsOf(t)
      /\ \A v \in StackedOf(t) : WindowActor(v) \in StackItemsOf(t) /\ ShadowGroup(v) \in StackItemsOf(t)
  BY DEF StackItemsOf
<1>2. \A v \in StackedOf(t) : t.layer[v] \in ManagedLayers /\ t.layer[v] \in Layers /\ t.layer[v] + 1 \in Layers
  BY DEF StackKnown, StackedOf, ManagedLayers
<1>3. /\ \A v \in StackedOf(t) : /\ v \in StackedOf(s) /\ t.layer[v] = s.layer[v]
                                 /\ v \in t.over <=> v \in s.over
                                 /\ v \in t.loose <=> v \in s.loose
      /\ \A a, b \in StackItemsOf(t) : Above(t.actors, a, b) <=> Above(s.actors, a, b)
  BY DEF StackKept
<1>4. LayersInOrder(t)
  <2>1. \A l \in ManagedLayers : l \in Layers /\ l + 1 \in Layers
    BY DEF ManagedLayers
  <2> QED
    BY <1>0, <1>1, <1>3, <2>1 DEF LayersInOrder
<1>5. OrdersAgree(t)
  <2>1. \A a \in SettledItems(t) : a \in SettledItems(s) /\ a \in StackItemsOf(t)
    BY <1>3 DEF SettledItems, StackItemsOf
  <2> QED
    BY <1>0, <1>3, <2>1 DEF OrdersAgree, StackKept
<1>6. WithinLayers(t)
  BY <1>0, <1>1, <1>2, <1>3 DEF WithinLayers
<1>7. ShadowsUnder(t)
  BY <1>0, <1>1, <1>2, <1>3 DEF ShadowsUnder
<1> QED
  BY <1>4, <1>5, <1>6, <1>7 DEF StackInv

\* A window is created.
LEMMA CreatedInv ==
  ASSUME NEW s, StackInv(s), NEW w \in StackedWindows, w \notin s.known
  PROVE  StackInv([s EXCEPT !.known = @ \cup {w}, !.xids = <<WindowActor(w)>> \o @,
                            !.actors = <<ShadowGroup(w), WindowActor(w)>> \o @])
<1> DEFINE W == WindowActor(w)
           S == ShadowGroup(w)
           p == <<W>>
           o == <<S, W>>
           k == s.known \cup {w}
           x == p \o s.xids
           a == o \o s.actors
           t == [s EXCEPT !.known = k, !.xids = x, !.actors = a]
<1>0. /\ DOMAIN s = StackFields /\ StackOrder(s.actors) /\ StackOrder(s.xids) /\ StackKnown(s)
  BY DEF StackInv
<1>1. W \in StackItems /\ S \in StackItems /\ W # S
  BY ItemsDiffer DEF StackItems
<1>2. ~Contains(s.xids, W) /\ ~Contains(s.actors, W) /\ ~Contains(s.actors, S)
  BY <1>0 DEF StackKnown
<1> HIDE DEF W, S
<1>3. StackOrder(p) /\ \A b : Contains(p, b) <=> b = W
  <2>1. p \in Seq(StackItems) /\ Len(p) = 1 /\ DOMAIN p = 1..1 /\ p[1] = W
    BY <1>1
  <2> HIDE DEF p
  <2> QED
    BY <2>1 DEF StackOrder, IsInjective, Contains
<1>4. StackOrder(o) /\ \A b : Contains(o, b) <=> b = W \/ b = S
  <2>1. o \in Seq(StackItems) /\ Len(o) = 2 /\ DOMAIN o = 1..2 /\ o[1] = S /\ o[2] = W
    BY <1>1
  <2> HIDE DEF o
  <2>2. \A i \in 1..2 : i = 1 \/ i = 2
    OBVIOUS
  <2>3. 1 \in 1..2 /\ 2 \in 1..2
    OBVIOUS
  <2> QED
    BY <1>1, <2>1, <2>2, <2>3 DEF StackOrder, IsInjective, Contains
<1> HIDE DEF p, o
<1>5. /\ StackOrder(x) /\ \A b : Contains(x, b) <=> Contains(p, b) \/ Contains(s.xids, b)
      /\ \A b, c : ~Contains(p, b) /\ ~Contains(p, c) => (Above(x, b, c) <=> Above(s.xids, b, c))
  BY <1>0, <1>2, <1>3, OnTopIs
<1>6. /\ StackOrder(a) /\ \A b : Contains(a, b) <=> Contains(o, b) \/ Contains(s.actors, b)
      /\ \A b, c : ~Contains(o, b) /\ ~Contains(o, c) => (Above(a, b, c) <=> Above(s.actors, b, c))
  BY <1>0, <1>2, <1>4, OnTopIs
<1> HIDE DEF k, x, a
<1>7. /\ DOMAIN t = StackFields /\ t.known = k /\ t.xids = x /\ t.actors = a /\ t.layer = s.layer /\ t.over = s.over
      /\ t.loose = s.loose
  BY <1>0 DEF StackFields
<1>8. t = [s EXCEPT !.known = @ \cup {w}, !.xids = <<WindowActor(w)>> \o @,
                    !.actors = <<ShadowGroup(w), WindowActor(w)>> \o @]
  BY DEF t, k, x, a, p, o, W, S
<1> HIDE DEF t
<1>9. StackedOf(t) = StackedOf(s) /\ w \notin StackedOf(t)
  BY <1>0, <1>7 DEF StackedOf, StackKnown, k
<1>10. \A b \in StackItemsOf(t) : b # W /\ b # S
  BY <1>9, ItemsDiffer DEF StackItemsOf, W, S
<1>11. StackKnown(t)
  <2>1. \A v \in StackedWindows : WindowActor(v) = W <=> v = w
    BY ItemsDiffer DEF W
  <2>2. \A v \in StackedWindows : WindowActor(v) # S /\ ShadowGroup(v) # W
    BY ItemsDiffer DEF W, S
  <2>3. \A v \in StackedWindows : ShadowGroup(v) = S <=> v = w
    BY ItemsDiffer DEF S
  <2>4. /\ \A v \in StackedWindows : Contains(a, WindowActor(v)) <=> v \in k
        /\ \A v \in StackedWindows : Contains(a, ShadowGroup(v)) <=> v \in k
        /\ \A v \in StackedWindows : Contains(x, WindowActor(v)) => v \in k
    BY <1>0, <1>3, <1>4, <1>5, <1>6, <2>1, <2>2, <2>3 DEF StackKnown, k
  <2>5. \A l \in Layers : Contains(a, LayerActor(l)) /\ Contains(x, LayerActor(l))
    BY <1>0, <1>5, <1>6 DEF StackKnown
  <2>6. /\ k \subseteq StackedWindows /\ s.layer \in [StackedWindows -> {0} \cup ManagedLayers]
        /\ \A v \in StackedWindows : v \notin k => s.layer[v] = 0
    BY <1>0 DEF StackKnown, k
  <2> QED
    BY <1>7, <2>4, <2>5, <2>6 DEF StackKnown
<1>12. StackKept(s, t)
  BY <1>3, <1>4, <1>5, <1>6, <1>7, <1>9, <1>10 DEF StackKept
<1>13. StackInv(t)
  BY <1>5, <1>6, <1>7, <1>11, <1>12, KeptInv
<1> QED
  BY <1>8, <1>13

\* A window is destroyed in the server.
LEMMA DiesInv ==
  ASSUME NEW s, StackInv(s), NEW w \in StackedWindows
  PROVE  StackInv([s EXCEPT !.xids = Erase(@, WindowActor(w))])
<1> DEFINE W == WindowActor(w)
           x == Erase(s.xids, W)
           t == [s EXCEPT !.xids = x]
<1>0. /\ DOMAIN s = StackFields /\ StackOrder(s.actors) /\ StackOrder(s.xids) /\ StackKnown(s)
  BY DEF StackInv
<1>1. /\ StackOrder(x) /\ \A b : Contains(x, b) <=> Contains(s.xids, b) /\ b # W
      /\ \A b, c : Above(x, b, c) <=> Above(s.xids, b, c) /\ b # W /\ c # W
  BY <1>0, EraseIs
<1> HIDE DEF x
<1>2. /\ DOMAIN t = StackFields /\ t.known = s.known /\ t.xids = x /\ t.actors = s.actors /\ t.layer = s.layer
      /\ t.over = s.over /\ t.loose = s.loose
  BY <1>0 DEF StackFields
<1>3. t = [s EXCEPT !.xids = Erase(@, WindowActor(w))]
  BY DEF x
<1> HIDE DEF t
<1>4. StackedOf(t) = StackedOf(s)
  BY <1>2 DEF StackedOf
<1>5. StackKnown(t)
  <2>1. \A l \in Layers : Contains(x, LayerActor(l))
    BY <1>0, <1>1, ItemsDiffer DEF StackKnown
  <2> QED
    BY <1>0, <1>1, <1>2, <2>1 DEF StackKnown
<1> HIDE DEF W
<1>6. StackKept(s, t)
  BY <1>1, <1>2, <1>4 DEF StackKept
<1>7. StackInv(t)
  BY <1>0, <1>1, <1>2, <1>5, <1>6, KeptInv
<1> QED
  BY <1>3, <1>7

\* The window manager forgets a window.
LEMMA ForgottenInv ==
  ASSUME NEW s, StackInv(s), NEW w \in s.known, ~Contains(s.xids, WindowActor(w))
  PROVE  StackInv([s EXCEPT !.known = @ \ {w}, !.layer[w] = 0, !.over = @ \ {w}, !.loose = @ \ {w},
                            !.actors = Erase(Erase(@, WindowActor(w)), ShadowGroup(w))])
<1> DEFINE W == WindowActor(w)
           S == ShadowGroup(w)
           m == Erase(s.actors, W)
           a == Erase(m, S)
           k == s.known \ {w}
           y == [s.layer EXCEPT ![w] = 0]
           o == s.over \ {w}
           e == s.loose \ {w}
           t == [s EXCEPT !.known = k, !.layer = y, !.over = o, !.loose = e, !.actors = a]
<1>0. /\ DOMAIN s = StackFields /\ StackOrder(s.actors) /\ StackOrder(s.xids) /\ StackKnown(s)
  BY DEF StackInv
<1>1. /\ StackOrder(m) /\ \A b : Contains(m, b) <=> Contains(s.actors, b) /\ b # W
      /\ \A b, c : Above(m, b, c) <=> Above(s.actors, b, c) /\ b # W /\ c # W
  BY <1>0, EraseIs
<1> HIDE DEF m
<1>2. /\ StackOrder(a) /\ \A b : Contains(a, b) <=> Contains(m, b) /\ b # S
      /\ \A b, c : Above(a, b, c) <=> Above(m, b, c) /\ b # S /\ c # S
  BY <1>1, EraseIs
<1>3. /\ w \in StackedWindows /\ y \in [StackedWindows -> {0} \cup ManagedLayers] /\ y[w] = 0
      /\ \A v \in StackedWindows : v # w => y[v] = s.layer[v]
  BY <1>0 DEF StackKnown
<1> HIDE DEF a, k, y, o, e
<1>4. /\ DOMAIN t = StackFields /\ t.known = k /\ t.xids = s.xids /\ t.actors = a /\ t.layer = y
      /\ t.over = o /\ t.loose = e
  BY <1>0 DEF StackFields
<1>5. t = [s EXCEPT !.known = @ \ {w}, !.layer[w] = 0, !.over = @ \ {w}, !.loose = @ \ {w},
                    !.actors = Erase(Erase(@, WindowActor(w)), ShadowGroup(w))]
  BY DEF a, m, k, y, o, e, W, S
<1> HIDE DEF t
<1>6. \A v \in StackedOf(t) : /\ v # w /\ v \in StackedOf(s) /\ t.layer[v] = s.layer[v]
                              /\ v \in t.over <=> v \in s.over
                              /\ v \in t.loose <=> v \in s.loose
  BY <1>0, <1>3, <1>4 DEF StackedOf, StackKnown, k, o, e
<1>7. \A b \in StackItemsOf(t) : b # W /\ b # S
  BY <1>6, ItemsDiffer DEF StackItemsOf
<1>8. StackKnown(t)
  <2>1. \A v \in StackedWindows : (WindowActor(v) = W <=> v = w) /\ (ShadowGroup(v) = S <=> v = w)
    BY ItemsDiffer
  <2>2. \A v \in StackedWindows : WindowActor(v) # S /\ ShadowGroup(v) # W
    BY ItemsDiffer
  <2>3. \A l \in Layers : LayerActor(l) # W /\ LayerActor(l) # S
    BY ItemsDiffer
  <2>0. ~Contains(s.xids, W)
    OBVIOUS
  <2> HIDE DEF W, S
  <2>4. /\ \A v \in StackedWindows : Contains(a, WindowActor(v)) <=> v \in k
        /\ \A v \in StackedWindows : Contains(a, ShadowGroup(v)) <=> v \in k
        /\ \A v \in StackedWindows : Contains(s.xids, WindowActor(v)) => v \in k
    BY <1>0, <1>1, <1>2, <2>0, <2>1, <2>2 DEF StackKnown, k
  <2>5. \A l \in Layers : Contains(a, LayerActor(l)) /\ Contains(s.xids, LayerActor(l))
    BY <1>0, <1>1, <1>2, <2>3 DEF StackKnown
  <2>6. k \subseteq StackedWindows /\ \A v \in StackedWindows : v \notin k => y[v] = 0
    BY <1>0, <1>3 DEF StackKnown, k
  <2> QED
    BY <1>3, <1>4, <2>4, <2>5, <2>6 DEF StackKnown
<1> HIDE DEF W, S
<1>9. StackKept(s, t)
  BY <1>1, <1>2, <1>4, <1>6, <1>7 DEF StackKept
<1>10. StackInv(t)
  BY <1>0, <1>2, <1>4, <1>8, <1>9, KeptInv
<1> QED
  BY <1>5, <1>10

-----------------------------------------------------------------------------
\* The count of steps is no part of the invariant.
LEMMA StackStepInv ==
  ASSUME NEW s, StackInv(s), StackStep(s)
  PROVE  StackInv(stack')
<1> DEFINE t == stack'
<1>0. /\ DOMAIN s = StackFields /\ StackOrder(s.actors) /\ StackOrder(s.xids) /\ StackKnown(s)
  BY DEF StackInv
<1>1. t = [s EXCEPT !.steps = @ + 1]
  BY DEF StackStep
<1>2. /\ DOMAIN t = StackFields /\ t.known = s.known /\ t.xids = s.xids /\ t.actors = s.actors /\ t.layer = s.layer
      /\ t.over = s.over /\ t.loose = s.loose
  BY <1>0, <1>1 DEF StackFields
<1> HIDE DEF t
<1>3. StackedOf(t) = StackedOf(s)
  BY <1>2 DEF StackedOf
<1>4. StackKnown(t)
  BY <1>0, <1>2 DEF StackKnown
<1>5. StackKept(s, t)
  BY <1>2, <1>3 DEF StackKept
<1>6. StackInv(t)
  BY <1>0, <1>2, <1>4, <1>5, KeptInv
<1> QED
  BY <1>6 DEF t

\* At first there are only the layers.
LEMMA StackInitInv ==
  ASSUME StackInit
  PROVE  StackInv(stack)
<1> DEFINE s == stack
           n == Cardinality(Layers)
           q == [l \in Layers |-> LayerActor(l)]
           z == [w \in StackedWindows |-> 0]
<1>1. n \in Nat /\ Layers = 1..n
  BY LayersAssumption, FS_CardinalityType
<1> HIDE DEF n
<1>2. q \in Seq(StackItems) /\ Len(q) = n /\ DOMAIN q = Layers
  <2>1. q \in [1..n -> StackItems]
    BY <1>1 DEF StackItems
  <2> QED
    BY <1>1, <2>1, LenProperties
<1>3. \A l \in Layers : q[l] = LayerActor(l)
  OBVIOUS
<1>4. z \in [StackedWindows -> {0} \cup ManagedLayers] /\ \A w \in StackedWindows : z[w] = 0
  OBVIOUS
<1>5. s = [actors |-> q, xids |-> q, layer |-> z, known |-> {}, loose |-> {}, over |-> {}, steps |-> 0]
  BY DEF StackInit
<1> HIDE DEF q, z, s
<1>6. DOMAIN s = StackFields /\ s.actors = q /\ s.xids = q /\ s.layer = z /\ s.known = {}
  BY <1>5 DEF StackFields
<1>7. StackOrder(q)
  BY <1>2, <1>3, ItemsDiffer DEF StackOrder, IsInjective
<1>8. \A l \in Layers : Contains(q, LayerActor(l))
  BY <1>1, <1>2, <1>3 DEF Contains
<1>9. \A w : ~Contains(q, WindowActor(w)) /\ ~Contains(q, ShadowGroup(w))
  BY <1>1, <1>2, <1>3, ItemsDiffer DEF Contains
<1>10. StackKnown(s)
  BY <1>4, <1>6, <1>8, <1>9 DEF StackKnown
<1>11. LayersInOrder(s)
  <2> SUFFICES ASSUME NEW l \in ManagedLayers PROVE Above(q, LayerActor(l), LayerActor(l + 1))
    BY <1>6 DEF LayersInOrder
  <2>1. l \in Layers /\ l + 1 \in Layers
    BY DEF ManagedLayers
  <2>2. l < l + 1
    BY <1>1, <2>1
  <2> QED
    BY <1>2, <1>3, <2>1, <2>2 DEF Above
<1>12. StackedOf(s) = {}
  BY <1>6 DEF StackedOf
<1>13. OrdersAgree(s) /\ WithinLayers(s) /\ ShadowsUnder(s)
  BY <1>6, <1>12 DEF OrdersAgree, WithinLayers, ShadowsUnder
<1> QED
  BY <1>6, <1>7, <1>10, <1>11, <1>13 DEF StackInv, s

\* Every call and every window that comes or goes keeps the invariant.
LEMMA StackNextInv ==
  ASSUME StackInv(stack), StackNext
  PROVE  StackInv(stack')
<1>0. Stacked = StackedOf(stack)
  BY DEF Stacked, StackedOf
<1>1. ASSUME NEW w \in StackedWindows, WindowCreated(w) PROVE StackInv(stack')
  BY <1>1, CreatedInv, StackStepInv DEF WindowCreated
<1>2. ASSUME NEW w \in StackedWindows, WindowDies(w) PROVE StackInv(stack')
  BY <1>2, DiesInv, StackStepInv DEF WindowDies
<1>3. ASSUME NEW w \in StackedWindows, WindowForgotten(w) PROVE StackInv(stack')
  BY <1>3, ForgottenInv, StackStepInv DEF WindowForgotten
<1>4. ASSUME NEW w \in stack.known, NEW l \in ManagedLayers, StackStep(StackWindowAtTopOfLayer(stack, w, l))
      PROVE  StackInv(stack')
  <2>1. StackInv(StackWindowAtTopOfLayer(stack, w, l))
    BY <1>4, AtTopInv DEF StackedAnew
  <2> QED
    BY <1>4, <2>1, StackStepInv
<1>5. ASSUME NEW w \in stack.known, NEW s \in Stacked \ {w}, NEW above \in BOOLEAN,
             StackStep(StackWindowRelativeToOtherWindow(stack, w, s, above, stack.layer[s]))
      PROVE  StackInv(stack')
  <2>1. s \in StackedOf(stack) /\ s # w
    BY <1>0, <1>5
  <2>2. StackedAnew(stack, StackWindowRelativeToOtherWindow(stack, w, s, above, stack.layer[s]), w, stack.layer[s])
    BY <1>5, <2>1, RelativeInv
  <2>3. StackInv(StackWindowRelativeToOtherWindow(stack, w, s, above, stack.layer[s]))
    BY <2>2 DEF StackedAnew
  <2> QED
    BY <1>5, <2>3, StackStepInv
<1>6. ASSUME NEW w \in stack.known, NEW s \in Stacked \ {w}, StackStep(StackTransient(stack, w, s))
      PROVE  StackInv(stack')
  <2>1. s \in StackedOf(stack) /\ s # w
    BY <1>0, <1>6
  <2>2. StackInv(StackTransient(stack, w, s))
    BY <1>6, <2>1, TransientInv
  <2> QED
    BY <1>6, <2>2, StackStepInv
<1>7. ASSUME NEW w \in stack.known, NEW v \in stack.known \ {w}, NEW l \in ManagedLayers,
             StackStep(StackPanelAtTopOfLayer(stack, w, v, l))
      PROVE  StackInv(stack')
  <2>1. v \in stack.known /\ v # w
    BY <1>7
  <2>2. StackInv(StackPanelAtTopOfLayer(stack, w, v, l))
    BY <1>7, <2>1, PanelInv
  <2> QED
    BY <1>7, <2>2, StackStepInv
<1>8. ASSUME NEW w \in stack.known, NEW v \in stack.known \ {w}, NEW s \in Stacked \ {w, v},
             StackStep(StackAbovePanel(stack, w, v, s, stack.layer[s]))
      PROVE  StackInv(stack')
  <2>1. v \in stack.known /\ v # w /\ s \in StackedOf(stack) \ {w, v}
    BY <1>0, <1>8
  <2>2. StackInv(StackAbovePanel(stack, w, v, s, stack.layer[s]))
    BY <1>8, <2>1, PanelInv
  <2> QED
    BY <1>8, <2>2, StackStepInv
<1> QED
  BY <1>1, <1>2, <1>3, <1>4, <1>5, <1>6, <1>7, <1>8 DEF StackNext

\* The invariant is stronger than the property.
LEMMA StackInvImplies ==
  ASSUME StackInv(stack)
  PROVE  StackedInLayers
<1>0. /\ StackOrder(stack.actors) /\ StackOrder(stack.xids) /\ OrdersAgree(stack) /\ WithinLayers(stack)
      /\ ShadowsUnder(stack)
  BY DEF StackInv
<1>1. Stacked = StackedOf(stack)
  BY DEF Stacked, StackedOf
<1>2. LayersAgree
  <2>1. IsInjective(stack.xids) /\ IsInjective(stack.actors)
    BY <1>0 DEF StackOrder
  <2>2. \A a, b \in SettledItems(stack) :
          Contains(stack.xids, a) /\ Contains(stack.xids, b) => (Above(stack.xids, a, b) <=> Above(stack.actors, a, b))
    BY <1>0 DEF OrdersAgree
  <2>3. SettledItems(stack) = {WindowActor(w) : w \in Stacked \ stack.loose} \cup {LayerActor(l) : l \in Layers}
    BY <1>1 DEF SettledItems
  <2>4. \A w \in Stacked : /\ Above(stack.actors, LayerActor(stack.layer[w]), WindowActor(w))
                           /\ Above(stack.actors, WindowActor(w), LayerActor(stack.layer[w] + 1))
    BY <1>0, <1>1 DEF WithinLayers
  <2> QED
    BY <2>1, <2>2, <2>3, <2>4 DEF LayersAgree
<1>3. ShadowsBelow
  BY <1>0, <1>1 DEF ShadowsUnder, ShadowsBelow
<1> QED
  BY <1>2, <1>3 DEF StackedInLayers

\* However windows and panels are stacked, and whichever of them are gone by the time a
\* request reaches the server, clicks go to the window the user sees, windows stay in their
\* layers and shadows below them: stacking_manager.cc and the stacking calls of window.cc and
\* panel.cc, for any layers, windows and number of calls.
THEOREM StackSafety == MCSpec => []StackedInLayers
<1>1. MCInit => StackInv(stack)
  BY StackInitInv DEF MCInit
<1>2. StackInv(stack) /\ [MCNext]_vars => StackInv(stack)'
  <2> SUFFICES ASSUME StackInv(stack), [MCNext]_vars PROVE StackInv(stack')
    OBVIOUS
  <2>1. StackNext \/ UNCHANGED stack
    BY DEF MCNext, vars, SelectionUnit
  <2>2. CASE UNCHANGED stack
    BY <2>2
  <2>3. CASE StackNext
    BY <2>3, StackNextInv
  <2> QED
    BY <2>1, <2>2, <2>3
<1>3. StackInv(stack) => StackedInLayers
  BY StackInvImplies
<1> QED
  BY <1>1, <1>2, <1>3, PTL DEF MCSpec

=============================================================================
