------------------------------- MODULE Window -------------------------------
(***************************************************************************)
(* What the window manager knows of one client window                      *)
(* (window_manager/window.cc, shadow.cc, and the property and shape        *)
(* handlers of window_manager.cc).  The client changes its properties in   *)
(* the X server at any time; the constructor selects events and then reads *)
(* them one request at a time, and later events make it read again.  The   *)
(* horizontal dimension stands for both.                                   *)
(***************************************************************************)
EXTENDS Integers, Sequences, FiniteSets, SequencesExt

CONSTANTS Unset,          \* a property that the window does not have
          SizeHintSet,    \* values of WM_NORMAL_HINTS
          WindowWidths, WindowXs, Scales,
          OffscreenX,     \* wm_->width()
          MaxClientSteps, \* bound on what the client does
          MaxCalls        \* bound on the calls of the window's methods

VARIABLE win

WindowTypes == {"toplevel", "bubble"}
StateAtoms == {"fullscreen", "maximized", "modal"}

NoSizeHints == [width |-> 0, min |-> 0, max |-> 0, base |-> 0, inc |-> 0]

\* Values that a client may give its properties; an opacity is in halves.
PropertyValues ==
  [type |-> WindowTypes, opacity |-> {1}, size |-> SizeHintSet,
   protocols |-> {{"take_focus"}, {"delete_window"}}, state |-> {{"modal"}, {"fullscreen", "maximized"}},
   chrome |-> {{"collapsed"}}, transient |-> {"owner"}, hints |-> {"urgent", "calm"}]

WindowProperties == DOMAIN PropertyValues

\* A property that is not there has none of its values, and is no set of atoms.
ASSUME WindowAssumption ==
  /\ \A p \in WindowProperties : \A value \in PropertyValues[p] : value # Unset
  /\ \A atoms \in SUBSET StateAtoms : atoms # Unset
  /\ SizeHintSet \subseteq [width : Int, min : Int, max : Int, base : Int, inc : Int]

\* Mutant: events are selected when everything is known.
SelectsLast ==
  <<"geometry", "type", "shaped", "region", "opacity", "size",
    "protocols", "state", "chrome", "transient", "hints", "select", "select_shape">>

\* Requests of the constructor, in its order.
ConstructorRequests ==
  <<"select", "select_shape", "geometry", "type", "shaped", "region", "opacity", "size",
    "protocols", "state", "chrome", "transient", "hints">>

\* The server's side (props, shaped, x, width, selections and queued events); the members of
\* Window; the actor and the shadow as last set; "todo" is what the running method has left.
WinInit ==
  \E override \in BOOLEAN, x \in WindowXs, width \in WindowWidths :
    win = [props |-> [p \in WindowProperties |-> Unset], xshaped |-> FALSE, xx |-> x, xwidth |-> width,
           selected |-> FALSE, shapeSelected |-> FALSE, queue |-> <<>>,
           todo |-> ConstructorRequests, inConstructor |-> TRUE, override |-> override, mapped |-> FALSE,
           type |-> "unknown", opacity |-> 2, size |-> NoSizeHints, protocols |-> {}, state |-> {},
           chrome |-> {}, transient |-> Unset, urgent |-> FALSE, shaped |-> FALSE, mask |-> FALSE,
           x |-> -1, width |-> 1, composited |-> [x |-> -1, scale |-> 2, opacity |-> 2, shown |-> FALSE],
           using |-> FALSE, shadowOpacity |-> 4,
           actor |-> [x |-> -1, width |-> 1, scale |-> 2, opacity |-> 4, shown |-> FALSE],
           shadow |-> [x |-> -1, width |-> 1, opacity |-> 4, shown |-> FALSE],
           clientSteps |-> 0, calls |-> 0]

\* A double given to an int parameter loses its fraction; scales are in halves.
Truncate(halves) == IF halves >= 0 THEN halves \div 2 ELSE -((-halves) \div 2)

-----------------------------------------------------------------------------
\* Shadow::Resize().
ShadowResize(w) == [w EXCEPT !.shadow.width = Truncate(w.composited.scale * w.width)]

\* Shadow::Show() and Hide().
ShadowShow(w) == [w EXCEPT !.shadow.shown = TRUE]
ShadowHide(w) == [w EXCEPT !.shadow.shown = FALSE]

\* Mutant: a shadow that is in use again stays hidden until the window is shown again.
UpdateShadowUnshown(w) ==
  LET should == ~w.override /\ w.type # "bubble" /\ ~w.shaped IN
  IF ~should /\ w.using THEN [ShadowHide(w) EXCEPT !.using = FALSE]
  ELSE [w EXCEPT !.using = should]

\* Window::UpdateShadowIfNecessary().
UpdateShadowIfNecessary(w) ==
  LET should == ~w.override /\ w.type # "bubble" /\ ~w.shaped IN
  IF ~should /\ w.using THEN [ShadowHide(w) EXCEPT !.using = FALSE]
  ELSE IF should /\ ~w.using
  THEN [(IF w.composited.shown THEN ShadowShow(w) ELSE w) EXCEPT !.using = TRUE]
  ELSE w

\* Window::SetCompositedOpacity(): the client's opacity counts too.
SetCompositedOpacity(w, opacity) ==
  LET combined == opacity * w.opacity IN
  [w EXCEPT !.composited.opacity = opacity, !.shadowOpacity = combined,
            !.actor.opacity = combined, !.shadow.opacity = combined]

\* Window::SetShadowOpacity().
SetShadowOpacity(w, opacity) == [w EXCEPT !.shadowOpacity = opacity, !.shadow.opacity = opacity]

\* Window::MoveComposited(), MoveCompositedX() and MoveCompositedY().
MoveComposited(w, x) == [w EXCEPT !.composited.x = x, !.actor.x = x, !.shadow.x = x]

\* Window::ScaleComposited().
ScaleComposited(w, scale) == ShadowResize([w EXCEPT !.composited.scale = scale, !.actor.scale = scale])

\* Window::ShowComposited().
ShowComposited(w) ==
  LET v == [w EXCEPT !.actor.shown = TRUE, !.composited.shown = TRUE]
  IN  IF w.using THEN ShadowShow(v) ELSE v

\* Window::HideComposited().
HideComposited(w) ==
  LET v == [w EXCEPT !.actor.shown = FALSE, !.composited.shown = FALSE]
  IN  IF w.using THEN ShadowHide(v) ELSE v

\* Window::SaveClientAndCompositedSize().
SaveClientAndCompositedSize(w, width) == ShadowResize([w EXCEPT !.width = width, !.actor.width = width])

\* Window::MoveClient(): the request and the window manager's copy.
MoveClient(w, x) == [w EXCEPT !.xx = x, !.x = x]

\* Window::MoveClientOffscreen() and MoveClientToComposited().
MoveClientOffscreen(w) == MoveClient(w, OffscreenX)
MoveClientToComposited(w) == MoveClient(w, w.composited.x)

\* Window::CenterClientOverWindow(): halves are lost at every assignment to an int.
CenterClientOverWindow(w, other) ==
  MoveClient(w, Truncate(2 * (other.x + other.width \div 2) - w.width))

\* Window::ResizeClient(): with an eastern gravity the right edge stays.
ResizeClient(w, width, east) ==
  LET dx == IF east THEN width - w.width ELSE 0
      moved == IF dx = 0 THEN w
               ELSE MoveComposited(MoveClient(w, w.x - dx),
                                   Truncate(2 * w.composited.x - w.composited.scale * dx))
  IN  SaveClientAndCompositedSize([moved EXCEPT !.xwidth = width], width)

-----------------------------------------------------------------------------
\* Window::FetchAndApplyWindowType(): a type that is gone stays.
FetchAndApplyWindowType(w, updateShadow) ==
  LET v == IF w.props.type = Unset THEN w ELSE [w EXCEPT !.type = w.props.type]
  IN  IF updateShadow THEN UpdateShadowIfNecessary(v) ELSE v

\* Window::FetchAndApplyShape(): the second request is made if the window was shaped at the
\* first, and its answer taken whatever it is.
FetchShaped(w) ==
  IF w.xshaped THEN [w EXCEPT !.shaped = FALSE]
  ELSE UpdateShadowIfNecessary([w EXCEPT !.shaped = FALSE, !.mask = FALSE, !.todo = Tail(@)])

FetchRegion(w) == UpdateShadowIfNecessary([w EXCEPT !.shaped = TRUE, !.mask = w.xshaped])

\* Window::FetchAndApplyWindowOpacity().
FetchAndApplyWindowOpacity(w) ==
  SetCompositedOpacity([w EXCEPT !.opacity = IF w.props.opacity = Unset THEN 2 ELSE w.props.opacity],
                       w.composited.opacity)

\* RealXConnection::GetSizeHintsForWindow(): what there was before is forgotten first.
GetSizeHintsForWindow(w) == IF w.props.size = Unset THEN NoSizeHints ELSE w.props.size

\* Window::FetchAndApplySizeHints(): windows that are not mapped get the size they hint at.
FetchAndApplySizeHints(w) ==
  LET hints == GetSizeHintsForWindow(w)
      v == [w EXCEPT !.size = hints]
  IN  IF ~w.mapped /\ ~w.override /\ hints.width > 0 THEN ResizeClient(v, hints.width, FALSE) ELSE v

\* Window::FetchAndApplyTransientHint(), FetchAndApplyWmHints(): what is gone stays.
FetchAndApplyTransientHint(w) ==
  IF w.props.transient = Unset THEN w ELSE [w EXCEPT !.transient = w.props.transient]

FetchAndApplyWmHints(w) ==
  IF w.props.hints = Unset THEN w ELSE [w EXCEPT !.urgent = w.props.hints = "urgent"]

\* Window::FetchAndApplyWmProtocols(), FetchAndApplyWmState() and FetchAndApplyChromeState().
FetchAndApplyWmProtocols(w) ==
  [w EXCEPT !.protocols = IF w.props.protocols = Unset THEN {} ELSE w.props.protocols]

FetchAndApplyWmState(w) == [w EXCEPT !.state = IF w.props.state = Unset THEN {} ELSE w.props.state]

FetchAndApplyChromeState(w) == [w EXCEPT !.chrome = IF w.props.chrome = Unset THEN {} ELSE w.props.chrome]

\* The geometry read by Window::Window(), and the actor and shadow made from it.
FetchGeometry(w) ==
  LET v == MoveComposited([w EXCEPT !.x = w.xx], w.xx) IN SaveClientAndCompositedSize(v, w.xwidth)

\* One request of Window::Window(), or of a handler.
MakeRequest(w, request) ==
  CASE request = "select" -> [w EXCEPT !.selected = TRUE]
    [] request = "select_shape" -> [w EXCEPT !.shapeSelected = TRUE]
    [] request = "geometry" -> FetchGeometry(w)
    [] request = "type" -> FetchAndApplyWindowType(w, ~w.inConstructor)
    [] request = "shaped" -> FetchShaped(w)
    [] request = "region" -> FetchRegion(w)
    [] request = "opacity" -> FetchAndApplyWindowOpacity(w)
    [] request = "size" -> FetchAndApplySizeHints(w)
    [] request = "protocols" -> FetchAndApplyWmProtocols(w)
    [] request = "state" -> FetchAndApplyWmState(w)
    [] request = "chrome" -> FetchAndApplyChromeState(w)
    [] request = "transient" -> FetchAndApplyTransientHint(w)
    [] request = "hints" -> FetchAndApplyWmHints(w)

\* The running method goes on.
WinRequest ==
  /\ win.todo # <<>>
  /\ win' = LET w == MakeRequest([win EXCEPT !.todo = Tail(@)], Head(win.todo))
            IN  [w EXCEPT !.inConstructor = @ /\ w.todo # <<>>]

-----------------------------------------------------------------------------
\* WindowManager::HandlePropertyNotify(): the property is read again, unless it is one that
\* is only read at the start.
HandlePropertyNotify(property) ==
  IF property \in {"protocols", "chrome"} THEN <<>> ELSE <<property>>

\* WindowManager::HandleShapeNotify().
HandleShapeNotify == <<"shaped", "region">>

WinHandleEvent ==
  /\ win.todo = <<>> /\ win.queue # <<>>
  /\ win' = [win EXCEPT !.queue = Tail(@),
               !.todo = IF Head(win.queue) = "shape" THEN HandleShapeNotify
                        ELSE HandlePropertyNotify(Head(win.queue))]

\* The server queues an event for a change, once it is selected.
Notify(w, property) == [w EXCEPT !.queue = IF w.selected THEN Append(@, property) ELSE @]

ClientSetsProperty ==
  \E p \in WindowProperties : \E v \in PropertyValues[p] \cup {Unset} :
    /\ v # win.props[p]
    /\ win' = Notify([win EXCEPT !.props[p] = v, !.clientSteps = @ + 1], p)

ClientSetsShape ==
  win' = [win EXCEPT !.xshaped = ~@, !.clientSteps = @ + 1,
                     !.queue = IF win.shapeSelected THEN Append(@, "shape") ELSE @]

ClientStepInWindow ==
  win.clientSteps < MaxClientSteps /\ (ClientSetsProperty \/ ClientSetsShape)

-----------------------------------------------------------------------------
\* Window::SetWmStateInternal() for one atom: 0 removes, 1 adds, 2 toggles.
SetWmStateInternal(state, action, atom) ==
  IF action = 1 \/ (action = 2 /\ atom \notin state) THEN state \cup {atom} ELSE state \ {atom}

\* Window::UpdateWmStateProperty(): an empty property is deleted.
UpdateWmStateProperty(w) ==
  LET value == IF w.state = {} THEN Unset ELSE w.state
  IN  IF value = Unset /\ w.props.state = Unset THEN w
      ELSE Notify([w EXCEPT !.props.state = value], "state")

\* Window::HandleWmStateMessage(): clients do not change the maximized state.
HandleWmStateMessage(w, action, atoms) ==
  LET set(state, atom) == IF atom \in atoms THEN SetWmStateInternal(state, action, atom) ELSE state
  IN  UpdateWmStateProperty([w EXCEPT !.state = set(set(@, "fullscreen"), "modal")])

\* Window::ChangeWmState(), for one atom.
ChangeWmState(w, atom, add) ==
  UpdateWmStateProperty([w EXCEPT !.state = SetWmStateInternal(@, IF add THEN 1 ELSE 0, atom)])

\* Window::ChangeChromeState() and UpdateChromeStateProperty().
UpdateChromeStateProperty(w) ==
  LET value == IF w.chrome = {} THEN Unset ELSE w.chrome
  IN  IF value = Unset /\ w.props.chrome = Unset THEN w
      ELSE Notify([w EXCEPT !.props.chrome = value], "chrome")

ChangeChromeState(w, add) ==
  UpdateChromeStateProperty([w EXCEPT !.chrome = IF add THEN @ \cup {"collapsed"} ELSE @ \ {"collapsed"}])

\* Mutant: increments count from zero.
GetMaxSizeUnbased(hints, desired) ==
  LET most == IF hints.max > 0 /\ hints.max < desired THEN hints.max ELSE desired
      least == IF hints.min > 0 /\ hints.min > most THEN hints.min ELSE most
  IN  IF hints.inc > 0 THEN (least \div hints.inc) * hints.inc ELSE least

\* Window::GetMaxSize(): a division of C++, which truncates.
GetMaxSize(hints, desired) ==
  LET most == IF hints.max > 0 /\ hints.max < desired THEN hints.max ELSE desired
      least == IF hints.min > 0 /\ hints.min > most THEN hints.min ELSE most
      base == IF hints.base > 0 THEN hints.base ELSE hints.min
      rest == least - base
      quotient == IF rest >= 0 THEN rest \div hints.inc ELSE -((-rest) \div hints.inc)
  IN  IF hints.inc > 0 THEN base + quotient * hints.inc ELSE least

\* What the calls of the window manager make of a window; the map notification is one of them.
WinCalls(w) ==
  {ShowComposited(w), HideComposited(w), SetCompositedOpacity(w, 1), SetShadowOpacity(w, 0),
   MoveClientOffscreen(w), MoveClientToComposited(w), [w EXCEPT !.mapped = TRUE]}
  \cup {MoveComposited(w, x) : x \in WindowXs}
  \cup {CenterClientOverWindow(w, [x |-> x, width |-> width]) : x \in WindowXs, width \in WindowWidths}
  \cup {ScaleComposited(w, s) : s \in Scales}
  \cup {ResizeClient(w, width, east) : width \in WindowWidths, east \in BOOLEAN}
  \cup {HandleWmStateMessage(w, action, atoms) : action \in 0..2, atoms \in (SUBSET StateAtoms) \ {{}}}
  \cup {ChangeWmState(w, atom, add) : atom \in StateAtoms, add \in BOOLEAN}
  \cup {ChangeChromeState(w, add) : add \in BOOLEAN}

\* The window manager calls between two events.
WinCall ==
  /\ win.todo = <<>> /\ win.calls < MaxCalls
  /\ \E w \in WinCalls(win) : win' = [w EXCEPT !.calls = @ + 1]

WinNext == WinRequest \/ WinHandleEvent \/ ClientStepInWindow \/ WinCall

-----------------------------------------------------------------------------
Idle == win.todo = <<>> /\ win.queue = <<>>

\* Whatever the client does while the window manager reads its properties, once the events
\* are handled the window manager has the values of the server: events are selected before
\* anything is read, a shape that changes between the two requests makes another event, and
\* so does what the window manager writes itself.  (A type, an owner or hints that the client
\* removes are kept, and the protocols are those that there were at the start.)
KnowsTheServers ==
  Idle =>
    /\ win.type = win.props.type \/ win.props.type = Unset
    /\ win.urgent = (win.props.hints = "urgent") \/ win.props.hints = Unset
    /\ win.transient = win.props.transient \/ win.props.transient = Unset
    /\ win.opacity = IF win.props.opacity = Unset THEN 2 ELSE win.props.opacity
    /\ win.size = IF win.props.size = Unset THEN NoSizeHints ELSE win.props.size
    /\ win.state = IF win.props.state = Unset THEN {} ELSE win.props.state
    /\ win.shaped = win.xshaped /\ win.mask = win.xshaped
    /\ win.x = win.xx /\ win.width = win.xwidth

\* The actor and its shadow stay together: between two steps of the window manager the
\* shadow is shown exactly if the window is and it should have one, at the window's place,
\* with its scaled size.
ShadowFollows ==
  win.todo = <<>> =>
    /\ win.using = (~win.override /\ win.type # "bubble" /\ ~win.shaped)
    /\ win.shadow.shown = (win.using /\ win.composited.shown)
    /\ win.actor.shown = win.composited.shown
    /\ win.shadow.x = win.composited.x /\ win.actor.x = win.composited.x
    /\ win.shadow.width = Truncate(win.composited.scale * win.width) /\ win.actor.width = win.width
    /\ win.actor.opacity = win.composited.opacity * win.opacity

\* "Get the largest possible size for this window smaller than or equal to the passed-in
\* desired dimensions": for hints that allow such a size GetMaxSize() is the largest allowed one.
MaxSizeIsLargest ==
  \A desired \in 1..6 :
    LET hints == win.size
        base == IF hints.base > 0 THEN hints.base ELSE hints.min
        allowed == {s \in 1..desired :
                      /\ hints.min > 0 => s >= hints.min
                      /\ hints.max > 0 => s <= hints.max
                      /\ hints.inc > 0 => s >= base /\ (s - base) % hints.inc = 0}
    IN  allowed # {} => GetMaxSize(hints, desired) = Max(allowed)

\* The window object follows the client, and its shadow and sizes follow the object.
WindowIsCurrent == KnowsTheServers /\ ShadowFollows /\ MaxSizeIsLargest
=============================================================================
