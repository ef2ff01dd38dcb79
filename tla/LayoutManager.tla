---------------------------- MODULE LayoutManager ----------------------------
(***************************************************************************)
(* window_manager/layout_manager.{h,cc}: keeps the toplevel windows in one *)
(* of two modes.  In active mode one toplevel fills the area and has the   *)
(* focus; in overview mode all of them are images whose input windows take *)
(* the clicks.  Every action is one event that the window manager handles  *)
(* to its end; focus events of the X server arrive later, in order.        *)
(***************************************************************************)
EXTENDS ToplevelWindow

CONSTANTS
  Existing,        \* the toplevel windows that are mapped when the manager starts
  Areas, StartArea,\* areas without docks, [x, width, height]
  Sizes,           \* client sizes that are asked for, <<width, height>>
  TransientSize,
  TransientKinds,  \* new transients, [modal, focused, bubble]
  Places,          \* where clients put their windows
  TabPoints,       \* where Chrome says a floating tab was dragged, <<x, y>>
  TabOffset,       \* the cursor within the floating tab, <<x, y>>
  Summary,         \* the place of a tab summary window, [x, y, width, height]
  CreateWidth,     \* the width of the create-browser window
  Pan,             \* how far a key pans the overview
  UsedKeys,        \* the key combinations that are pressed
  MaxFocusEvents,  \* bound: focus events on their way
  MaxSteps         \* bound: events handled

ASSUME LayoutManagerAssumption ==
  /\ ToSet(Existing) \subseteq Toplevels
  /\ Areas \subseteq [x : Nat, width : Nat \ {0}, height : Nat \ {0}] /\ StartArea \in Areas
  /\ Sizes \subseteq (Nat \ {0}) \X (Nat \ {0}) /\ TransientSize \in (Nat \ {0}) \X (Nat \ {0})
  /\ TransientKinds \subseteq [modal : BOOLEAN, focused : BOOLEAN, bubble : Places \cup {None}]
  /\ Places \subseteq Nat /\ TabPoints \subseteq Nat \X Nat /\ TabOffset \in Nat \X Nat
  /\ {CreateWidth, Pan, MaxFocusEvents, MaxSteps} \subseteq Nat

VARIABLES
  lm,     \* the state that the handlers work on
  steps

vars == <<lm, steps>>

-----------------------------------------------------------------------------
(* Key bindings. *)

\* AddKeyBindingsForMode(): combinations and the actions they begin.
KeyTable(mode) ==
  IF mode = "active"
  THEN {<<<<"F12", "">>, "switch-to-overview-mode">>, <<<<"Tab", "alt">>, "cycle-active-forward">>,
        <<<<"F2", "alt">>, "cycle-active-forward">>, <<<<"Tab", "alt shift">>, "cycle-active-backward">>,
        <<<<"F1", "alt">>, "cycle-active-backward">>, <<<<"1", "alt">>, "activate-toplevel-with-index-0">>,
        <<<<"2", "alt">>, "activate-toplevel-with-index-1">>, <<<<"9", "alt">>, "activate-last-toplevel">>,
        <<<<"w", "control shift">>, "delete-active-window">>}
  ELSE {<<<<"Escape", "">>, "switch-to-active-mode">>, <<<<"F12", "">>, "switch-to-active-mode">>,
        <<<<"Return", "">>, "switch-to-active-mode-for-magnified">>,
        <<<<"Right", "">>, "cycle-magnification-forward">>, <<<<"Tab", "alt">>, "cycle-magnification-forward">>,
        <<<<"F2", "alt">>, "cycle-magnification-forward">>, <<<<"Left", "">>, "cycle-magnification-backward">>,
        <<<<"Tab", "alt shift">>, "cycle-magnification-backward">>,
        <<<<"F1", "alt">>, "cycle-magnification-backward">>, <<<<"1", "alt">>, "magnify-toplevel-with-index-0">>,
        <<<<"2", "alt">>, "magnify-toplevel-with-index-1">>, <<<<"9", "alt">>, "magnify-last-toplevel">>,
        <<<<"h", "alt">>, "pan-overview-mode-left">>, <<<<"l", "alt">>, "pan-overview-mode-right">>}

AddKeyBindingsForMode(st, mode) ==
  [st EXCEPT !.kb = FoldSet(LAMBDA b, kb : AddBinding(kb, b[1], b[2]), @, KeyTable(mode))]

\* RemoveKeyBindingsForMode() names the combinations once more.
RemovedKeys(mode) == {b[1] : b \in KeyTable(mode)}
RemoveKeyBindingsForMode(st, mode) ==
  [st EXCEPT !.kb = FoldSet(LAMBDA combo, kb : RemoveBinding(kb, combo), @, RemovedKeys(mode))]

-----------------------------------------------------------------------------
(* Messages to Chrome's toplevel windows. *)

\* SendTabSummaryMessage(): who was told to show its tab summary.
SendTabSummaryMessage(st, t, show) ==
  IF t \notin Toplevels THEN st
  ELSE [st EXCEPT !.summaries = IF show THEN @ \cup {t} ELSE @ \ {t}]

\* SendModeMessage() to every toplevel.
SendModeMessages(st) ==
  [st EXCEPT !.told = [t \in Toplevels |-> IF Contains(st.toplevels, t) THEN st.mode ELSE @[t]]]

\* Mutant: the tab summary of the window that was magnified stays.
SetMagnifiedOnly(st, t) == [st EXCEPT !.magnified = t]

SetMagnifiedToplevelWindow(st, t) ==
  LET hidden == IF ~st.new /\ st.magnified # None
                THEN SendTabSummaryMessage(st, st.magnified, FALSE) ELSE st
  IN  IF st.magnified = t THEN st ELSE [hidden EXCEPT !.magnified = t]

-----------------------------------------------------------------------------
(* Layout. *)

LayoutToplevelWindowsForActiveMode(st, updateFocus) ==
  LET chosen == [st EXCEPT !.active = IF @ = None THEN st.toplevels[1] ELSE @] IN
    IF st.toplevels = <<>> THEN st
    ELSE FoldLeft(LAMBDA s, t : ConfigureForActiveMode(s, t, t = s.active, updateFocus),
                  chosen, st.toplevels)

\* CalculatePositionsForOverviewMode(): magnifiedX < 0 leaves the panning alone.
CalculatePositionsForOverviewMode(st, magnifiedX) ==
  LET tops == st.toplevels
      sizes == [i \in DOMAIN tops |-> st.win[tops[i]].size]
      mag == IF Contains(tops, st.magnified) THEN GetIndex(tops, st.magnified) ELSE 0
      images == IF st.new THEN NewPositions(sizes, mag, st.area.width, st.area.height)
                ELSE OldPositions(sizes, mag, st.area.width, st.area.height,
                                  IF st.create THEN CreateWidth ELSE 0)
      placed == [st EXCEPT !.top = [t \in Windows |->
                   IF Contains(tops, t) THEN [@[t] EXCEPT !.image = images[GetIndex(tops, t)]]
                   ELSE @[t]]]
  IN  IF tops = <<>> THEN st
      ELSE IF st.new /\ mag # 0 /\ magnifiedX >= 0
           THEN [placed EXCEPT !.panning = PanningOffset(images[mag], st.area.width, magnifiedX)]
      ELSE placed

ConfigureWindowsForOverviewMode(st, incremental) ==
  FoldLeft(LAMBDA s, t : ConfigureForOverviewMode(s, t, st.new /\ incremental),
           st, Reverse(st.toplevels))

LayoutToplevelWindowsForOverviewMode(st, magnifiedX) ==
  ConfigureWindowsForOverviewMode(CalculatePositionsForOverviewMode(st, magnifiedX), FALSE)

\* WindowManager::TakeFocus() when LayoutManager::TakeFocus() refuses.
WmTakeFocus(st) == FocusWindow(st, "root")

\* SetMode(MODE_ACTIVE)
SetModeActive(st) ==
  LET moded == [RemoveKeyBindingsForMode(st, st.mode) EXCEPT !.mode = "active"]
      magnified == IF (st.new \/ st.active = None) /\ st.magnified # None
                   THEN [moded EXCEPT !.active = st.magnified] ELSE moded
      first == IF magnified.active = None /\ st.toplevels # <<>>
               THEN [magnified EXCEPT !.active = st.toplevels[1]] ELSE magnified
      unmagnified == IF st.new THEN first ELSE SetMagnifiedToplevelWindow(first, None)
      laid == LayoutToplevelWindowsForActiveMode(unmagnified, TRUE)
  IN  SendModeMessages(AddKeyBindingsForMode(laid, "active"))

\* SetMode(MODE_OVERVIEW)
SetModeOverview(st) ==
  LET moded == [RemoveKeyBindingsForMode(st, st.mode) EXCEPT !.mode = "overview"]
      magnified == SetMagnifiedToplevelWindow(moded, IF st.new THEN st.active ELSE None)
      unfocused == IF st.active # None /\ IsWindowOrTransientFocused(st, st.active)
                   THEN WmTakeFocus(SetActiveWindowProperty(magnified, "none")) ELSE magnified
      laid == LayoutToplevelWindowsForOverviewMode(unfocused, st.area.width \div 2)
  IN  SendModeMessages(AddKeyBindingsForMode(laid, "overview"))

\* SetActiveToplevelWindow(); the states that it sets choose an animation.
SetActiveToplevelWindow(st, t) ==
  IF st.mode # "active" \/ st.active = t THEN st
  ELSE LayoutToplevelWindowsForActiveMode([st EXCEPT !.active = t], TRUE)

SwitchToActiveMode(st, activateMagnified) ==
  IF st.mode = "active" THEN st
  ELSE SetModeActive([st EXCEPT !.active =
         IF activateMagnified /\ st.magnified # None THEN st.magnified ELSE @])

ActivateToplevelWindowByIndex(st, i) ==
  IF i \in DOMAIN st.toplevels THEN SetActiveToplevelWindow(st, st.toplevels[i]) ELSE st

\* Magnify another toplevel and lay out again.
Magnify(st, t, magnifiedX) ==
  LET laid == LayoutToplevelWindowsForOverviewMode(SetMagnifiedToplevelWindow(st, t), magnifiedX)
  IN  IF st.new THEN laid ELSE SendTabSummaryMessage(laid, t, TRUE)

MagnifyToplevelWindowByIndex(st, i) ==
  IF st.mode # "overview" \/ i \notin DOMAIN st.toplevels THEN st
  ELSE IF st.toplevels[i] = st.magnified THEN st
  ELSE Magnify(st, st.toplevels[i], st.area.width \div 2)

\* The toplevel after or before another, around the ends.
Neighbour(st, t, forward) ==
  LET n == Len(st.toplevels)
      i == GetIndex(st.toplevels, t)
  IN  st.toplevels[((n + (i - 1) + (IF forward THEN 1 ELSE -1)) % n) + 1]

CycleActiveToplevelWindow(st, forward) ==
  IF st.mode # "active" \/ st.toplevels = <<>> THEN st
  ELSE IF st.active = None
       THEN SetActiveToplevelWindow(st, IF forward THEN Head(st.toplevels) ELSE Last(st.toplevels))
  ELSE IF Len(st.toplevels) = 1 THEN st
  ELSE SetActiveToplevelWindow(st, Neighbour(st, st.active, forward))

\* Without a magnified window, the active one counts as magnified.
CycleMagnifiedToplevelWindow(st, forward) ==
  LET from == IF st.magnified = None THEN st.active ELSE st.magnified
      noted == IF st.magnified = None THEN [st EXCEPT !.magnified = st.active] ELSE st
      to == IF from = None THEN Head(st.toplevels) ELSE Neighbour(st, from, forward)
  IN  IF st.mode # "overview" \/ st.toplevels = <<>> THEN st
      ELSE IF st.magnified # None /\ Len(st.toplevels) = 1 THEN st
      ELSE Magnify(noted, to, st.area.width \div 2)

PanOverviewMode(st, offset) ==
  LET panned == [st EXCEPT !.panning = @ + offset] IN
    IF st.mode = "overview" THEN ConfigureWindowsForOverviewMode(panned, FALSE) ELSE panned

\* The closures that the constructor gives to the key bindings.
RunAction(st, action) ==
  CASE action = "switch-to-overview-mode" -> SetModeOverview(st)
    [] action = "switch-to-active-mode" -> SwitchToActiveMode(st, FALSE)
    [] action = "switch-to-active-mode-for-magnified" -> SwitchToActiveMode(st, TRUE)
    [] action = "cycle-active-forward" -> CycleActiveToplevelWindow(st, TRUE)
    [] action = "cycle-active-backward" -> CycleActiveToplevelWindow(st, FALSE)
    [] action = "cycle-magnification-forward" -> CycleMagnifiedToplevelWindow(st, TRUE)
    [] action = "cycle-magnification-backward" -> CycleMagnifiedToplevelWindow(st, FALSE)
    [] action = "activate-toplevel-with-index-0" -> ActivateToplevelWindowByIndex(st, 1)
    [] action = "activate-toplevel-with-index-1" -> ActivateToplevelWindowByIndex(st, 2)
    [] action = "activate-last-toplevel" -> ActivateToplevelWindowByIndex(st, Len(st.toplevels))
    [] action = "magnify-toplevel-with-index-0" -> MagnifyToplevelWindowByIndex(st, 1)
    [] action = "magnify-toplevel-with-index-1" -> MagnifyToplevelWindowByIndex(st, 2)
    [] action = "magnify-last-toplevel" -> MagnifyToplevelWindowByIndex(st, Len(st.toplevels))
    [] action = "pan-overview-mode-left" -> PanOverviewMode(st, -Pan)
    [] action = "pan-overview-mode-right" -> PanOverviewMode(st, Pan)
    [] OTHER -> st  \* delete-active-window only sends a message

Actions == {b[2] : b \in KeyTable("active") \cup KeyTable("overview")}

-----------------------------------------------------------------------------
(* Windows that come and go. *)

\* Mutant: in overview mode nothing is laid out.
MapToplevelUnlaid(st, w, isFocused) ==
  LET win == [NewWindow(FALSE, isFocused, <<st.area.width, st.area.height>>) EXCEPT !.grab = TRUE]
      created == [st EXCEPT !.win[w] = win, !.top[w] = NewToplevel]
  IN  IF st.mode = "active"
      THEN SetActiveToplevelWindow([created EXCEPT !.toplevels = Append(@, w)], w)
      ELSE [created EXCEPT !.toplevels = Append(@, w)]

\* HandleWindowMap() of a toplevel: in active mode it goes to the right of the active
\* one and is activated, in overview mode it goes to the end.
MapToplevel(st, w, isFocused) ==
  LET win == [NewWindow(FALSE, isFocused, <<st.area.width, st.area.height>>) EXCEPT !.grab = TRUE]
      created == [st EXCEPT !.win[w] = win, !.top[w] = NewToplevel]
      after == IF st.active = None THEN Len(st.toplevels) ELSE GetIndex(st.toplevels, st.active)
  IN  IF st.mode = "active"
      THEN SetActiveToplevelWindow([created EXCEPT !.toplevels = InsertAt(@, after + 1, w)], w)
      ELSE LayoutToplevelWindowsForOverviewMode([created EXCEPT !.toplevels = Append(@, w)], -1)

\* HandleWindowMap() of a transient: the active toplevel gives it the focus if it is
\* preferred now.  If the hint names no toplevel it is ignored and the window is one itself.
MapTransient(st, w, hint, isModal, isFocused, bubble) ==
  LET win == [NewWindow(isModal, isFocused, TransientSize) EXCEPT
                !.x = IF bubble = None THEN ScreenWidth ELSE bubble]
      added == AddTransientWindow([st EXCEPT !.win[w] = win, !.owner[w] = hint],
                                  hint, w, bubble # None)
  IN  IF ~Contains(st.toplevels, hint)
      THEN [MapToplevel(st, w, isFocused) EXCEPT !.win[w].modal = isModal]
      ELSE IF /\ st.mode = "active" /\ st.active # None
              /\ IsWindowOrTransientFocused(added, st.active)
           THEN TakeFocus(added, st.active)
      ELSE added

\* Mutant: the object is forgotten and the pointer to it is not.
UnmapActive(st, t) == [st EXCEPT !.underTab = IF @ = t THEN None ELSE @]

\* The pointers that HandleWindowUnmap() resets for a toplevel.
UnmapPointers(st, t) ==
  LET unmagnified == IF st.magnified = t THEN SetMagnifiedToplevelWindow(st, None) ELSE st
  IN  [unmagnified EXCEPT !.active = IF @ = t THEN None ELSE @,
                          !.underTab = IF @ = t THEN None ELSE @]

\* HandleWindowUnmap() of a toplevel.
UnmapToplevel(st, t) ==
  LET index == GetIndex(st.toplevels, t)
      gone == DestroyToplevel([UnmapPointers(st, t) EXCEPT !.toplevels = Remove(@, t)], t)
      n == Len(gone.toplevels)
  IN  IF st.mode = "overview" THEN LayoutToplevelWindowsForOverviewMode(gone, -1)
      ELSE IF gone.active # None THEN gone
      ELSE IF n > 0
           THEN SetActiveToplevelWindow(gone, gone.toplevels[((index - 1 + n - 1) % n) + 1])
      ELSE IF st.win[t].focused THEN WmTakeFocus(SetActiveWindowProperty(gone, "none"))
      ELSE gone

\* HandleWindowUnmap() of a transient whose owner is known.
UnmapTransient(st, w) ==
  LET t == st.owner[w]
      removed == [RemoveTransientWindow(st, t, w) EXCEPT !.owner[w] = None]
  IN  IF st.win[w].focused THEN TakeFocus(removed, t) ELSE removed

-----------------------------------------------------------------------------
(* The floating tab. *)

PointIsInTabSummary(st, x, y) ==
  st.summary /\ OverviewWindowContainsPoint(Summary, x, y)
PointIsBetween(st, y) ==
  /\ st.summary
  /\ Summary.y + Summary.height <= y
  /\ y < st.top[st.magnified].image.y

\* GetOverviewToplevelWindowAtPoint(), then the magnified window while the pointer is
\* on its way to the tab summary; only Chrome's windows take a tab.
TabTarget(st, x, y) ==
  LET under == SelectSeq(st.toplevels,
                         LAMBDA t : OverviewWindowContainsPoint(st.top[t].image, x, y))
      near == /\ st.magnified # None
              /\ PointIsInTabSummary(st, x, y) \/ PointIsBetween(st, y)
      found == IF under # <<>> THEN Head(under) ELSE IF near THEN st.magnified ELSE None
  IN  IF found \in Toplevels THEN found ELSE None

\* The tab moved from one toplevel to another: both are told.
TabEnters(st, t) ==
  LET over == (st.over \ {st.underTab}) \cup (IF t = None THEN {} ELSE {t})
      noted == SetMagnifiedToplevelWindow([st EXCEPT !.over = over, !.underTab = t], t)
  IN  SendTabSummaryMessage(LayoutToplevelWindowsForOverviewMode(noted, -1), t, TRUE)

\* MoveFloatingTab(): the tab is dragged over the images, or in active mode into the
\* bottom area, which switches the mode.
MoveFloatingTab(st) ==
  LET x == st.tabMotion.x
      y == st.tabMotion.y
      moved == [st EXCEPT !.tab = <<x - TabOffset[1], y - TabOffset[2]>>]
      target == TabTarget(st, x, y)
      bottom == st.area.height
  IN  IF st.tab = None \/ st.tab = <<x, y>> THEN st
      ELSE IF st.mode = "overview"
           THEN IF target = st.underTab THEN moved ELSE TabEnters(moved, target)
      ELSE IF 4 * y > 4 * bottom - 3 * OverviewHeight(bottom) /\ y < bottom
           THEN SetModeOverview(moved)
      ELSE moved

\* HandleWindowUnmap() of the floating tab: Stop() runs the callback a last time.
UnmapTab(st) ==
  LET flushed == IF st.tabMotion.running /\ Queued(st.tabMotion) THEN MoveFloatingTab(st) ELSE st
  IN  [flushed EXCEPT !.tab = None, !.tabMotion = StopTimer(@)]

-----------------------------------------------------------------------------
(* Other events. *)

\* HandleButtonPress() in an input window.
ClickInputWindow(st, t, x) ==
  IF st.mode # "overview" THEN st
  ELSE IF st.new /\ t # st.magnified
       THEN LayoutToplevelWindowsForOverviewMode(
              SetMagnifiedToplevelWindow(st, t), IF x > st.area.x THEN x - st.area.x ELSE 0)
  ELSE SetModeActive([st EXCEPT !.active = t])

\* HandlePointerEnter() in an input window.
EnterInputWindow(st, t) ==
  IF st.mode # "overview" \/ st.new \/ t = st.magnified THEN st
  ELSE SendTabSummaryMessage(
         LayoutToplevelWindowsForOverviewMode(SetMagnifiedToplevelWindow(st, t), -1), t, TRUE)

\* WM_SWITCH_TO_OVERVIEW_MODE
SwitchToOverviewMessage(st, t) ==
  LET magnified == SetMagnifiedToplevelWindow(SetModeOverview(st), t) IN
    IF ~Contains(st.toplevels, t) THEN SetModeOverview(st)
    ELSE IF st.new THEN magnified ELSE SendTabSummaryMessage(magnified, t, TRUE)

\* HandleClientMessage() of _NET_ACTIVE_WINDOW for a toplevel or a transient.
ActiveWindowMessage(st, w) ==
  LET isTransient == st.owner[w] # None
      t == IF isTransient THEN st.owner[w] ELSE w
      preferred == IF isTransient THEN SetPreferredTransientWindowToFocus(st, t, w) ELSE st
  IN  IF ~Contains(st.toplevels, t) THEN st
      ELSE IF st.mode = "overview" THEN SetModeActive([preferred EXCEPT !.active = t])
      ELSE IF t # st.active THEN SetActiveToplevelWindow(preferred, t)
      ELSE TakeFocus(preferred, t)

\* UpdateOverviewPanningForMotion()
UpdateOverviewPanningForMotion(st) ==
  LET x == st.background.x IN
  ConfigureWindowsForOverviewMode(
    [st EXCEPT !.panning = @ - (x - st.dragX), !.dragX = x], TRUE)

\* HandleButtonRelease() on the background: Stop(), then the input windows move.
ReleaseBackground(st) ==
  LET flushed == IF Queued(st.background) THEN UpdateOverviewPanningForMotion(st) ELSE st
  IN  ConfigureWindowsForOverviewMode([flushed EXCEPT !.background = StopTimer(@)], FALSE)

\* MoveAndResize(): the edge that moved least stays.
MoveAndResize(st, area) ==
  LET distance(a, b) == IF a > b THEN a - b ELSE b - a
      east == distance(area.x, st.area.x)
                > distance(area.x + area.width, st.area.x + st.area.width)
      resized == FoldLeft(LAMBDA s, t : ResizeClient(s, t, <<area.width, area.height>>, east),
                          [st EXCEPT !.area = area], st.toplevels)
  IN  IF area = st.area THEN st
      ELSE IF st.mode = "active" THEN LayoutToplevelWindowsForActiveMode(resized, FALSE)
      ELSE LayoutToplevelWindowsForOverviewMode(resized, -1)

\* HandleWindowConfigureRequest()
ConfigureRequest(st, w, x, size) ==
  IF st.owner[w] # None
  THEN HandleTransientWindowConfigureRequest(st, st.owner[w], w, x, size)
  ELSE IF Contains(st.toplevels, w) THEN ResizeClient(st, w, size, FALSE)
  ELSE st

-----------------------------------------------------------------------------
(* Events. *)

\* A transient's owner in the map is a toplevel that still exists: what a use of a
\* destroyed one does is undefined, and the model stops there.
NoDangling == \A w \in Windows : lm.owner[w] # None => Contains(lm.toplevels, lm.owner[w])

\* An event is handled to its end.  The bounds leave room for late focus events.
Handled(new) ==
  /\ steps < MaxSteps /\ steps' = steps + 1
  /\ Len(lm.events) < MaxFocusEvents
  /\ NoDangling
  /\ lm' = new

\* A toplevel or a transient that the layout manager handles.
IsManaged(st, w) == st.owner[w] # None \/ Contains(st.toplevels, w)
Managed(w) == IsManaged(lm, w)

\* The members as LayoutManager::LayoutManager() sets them, before SetMode(MODE_ACTIVE).
Constructed(newOverview) ==
  [win |-> [w \in Windows |-> GoneWindow], top |-> [w \in Windows |-> NewToplevel],
   owner |-> [w \in Windows |-> None], toplevels |-> <<>>, mode |-> "active",
   active |-> None, magnified |-> None, underTab |-> None, tab |-> None,
   tabMotion |-> Coalescer, background |-> Coalescer, dragX |-> -1, panning |-> 0,
   summary |-> FALSE, create |-> FALSE, area |-> StartArea, new |-> newOverview,
   kb |-> FoldSet(LAMBDA action, kb : AddAction(kb, action), NewKeyBindings, Actions),
   xfocus |-> "root", netActive |-> "none", events |-> <<>>,
   summaries |-> {}, told |-> [t \in Windows |-> "active"], over |-> {}]

\* The constructor ends in active mode; windows that are mapped already arrive as if they
\* were mapped now.
Init ==
  /\ \E newOverview \in BOOLEAN :
       lm = FoldLeft(LAMBDA st, t : MapToplevel(st, t, FALSE),
                     SetModeActive(Constructed(newOverview)), Existing)
  /\ steps = 0

HandleToplevelMap(w, isFocused) ==
  /\ ~lm.win[w].live
  /\ Handled(MapToplevel(lm, w, isFocused))

HandleTransientMap(w, hint, isModal, isFocused, bubble) ==
  /\ ~lm.win[w].live
  /\ Handled(MapTransient(lm, w, hint, isModal, isFocused, bubble))

\* The X server takes the focus from an unmapped window; the client then destroys it.
HandleWindowUnmap(w) ==
  LET unmapped == [lm EXCEPT !.xfocus = IF @ = w THEN "root" ELSE @]
      orphan == IF lm.owner[w] # None THEN UnmapTransient(unmapped, w) ELSE unmapped
      handled == IF Contains(lm.toplevels, w) THEN UnmapToplevel(orphan, w) ELSE orphan
  IN  /\ lm.win[w].live
      /\ Handled([handled EXCEPT
           !.win[w] = GoneWindow, !.events = SelectSeq(@, LAMBDA e : e.window # w),
           !.xfocus = IF @ = w THEN "root" ELSE @,
           !.netActive = IF @ = w THEN "none" ELSE @,
           !.summaries = @ \ {w}, !.over = @ \ {w}])

\* WINDOW_TYPE_CHROME_FLOATING_TAB: the tab's first position is in its type's parameters.
\* A second tab takes the place of the first, whose unmap changes nothing then.
HandleTabMap(point) ==
  LET started == StorePosition(StartCoalescer(lm.tabMotion), point[1], point[2])
  IN  Handled([lm EXCEPT !.tab = <<-1, -1>>, !.tabMotion = started])
HandleTabUnmap == lm.tab # None /\ Handled(UnmapTab(lm))
MoveFloatingTabMessage(point) ==
  /\ lm.tab # None
  /\ Handled([lm EXCEPT !.tabMotion = StorePosition(@, point[1], point[2])])
TabTimer ==
  /\ lm.tabMotion.running
  /\ Queued(lm.tabMotion)
  /\ Handled([MoveFloatingTab(lm) EXCEPT !.tabMotion = TimerHandled(@)])

\* WINDOW_TYPE_CHROME_TAB_SUMMARY and WINDOW_TYPE_CREATE_BROWSER_WINDOW, of which a
\* second one takes the place of the first.
SummaryChange == Handled([lm EXCEPT !.summary = ~@])
CreateChange(mapped) ==
  LET changed == [lm EXCEPT !.create = mapped]
  IN  (mapped \/ lm.create) /\ Handled(IF lm.mode = "overview" THEN LayoutToplevelWindowsForOverviewMode(changed, -1)
              ELSE changed)

HandleConfigureRequest(w, x, size) ==
  /\ lm.win[w].live
  /\ Managed(w)
  /\ Handled(ConfigureRequest(lm, w, x, size))

\* Clicks and the pointer reach an input window that is onscreen.
HandleInputPress(t, x) ==
  Contains(lm.toplevels, t) /\ lm.top[t].input /\ Handled(ClickInputWindow(lm, t, x))
HandlePointerEnter(t) ==
  Contains(lm.toplevels, t) /\ lm.top[t].input /\ Handled(EnterInputWindow(lm, t))

\* A click on the part of a window that is onscreen, which its button grab gives to
\* the window manager.
HandleWindowPress(w) ==
  /\ lm.win[w].live
  /\ Managed(w)
  /\ lm.win[w].grab
  /\ lm.win[w].x < ScreenWidth
  /\ Handled(ToplevelButtonPress(lm, IF lm.owner[w] = None THEN w ELSE lm.owner[w], w))

\* The background is grabbed in the new overview mode only.
HandleBackgroundPress(x) ==
  /\ lm.new
  /\ ~lm.background.running
  /\ Handled([lm EXCEPT !.dragX = x, !.background = StartCoalescer(@)])
HandleBackgroundMotion(x) ==
  /\ lm.background.running
  /\ Handled([lm EXCEPT !.background = StorePosition(@, x, 0)])
BackgroundTimer ==
  /\ lm.background.running
  /\ Queued(lm.background)
  /\ Handled([UpdateOverviewPanningForMotion(lm) EXCEPT !.background = TimerHandled(@)])
HandleBackgroundRelease == lm.background.running /\ Handled(ReleaseBackground(lm))

\* WindowManager::HandleFocusChange() notes the focus, then LayoutManager's runs.
HandleFocusChange ==
  LET e == Head(lm.events)
      noted == [lm EXCEPT !.events = Tail(@), !.win[e.window].focused = e.in]
      changed == ToplevelFocusChange(noted, e.window, e.in)
  IN  /\ lm.events # <<>>
      /\ NoDangling
      /\ steps' = steps
      /\ lm' = IF ~Managed(e.window) THEN noted
               ELSE IF e.in THEN SetActiveWindowProperty(changed, e.window)
               ELSE changed

HandleSwitchToOverviewMessage(w) ==
  lm.win[w].live /\ Handled(SwitchToOverviewMessage(lm, w))

\* _NET_WM_STATE changes the modal state and nothing else.
HandleWmStateMessage(w) ==
  lm.win[w].live /\ Handled([lm EXCEPT !.win[w].modal = ~@])

HandleActiveWindowMessage(w) ==
  lm.win[w].live /\ Managed(w) /\ Handled(ActiveWindowMessage(lm, w))

\* A key that is grabbed; while it is held the X server repeats the press.
PressKey(combo) ==
  LET action == ActionOf(lm.kb, combo)
  IN  /\ Begins(lm.kb, combo)
      /\ Handled(RunAction([lm EXCEPT !.kb = HandleKeyPress(@, combo)], action))
ReleaseKey(key) ==
  /\ ActionsByKey(lm.kb, key) \cap lm.kb.running # {}
  /\ Handled([lm EXCEPT !.kb = HandleKeyRelease(@, key)])

\* A dock appears or goes, or the screen is resized.
HandleAreaChange(area) == area # lm.area /\ Handled(MoveAndResize(lm, area))

\* A panel takes the focus.
PanelTakesFocus ==
  /\ lm.xfocus # "root"
  /\ Handled(FocusWindow(SetActiveWindowProperty(lm, "panel"), "root"))

-----------------------------------------------------------------------------

WindowStep(w) ==
  \/ HandleWindowUnmap(w)
  \/ HandleWindowPress(w)
  \/ HandleActiveWindowMessage(w)
  \/ \E x \in Places : HandleInputPress(w, x)
  \/ HandlePointerEnter(w)
  \/ \E x \in Places, size \in Sizes : HandleConfigureRequest(w, x, size)

ToplevelStep(t) ==
  \/ \E isFocused \in BOOLEAN : HandleToplevelMap(t, isFocused)
  \/ HandleSwitchToOverviewMessage(t)

TransientStep(w) ==
  \/ \E hint \in Toplevels, kind \in TransientKinds :
       HandleTransientMap(w, hint, kind.modal, kind.focused, kind.bubble)
  \/ HandleWmStateMessage(w)

TabStep ==
  \/ \E point \in TabPoints : HandleTabMap(point) \/ MoveFloatingTabMessage(point)
  \/ HandleTabUnmap \/ TabTimer \/ SummaryChange \/ \E mapped \in BOOLEAN : CreateChange(mapped)

BackgroundStep ==
  \/ \E x \in Places : HandleBackgroundPress(x) \/ HandleBackgroundMotion(x)
  \/ BackgroundTimer \/ HandleBackgroundRelease

KeyStep == \E combo \in UsedKeys : PressKey(combo) \/ ReleaseKey(combo[1])

Next ==
  \/ \E w \in Windows : WindowStep(w)
  \/ \E t \in Toplevels : ToplevelStep(t)
  \/ \E w \in Transients : TransientStep(w)
  \/ TabStep \/ BackgroundStep \/ KeyStep
  \/ \E area \in Areas : HandleAreaChange(area)
  \/ PanelTakesFocus \/ HandleFocusChange

Spec == Init /\ [][Next]_vars

-----------------------------------------------------------------------------

\* In active mode the client window of the active toplevel is the only one onscreen
\* and no input window is; in overview mode it is the other way round, for every
\* order of maps, unmaps, clicks, keys and resizes (ConfigureForActiveMode(),
\* ConfigureForOverviewMode()).  The old overview mode; in the new one the release of
\* the background button configures for the overview whatever the mode is.
ModeIsShown ==
  (NoDangling /\ ~lm.new) => \A t \in ToSet(lm.toplevels) :
    /\ lm.win[t].x < ScreenWidth <=> lm.mode = "active" /\ t = lm.active
    /\ lm.top[t].input <=> lm.mode = "overview"

\* The three pointers of the layout manager are to toplevels that exist, a mode with
\* toplevels has an active one, and a toplevel's preferred transient is one of its own
\* (HandleWindowUnmap(), RemoveTransientWindow()).
PointersValid ==
  NoDangling =>
    /\ {lm.active, lm.magnified, lm.underTab} \subseteq ToSet(lm.toplevels) \cup {None}
    /\ lm.mode = "active" /\ lm.toplevels # <<>> => lm.active # None
    /\ \A t \in ToSet(lm.toplevels) :
         /\ TransientsOf(lm, t) = {w \in Windows : lm.owner[w] = t}
         /\ lm.top[t].focus \in TransientsOf(lm, t) \cup {None}

\* A modal transient that its toplevel prefers stays preferred while it is modal and
\* belongs to it, unless another modal one takes its place
\* (SetPreferredTransientWindowToFocus()).
ModalNotLost ==
  [][\A t \in Windows :
       LET w == lm.top[t].focus
           now == lm'.top[t].focus
       IN  (w # None /\ w \in TransientsOf(lm', t) /\ lm.win[w].modal /\ lm'.win[w].modal)
             => now # None /\ lm'.win[now].modal]_lm

\* A managed window that does not have the focus, and is not about to hear about it,
\* has the button grab by which a click can focus it (HandleFocusChange()).
Clickable ==
  NoDangling => \A w \in Windows :
    (lm.win[w].live /\ Managed(w) /\ ~lm.win[w].focused) =>
      lm.win[w].grab \/ \E i \in DOMAIN lm.events : lm.events[i].window = w

\* In the old overview mode only the magnified toplevel shows its tab summary, and in
\* active mode none does (SetMagnifiedToplevelWindow()).
SummaryOfMagnified == ~lm.new => lm.summaries \subseteq {lm.magnified} \ {None}

\* A transient is where its owner is, moved by the offset that was saved for it
\* (MoveAndScaleAllTransientWindows(), after every move of the owner).
TransientsFollow ==
  NoDangling => \A w \in Windows :
    lm.owner[w] # None => lm.win[w].x = lm.win[lm.owner[w]].x + lm.win[w].offset

\* What the user sees, where clicks go and what the manager points at fit together in
\* either mode, whatever was mapped, unmapped, resized, dragged or switched before.
LayoutIsConsistent ==
  ModeIsShown /\ PointersValid /\ Clickable /\ SummaryOfMagnified /\ TransientsFollow

=============================================================================
