---------------------------- MODULE PanelManager ----------------------------
(***************************************************************************)
(* window_manager/panel_manager.{h,cc}: creates and destroys panels, moves *)
(* them between the bar and the two docks as they are dragged, and routes  *)
(* X events and Chrome messages to them.  Every action is one event that   *)
(* the window manager handles to its end.  The X server's focus events     *)
(* arrive later, in order, and interleave with everything else.            *)
(***************************************************************************)
EXTENDS Panel

CONSTANTS
  Screens,         \* screen sizes, [width, height]
  StartScreen,
  Points,          \* where Chrome says a panel was dragged, <<right, top>>
  Sizes,           \* content sizes that clients ask for
  Motions,         \* how far a resize handle is dragged
  DragHandles,     \* the resize handles that are used
  MaxFocusEvents,  \* bound: focus events on their way
  MaxSteps         \* bound: events handled

ASSUME PanelManagerAssumption ==
  /\ Screens \subseteq [width : Nat, height : Nat] /\ StartScreen \in Screens
  /\ Points \subseteq Int \X Int /\ Sizes \subseteq Nat \X Nat /\ Motions \subseteq Int \X Int
  /\ DragHandles \subseteq DOMAIN Handles /\ MaxFocusEvents \in Nat /\ MaxSteps \in Nat

VARIABLES panel, bar, dock, container, dragged, coalescer, screen, area,
          xfocus, active, events, toplevel, steps

vars == <<panel, bar, dock, container, dragged, coalescer, screen, area,
          xfocus, active, events, toplevel, steps>>

Bar == INSTANCE PanelBar
Dock == INSTANCE PanelDock

\* The state that the handlers work on.
st == [panel |-> panel, bar |-> bar, dock |-> dock, container |-> container,
       dragged |-> dragged, coalescer |-> coalescer, screen |-> screen, area |-> area,
       xfocus |-> xfocus, active |-> active, events |-> events, toplevel |-> toplevel]

\* The panels that something still points to.
References ==
  Bar!BarPanels(st) \cup UNION {Dock!DockPanels(st, d) : d \in Dock!Docks}
    \cup {bar.dragged, bar.anchor, bar.desired, dragged, dock["left"].dragged, dock["right"].dragged}
    \cup {p \in Panels : container[p] # "none"}

\* No pointer to a destroyed panel: what a use of one does is undefined, and the
\* model stops there.
NoDangling == \A p \in References \cap Panels : panel[p].live

\* An event is handled to its end.  The bounds leave room for late focus events.
Becomes(new) ==
  /\ NoDangling
  /\ panel' = new.panel /\ bar' = new.bar /\ dock' = new.dock
  /\ container' = new.container /\ dragged' = new.dragged /\ coalescer' = new.coalescer
  /\ screen' = new.screen /\ area' = new.area /\ xfocus' = new.xfocus
  /\ active' = new.active /\ events' = new.events /\ toplevel' = new.toplevel
Handled(new) ==
  /\ steps < MaxSteps /\ steps' = steps + 1
  /\ Len(events) < MaxFocusEvents
  /\ Becomes(new)

\* PanelManager::PanelManager().
Init ==
  /\ panel = [p \in Panels |-> Gone]
  /\ bar = Bar!NewBar
  /\ screen = StartScreen
  /\ dock = [d \in Dock!Docks |-> Dock!NewDock(d, screen)]
  /\ container = [p \in Panels |-> "none"]
  /\ dragged = NoPanel
  /\ coalescer = Coalescer
  /\ area = [x |-> 0, width |-> screen.width, height |-> screen.height]
  /\ toplevel \in BOOLEAN
  /\ xfocus = IF toplevel THEN "toplevel" ELSE "root"
  /\ active = IF toplevel THEN "toplevel" ELSE "none"
  /\ events = <<>>
  /\ steps = 0

-----------------------------------------------------------------------------
(* Containers. *)

\* The order in which RegisterContainer() was called, and where panels come from.
Containers == <<"bar", "left", "right">>

AddPanelToContainer(s, p, c, source) ==
  LET noted == [s EXCEPT !.container[p] = c] IN
    IF c = "bar" THEN Bar!AddPanel(noted, p, source) ELSE Dock!AddPanel(noted, c, p, source)

\* A panel that leaves its container is expanded again.
RemovePanelFromContainer(s, p) ==
  LET c == s.container[p]
      erased == [s EXCEPT !.container[p] = "none"]
      removed == IF c = "bar" THEN Bar!RemovePanel(erased, p) ELSE Dock!RemovePanel(erased, c, p)
  IN  SetExpandedState(SetResizable(RemoveButtonGrab(removed, p), p, FALSE), p, TRUE)

\* PanelManager::HandlePanelResize(): docks ignore it.
HandlePanelResize(s, p) ==
  IF s.container[p] = "bar" THEN Bar!HandlePanelResize(s, p) ELSE s

\* Panel::ResizeContent().
ResizeContent(s, p, width, height, gravity) ==
  HandlePanelResize(ResizeClient(s, p, width, height, gravity), p)

-----------------------------------------------------------------------------
(* Drags.  away: what the pointer query in the bar answers, if it is asked. *)

ShouldAddDraggedPanel(s, c, p, x, y) ==
  IF c = "bar" THEN Bar!ShouldAddDraggedPanel(s, p, x, y)
  ELSE Dock!ShouldAddDraggedPanel(s, c, p, x, y)

KeepsDragged(s, c, p, x, y) ==
  IF c = "bar" THEN Bar!KeepsDragged(s, p, x, y) ELSE Dock!KeepsDragged(s, c, p, x, y)

DragWithin(s, p, x, y, away) ==
  LET c == s.container[p] IN
    IF c = "bar" THEN Bar!HandleNotifyPanelDraggedMessage(s, p, x, y, away)
    ELSE Dock!HandleNotifyPanelDraggedMessage(s, c, p, x, y)

\* The panel is offered to the bar, the left and the right dock in this order, or it floats.
OfferPanel(s, p, x, y, away) ==
  LET takers == {i \in DOMAIN Containers : ShouldAddDraggedPanel(s, Containers[i], p, x, y)}
      taker == Containers[CHOOSE i \in takers : \A j \in takers : i <= j]
  IN  IF takers = {} THEN Move(s, p, x, y, FALSE)
      ELSE DragWithin(AddPanelToContainer(s, p, taker, "dragged"), p, x, y, away)

\* HandlePeriodicPanelDragMotion(): the container keeps the panel, or it is offered.
HandlePeriodicPanelDragMotion(s, away) ==
  LET p == s.dragged
      x == s.coalescer.x
      y == s.coalescer.y
      c == s.container[p]
  IN  IF c # "none" /\ KeepsDragged(s, c, p, x, y) THEN DragWithin(s, p, x, y, away)
      ELSE OfferPanel(IF c = "none" THEN s ELSE RemovePanelFromContainer(s, p), p, x, y, away)

\* MotionEventCoalescer::Stop() runs the callback for a position it still holds.
StopCoalescer(s, away) ==
  LET flushed == IF Queued(s.coalescer) THEN HandlePeriodicPanelDragMotion(s, away) ELSE s
  IN  [flushed EXCEPT !.coalescer = StopTimer(@)]

\* The end of HandlePanelDragComplete(): the container settles the panel; one that
\* floats goes into the bar.
DropPanel(s, p, removed, away) ==
  LET c == s.container[p]
  IN  IF removed THEN s
      ELSE IF c = "bar" THEN Bar!HandlePanelDragComplete(s, p, away)
      ELSE IF c # "none" THEN Dock!HandleNotifyPanelDragCompleteMessage(s, c, p)
      ELSE AddPanelToContainer(s, p, "bar", "dropped")

\* Mutant: a panel that is dropped outside of every container stays there.
DragCompleteFloating(s, p, removed, away) ==
  LET stopped == [StopCoalescer(s, away) EXCEPT !.dragged = NoPanel]
  IN  IF s.dragged # p THEN s ELSE stopped

HandlePanelDragComplete(s, p, removed, away) ==
  IF s.dragged # p THEN s
  ELSE DropPanel([StopCoalescer(s, away) EXCEPT !.dragged = NoPanel], p, removed, away)

\* WM_NOTIFY_PANEL_DRAGGED
NotifyPanelDragged(p, point, away) ==
  LET other == IF dragged \notin {NoPanel, p}
               THEN HandlePanelDragComplete(st, dragged, FALSE, away) ELSE st
      started == [other EXCEPT !.dragged = p, !.coalescer = StartCoalescer(@)]
  IN  /\ panel[p].live
      /\ Handled([started EXCEPT !.coalescer = StorePosition(@, point[1], point[2])])

\* WM_NOTIFY_PANEL_DRAG_COMPLETE
NotifyPanelDragComplete(p, away) ==
  /\ panel[p].live
  /\ dragged = p
  /\ Handled(HandlePanelDragComplete(st, p, FALSE, away))

\* MotionEventCoalescer::HandleTimer()
DragTimer(away) ==
  /\ coalescer.running
  /\ Queued(coalescer)
  /\ LET moved == HandlePeriodicPanelDragMotion(st, away)
     IN  Handled([moved EXCEPT !.coalescer = TimerHandled(@)])

-----------------------------------------------------------------------------
(* Panels that come and go. *)

\* HandleWindowMap() of a content window whose titlebar is mapped; a new window
\* has no event of an earlier one.
HandleWindowMap(p, expanded, focused) ==
  /\ ~panel[p].live
  /\ \A i \in DOMAIN events : events[i].panel # p
  /\ Handled(AddPanelToContainer([st EXCEPT !.panel[p] = NewPanel(expanded, focused)],
                                 p, "bar", "new"))

\* The end of HandleWindowUnmap(): the focus goes to another panel, else where the window
\* manager takes it.
PassFocusFrom(s, p) ==
  IF ~s.panel[p].focused THEN s
  ELSE IF Bar!CanTakeFocus(s) THEN Bar!TakeFocus(s)
  ELSE Bar!WmTakeFocus(s)

\* HandleWindowUnmap().  The X server takes the focus from an unmapped window.
HandleWindowUnmap(p, away) ==
  LET unmapped == [st EXCEPT !.xfocus = IF @ = p THEN "root" ELSE @]
      removed == IF container[p] # "none" THEN RemovePanelFromContainer(unmapped, p)
                 ELSE unmapped
      completed == HandlePanelDragComplete(removed, p, TRUE, away)
  IN  /\ panel[p].live
      /\ Handled([PassFocusFrom(completed, p) EXCEPT
                    !.panel[p] = Gone,
                    !.events = SelectSeq(@, LAMBDA e : e.panel # p),
                    !.xfocus = IF @ = p THEN "root" ELSE @])

\* WM_SET_PANEL_STATE
SetPanelState(p, expand) ==
  /\ panel[p].live
  /\ container[p] # "none"
  /\ Handled(IF container[p] = "bar" THEN Bar!HandleSetPanelStateMessage(st, p, expand)
             ELSE Dock!HandleSetPanelStateMessage(st, container[p], p, expand))

\* HandleWindowConfigureRequest(): ignored while the user resizes the panel.
HandleWindowConfigureRequest(p, size) ==
  /\ panel[p].live
  /\ panel[p].handle = NoHandle
  /\ size # <<panel[p].width, panel[p].height>>
  /\ LET lower == ~panel[p].expanded /\ size[2] < panel[p].height
     IN  Handled(ResizeContent([st EXCEPT !.panel[p].sunk = @ \/ lower],
                               p, size[1], size[2], "southeast"))

PressHandle(p, handle) ==
  /\ panel[p].live
  /\ HandlesOnscreen(panel[p])
  /\ panel[p].handle = NoHandle
  /\ Handled(HandleInputWindowButtonPress(st, p, handle))

\* Panel::HandleInputWindowButtonRelease(): the size where the pointer now is.
HandleInputWindowButtonRelease(s, p, motion) ==
  LET size == ApplyResize(s.panel[p], motion[1], motion[2])
      released == [s EXCEPT !.panel[p].handle = NoHandle]
  IN  ResizeContent(released, p, size[1], size[2], Handles[s.panel[p].handle].gravity)
ReleaseHandle(p, motion) ==
  /\ panel[p].live
  /\ panel[p].handle # NoHandle
  /\ Handled(HandleInputWindowButtonRelease(st, p, motion))

\* Every container follows the screen, the bar first.
HandleScreenResize(s) ==
  LET moved == Bar!HandleScreenResize(s)
  IN  Dock!UpdateAvailableArea(Dock!HandleScreenResize(Dock!HandleScreenResize(moved, "left"), "right"))

\* The window manager passes on what RandR says, unless the size is the one it has; the
\* layout manager is given the area the docks leave.
HandleRRScreenChangeNotify(size) ==
  /\ size # screen
  /\ Handled(HandleScreenResize([st EXCEPT !.screen = size]))

\* HandleWindowPropertyChange() of WM_HINTS.
HandleUrgencyChange(p) ==
  LET hinted == [st EXCEPT !.panel[p].urgentHint = ~@]
  IN  /\ panel[p].live
      /\ Handled(IF container[p] = "bar" THEN Bar!HandlePanelUrgencyChange(hinted, p) ELSE hinted)

-----------------------------------------------------------------------------
(* Focus. *)

\* HandleClientMessage() of _NET_ACTIVE_WINDOW.
HandleFocusMessage(p) ==
  /\ panel[p].live
  /\ container[p] # "none"
  /\ Handled(IF container[p] = "bar" THEN Bar!HandleFocusPanelMessage(st, p)
             ELSE Dock!HandleFocusPanelMessage(st, container[p], p))

\* A click on the part of the content that is onscreen, which the panel's button
\* grab gives to the window manager.
HandlePanelClick(p) ==
  /\ panel[p].live
  /\ panel[p].grab
  /\ panel[p].y + TitlebarHeight < screen.height
  /\ container[p] # "none"
  /\ Handled(IF container[p] = "bar" THEN Bar!HandlePanelButtonPress(st, p)
             ELSE Dock!HandlePanelButtonPress(st, container[p], p))

\* WindowManager::HandleFocusChange(), then PanelManager::HandleFocusChange().
HandleFocusChange ==
  LET e == Head(events)
      p == e.panel
      noted == [st EXCEPT !.events = Tail(@), !.panel[p].focused = e.in]
  IN  /\ events # <<>>
      /\ steps' = steps
      /\ Becomes(IF container[p] = "bar" THEN Bar!HandlePanelFocusChange(noted, p, e.in)
                 ELSE IF container[p] # "none"
                      THEN Dock!HandlePanelFocusChange(noted, container[p], p, e.in)
                 ELSE noted)

\* A toplevel window gets the focus, as LayoutManager does on a click.
ToplevelTakesFocus ==
  /\ toplevel
  /\ xfocus # "toplevel"
  /\ Handled(FocusWindow(SetActiveWindowProperty(st, "toplevel"), "toplevel"))

-----------------------------------------------------------------------------
(* The pointer at the bottom of the screen. *)

PressAnchor == bar.anchor # NoPanel /\ Handled(Bar!HandleAnchorPress(st))

\* PointerPositionWatcher::HandleTimer(): the pointer left the anchor.
LeaveAnchor == bar.anchor # NoPanel /\ Handled(Bar!DestroyAnchor(st))

\* The pointer enters the strip where it is on the screen.
EnterBottom(overPanels) ==
  /\ bar.strip.y \in 0..(screen.height - 1)
  /\ \E x \in 0..(screen.width - 1) :
       x < bar.strip.width /\ overPanels = (x >= screen.width - bar.totalWidth)
  /\ Handled(Bar!HandleInputWindowPointerEnter(st, overPanels))

LeaveBottom == bar.state = "waitingToShow" /\ Handled(Bar!HandleInputWindowPointerLeave(st))

EnterTitlebar(p) ==
  /\ panel[p].live
  /\ container[p] = "bar"
  /\ panel[p].y < screen.height
  /\ Handled(Bar!HandlePanelTitlebarPointerEnter(st, p))

ShowTimer == bar.timer /\ Handled(Bar!HandleShowCollapsedPanelsTimer(st))

\* PointerPositionWatcher::HandleTimer(): it stops watching, then calls.
LeaveCollapsedPanels ==
  /\ bar.watcher
  /\ Handled(Bar!HideCollapsedPanels([st EXCEPT !.bar.watcher = FALSE]))

-----------------------------------------------------------------------------

PanelStep(p) ==
  \/ \E expanded, focused \in BOOLEAN : HandleWindowMap(p, expanded, focused)
  \/ \E away \in BOOLEAN :
       \/ HandleWindowUnmap(p, away)
       \/ NotifyPanelDragComplete(p, away)
       \/ \E point \in Points : NotifyPanelDragged(p, point, away)
  \/ \E expand \in BOOLEAN : SetPanelState(p, expand)
  \/ \E size \in Sizes : HandleWindowConfigureRequest(p, size)
  \/ \E handle \in DragHandles : PressHandle(p, handle)
  \/ \E motion \in Motions : ReleaseHandle(p, motion)
  \/ HandleUrgencyChange(p)
  \/ HandleFocusMessage(p)
  \/ HandlePanelClick(p)
  \/ EnterTitlebar(p)

ScreenStep ==
  \/ \E away \in BOOLEAN : DragTimer(away)
  \/ \E size \in Screens : HandleRRScreenChangeNotify(size)
  \/ \E overPanels \in BOOLEAN : EnterBottom(overPanels)
  \/ ToplevelTakesFocus \/ PressAnchor \/ LeaveAnchor \/ LeaveBottom
  \/ ShowTimer \/ LeaveCollapsedPanels

Next == (\E p \in Panels : PanelStep(p)) \/ ScreenStep \/ HandleFocusChange

Spec == Init /\ [][Next]_vars

-----------------------------------------------------------------------------

\* The bar's snapped positions leave every panel its width and a gap, in order, from
\* the right edge of the screen (PackPanels(), after every change of the list, of a
\* width and of the screen).
Snapped ==
  NoDangling => \A i \in DOMAIN bar.panels :
    LET p == bar.panels[i]
        after == bar.panels[i + 1]
    IN  bar.snapped[p] + Gap = IF i = Len(bar.panels) THEN screen.width
                               ELSE bar.snapped[after] - panel[after].width

\* A panel in a container that does not have the focus, and is not about to hear
\* that it lost it, has the button grab by which a click can focus it
\* (HandlePanelFocusChange(), AddPanel()).
Clickable ==
  \A p \in Panels :
    (panel[p].live /\ container[p] # "none" /\ ~panel[p].focused) =>
      panel[p].grab \/ \E i \in DOMAIN events : events[i].panel = p

\* Hidden collapsed panels come back.  While they hide below the edge of the screen the
\* strip that notices the pointer is in its bottom row.  HandleScreenResize() leaves the
\* strip in the row of the old size, in the middle of the screen or beyond its edge; then
\* what sticks out of each panel's titlebar, which notices the pointer as well, is on the
\* screen, unless the client has shrunk the panel since.  The timer that shows the panels
\* runs exactly while they wait for it (the DCHECK of HandleShowCollapsedPanelsTimer()).
HiddenComeBack ==
  /\ bar.timer <=> bar.state = "waitingToShow"
  /\ NoDangling /\ Bar!CollapsedPanelsAreHidden(st) =>
       \A p \in Bar!CollapsedPanels(st) :
         /\ bar.strip # Bar!Offscreen
         /\ bar.strip = Bar!BottomRow(screen) \/ panel[p].y < screen.height \/ panel[p].sunk

\* The windows that get the clicks are where the panel is drawn, unless the panel is
\* being dragged.
ClientInPlace ==
  NoDangling => \A p \in Panels : panel[p].live /\ p # dragged => panel[p].inPlace

\* A panel is in the list of the container that the map names and in no other, and
\* only the panel that is being dragged is in none.
Held ==
  NoDangling => \A p \in Panels :
    /\ p \in Bar!BarPanels(st) <=> container[p] = "bar"
    /\ \A d \in Dock!Docks : p \in Dock!DockPanels(st, d) <=> container[p] = d
    /\ panel[p].live /\ container[p] = "none" => p = dragged

\* The area of the toplevel windows is the screen without the visible docks.
AreaIsFree ==
  area = [x |-> IF dock["left"].panels = <<>> THEN 0 ELSE DockWidth, height |-> screen.height,
          width |-> screen.width - DockWidth * Cardinality({d \in Dock!Docks : dock[d].panels # <<>>})]

\* Panels are where their containers put them, and so are their client windows, and the
\* layout manager has the rest of the screen.
PanelsInPlace == Snapped /\ ClientInPlace /\ AreaIsFree /\ Held

\* Every panel can be clicked, and one that was hidden comes back.
PanelsReachable == Clickable /\ HiddenComeBack

=============================================================================
