------------------------------ MODULE PanelDock ------------------------------
(***************************************************************************)
(* window_manager/panel_dock.{h,cc}: the panels pinned to a side of the    *)
(* screen, from top to bottom.  A dock is visible while it has a panel and *)
(* takes its width from the area of the toplevel windows.                  *)
(***************************************************************************)
EXTENDS Panel
LOCAL INSTANCE FiniteSetsExt
LOCAL Bar == INSTANCE PanelBar

Docks == {"left", "right"}

\* PanelDock::PanelDock(); x and height are copies that HandleScreenResize() refreshes.
NewDock(d, screen) ==
  [panels |-> <<>>, dragged |-> NoPanel, height |-> screen.height,
   x |-> IF d = "right" THEN screen.width - DockWidth ELSE 0]

DockPanels(st, d) == {st.dock[d].panels[i] : i \in DOMAIN st.dock[d].panels}
PositionOf(st, d, p) == CHOOSE i \in DOMAIN st.dock[d].panels : st.dock[d].panels[i] = p
IsVisible(st, d) == st.dock[d].panels # <<>>

\* PanelManager::UpdateAvailableArea(), which HandleDockVisibilityChange() calls.
UpdateAvailableArea(st) ==
  LET taken(d) == IF IsVisible(st, d) THEN DockWidth ELSE 0
  IN  [st EXCEPT !.area = [x |-> taken("left"), height |-> st.screen.height,
                           width |-> st.screen.width - taken("left") - taken("right")]]

\* The top of a panel, within the dock: the top edge wins.
FitVertically(dock, panel, y) == Max({0, Min({y, dock.height - total_height(panel)})})

\* PackPanels(): the panels from starting on (all for NoPanel) go below each other.
PackPanels(st, d, starting) ==
  LET seq == st.dock[d].panels
      height(p) == IF st.panel[p].expanded THEN total_height(st.panel[p]) ELSE TitlebarHeight
      above(p) == MapThenSumSet(LAMBDA i : height(seq[i]), 1..(PositionOf(st, d, p) - 1))
      from == IF starting = NoPanel THEN 1 ELSE PositionOf(st, d, starting)
      moves == {seq[i] : i \in from..Len(seq)}
  IN  [st EXCEPT !.panel = [p \in Panels |->
         IF p \in moves THEN MoveY(st, p, above(p), TRUE).panel[p] ELSE @[p]]]

FocusPanel(st, p) ==
  TakeWindowFocus(SetActiveWindowProperty(RemoveButtonGrab(st, p), p), p)

AddPanel(st, d, p, source) ==
  LET added == [st EXCEPT !.dock[d].panels = Append(@, p)]
      shown == IF Len(added.dock[d].panels) = 1 THEN UpdateAvailableArea(added) ELSE added
      dock == st.dock[d]
      right == dock.x + (IF d = "right" THEN DockWidth ELSE st.panel[p].width)
      moved == Move(shown, p, right, FitVertically(dock, st.panel[p], st.panel[p].y), TRUE)
  IN  IF st.panel[p].focused THEN FocusPanel(moved, p) ELSE AddButtonGrab(moved, p)

\* Mutant: the area is not given back when the dock becomes empty.
RemovePanelSilently(st, d, p) ==
  [st EXCEPT !.dock[d].panels = SelectSeq(@, LAMBDA q : q # p),
             !.dock[d].dragged = IF @ = p THEN NoPanel ELSE @]

RemovePanel(st, d, p) ==
  LET from == PositionOf(st, d, p)
      erased == [st EXCEPT !.dock[d].panels = RemoveAt(@, from),
                           !.dock[d].dragged = IF @ = p THEN NoPanel ELSE @]
      left == erased.dock[d].panels
  IN  IF left = <<>> THEN UpdateAvailableArea(erased)
      ELSE PackPanels(erased, d, IF from <= Len(left) THEN left[from] ELSE NoPanel)

ShouldAddDraggedPanel(st, d, p, x, y) ==
  LET dock == st.dock[d] IN
    IF d = "right" THEN x >= dock.x + DockWidth - AttachThreshold
    ELSE x - st.panel[p].width <= dock.x + AttachThreshold

HandlePanelButtonPress(st, d, p) == FocusPanel(st, p)
HandlePanelFocusChange(st, d, p, focusIn) == IF focusIn THEN st ELSE AddButtonGrab(st, p)
HandleFocusPanelMessage(st, d, p) == FocusPanel(st, p)

\* HandleNotifyPanelDraggedMessage(): whether it returns true, and what it then does.
KeepsDragged(st, d, p, x, y) ==
  LET dock == st.dock[d] IN
    IF d = "right" THEN x > dock.x + DockWidth - DetachThreshold
    ELSE x - st.panel[p].width < dock.x + DetachThreshold
HandleNotifyPanelDraggedMessage(st, d, p, x, y) ==
  MoveY([st EXCEPT !.dock[d].dragged = p], p, FitVertically(st.dock[d], st.panel[p], y), FALSE)

\* Mutant: only the composited windows are left where they were dragged.
DragCompleteComposited(st, d, p) == [st EXCEPT !.dock[d].dragged = NoPanel]

\* The client windows follow, and the panel gets the width of the dock.
HandleNotifyPanelDragCompleteMessage(st, d, p) ==
  LET panel == st.panel[p]
      moved == Move(st, p, panel.right, panel.y, TRUE)
      gravity == IF d = "right" THEN "northeast" ELSE "northwest"
      resized == IF panel.width = DockWidth THEN moved
                 ELSE ResizeClient(moved, p, DockWidth, panel.height, gravity)
  IN  IF st.dock[d].dragged # p THEN st
      ELSE [PackPanels(resized, d, p) EXCEPT !.dock[d].dragged = NoPanel]

HandleScreenResize(st, d) ==
  LET x == IF d = "right" THEN st.screen.width - DockWidth ELSE 0
      moves == IF d = "right" THEN DockPanels(st, d) ELSE {}
  IN  [st EXCEPT !.dock[d].height = st.screen.height, !.dock[d].x = x,
                 !.panel = [p \in Panels |->
                   IF p \in moves THEN MoveX(st, p, x + DockWidth, TRUE).panel[p] ELSE @[p]]]

ExpandPanel(st, d, p) ==
  IF st.panel[p].expanded THEN st ELSE PackPanels(SetExpandedState(st, p, TRUE), d, p)

\* GetNearestExpandedPanel(): by place in the dock; the one above wins a tie.
GetNearestExpandedPanel(st, d, p) ==
  LET seq == st.dock[d].panels
      at == PositionOf(st, d, p)
      open == {i \in DOMAIN seq \ {at} : st.panel[seq[i]].expanded}
      above == {i \in open : i < at}
      below == {i \in open : i > at}
  IN  IF open = {} THEN NoPanel
      ELSE IF above = {} \/ (below # {} /\ Min(below) - at < at - Max(above))
           THEN seq[Min(below)]
      ELSE seq[Max(above)]

\* The bottom panel is never collapsed.
CollapsePanel(st, d, p) ==
  LET packed == PackPanels(SetExpandedState(st, p, FALSE), d, p)
      other == GetNearestExpandedPanel(packed, d, p)
  IN  IF ~st.panel[p].expanded \/ p = Last(st.dock[d].panels) THEN st
      ELSE IF ~st.panel[p].focused THEN packed
      ELSE IF other # NoPanel THEN FocusPanel(packed, other)
      ELSE Bar!WmTakeFocus(packed)

HandleSetPanelStateMessage(st, d, p, expand) ==
  IF expand THEN ExpandPanel(st, d, p) ELSE CollapsePanel(st, d, p)

=============================================================================
