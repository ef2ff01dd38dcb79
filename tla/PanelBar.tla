------------------------------ MODULE PanelBar ------------------------------
(***************************************************************************)
(* window_manager/panel_bar.{h,cc}: the panels along the bottom of the     *)
(* screen, packed to the right; collapsed ones hide below the edge of the  *)
(* screen until the pointer comes near.  away: what QueryPointerPosition() *)
(* answers, whether the pointer left the bottom of the screen.             *)
(***************************************************************************)
EXTENDS Panel, FiniteSetsExt

\* show_collapsed_panels_input_xid_, the window in which the pointer is noticed, from the left
\* edge of the screen: the bottom row of a screen of this size, or out of sight
\* (ConfigureWindowOffscreen()).
kShowCollapsedPanelsDistancePixels == 1
BottomRow(screen) ==
  [y |-> screen.height - kShowCollapsedPanelsDistancePixels, width |-> screen.width]
Offscreen == [y |-> -1, width |-> 1]

\* PanelBar::PanelBar().  panels is in left-to-right order.
NewBar ==
  [panels |-> <<>>, snapped |-> [p \in Panels |-> 0], urgent |-> [p \in Panels |-> FALSE],
   totalWidth |-> 0, dragged |-> NoPanel, horizontally |-> FALSE, anchor |-> NoPanel,
   desired |-> NoPanel, state |-> "hidden", strip |-> Offscreen, timer |-> FALSE,
   watcher |-> FALSE]

BarPanels(st) == {st.bar.panels[i] : i \in DOMAIN st.bar.panels}
PositionOf(st, p) == CHOOSE i \in DOMAIN st.bar.panels : st.bar.panels[i] = p
CollapsedPanels(st) == {p \in BarPanels(st) : ~st.panel[p].expanded}
GetNumCollapsedPanels(st) == Cardinality(CollapsedPanels(st))
CollapsedPanelsAreHidden(st) == st.bar.state \in {"hidden", "waitingToShow"}

ComputePanelY(st, p) ==
  st.screen.height -
    (IF st.panel[p].expanded THEN total_height(st.panel[p])
     ELSE IF CollapsedPanelsAreHidden(st) /\ ~st.bar.urgent[p] THEN HiddenHeight
     ELSE TitlebarHeight)

ConfigureShowCollapsedPanelsInputWindow(st, onscreen) ==
  [st EXCEPT !.bar.strip = IF onscreen THEN BottomRow(st.screen) ELSE Offscreen]
\* The same for a panel that is, or was, collapsed, if that makes count of them.
ConfigureInputWindowAt(st, collapsed, count, onscreen) ==
  IF collapsed /\ GetNumCollapsedPanels(st) = count
  THEN ConfigureShowCollapsedPanelsInputWindow(st, onscreen) ELSE st
DisableShowCollapsedPanelsTimer(st) == [st EXCEPT !.bar.timer = FALSE]
StartHideCollapsedPanelsWatcher(st) == [st EXCEPT !.bar.watcher = TRUE]
CreateAnchor(st, p) == [st EXCEPT !.bar.anchor = p]
DestroyAnchor(st) == [st EXCEPT !.bar.anchor = NoPanel]

\* The loop of ShowCollapsedPanels() and HideCollapsedPanels().
MoveCollapsedPanels(st) ==
  LET moves == {p \in CollapsedPanels(st) : st.panel[p].y # ComputePanelY(st, p)}
  IN  [st EXCEPT !.panel = [p \in Panels |->
         IF p \in moves THEN MoveY(st, p, ComputePanelY(st, p), TRUE).panel[p] ELSE @[p]]]

ShowCollapsedPanels(st) ==
  LET shown == MoveCollapsedPanels(
                 [DisableShowCollapsedPanelsTimer(st) EXCEPT !.bar.state = "shown"])
  IN  StartHideCollapsedPanelsWatcher(ConfigureShowCollapsedPanelsInputWindow(shown, FALSE))

\* Mutant: the input window is not configured.
HideWithoutInputWindow(st) ==
  MoveCollapsedPanels([DisableShowCollapsedPanelsTimer(st) EXCEPT !.bar.state = "hidden",
                                                                  !.bar.watcher = FALSE])

\* A drag of a collapsed panel defers it to HandlePanelDragComplete().
HideCollapsedPanels(st) ==
  LET bar == st.bar
      stopped == DisableShowCollapsedPanelsTimer(st)
      hidden == MoveCollapsedPanels([stopped EXCEPT !.bar.state = "hidden"])
      input == IF GetNumCollapsedPanels(hidden) = 0 THEN hidden
               ELSE ConfigureShowCollapsedPanelsInputWindow(hidden, TRUE)
  IN  IF bar.dragged # NoPanel /\ ~st.panel[bar.dragged].expanded
      THEN [stopped EXCEPT !.bar.state = "waitingToHide"]
      ELSE [input EXCEPT !.bar.watcher = FALSE]

-----------------------------------------------------------------------------
(* Order and place. *)

\* PackPanels(): every panel but fixed slides to the place that is left for it.
PackPanels(st, fixed) ==
  LET bar == st.bar
      n == Len(bar.panels)
      room(from) == MapThenSumSet(LAMBDA i : st.panel[bar.panels[i]].width + Gap, from..n)
      snapped(p) == st.screen.width - Gap - room(PositionOf(st, p) + 1)
      moves == {p \in BarPanels(st) \ {fixed} : st.panel[p].right # snapped(p)}
  IN  [st EXCEPT
         !.bar.totalWidth = room(1),
         !.bar.snapped = [p \in Panels |-> IF p \in BarPanels(st) THEN snapped(p) ELSE @[p]],
         !.panel = [p \in Panels |->
                      IF p \in moves THEN MoveX(st, p, snapped(p), TRUE).panel[p] ELSE @[p]]]

\* ReorderPanel(): fixed moves past every neighbour whose midpoint its edge passed.
ReorderPanel(st, fixed) ==
  LET seq == st.bar.panels
      from == PositionOf(st, fixed)
      panel == st.panel[fixed]
      center(i) == content_center(st.panel[seq[i]])
      passed(i) == IF i < from THEN content_x(panel) <= center(i) ELSE panel.right >= center(i)
      reach == IF panel.right < st.bar.snapped[fixed]
               THEN {i \in 1..from : \A j \in i..(from - 1) : passed(j)}
               ELSE {i \in from..Len(seq) : \A j \in (from + 1)..i : passed(j)}
      to == IF panel.right < st.bar.snapped[fixed] THEN Min(reach) ELSE Max(reach)
  IN  IF to = from THEN st
      ELSE PackPanels([st EXCEPT !.bar.panels = InsertAt(RemoveAt(seq, from), to, fixed)], fixed)

\* The panels are packed, and the one that is dragged finds its place among them.
PackAroundDragged(st) ==
  LET packed == PackPanels(st, st.bar.dragged)
  IN  IF st.bar.dragged # NoPanel THEN ReorderPanel(packed, st.bar.dragged) ELSE packed

\* GetNearestExpandedPanel(): the first of those at the least distance.
GetNearestExpandedPanel(st, p) ==
  LET near == st.panel[p]
      others == {q \in BarPanels(st) \ {p} : st.panel[q].expanded}
      distance(q) ==
        LET panel == st.panel[q] IN
          IF panel.right <= content_x(near) THEN content_x(near) - panel.right
          ELSE IF content_x(panel) >= near.right THEN content_x(panel) - near.right
          ELSE LET d == content_center(panel) - content_center(near) IN IF d < 0 THEN -d ELSE d
      nearest == {q \in others : \A r \in others : distance(q) <= distance(r)}
  IN  IF ~near.expanded \/ others = {} THEN NoPanel
      ELSE CHOOSE q \in nearest : \A r \in nearest : PositionOf(st, q) <= PositionOf(st, r)

-----------------------------------------------------------------------------
(* Focus, expanding and collapsing. *)

FocusPanel(st, p) ==
  [TakeWindowFocus(SetActiveWindowProperty(RemoveButtonGrab(st, p), p), p)
     EXCEPT !.bar.desired = p]

ExpandedPanels(st) == {p \in BarPanels(st) : st.panel[p].expanded}

\* TakeFocus(): whether it returns true, and what it then does.
CanTakeFocus(st) == st.bar.desired # NoPanel \/ ExpandedPanels(st) # {}
TakeFocus(st) ==
  IF st.bar.desired # NoPanel THEN FocusPanel(st, st.bar.desired)
  ELSE LET first == Min({PositionOf(st, p) : p \in ExpandedPanels(st)})
       IN  FocusPanel(st, st.bar.panels[first])

\* WindowManager::TakeFocus(): a toplevel window, else a panel, else the root.
WmTakeFocus(st) ==
  IF st.toplevel THEN FocusWindow(SetActiveWindowProperty(st, "toplevel"), "toplevel")
  ELSE IF CanTakeFocus(st) THEN TakeFocus(st)
  ELSE FocusWindow(st, "root")

ExpandPanel(st, p, createAnchor) ==
  LET expanded == SetExpandedState(st, p, TRUE)
      moved == SetResizable(MoveY(expanded, p, ComputePanelY(expanded, p), TRUE), p, TRUE)
      anchored == IF createAnchor THEN CreateAnchor(moved, p) ELSE moved
  IN  IF st.panel[p].expanded THEN st
      ELSE ConfigureInputWindowAt(anchored, TRUE, 0, FALSE)

\* A panel that collapses leaves the focus to the one that is wanted, if there is one.
PassFocusTo(st, p) ==
  LET desired == [st EXCEPT !.bar.desired = p]
  IN  IF CanTakeFocus(desired) THEN TakeFocus(desired)
      ELSE WmTakeFocus(SetActiveWindowProperty(desired, "none"))

CollapsePanel(st, p) ==
  LET toFocus == GetNearestExpandedPanel(st, p)
      unanchored == IF st.bar.anchor = p THEN DestroyAnchor(st) ELSE st
      collapsed == SetExpandedState(unanchored, p, FALSE)
      moved == SetResizable(MoveY(collapsed, p, ComputePanelY(collapsed, p), TRUE), p, FALSE)
      refocused == IF st.panel[p].focused THEN PassFocusTo(moved, toFocus) ELSE moved
  IN  IF ~st.panel[p].expanded THEN st ELSE ConfigureInputWindowAt(refocused, TRUE, 1, TRUE)

HandleSetPanelStateMessage(st, p, expand) ==
  IF expand THEN ExpandPanel(st, p, TRUE) ELSE CollapsePanel(st, p)

HandleFocusPanelMessage(st, p) ==
  FocusPanel(IF st.panel[p].expanded THEN st ELSE ExpandPanel(st, p, FALSE), p)

HandlePanelButtonPress(st, p) == FocusPanel(st, p)

\* Mutant: the grab is added to the panel that gets the focus.
FocusChangeInverted(st, p, focusIn) == IF focusIn THEN AddButtonGrab(st, p) ELSE st

HandlePanelFocusChange(st, p, focusIn) == IF focusIn THEN st ELSE AddButtonGrab(st, p)

-----------------------------------------------------------------------------
(* Panels that come and go. *)

MoveToBar(st, p, right) == Move(st, p, right, ComputePanelY(st, p), TRUE)

AddPanel(st, p, source) ==
  LET snapped == st.screen.width - st.bar.totalWidth - Gap
      leftmost == [st EXCEPT !.bar.panels = <<p>> \o @,
                             !.bar.snapped[p] = snapped,
                             !.bar.urgent[p] = st.panel[p].urgentHint,
                             !.bar.totalWidth = @ + st.panel[p].width + Gap]
      placed == IF source = "dragged"
                THEN [ReorderPanel(leftmost, p) EXCEPT !.bar.dragged = p, !.bar.horizontally = TRUE]
                ELSE leftmost
      moved == MoveToBar(placed, p, IF source = "dragged" THEN st.panel[p].right ELSE snapped)
      sized == SetResizable(moved, p, st.panel[p].expanded)
      focused == IF st.panel[p].expanded /\ (source = "new" \/ st.panel[p].focused)
                 THEN FocusPanel(sized, p) ELSE AddButtonGrab(sized, p)
  IN  ConfigureInputWindowAt(focused, ~st.panel[p].expanded, 1, TRUE)

RemovePanel(st, p) ==
  LET erased == [st EXCEPT !.bar.panels = RemoveAt(@, PositionOf(st, p)),
                           !.bar.snapped[p] = 0, !.bar.urgent[p] = FALSE,
                           !.bar.anchor = IF @ = p THEN NoPanel ELSE @,
                           !.bar.dragged = IF @ = p THEN NoPanel ELSE @,
                           !.bar.desired = IF @ = p THEN GetNearestExpandedPanel(st, p) ELSE @]
  IN  ConfigureInputWindowAt(PackAroundDragged(erased), ~st.panel[p].expanded, 0, FALSE)

ShouldAddDraggedPanel(st, p, x, y) ==
  y + total_height(st.panel[p]) > st.screen.height - AttachThreshold

\* Mutant: the panels keep their places when one is resized.
HandlePanelResizeUnpacked(st, p) == st

HandlePanelResize(st, p) == PackPanels(st, NoPanel)

\* Mutant: the panels keep their Y positions.
ScreenResizePacksOnly(st) == PackAroundDragged(st)

\* The strip and the pointer watchers stay where the old size of the screen put them.
HandleScreenResize(st) ==
  PackAroundDragged([st EXCEPT !.panel = [p \in Panels |->
    IF p \in BarPanels(st) THEN MoveY(st, p, ComputePanelY(st, p), TRUE).panel[p] ELSE @[p]]])

HandlePanelUrgencyChange(st, p) ==
  LET noted == [st EXCEPT !.bar.urgent[p] = st.panel[p].urgentHint]
      y == ComputePanelY(noted, p)
  IN  IF noted = st \/ st.panel[p].expanded \/ st.panel[p].y = y THEN noted
      ELSE MoveY(noted, p, y, TRUE)

-----------------------------------------------------------------------------
(* Drags within the bar. *)

\* The end of HandlePanelDragComplete(): hide the collapsed panels if that was deferred.
DragFinished(st, away) ==
  IF st.bar.state # "waitingToHide" THEN st
  ELSE IF away THEN HideCollapsedPanels(st)
  ELSE StartHideCollapsedPanelsWatcher([st EXCEPT !.bar.state = "shown"])

\* HandlePanelDragComplete(): snap the panel, expanding or collapsing it if it was
\* dragged vertically.
HandlePanelDragComplete(st, p, away) ==
  LET bar == st.bar
      panel == st.panel[p]
      mostlyVisible == 2 * panel.y < 2 * st.screen.height - total_height(panel)
      settled == IF bar.horizontally THEN MoveX(st, p, bar.snapped[p], TRUE)
                 ELSE IF mostlyVisible /\ ~panel.expanded
                      THEN FocusPanel(ExpandPanel(st, p, FALSE), p)
                 ELSE IF ~mostlyVisible /\ panel.expanded THEN CollapsePanel(st, p)
                 ELSE MoveY(st, p, ComputePanelY(st, p), TRUE)
  IN  IF bar.dragged # p THEN st
      ELSE DragFinished([settled EXCEPT !.bar.dragged = NoPanel], away)

\* The panel follows the pointer along the bar, or up and down as far as its height.
MoveInBar(st, p, x, y) ==
  LET lowest == st.screen.height - TitlebarHeight
      highest == st.screen.height - total_height(st.panel[p])
  IN  IF st.bar.horizontally THEN MoveX(st, p, x, FALSE)
      ELSE MoveY(st, p, Max({highest, Min({y, lowest})}), FALSE)

\* HandleNotifyPanelDraggedMessage(): whether it returns true, and what it then does.
KeepsDragged(st, p, x, y) ==
  y > st.screen.height - total_height(st.panel[p]) - DetachThreshold
HandleNotifyPanelDraggedMessage(st, p, x, y, away) ==
  LET panel == st.panel[p]
      abs(n) == IF n < 0 THEN -n ELSE n
      abandoned == IF st.bar.dragged = NoPanel THEN st
                   ELSE HandlePanelDragComplete(st, st.bar.dragged, away)
      started == IF st.bar.dragged = p THEN st
                 ELSE [abandoned EXCEPT !.bar.dragged = p,
                         !.bar.horizontally = abs(x - panel.right) > abs(y - panel.y)]
  IN  ReorderPanel(MoveInBar(started, p, x, y), p)

-----------------------------------------------------------------------------
(* The pointer near the bottom of the screen. *)

\* HandleInputWindowButtonPress() on the anchor.
HandleAnchorPress(st) ==
  IF st.bar.anchor = NoPanel THEN st ELSE CollapsePanel(DestroyAnchor(st), st.bar.anchor)

\* overPanels: the pointer is where the panels are.
HandleInputWindowPointerEnter(st, overPanels) ==
  IF overPanels THEN ShowCollapsedPanels(st)
  ELSE IF st.bar.state \in {"shown", "waitingToShow"} THEN st
  ELSE [st EXCEPT !.bar.state = "waitingToShow", !.bar.timer = TRUE]

HandleInputWindowPointerLeave(st) ==
  IF st.bar.state = "waitingToShow"
  THEN DisableShowCollapsedPanelsTimer([st EXCEPT !.bar.state = "hidden"]) ELSE st

HandlePanelTitlebarPointerEnter(st, p) ==
  IF st.bar.state # "shown" /\ ~st.panel[p].expanded THEN ShowCollapsedPanels(st) ELSE st

HandleShowCollapsedPanelsTimer(st) == ShowCollapsedPanels([st EXCEPT !.bar.timer = FALSE])

=============================================================================
