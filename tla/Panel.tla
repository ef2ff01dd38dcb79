-------------------------------- MODULE Panel --------------------------------
(***************************************************************************)
(* window_manager/panel.{h,cc} and what it uses of window.cc: one panel, a *)
(* titlebar window on top of a content window of the same width.           *)
(*                                                                         *)
(* A handler of the window manager runs to its end on the only thread, so  *)
(* the operators of this module and of the modules that extend it map a    *)
(* state st of the window manager to a state; PanelManager keeps the parts *)
(* of st in variables and has an action per event.  A panel's place is the *)
(* right edge and the top of its composited windows.  Stacking, shadows    *)
(* and animations are left out.                                            *)
(***************************************************************************)
EXTENDS WmUtil

CONSTANTS
  Panels,           \* content windows, each with its titlebar window
  NoPanel,
  NoHandle,         \* drag_xid_ while no handle is dragged
  TitlebarHeight,
  MinSize,          \* kPanelMinWidth and kPanelMinHeight
  StartSize,        \* a new panel's content, <<width, height>>
  Gap,              \* kPixelsBetweenPanels
  HiddenHeight,     \* kHiddenCollapsedPanelHeightPixels
  DetachThreshold,  \* kPanelDetachThresholdPixels, kDetachThresholdPixels
  AttachThreshold,  \* kPanelAttachThresholdPixels, kAttachThresholdPixels
  DockWidth         \* kPanelDockWidth

ASSUME PanelAssumption ==
  /\ NoPanel \notin Panels
  /\ TitlebarHeight \in Nat \ {0} /\ MinSize \in Nat \ {0}
  /\ StartSize \in Nat \X Nat
  /\ {Gap, HiddenHeight, AttachThreshold, DetachThreshold, DockWidth} \subseteq Nat
  /\ AttachThreshold < DetachThreshold

East(gravity) == gravity \in {"northeast", "southeast"}
South(gravity) == gravity \in {"southwest", "southeast"}

\* Panel::Panel() on windows that are still offscreen.  inPlace: the X windows,
\* which get the clicks, are where the composited ones are drawn.  Window::Window() does
\* not initialise focused_, so it may be anything.  sunk is a history: the client made
\* its window less high while it was collapsed, and nothing was moved since.
NewPanel(isExpanded, initFocused) ==
  [live |-> TRUE, expanded |-> isExpanded, resizable |-> FALSE, urgentHint |-> FALSE,
   width |-> StartSize[1], height |-> StartSize[2], right |-> 0, y |-> 0, inPlace |-> FALSE,
   focused |-> initFocused, grab |-> FALSE, handle |-> NoHandle, orig |-> <<1, 1>>,
   sunk |-> FALSE]

\* Panel::~Panel(), and a panel that was not created yet.
Gone == [live |-> FALSE]

total_height(panel) == panel.height + TitlebarHeight
content_x(panel) == panel.right - panel.width
content_center(panel) == content_x(panel) + panel.width \div 2

\* Panel::Move(), MoveX(), MoveY(): the client windows follow, or stay behind.
Move(st, p, right, y, moveClient) ==
  LET panel == st.panel[p]
      stays == panel.inPlace /\ panel.right = right /\ panel.y = y
  IN  [st EXCEPT !.panel[p] =
         [panel EXCEPT !.right = right, !.y = y, !.inPlace = moveClient \/ stays,
                       !.sunk = @ /\ panel.y = y]]
MoveX(st, p, right, moveClient) == Move(st, p, right, st.panel[p].y, moveClient)
MoveY(st, p, y, moveClient) == Move(st, p, st.panel[p].right, y, moveClient)

SetResizable(st, p, resizable) == [st EXCEPT !.panel[p].resizable = resizable]
SetExpandedState(st, p, expanded) == [st EXCEPT !.panel[p].expanded = expanded]
AddButtonGrab(st, p) == [st EXCEPT !.panel[p].grab = TRUE]
RemoveButtonGrab(st, p) == [st EXCEPT !.panel[p].grab = FALSE]

\* Window::ResizeClient() on both windows, as ResizeContent() calls it: the edges
\* that the gravity does not hold move, and the titlebar stays on the content.
ResizeClient(st, p, width, height, gravity) ==
  LET panel == st.panel[p]
      dx == IF East(gravity) THEN 0 ELSE width - panel.width
      dy == IF South(gravity) THEN height - panel.height ELSE 0
  IN  [st EXCEPT !.panel[p] = [panel EXCEPT !.width = width, !.height = height,
                                            !.right = @ + dx, !.y = @ - dy]]

\* The five handles around a panel that may be resized, with the gravity and the
\* direction in which a drag of each grows it (ApplyResize()).
Handles ==
  [top |-> [gravity |-> "southwest", dx |-> 0, dy |-> -1],
   topLeft |-> [gravity |-> "southeast", dx |-> -1, dy |-> -1],
   topRight |-> [gravity |-> "southwest", dx |-> 1, dy |-> -1],
   left |-> [gravity |-> "northeast", dx |-> -1, dy |-> 0],
   right |-> [gravity |-> "northwest", dx |-> 1, dy |-> 0]]

\* ApplyResize(): the size a drag of the handle by <<mx, my>> asks for.
ApplyResize(panel, mx, my) ==
  LET handle == Handles[panel.handle]
      atLeast(n) == IF n > MinSize THEN n ELSE MinSize
  IN  <<atLeast(panel.orig[1] + handle.dx * mx), atLeast(panel.orig[2] + handle.dy * my)>>

\* ConfigureInputWindows(): the handles are around the panel, or all offscreen.
HandlesOnscreen(panel) == panel.resizable

\* HandleInputWindowButtonPress() on a handle.
HandleInputWindowButtonPress(st, p, handle) ==
  [st EXCEPT !.panel[p].handle = handle,
             !.panel[p].orig = <<st.panel[p].width, st.panel[p].height>>]

-----------------------------------------------------------------------------
(* The input focus.  Window::TakeFocus() sets focused_ at once; the X server *)
(* sends FocusOut to the window that had the focus and FocusIn to the new    *)
(* one, which arrive later, in this order (external).                        *)

FocusEvents(from, to) ==
  (IF from \in Panels THEN <<[panel |-> from, in |-> FALSE]>> ELSE <<>>)
  \o (IF to \in Panels THEN <<[panel |-> to, in |-> TRUE]>> ELSE <<>>)

\* XConnection::FocusWindow(), also for the root and toplevel windows.
FocusWindow(st, w) ==
  IF st.xfocus = w THEN st
  ELSE [st EXCEPT !.xfocus = w, !.events = @ \o FocusEvents(st.xfocus, w)]

\* WindowManager::SetActiveWindowProperty().
SetActiveWindowProperty(st, w) == [st EXCEPT !.active = w]

\* Window::TakeFocus() of a panel's content window.
TakeWindowFocus(st, p) == FocusWindow([st EXCEPT !.panel[p].focused = TRUE], p)

=============================================================================
