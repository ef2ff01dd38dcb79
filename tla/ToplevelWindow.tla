--------------------------- MODULE ToplevelWindow ---------------------------
(***************************************************************************)
(* The class ToplevelWindow of window_manager/layout_manager.{h,cc} and    *)
(* what it uses of window.cc: a client window that fills the layout area,  *)
(* its input window, and the transient windows that belong to it.          *)
(*                                                                         *)
(* The operators map a state st of the layout manager to a state: st.win   *)
(* has the client windows, st.top the ToplevelWindow objects.  A place is  *)
(* the left edge of the X window; ScreenWidth is offscreen.  Composited    *)
(* windows, their animations and the X stacking order are left out.        *)
(***************************************************************************)
EXTENDS WmUtil

CONSTANTS
  Toplevels,    \* Chrome's toplevel windows
  Transients,   \* windows with a WM_TRANSIENT_FOR hint
  None,         \* a NULL pointer
  ScreenWidth,  \* WindowManager::width()
  Padding       \* kWindowPadding

ASSUME ToplevelWindowAssumption ==
  /\ None \notin Toplevels \cup Transients
  /\ Toplevels \cap Transients = {}
  /\ ScreenWidth \in Nat /\ Padding \in Nat

Windows == Toplevels \cup Transients

-----------------------------------------------------------------------------
(* The arithmetic of the overview modes: where the images of the toplevel  *)
(* windows go.  sizes[i] is the client size <<width, height>> of the i-th  *)
(* toplevel, mag the index of the magnified one or 0, width and height the *)
(* area.  The code computes with doubles and truncates to int; the         *)
(* operators compute the same quotients exactly.                           *)

\* Conversion of n / d to int, and round(), for d > 0.
Trunc(n, d) == IF n >= 0 THEN n \div d ELSE -((-n) \div d)
Round(n, d) == Trunc(2 * n + (IF n >= 0 THEN d ELSE -d), 2 * d)

\* width / sqrt(n) as an int.
OverSqrt(width, n) == CHOOSE k \in 0..width : k * k * n <= width * width
                                              /\ (k + 1) * (k + 1) * n > width * width

SmallerOf(m, n) == IF m < n THEN m ELSE n

\* overview_height_: kOverviewHeightFraction, and kMaxWindowHeightRatio of it.
OverviewHeight(height) == (3 * height) \div 10
MaxUnmagHeight(height) == (3 * OverviewHeight(height)) \div 4

\* UpdateOverviewScaling(): the largest size of the same shape within the limits.
UpdateOverviewScaling(size, maxWidth, maxHeight) ==
  IF maxWidth * size[2] <= maxHeight * size[1]
  THEN <<maxWidth, Trunc(maxWidth * size[2], size[1])>>
  ELSE <<Trunc(maxHeight * size[1], size[2]), maxHeight>>

\* The sum of f over the first n indexes.
SumTo(f, n) == FoldLeft(LAMBDA sum, i : sum + f[i], 0, [i \in 1..n |-> i])

\* The new overview mode: the windows overlap, the magnified one is exposed.
NewPositions(sizes, mag, width, height) ==
  LET n == Len(sizes)
      widthLimit == SmallerOf(OverSqrt(width, n), width \div 2)
      heightLimit == SmallerOf(OverSqrt(height, n), height \div 2)
      scaled == [i \in 1..n |-> UpdateOverviewScaling(sizes[i], widthLimit, heightLimit)]
      exposed == [i \in 1..n |-> IF i = mag THEN scaled[i][1] ELSE widthLimit \div 5]
  IN  [i \in 1..n |->
         [x |-> Padding + SumTo(exposed, i - 1), y |-> Trunc(height - scaled[i][2], 2),
          width |-> scaled[i][1], height |-> scaled[i][2]]]

\* The panning offset that puts the magnified window under magnifiedX.
PanningOffset(image, width, magnifiedX) ==
  IF width - image.width < 2 * magnifiedX /\ width + image.width >= 2 * magnifiedX
  THEN Trunc(2 * image.x + image.width - width, 2)
  ELSE IF width - image.width > 2 * magnifiedX THEN image.x - magnifiedX + 1
  ELSE image.x - magnifiedX + image.width - 1

\* The old overview mode: a row at the bottom of the area, the padding divided evenly.
\* create: the width of the create-browser window, or 0 for none.
OldPositions(sizes, mag, width, height, create) ==
  LET n == Len(sizes)
      magnified == UpdateOverviewScaling(sizes[mag], width, OverviewHeight(height))
      unmag == IF mag = 0 THEN n ELSE n - 1
      total == width - (n + 1) * Padding - (IF create > 0 THEN create + Padding ELSE 0)
                 - (IF mag = 0 THEN 0 ELSE magnified[1])
      maxWidth == IF unmag = 0 THEN 0 ELSE Trunc(total, unmag)
      scaled == [i \in 1..n |->
                   IF i = mag THEN magnified
                   ELSE UpdateOverviewScaling(sizes[i], maxWidth, MaxUnmagHeight(height))]
      widths == [i \in 1..n |-> scaled[i][1]]
      left == width - SumTo(widths, n) - create
      padding == IF left < 0 THEN 0 ELSE left
      gaps == IF create > 0 THEN n + 2 ELSE n + 1
  IN  [i \in 1..n |->
         [x |-> Round(i * padding + gaps * SumTo(widths, i - 1), gaps),
          y |-> height - scaled[i][2], width |-> scaled[i][1], height |-> scaled[i][2]]]

\* OverviewWindowContainsPoint()
OverviewWindowContainsPoint(image, x, y) ==
  /\ image.x <= x /\ x < image.x + image.width
  /\ image.y <= y /\ y < image.y + image.height

-----------------------------------------------------------------------------
(* The windows.                                                            *)

\* Window::Window(): focused_ is not initialised, so it may be anything.
NewWindow(isModal, initFocused, size) ==
  [live |-> TRUE, focused |-> initFocused, grab |-> FALSE, modal |-> isModal,
   x |-> ScreenWidth, size |-> size, offset |-> 0, centered |-> FALSE]
GoneWindow == [live |-> FALSE]

\* ToplevelWindow::ToplevelWindow().  stack is stacked_transients_, focus is
\* transient_to_focus_, image the overview_* fields, input: its input window is onscreen.
NewToplevel ==
  [input |-> FALSE, stack |-> <<>>, focus |-> None,
   image |-> [x |-> 0, y |-> 0, width |-> 0, height |-> 0]]

TransientsOf(st, t) == ToSet(st.top[t].stack)

MoveClient(st, w, x) == [st EXCEPT !.win[w].x = x]
MoveClientOffscreen(st, w) == MoveClient(st, w, ScreenWidth)
AddButtonGrab(st, w) == [st EXCEPT !.win[w].grab = TRUE]
RemoveButtonGrab(st, w) == [st EXCEPT !.win[w].grab = FALSE]

\* Window::ResizeClient() with the northwest or the northeast gravity.
ResizeClient(st, w, size, east) ==
  [st EXCEPT !.win[w].size = size,
             !.win[w].x = IF east THEN @ - (size[1] - st.win[w].size[1]) ELSE @]

-----------------------------------------------------------------------------
(* The input focus: TakeFocus() sets focused_ at once, the X server's FocusOut *)
(* and FocusIn arrive later, in this order (external).                        *)

FocusEvents(from, to) ==
  (IF from \in Windows THEN <<[window |-> from, in |-> FALSE]>> ELSE <<>>)
  \o (IF to \in Windows THEN <<[window |-> to, in |-> TRUE]>> ELSE <<>>)

\* XConnection::FocusWindow(); "root" stands for every window of another component.
FocusWindow(st, w) ==
  IF st.xfocus = w THEN st
  ELSE [st EXCEPT !.xfocus = w, !.events = @ \o FocusEvents(st.xfocus, w)]

SetActiveWindowProperty(st, w) == [st EXCEPT !.netActive = w]

TakeWindowFocus(st, w) == FocusWindow([st EXCEPT !.win[w].focused = TRUE], w)

IsWindowOrTransientFocused(st, t) ==
  \E w \in {t} \cup TransientsOf(st, t) : st.win[w].focused

RestackTransientWindowOnTop(st, t, w) ==
  [st EXCEPT !.top[t].stack = AddOnTop(TakeOut(@, w), w)]

\* ToplevelWindow::TakeFocus()
TakeFocus(st, t) ==
  LET w == IF st.top[t].focus = None THEN t ELSE st.top[t].focus
      raised == IF w = t THEN st ELSE RestackTransientWindowOnTop(st, t, w)
  IN  SetActiveWindowProperty(TakeWindowFocus(raised, w), w)

\* Mutant: the request is honoured although a modal transient is preferred.
PreferAny(st, t, w) == [st EXCEPT !.top[t].focus = w]

\* SetPreferredTransientWindowToFocus(), w = None for the toplevel itself.
SetPreferredTransientWindowToFocus(st, t, w) ==
  LET kept == st.top[t].focus
      keptIsModal == kept # None /\ st.win[kept].modal
  IN  IF keptIsModal /\ (w = None \/ ~st.win[w].modal) THEN st
      ELSE [st EXCEPT !.top[t].focus = w]

\* The topmost modal transient, else the topmost one.
FindTransientWindowToFocus(st, t) ==
  LET stack == st.top[t].stack
      modal == SelectSeq(stack, LAMBDA w : st.win[w].modal)
  IN  IF stack = <<>> THEN None ELSE IF modal = <<>> THEN Head(stack) ELSE Head(modal)

-----------------------------------------------------------------------------
(* Transient windows. *)

SaveOffsetsRelativeToOwnerWindow(st, t, w) ==
  [st EXCEPT !.win[w].offset = st.win[w].x - st.win[t].x, !.win[w].centered = FALSE]
UpdateOffsetsToCenterOverOwnerWindow(st, t, w) ==
  [st EXCEPT !.win[w].offset = Trunc(st.win[t].size[1] - st.win[w].size[1], 2),
             !.win[w].centered = TRUE]

MoveAndScaleTransientWindow(st, t, w) == MoveClient(st, w, st.win[t].x + st.win[w].offset)
MoveAndScaleAllTransientWindows(st, t) ==
  [st EXCEPT !.win = [w \in Windows |->
     IF w \in TransientsOf(st, t) THEN [@[w] EXCEPT !.x = st.win[t].x + st.win[w].offset]
     ELSE @[w]]]

\* A new modal transient goes on top, another one on top of the non-modal ones.
AddTransientWindow(st, t, w, isBubble) ==
  LET placed == IF isBubble THEN SaveOffsetsRelativeToOwnerWindow(st, t, w)
                ELSE UpdateOffsetsToCenterOverOwnerWindow(st, t, w)
      stack == st.top[t].stack
      others == SelectSeq(stack, LAMBDA o : st.win[w].modal \/ ~st.win[o].modal)
      stacked == [placed EXCEPT !.top[t].stack =
                    IF others = <<>> THEN AddOnBottom(stack, w)
                    ELSE AddAbove(stack, w, Head(others))]
      preferred == SetPreferredTransientWindowToFocus(stacked, t, w)
  IN  AddButtonGrab(MoveAndScaleTransientWindow(preferred, t, w), w)

RemoveTransientWindow(st, t, w) ==
  LET removed == RemoveButtonGrab([st EXCEPT !.top[t].stack = TakeOut(@, w)], w)
      cleared == [removed EXCEPT !.top[t].focus = None]
  IN  IF st.top[t].focus # w THEN removed
      ELSE SetPreferredTransientWindowToFocus(cleared, t, FindTransientWindowToFocus(cleared, t))

\* ToplevelWindow::~ToplevelWindow(): its transients are on their own.
DestroyToplevel(st, t) ==
  LET gone == {t} \cup TransientsOf(st, t) IN
  [st EXCEPT !.top[t] = NewToplevel,
             !.win = [w \in Windows |-> IF w \in gone THEN [@[w] EXCEPT !.grab = FALSE] ELSE @[w]]]

\* HandleTransientWindowConfigureRequest()
HandleTransientWindowConfigureRequest(st, t, w, x, size) ==
  LET moved == IF x = st.win[w].x THEN st
               ELSE SaveOffsetsRelativeToOwnerWindow(MoveClient(st, w, x), t, w)
      sized == ResizeClient(moved, w, size, FALSE)
      centers == size # st.win[w].size /\ moved.win[w].centered
  IN  IF centers
      THEN MoveAndScaleTransientWindow(UpdateOffsetsToCenterOverOwnerWindow(sized, t, w), t, w)
      ELSE IF x # st.win[w].x THEN MoveAndScaleTransientWindow(sized, t, w) ELSE sized

-----------------------------------------------------------------------------
(* The two modes. *)

\* Mutant: the transients stay where they are.
ConfigureWithoutTransients(st, t, isActive, updateFocus) ==
  LET placed == IF isActive THEN MoveClient(st, t, st.area.x) ELSE MoveClientOffscreen(st, t)
  IN  [IF isActive /\ updateFocus THEN TakeFocus(placed, t) ELSE placed EXCEPT !.top[t].input = FALSE]

ConfigureForActiveMode(st, t, isActive, updateFocus) ==
  LET area == st.area
      room == area.width - st.win[t].size[1]
      shown == MoveClient(st, t, area.x + (IF room > 0 THEN room \div 2 ELSE 0))
      focused == IF updateFocus THEN TakeFocus(shown, t) ELSE shown
      placed == IF isActive THEN focused ELSE MoveClientOffscreen(st, t)
  IN  [MoveAndScaleAllTransientWindows(placed, t) EXCEPT !.top[t].input = FALSE]

\* In the new overview mode an incremental change only moves the images.
ConfigureForOverviewMode(st, t, incremental) ==
  MoveAndScaleAllTransientWindows(
    IF incremental THEN st ELSE [MoveClientOffscreen(st, t) EXCEPT !.top[t].input = TRUE], t)

\* Mutant: the grab is not added again when the focus is lost.
FocusChangeUngrabs(st, w, in) == RemoveButtonGrab(st, w)

\* HandleFocusChange() of one of its windows.
ToplevelFocusChange(st, w, in) == IF in THEN RemoveButtonGrab(st, w) ELSE AddButtonGrab(st, w)

\* HandleButtonPress() on one of its windows.
ToplevelButtonPress(st, t, w) ==
  TakeFocus(SetPreferredTransientWindowToFocus(st, t, IF w = t THEN None ELSE w), t)

=============================================================================
