----------------------------- MODULE MockChrome -----------------------------
(***************************************************************************)
(* The stand-in for the browser (window_manager/mock_chrome.cc): windows   *)
(* with tabs that are dragged within a window, out of it and into others,  *)
(* and panels whose titlebars ask the window manager to expand, collapse   *)
(* and move them.  One pointer, grabbed by the window where a button went  *)
(* down; messages of the window manager arrive later than they are sent.   *)
(***************************************************************************)
EXTENDS Integers, Sequences, FiniteSets, SequencesExt

CONSTANTS Tabs, ChromeWindows, NoTab, NoWindow,
          MaxChromeSteps   \* bound on the events

ASSUME ChromeAssumption == IsFiniteSet(Tabs) /\ NoTab \notin Tabs

VARIABLE chrome

NoSummary == -2

\* ChromeWindow::ChromeWindow().  "summary" is the insert_index_ of the tab summary, if there
\* is one; "pressed" is history, the tab that the button went down on.
NewWindow(tabs) ==
  [tabs |-> tabs, active |-> IF tabs = <<>> THEN -1 ELSE 0, dragging |-> FALSE, floating |-> NoTab,
   summary |-> NoSummary, pressed |-> NoTab]

NewPanelTitlebar == [mouseDown |-> FALSE, dragging |-> FALSE]

\* Panel::Panel(), as seen by both programs: "shown" is the state in the window manager, "toWm"
\* and "toChrome" are the messages on their way, "told" is history, that a
\* CHROME_NOTIFY_PANEL_STATE was sent.  Chrome starts with expanded_(false), also for a panel
\* that it asks to be created expanded, and nobody tells it otherwise.
NewChromePanel(expanded) ==
  [mouseDown |-> NewPanelTitlebar.mouseDown, dragging |-> NewPanelTitlebar.dragging,
   expanded |-> FALSE, shown |-> expanded, dragged |-> FALSE,
   toWm |-> <<>>, toChrome |-> <<>>, told |-> FALSE]

\* main(): every window with its tabs.  "fresh" are windows that can be opened.
ChromeInit ==
  \E first \in ChromeWindows, expanded \in BOOLEAN :
    chrome = [windows |-> [w \in {first} |-> NewWindow(SetToSeq(Tabs))], fresh |-> ChromeWindows \ {first},
              under |-> NoWindow, lost |-> {}, panel |-> NewChromePanel(expanded), steps |-> 0]

Opened(c) == DOMAIN c.windows

\* The tabs of a window: in its tab bar, and the one that floats.
HeldTabs(v) == ToSet(v.tabs) \cup ({v.floating} \ {NoTab})

-----------------------------------------------------------------------------
\* ChromeWindow::InsertTab(): the active tab stays the same one, and the summary is made anew.
InsertTab(v, tab, at) ==
  LET index == IF at > Len(v.tabs) THEN Len(v.tabs) ELSE at
      active == IF index <= v.active THEN v.active + 1 ELSE v.active
  IN  [v EXCEPT !.tabs = InsertAt(@, index + 1, tab), !.active = IF active < 0 THEN 0 ELSE active,
                !.summary = IF @ = NoSummary THEN @ ELSE -1]

\* ChromeWindow::RemoveTab().
RemoveTab(v, index) ==
  LET left == RemoveAt(v.tabs, index + 1)
  IN  [v EXCEPT !.tabs = left, !.active = IF @ >= Len(left) THEN Len(left) - 1 ELSE @]

\* ChromeWindow::ActivateTab().
ActivateTab(v, index) == [v EXCEPT !.active = index]

\* ChromeWindow::GetTabIndexAtXPosition(): a tab, the number of tabs for the space beside
\* them, or -1 outside of the window.
TabPositions(v) == -1..Len(v.tabs)

\* ChromeWindow::on_button_press_event() of button 1, on a tab.
ButtonPress(v, index) ==
  [v EXCEPT !.dragging = TRUE, !.active = index, !.pressed = v.tabs[index + 1]]

\* ChromeWindow::on_motion_notify_event() with a floating tab: it goes back into the tab bar.
Reattach(v, index) ==
  [InsertTab(v, v.floating, index) EXCEPT !.floating = NoTab, !.active = index]

\* The same without one: the active tab leaves the tab bar ...
Detach(v) == [RemoveTab(v, v.active) EXCEPT !.floating = v.tabs[v.active + 1]]

\* Mutant: the tab that took its place is dragged from now on.
ReorderInactive(v, index) ==
  LET to == IF index >= Len(v.tabs) THEN Len(v.tabs) - 1 ELSE index
  IN  IF to = v.active THEN v ELSE InsertTab(RemoveTab(v, v.active), v.tabs[v.active + 1], to)

\* ... or moves within it.
Reorder(v, index) ==
  LET to == IF index >= Len(v.tabs) THEN Len(v.tabs) - 1 ELSE index
  IN  IF to = v.active THEN v
      ELSE [InsertTab(RemoveTab(v, v.active), v.tabs[v.active + 1], to) EXCEPT !.active = to]

Motion(v, index, inBar) ==
  IF v.floating # NoTab THEN IF index >= 0 /\ inBar THEN Reattach(v, index) ELSE v
  ELSE IF v.active < 0 THEN v
  ELSE IF index < 0 \/ ~inBar THEN Detach(v)
  ELSE Reorder(v, index)

-----------------------------------------------------------------------------
\* MockChrome::CreateWindow().
CreateWindow(c, w, tabs) ==
  [c EXCEPT !.windows = [x \in DOMAIN @ \cup {w} |-> IF x = w THEN NewWindow(tabs) ELSE @[x]],
            !.fresh = @ \ {w}]

\* MockChrome::CloseWindow(): with the tabs, a floating one included.
CloseWindow(c, w) ==
  [c EXCEPT !.windows = [x \in DOMAIN @ \ {w} |-> @[x]],
            !.lost = @ \cup HeldTabs(c.windows[w])]

\* MockChrome::NotifyAboutFloatingTab().
NotifyAboutFloatingTab(c, w, entered) ==
  [c EXCEPT !.under = IF entered THEN w ELSE IF @ = w THEN NoWindow ELSE @]

\* MockChrome::HandleDroppedFloatingTab(): into the window under the tab, where its summary
\* says, or into a new one.
HandleDroppedFloatingTab(c, tab, new) ==
  IF c.under = NoWindow THEN CreateWindow(c, new, <<tab>>)
  ELSE LET v == c.windows[c.under]
       IN  [c EXCEPT !.windows[c.under] = InsertTab(v, tab, IF v.summary >= 0 THEN v.summary ELSE Len(v.tabs))]

\* Mutant: the floating tab keeps what was dropped.
ButtonReleaseKeeps(c, w, new) ==
  LET v == c.windows[w]
      d == IF v.floating = NoTab THEN c ELSE HandleDroppedFloatingTab(c, v.floating, new)
  IN  [d EXCEPT !.windows[w].dragging = FALSE, !.windows[w].pressed = NoTab]

\* ChromeWindow::on_button_release_event().
ButtonRelease(c, w, new) ==
  LET v == c.windows[w]
      d == IF v.floating = NoTab THEN c ELSE HandleDroppedFloatingTab(c, v.floating, new)
  IN  [d EXCEPT !.windows[w].floating = NoTab, !.windows[w].dragging = FALSE, !.windows[w].pressed = NoTab]

\* TabSummary::HandleFloatingTabMovement(): any index, or none, for a pointer anywhere.
HandleFloatingTabMovement(v, index) == [v EXCEPT !.summary = index]

\* CHROME_SET_TAB_SUMMARY_VISIBILITY in ChromeWindow::on_client_event().
SetTabSummaryVisibility(v, visible) ==
  [v EXCEPT !.summary = IF ~visible THEN NoSummary ELSE IF @ = NoSummary THEN -1 ELSE @]

-----------------------------------------------------------------------------
ChromeStep(c) == chrome.steps < MaxChromeSteps /\ chrome' = [c EXCEPT !.steps = @ + 1]

\* The window that has the pointer.
Grabbing == {w \in Opened(chrome) : chrome.windows[w].dragging}

UserPresses(w) ==
  /\ Grabbing = {}
  /\ \E i \in 0..(Len(chrome.windows[w].tabs) - 1) :
       ChromeStep([chrome EXCEPT !.windows[w] = ButtonPress(@, i)])

UserMoves(w) ==
  /\ w \in Grabbing
  /\ \E i \in TabPositions(chrome.windows[w]), inBar \in BOOLEAN :
       /\ chrome.windows[w] # Motion(chrome.windows[w], i, inBar)
       /\ ChromeStep([chrome EXCEPT !.windows[w] = Motion(@, i, inBar)])

\* A window that was closed while the pointer was over it must not be used.
UserReleases(w) ==
  /\ w \in Grabbing
  /\ LET drops == chrome.windows[w].floating # NoTab
         new == IF drops /\ chrome.under = NoWindow THEN chrome.fresh ELSE {NoWindow}
     IN  /\ drops => chrome.under \in Opened(chrome) \cup {NoWindow}
         /\ \E n \in new : ChromeStep(ButtonRelease(chrome, w, n))

\* TabSummary::on_button_press_event().
UserPicksInSummary(w) ==
  /\ Grabbing = {} /\ chrome.windows[w].summary # NoSummary
  /\ \E i \in 0..(Len(chrome.windows[w].tabs) - 1) :
       ChromeStep([chrome EXCEPT !.windows[w] = ActivateTab(@, i)])

\* Button 2, in the window with the pointer.
UserCloses(w) ==
  /\ Grabbing \subseteq {w}
  /\ ChromeStep(CloseWindow(chrome, w))

\* The "w" key.
UserOpens ==
  \E w \in chrome.fresh : ChromeStep(CreateWindow(chrome, w, <<>>))

\* Messages about the floating tab, which may arrive when there is none any more.
WmMessage(w) ==
  \/ \E entered \in BOOLEAN : ChromeStep(NotifyAboutFloatingTab(chrome, w, entered))
  \/ \E visible \in BOOLEAN :
       ChromeStep([chrome EXCEPT !.windows[w] = SetTabSummaryVisibility(@, visible)])
  \/ /\ chrome.windows[w].summary # NoSummary
     /\ \E i \in -1..(Len(chrome.windows[w].tabs) + 1) :
          ChromeStep([chrome EXCEPT !.windows[w] = HandleFloatingTabMovement(@, i)])

-----------------------------------------------------------------------------
\* PanelTitlebar::on_button_press_event(); there is one button 1.
TitlebarPress(p) == IF p.mouseDown THEN p ELSE [p EXCEPT !.mouseDown = TRUE, !.dragging = FALSE]

\* PanelTitlebar::on_motion_notify_event(), beyond the threshold once or not.
TitlebarMotion(p, far) ==
  IF ~p.mouseDown THEN p
  ELSE IF p.dragging \/ far THEN [p EXCEPT !.dragging = TRUE, !.toWm = Append(@, "dragged")]
  ELSE p

\* PanelTitlebar::on_button_release_event(): a click asks for the opposite of the state that
\* was last heard of.
TitlebarRelease(p) ==
  IF ~p.mouseDown THEN p
  ELSE IF ~p.dragging
  THEN [p EXCEPT !.mouseDown = FALSE, !.toWm = Append(@, IF p.expanded THEN "collapse" ELSE "expand")]
  ELSE [p EXCEPT !.mouseDown = FALSE, !.dragging = FALSE, !.toWm = Append(@, "drag_complete")]

\* Mutant: the panel keeps the state that it was created with.
PanelIgnoresState(p) == [p EXCEPT !.toChrome = Tail(@)]

\* CHROME_NOTIFY_PANEL_STATE in Panel::on_client_event().
PanelHearsState(p) == [p EXCEPT !.expanded = Head(p.toChrome), !.toChrome = Tail(@)]

\* Panel::SetExpandedState() in the window manager, which sends a message only for a change.
ChangeExpandedState(p) ==
  [p EXCEPT !.shown = ~@, !.toChrome = Append(@, ~p.shown), !.told = TRUE]

\* PanelManager::HandleChromeMessage().  A request is ignored if the panel is in that state, in
\* no container or at the bottom of a dock; the end of a drag may expand or collapse it.
WmHandlesPanelMessage(p) ==
  LET m == Head(p.toWm)
      q == [p EXCEPT !.toWm = Tail(@),
                     !.dragged = IF m \in {"dragged", "drag_complete"} THEN m = "dragged" ELSE @]
      mayChange == \/ m = "drag_complete" /\ p.dragged
                   \/ m = IF p.shown THEN "collapse" ELSE "expand"
  IN  {q} \cup (IF mayChange THEN {ChangeExpandedState(q)} ELSE {})

\* The user at the titlebar, the messages, and the window manager, which also changes the state
\* by itself (a drag out of a container, a focus message, a neighbour in the dock that goes).
PanelStep ==
  LET p == chrome.panel IN
  \E q \in {TitlebarPress(p), TitlebarMotion(p, TRUE), TitlebarMotion(p, FALSE), TitlebarRelease(p),
            ChangeExpandedState(p)}
           \cup (IF p.toChrome = <<>> THEN {} ELSE {PanelHearsState(p)})
           \cup (IF p.toWm = <<>> THEN {} ELSE WmHandlesPanelMessage(p)) :
    q # p /\ ChromeStep([chrome EXCEPT !.panel = q])

\* Windows and panels are independent, and each behaviour is about one or the other.
ChromeNext ==
  \/ /\ chrome.panel \in {NewChromePanel(TRUE), NewChromePanel(FALSE)}
     /\ \/ \E w \in Opened(chrome) :
             \/ UserPresses(w) \/ UserMoves(w) \/ UserReleases(w)
             \/ UserPicksInSummary(w) \/ UserCloses(w) \/ WmMessage(w)
        \/ UserOpens
  \/ chrome.fresh # {} /\ chrome.lost = {} /\ Grabbing = {} /\ PanelStep

-----------------------------------------------------------------------------

\* A tab is never lost or doubled: whatever is dragged where, and however late the window
\* manager's messages about the floating tab are, every tab is in one window, or floating,
\* or was closed with a window.
TabsInOnePlace ==
  /\ Tabs = chrome.lost \cup UNION {HeldTabs(chrome.windows[w]) : w \in Opened(chrome)}
  /\ \A w \in Opened(chrome) :
       LET v == chrome.windows[w] IN
       /\ IsInjective(v.tabs) /\ ~Contains(v.tabs, v.floating)
       /\ HeldTabs(v) \cap chrome.lost = {}
       /\ \A x \in Opened(chrome) \ {w} : HeldTabs(v) \cap HeldTabs(chrome.windows[x]) = {}

\* The index that every drawing and drag goes by is that of a tab while there is one; and the
\* tab that follows the pointer is the one that the button went down on.
DragsPressedTab ==
  \A w \in Opened(chrome) :
    LET v == chrome.windows[w] IN
    /\ IF v.tabs = <<>> THEN v.active = -1 ELSE v.active \in 0..(Len(v.tabs) - 1)
    /\ v.dragging /\ v.floating = NoTab => v.tabs[v.active + 1] = v.pressed
    /\ v.floating # NoTab => v.floating = v.pressed

\* However clicks, changes by the window manager and their messages cross, the browser ends
\* up with the state that the panel is shown in, and the window manager knows of every drag
\* that ended.  The one exception is a panel that was created expanded and whose state the
\* window manager has never changed: Chrome takes it for a collapsed one.
PanelStateAgrees ==
  LET p == chrome.panel IN
  p.toWm = <<>> /\ p.toChrome = <<>> =>
    /\ p.expanded = p.shown \/ (p.shown /\ ~p.told)
    /\ p.dragged => p.dragging

\* Chrome and the window manager, and Chrome's own windows, agree about tabs and panels.
ChromeAgrees == TabsInOnePlace /\ DragsPressedTab /\ PanelStateAgrees
=============================================================================
