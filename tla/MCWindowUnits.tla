----------------------------- MODULE MCWindowUnits -----------------------------
(***************************************************************************)
(* The parts of the window system that are checked one at a time: a        *)
(* behaviour picks one, "unit", and the others stay as they start.         *)
(***************************************************************************)
EXTENDS RealXConnection, TidyInterface, Window, MockChrome, EventConsumers

VARIABLE unit

vars == <<unit, takeover, conn, tidy, stack, win, chrome, consumers, overlay>>

MCSelections == <<"WM_S0", "_NET_WM_CM_S0">>

\* Two keys of one modifier and one of another.
MCOverlayKeys == {<<"left", "ctrl">>, <<"right", "ctrl">>, <<"left", "alt">>}

MCProperties ==
  {[format |-> 0, items |-> <<>>], [format |-> 8, items |-> <<1>>],
   [format |-> 32, items |-> <<>>], [format |-> 32, items |-> <<1, 2>>]}

\* A client that asks for increments from its base or minimum size, and one that does not.
MCSizeHints ==
  [width : {0}, min : {0, 2}, max : {4}, base : {0, 1}, inc : {2}]
    \cup [width : {3}, min : {2}, max : {0, 4}, base : {0}, inc : {0}]

\* A unit that is not picked starts in one of its initial states.
MCInit ==
  /\ unit \in {"selection", "connection", "tidy", "stacking", "window", "chrome",
               "consumers", "overlay"}
  /\ SelInit /\ (unit = "selection" \/ \A i \in DOMAIN Selections : takeover.owner[i] = NoOwner)
  /\ ConnInit
  /\ TidyInit /\ (unit = "tidy" \/ tidy.xwin.alpha)
  /\ StackInit
  /\ WinInit /\ (unit = "window" \/ (win.override /\ win.x = -1 /\ win.xwidth = 1))
  /\ ChromeInit
  /\ \/ unit = "chrome"
     \/ chrome.panel.shown /\ Opened(chrome) = {CHOOSE w \in ChromeWindows : TRUE}
  /\ ConsumersInit
  /\ OverlayInit /\ (unit = "overlay" \/ \A key \in OverlayKeys : overlay.map[key] = 0)

SelectionUnit(step) ==
  unit = "selection" /\ step /\ UNCHANGED <<unit, conn, tidy, stack, win, chrome, consumers, overlay>>

MCNext ==
  \/ SelectionUnit(SelNext)
  \/ unit = "connection" /\ ConnNext /\ UNCHANGED <<unit, takeover, tidy, stack, win, chrome, consumers, overlay>>
  \/ unit = "tidy" /\ TidyNext /\ UNCHANGED <<unit, takeover, conn, stack, win, chrome, consumers, overlay>>
  \/ unit = "stacking" /\ StackNext /\ UNCHANGED <<unit, takeover, conn, tidy, win, chrome, consumers, overlay>>
  \/ unit = "window" /\ WinNext /\ UNCHANGED <<unit, takeover, conn, tidy, stack, chrome, consumers, overlay>>
  \/ unit = "chrome" /\ ChromeNext /\ UNCHANGED <<unit, takeover, conn, tidy, stack, win, consumers, overlay>>
  \/ unit = "consumers" /\ ConsumersNext /\ UNCHANGED <<unit, takeover, conn, tidy, stack, win, chrome, overlay>>
  \/ unit = "overlay" /\ OverlayNext /\ UNCHANGED <<unit, takeover, conn, tidy, stack, win, chrome, consumers>>

\* Our process runs on, and a manager that lost a selection quits.
MCSpec ==
  /\ MCInit /\ [][MCNext]_vars
  /\ WF_vars(SelectionUnit(OurStep))
  /\ \A w \in Olds \cup {Rival} : WF_vars(SelectionUnit(OldManagerQuits(w)))

\* TakeoverEnds, of the behaviours that take over: RegisterExistence() returns, unless an
\* owner went away between GetSelectionOwner() and SelectInputOnWindow().
RegisterExistenceReturns == unit = "selection" => TakeoverEnds
===============================================================================
