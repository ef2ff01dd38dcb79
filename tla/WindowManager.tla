---------------------------- MODULE WindowManager ----------------------------
(***************************************************************************)
(* The core of the window manager (window_manager/window_manager.cc): it   *)
(* takes over the windows that exist when it starts, and from then on      *)
(* follows them through the events of the X server, which arrive late and  *)
(* tell of windows that may be gone by then.  Clients act at any time,     *)
(* between any two requests of the window manager.                         *)
(*                                                                         *)
(* The two managers that consume the windows are models of their own       *)
(* (LayoutManager, PanelManager); here a consumer maps, raises and focuses *)
(* a window and counts how often it was told of it.                        *)
(***************************************************************************)
EXTENDS WmUtil

-----------------------------------------------------------------------------
(* The X server as the window manager sees it: the windows, the stacking   *)
(* order of the root window's children and the properties the window       *)
(* manager keeps on them.  The operators are those of the repository's own *)
(* stand-in for the server, window_manager/mock_x_connection.{h,cc}; each  *)
(* maps a server to a server, and a request about a window that does not   *)
(* exist changes nothing.  Geometry, cursors and pixmaps are left out.     *)

CONSTANTS Xids, None, Root, Elsewhere   \* windows; no window; the parents a window has

ASSUME ParentsAssumption == Root # Elsewhere

\* A window that was never created, or that is gone: its id is not used again.
NoWindow == [exists |-> FALSE, parent |-> None, mapped |-> FALSE, override |-> FALSE,
             inputOnly |-> FALSE, wmState |-> None]

\* The WindowInfo of a new window: unmapped, without properties.
WindowInfo(parent, override, inputOnly) ==
  [NoWindow EXCEPT !.exists = TRUE, !.parent = parent, !.override = override,
                   !.inputOnly = inputOnly]

\* The server a session starts with; "used" are the ids that were
\* handed out, "events" what the window manager has not yet read.
Server == [win |-> [x \in Xids |-> NoWindow], order |-> <<>>, used |-> {}, focused |-> None,
           selected |-> FALSE, events |-> <<>>, clients |-> <<>>, stacking |-> <<>>, active |-> None]

\* GetWindowInfo(): is there such a window?
Exists(s, x) == x \in Xids /\ s.win[x].exists

\* CreateWindow(): a fresh id, on top of its siblings.
CreateWindow(s, x, override, inputOnly) ==
  [s EXCEPT !.win[x] = WindowInfo(Root, override, inputOnly), !.used = @ \cup {x},
            !.order = AddOnTop(@, x)]

\* DestroyWindow(): the window leaves the order and loses the focus.  Its kind stays
\* readable for a client that fetched the attributes before.
DestroyWindow(s, x) ==
  IF ~Exists(s, x) THEN s
  ELSE [s EXCEPT !.win[x] = [NoWindow EXCEPT !.override = s.win[x].override], !.order = TakeOut(@, x),
                 !.focused = IF @ = x THEN None ELSE @]

\* MapWindow() and UnmapWindow().
MapWindow(s, x) == IF Exists(s, x) THEN [s EXCEPT !.win[x].mapped = TRUE] ELSE s
UnmapWindow(s, x) ==
  IF ~Exists(s, x) THEN s
  ELSE [s EXCEPT !.win[x].mapped = FALSE, !.focused = IF @ = x THEN None ELSE @]

\* FocusWindow().
FocusWindow(s, x) == IF Exists(s, x) THEN [s EXCEPT !.focused = x] ELSE s

\* RaiseWindow(), and StackWindow() directly above another window.
RaiseWindow(s, x) ==
  IF ~Contains(s.order, x) THEN s ELSE [s EXCEPT !.order = AddOnTop(TakeOut(@, x), x)]
StackWindow(s, x, other) ==
  IF ~Contains(s.order, x) \/ ~Contains(s.order, other) THEN s
  ELSE [s EXCEPT !.order = AddAbove(TakeOut(@, x), x, other)]

\* XLowerWindow(), which only clients call.
LowerWindow(s, x) == [s EXCEPT !.order = AddOnBottom(TakeOut(@, x), x)]

\* XReparentWindow(): a child of the root is stacked on top of the others; the
\* stand-in ignores the request.
ReparentWindow(s, x, parent) ==
  [s EXCEPT !.win[x].parent = parent, !.win[x].mapped = FALSE,
            !.focused = IF @ = x THEN None ELSE @,
            !.order = IF parent = Root THEN AddOnTop(TakeOut(@, x), x) ELSE TakeOut(@, x)]

\* GetChildWindows(): the root's children, the bottom one first, as XQueryTree() has them.
GetChildWindows(s) == Reverse(s.order)

\* GetWindowAttributes(): the class and the map state of a window that exists.
IsInputOnly(s, x) == Exists(s, x) /\ s.win[x].inputOnly
IsViewable(s, x) == Exists(s, x) /\ s.win[x].mapped

\* SetIntArrayProperty() on the root window and on a client window; an empty list
\* stands for the property DeletePropertyIfExists() removed.
SetRootProperty(s, property, values) == [s EXCEPT ![property] = values]
SetWmState(s, x, state) == IF Exists(s, x) THEN [s EXCEPT !.win[x].wmState = state] ELSE s

-----------------------------------------------------------------------------
(* The events the window manager handles. *)

\* An event goes to the window manager once it has selected them on the root window.
Send(s, e) == IF s.selected THEN [s EXCEPT !.events = Append(@, e)] ELSE s
SelectInput(s) == [s EXCEPT !.selected = TRUE]

CreateEvent(s, x) == [type |-> "CreateNotify", window |-> x, parent |-> s.win[x].parent,
                      override |-> s.win[x].override]
DestroyEvent(x) == [type |-> "DestroyNotify", window |-> x]
MapEvent(x) == [type |-> "MapNotify", window |-> x]
MapRequestEvent(x) == [type |-> "MapRequest", window |-> x]
UnmapEvent(x) == [type |-> "UnmapNotify", window |-> x]
FocusInEvent(x) == [type |-> "FocusIn", window |-> x]
\* ConfigureNotify names the sibling under the window in the new order.
ConfigureEvent(s, x) == [type |-> "ConfigureNotify", window |-> x,
                         above |-> GetUnder(s.order, x, None)]
ReparentEvent(x, parent) == [type |-> "ReparentNotify", window |-> x, parent |-> parent]

-----------------------------------------------------------------------------
(* The window manager.                                                     *)

CONSTANT MaxSteps      \* bound on what the clients do

VARIABLES server,      \* the X server, with the events on their way
          wm,          \* the window manager's own state
          phase,       \* how far Init() has come
          found,       \* the windows ManageExistingWindows() has yet to take over
          reparented,  \* history: windows that changed parents since SelectEvents
          disturbed,   \* history: a window was restacked or left before the loop started
          steps        \* what the clients did so far

vars == <<server, wm, phase, found, reparented, disturbed, steps>>

\* The servers the window manager may find: no window, or two, of which one may be
\* mapped and either may override the manager.
Found(x, y, k, l, m) ==
  LET s == CreateWindow(CreateWindow(Server, x, k, FALSE), y, l, FALSE)
  IN  IF m THEN MapWindow(s, x) ELSE s
Existing ==
  {Server} \cup {Found(p[1], p[2], k, l, m) : p \in {q \in Xids \X Xids : q[1] # q[2]},
                                              k \in BOOLEAN, l \in BOOLEAN, m \in BOOLEAN}

\* A Window object, and the lack of one.
Untracked == [tracked |-> FALSE, mapped |-> FALSE, override |-> FALSE, redirected |-> FALSE]
Window(override) == [Untracked EXCEPT !.tracked = TRUE, !.override = override]

\* The window manager before ManageExistingWindows().  "managed" counts the
\* consumers' HandleWindowMap() calls without a HandleWindowUnmap().
Manager == [client |-> [x \in Xids |-> Untracked], stacked |-> <<>>, mappedXids |-> <<>>,
            active |-> None, actors |-> <<>>, managed |-> [x \in Xids |-> 0]]

\* A desktop: the server and the window manager, which a handler changes together.
Desktop == [server |-> server, wm |-> wm]

\* GetWindow().
IsTracked(d, x) == d.wm.client[x].tracked

-----------------------------------------------------------------------------
(* What clients ask of the server; Send() is the server's part. *)

\* The server maps a window that is unmapped; the root window's events are about its
\* children.
Maps(s, x) ==
  IF ~Exists(s, x) \/ s.win[x].mapped THEN s
  ELSE IF s.win[x].parent = Root THEN Send(MapWindow(s, x), MapEvent(x)) ELSE MapWindow(s, x)

\* XMapWindow(): the window manager is asked first, unless the window overrides it.
ClientMaps(s, x) ==
  IF s.selected /\ ~s.win[x].override /\ s.win[x].parent = Root
  THEN Send(s, MapRequestEvent(x)) ELSE Maps(s, x)

\* XUnmapWindow() of a mapped child of the root window.
Unmaps(s, x) ==
  IF s.win[x].mapped /\ s.win[x].parent = Root
  THEN Send(UnmapWindow(s, x), UnmapEvent(x)) ELSE UnmapWindow(s, x)

\* XDestroyWindow() unmaps the window first.
Destroys(s, x) ==
  LET t == Unmaps(s, x) IN
  IF s.win[x].parent = Root THEN Send(DestroyWindow(t, x), DestroyEvent(x))
  ELSE DestroyWindow(t, x)

\* XReparentWindow() unmaps a mapped window and maps it again under its new parent.
Reparents(s, x, parent) ==
  LET t == Send(ReparentWindow(Unmaps(s, x), x, parent), ReparentEvent(x, parent))
  IN IF s.win[x].mapped THEN ClientMaps(t, x) ELSE t

\* A restacking request; there is an event if the order changed.
Restacked(s, t, x) == IF t.order = s.order THEN s ELSE Send(t, ConfigureEvent(t, x))

-----------------------------------------------------------------------------
(* The client lists on the root window, and the consumers. *)

\* Windows that belong into the lists.
IsListed(d, x) == LET w == d.wm.client[x] IN w.tracked /\ w.mapped /\ ~w.override

\* UpdateClientListProperty(): the least recently mapped window first.
UpdateClientListProperty(d) ==
  [d EXCEPT !.server = SetRootProperty(@, "clients",
     SelectSeq(Reverse(d.wm.mappedXids), LAMBDA x : IsListed(d, x)))]

\* UpdateClientListStackingProperty(): the bottom window first.
UpdateClientListStackingProperty(d) ==
  [d EXCEPT !.server = SetRootProperty(@, "stacking",
     SelectSeq(Reverse(d.wm.stacked), LAMBDA x : IsListed(d, x)))]

\* SetActiveWindowProperty().
SetActiveWindowProperty(d, x) ==
  IF d.wm.active = x THEN d
  ELSE [d EXCEPT !.server = SetRootProperty(@, "active", x), !.wm.active = x]

\* SetWmStateProperty().
SetWmStateProperty(d, x, state) == [d EXCEPT !.server = SetWmState(@, x, state)]

\* A consumer's HandleWindowMap() takes the window, and focuses one that is not
\* override-redirect.
ConsumeMap(d, x) ==
  LET t == [d EXCEPT !.wm.managed[x] = @ + 1] IN
  IF d.wm.client[x].override \/ ~IsViewable(d.server, x) THEN t
  ELSE [t EXCEPT !.server = Send(FocusWindow(@, x), FocusInEvent(x))]

\* A consumer's HandleWindowUnmap() lets go of a window it took.
ConsumeUnmap(d, x) == [d EXCEPT !.wm.managed[x] = IF @ = 0 THEN 0 ELSE @ - 1]

\* A consumer's HandleWindowMapRequest() stacks the window and maps it.
ConsumeMapRequest(d, x) ==
  [d EXCEPT !.server = Maps(Restacked(@, RaiseWindow(@, x), x), x)]

-----------------------------------------------------------------------------
(* Taking windows over, and the event handlers. *)

\* TrackWindow(): no object for an InputOnly window, nor a second one; the actor of a
\* new window is on top of the stage.
TrackWindow(d, x, override) ==
  IF IsInputOnly(d.server, x) \/ IsTracked(d, x) THEN d
  ELSE [d EXCEPT !.wm.client[x] = Window(override), !.wm.actors = AddOnTop(@, x)]

\* HandleMappedWindow().
HandleMappedWindow(d, x) ==
  LET listed ==
        IF d.wm.client[x].override \/ Contains(d.wm.mappedXids, x) THEN d
        ELSE UpdateClientListStackingProperty(UpdateClientListProperty(
               [d EXCEPT !.wm.mappedXids = AddOnTop(@, x)]))
      redirected == [listed EXCEPT !.wm.client[x].redirected = TRUE]
  IN ConsumeMap(SetWmStateProperty(redirected, x, "normal"), x)

\* Mutant: a new window enters the order where windows that were there before belong.
CreateNotifyAtBottom(d, e) ==
  IF IsTracked(d, e.window) \/ e.parent # Root THEN d
  ELSE LET t == [d EXCEPT !.wm.stacked = AddOnBottom(@, e.window)] IN
       IF Exists(d.server, e.window) THEN TrackWindow(t, e.window, e.override) ELSE t

\* HandleCreateNotify(): a window that is known, or not a child of the root, is left
\* alone; one that is gone already only enters the order.
HandleCreateNotify(d, e) ==
  IF IsTracked(d, e.window) \/ e.parent # Root THEN d
  ELSE LET t == [d EXCEPT !.wm.stacked = AddOnTop(@, e.window)] IN
       IF Exists(d.server, e.window) THEN TrackWindow(t, e.window, e.override) ELSE t

\* The Window object is deleted, and its actor with it.
Untrack(d, x) == [d EXCEPT !.wm.client[x] = Untracked, !.wm.actors = TakeOut(@, x)]

\* HandleDestroyNotify(): the stacking list is written while the window is still known.
HandleDestroyNotify(d, e) ==
  LET x == e.window
      t == [d EXCEPT !.wm.stacked = TakeOut(@, x)]
  IN IF ~IsTracked(d, x) THEN t
     ELSE Untrack(IF d.wm.client[x].override THEN t ELSE UpdateClientListStackingProperty(t), x)

\* Mutant: the map of a window is handled whenever it is notified.
MapNotifyAgain(d, e) ==
  IF ~IsTracked(d, e.window) THEN d
  ELSE HandleMappedWindow([d EXCEPT !.wm.client[e.window].mapped = TRUE], e.window)

\* HandleMapNotify(): a window that ManageExistingWindows() saw mapped is not handled again.
HandleMapNotify(d, e) ==
  IF ~IsTracked(d, e.window) \/ d.wm.client[e.window].mapped THEN d
  ELSE HandleMappedWindow([d EXCEPT !.wm.client[e.window].mapped = TRUE], e.window)

\* HandleMapRequest(): a window without an object is mapped all the same.
HandleMapRequest(d, e) ==
  LET x == e.window IN
  IF ~IsTracked(d, x) THEN [d EXCEPT !.server = Maps(@, x)]
  ELSE ConsumeMapRequest([d EXCEPT !.wm.client[x].redirected = TRUE], x)

\* The first part of HandleUnmapNotify(): consumers are told whether or not they had
\* been told of a map, and the lists lose the window.
Withdraw(d, x) ==
  LET told == ConsumeUnmap([SetWmStateProperty(d, x, "withdrawn")
                              EXCEPT !.wm.client[x].mapped = FALSE], x)
  IN IF ~Contains(told.wm.mappedXids, x) THEN told
     ELSE UpdateClientListStackingProperty(UpdateClientListProperty(
            [told EXCEPT !.wm.mappedXids = TakeOut(@, x)]))

\* Mutant: windows that are not in the lists are left alone.
UnmapNotifyListed(d, e) ==
  IF ~Contains(d.wm.mappedXids, e.window) THEN d ELSE Withdraw(d, e.window)

\* Mutant: the active window stays.
UnmapNotifyActive(d, e) == IF IsTracked(d, e.window) THEN Withdraw(d, e.window) ELSE d

\* HandleUnmapNotify().
HandleUnmapNotify(d, e) ==
  LET t == Withdraw(d, e.window) IN
  IF ~IsTracked(d, e.window) THEN d
  ELSE IF t.wm.active = e.window THEN SetActiveWindowProperty(t, None) ELSE t

\* HandleFocusChange(): a consumer that has the window makes it the active one.
HandleFocusChange(d, e) ==
  IF d.wm.managed[e.window] = 0 THEN d ELSE SetActiveWindowProperty(d, e.window)

\* Mutant: a window that left keeps its object.
ReparentNotifyKeeps(d, e) ==
  IF e.parent = Root THEN [d EXCEPT !.wm.stacked = AddOnTop(@, e.window)]
  ELSE UpdateClientListStackingProperty([d EXCEPT !.wm.stacked = TakeOut(@, e.window)])

\* HandleReparentNotify(): a new child of the root only enters the order; a window
\* that left is forgotten.
HandleReparentNotify(d, e) ==
  LET x == e.window
      t == [d EXCEPT !.wm.stacked = TakeOut(@, x)]
      u == IF ~Contains(t.wm.mappedXids, x) THEN t
           ELSE UpdateClientListProperty([t EXCEPT !.wm.mappedXids = TakeOut(@, x)])
      v == IF d.wm.client[x].override THEN u ELSE UpdateClientListStackingProperty(u)
  IN IF e.parent = Root THEN [d EXCEPT !.wm.stacked = AddOnTop(@, x)]
     ELSE IF ~Contains(d.wm.stacked, x) THEN d
     ELSE IF ~IsTracked(d, x) THEN u
     ELSE Untrack(IF v.wm.client[x].mapped THEN ConsumeUnmap(v, x) ELSE v, x)

\* HandleConfigureNotify(), its first part: the place of the window in the order.  A
\* sibling that is not known puts the window at the bottom.
FollowStacking(d, e) ==
  LET rest == TakeOut(d.wm.stacked, e.window) IN
  IF GetUnder(d.wm.stacked, e.window, None) = e.above THEN d
  ELSE IF e.above # None /\ Contains(rest, e.above)
  THEN [d EXCEPT !.wm.stacked = AddAbove(rest, e.window, e.above)]
  ELSE [d EXCEPT !.wm.stacked = AddOnBottom(rest, e.window)]

\* The actor HandleConfigureNotify() puts an override-redirect window's actor above:
\* that of the first tracked window at or under the sibling.
ActorUnder(d, above) ==
  LET from == IF Contains(d.wm.stacked, above) THEN GetIndex(d.wm.stacked, above) ELSE 1
      below == IF above = None \/ ~Contains(d.wm.stacked, above) THEN <<>>
               ELSE SelectSeq(SubSeq(d.wm.stacked, from, Len(d.wm.stacked)),
                              LAMBDA x : IsTracked(d, x))
  IN IF below = <<>> THEN None ELSE Head(below)

\* HandleConfigureNotify().
HandleConfigureNotify(d, e) ==
  LET x == e.window
      t == FollowStacking(d, e)
      under == ActorUnder(t, e.above)
  IN IF ~Contains(d.wm.stacked, x) THEN d
     ELSE IF ~IsTracked(d, x) THEN t
     ELSE IF ~d.wm.client[x].override
     THEN IF t.wm.stacked = d.wm.stacked THEN t ELSE UpdateClientListStackingProperty(t)
     ELSE IF under \in {None, x} THEN t
     ELSE [t EXCEPT !.wm.actors = AddAbove(TakeOut(@, x), x, under)]

\* HandleEvent().
HandleEvent(d, e) ==
  CASE e.type = "CreateNotify" -> HandleCreateNotify(d, e)
    [] e.type = "DestroyNotify" -> HandleDestroyNotify(d, e)
    [] e.type = "MapNotify" -> HandleMapNotify(d, e)
    [] e.type = "MapRequest" -> HandleMapRequest(d, e)
    [] e.type = "UnmapNotify" -> HandleUnmapNotify(d, e)
    [] e.type = "FocusIn" -> HandleFocusChange(d, e)
    [] e.type = "ReparentNotify" -> HandleReparentNotify(d, e)
    [] e.type = "ConfigureNotify" -> HandleConfigureNotify(d, e)

-----------------------------------------------------------------------------
(* The specification. *)

Init ==
  /\ server \in Existing
  /\ wm = Manager
  /\ phase = "starting"
  /\ found = <<>>
  /\ reparented = {}
  /\ disturbed = FALSE
  /\ steps = 0

Becomes(d) == server' = d.server /\ wm' = d.wm

\* Init() selects the events of the root window before it asks for its children, "so
\* there's no period where new windows could sneak in unnoticed".
SelectEvents ==
  /\ phase = "starting"
  /\ server' = SelectInput(server)
  /\ phase' = "selected"
  /\ UNCHANGED <<wm, found, reparented, disturbed, steps>>

\* ManageExistingWindows() asks for the children.
QueryWindows ==
  /\ phase = "selected"
  /\ found' = GetChildWindows(server)
  /\ phase' = "managing"
  /\ UNCHANGED <<server, wm, reparented, disturbed, steps>>

\* The next window: one that is gone is skipped.
EnterWindow ==
  /\ phase = "managing" /\ found # <<>>
  /\ IF Exists(server, Head(found))
     THEN /\ wm' = [wm EXCEPT !.stacked = AddOnTop(@, Head(found))]
          /\ phase' = "entered" /\ UNCHANGED found
     ELSE found' = Tail(found) /\ UNCHANGED <<wm, phase>>
  /\ UNCHANGED <<server, reparented, disturbed, steps>>

\* Other requests later it is tracked, and handled as mapped if it is mapped by then.
ManageWindow ==
  /\ phase = "entered"
  /\ LET x == Head(found)
         d == TrackWindow(Desktop, x, server.win[x].override)
     IN IF IsTracked(d, x) /\ IsViewable(server, x)
        THEN Becomes(HandleMappedWindow([d EXCEPT !.wm.client[x].mapped = TRUE], x))
        ELSE Becomes(d)
  /\ found' = Tail(found)
  /\ phase' = "managing"
  /\ UNCHANGED <<reparented, disturbed, steps>>

\* ManageExistingWindows() ends; the event loop starts.
StartLoop ==
  /\ phase = "managing" /\ found = <<>>
  /\ Becomes(UpdateClientListStackingProperty(Desktop))
  /\ phase' = "running"
  /\ UNCHANGED <<found, reparented, disturbed, steps>>

\* One turn of the event loop.
ReadEvent ==
  /\ phase = "running" /\ server.events # <<>>
  /\ Becomes(HandleEvent([Desktop EXCEPT !.server.events = Tail(@)], Head(server.events)))
  /\ UNCHANGED <<phase, found, reparented, disturbed, steps>>

ClientStep == steps < MaxSteps /\ steps' = steps + 1 /\ UNCHANGED <<wm, phase, found>>
Disturbs == disturbed' = (disturbed \/ (server.selected /\ phase # "running"))

ClientCreates(x, override, inputOnly) ==
  /\ ClientStep
  /\ x \notin server.used
  /\ server' = LET s == CreateWindow(server, x, override, inputOnly) IN Send(s, CreateEvent(s, x))
  /\ UNCHANGED <<reparented, disturbed>>

ClientMapsWindow(x) ==
  /\ ClientStep
  /\ Exists(server, x) /\ ~server.win[x].mapped
  /\ server' = ClientMaps(server, x)
  /\ UNCHANGED <<reparented, disturbed>>

ClientUnmapsWindow(x) ==
  /\ ClientStep
  /\ IsViewable(server, x)
  /\ server' = Unmaps(server, x)
  /\ UNCHANGED <<reparented, disturbed>>

ClientDestroysWindow(x) ==
  /\ ClientStep
  /\ Exists(server, x)
  /\ server' = Destroys(server, x)
  /\ Disturbs /\ UNCHANGED reparented

ClientReparentsWindow(x) ==
  /\ ClientStep
  /\ Exists(server, x)
  /\ server' = Reparents(server, x, IF server.win[x].parent = Root THEN Elsewhere ELSE Root)
  /\ reparented' = IF server.selected THEN reparented \cup {x} ELSE reparented
  /\ Disturbs

\* A client restacks its window itself if it is override-redirect; another's request
\* goes to the window manager, which leaves the order as it is.
ClientStacksWindow(x) ==
  /\ ClientStep
  /\ Exists(server, x) /\ server.win[x].parent = Root /\ server.win[x].override
  /\ \E t \in {LowerWindow(server, x)} \cup {StackWindow(server, x, y) : y \in Xids \ {x}} :
       /\ t.order # server.order
       /\ server' = Restacked(server, t, x)
  /\ Disturbs /\ UNCHANGED reparented

Next ==
  \/ SelectEvents \/ QueryWindows \/ EnterWindow \/ ManageWindow \/ StartLoop \/ ReadEvent
  \/ \E x \in Xids :
       \/ \E override, inputOnly \in BOOLEAN : ClientCreates(x, override, inputOnly)
       \/ ClientMapsWindow(x) \/ ClientUnmapsWindow(x) \/ ClientDestroysWindow(x)
       \/ ClientReparentsWindow(x) \/ ClientStacksWindow(x)

Spec == Init /\ [][Next]_vars

Symmetry == Permutations(Xids)

-----------------------------------------------------------------------------
(* Properties. *)

\* Nothing is on its way, and the window manager has started.
AtRest == phase = "running" /\ server.events = <<>>

\* However the events of a window mix with the query at startup, the consumers are
\* never told twice that it was mapped ("HandleMapNotify() are careful to bail out
\* early", window_manager.cc, Init()).
MappedOnce == \A x \in Xids : wm.managed[x] <= 1

\* When a DestroyNotify is handled no consumer holds the window any more, which
\* HandleDestroyNotify() DCHECKs.
ReleasedBeforeDestroyed ==
  phase = "running" /\ server.events # <<>> /\ Head(server.events).type = "DestroyNotify"
    => wm.managed[Head(server.events).window] = 0

\* Once all events are handled, the window manager tracks windows the root window has,
\* and all of them but InputOnly ones and ones reparented in the meantime: none sneaks
\* in unnoticed between the selection of the events and the query.
TracksRootChildren ==
  AtRest => \A x \in Xids :
    LET child == Exists(server, x) /\ server.win[x].parent = Root /\ ~server.win[x].inputOnly
    IN /\ wm.client[x].tracked => child
       /\ child /\ x \notin reparented => wm.client[x].tracked
       /\ wm.client[x].tracked => wm.client[x].mapped = server.win[x].mapped

\* Once all events are handled, _NET_CLIENT_LIST names each mapped window that is
\* tracked and not override-redirect once, each of them is in the normal state, and
\* the active window is one of them.
ClientListIsCurrent ==
  AtRest =>
    LET mapped == {x \in Xids : wm.client[x].tracked /\ server.win[x].mapped
                                  /\ ~server.win[x].override}
    IN /\ ToSet(server.clients) = mapped /\ IsInjective(server.clients)
       /\ \A x \in mapped : server.win[x].wmState = "normal"
       /\ server.active \in mapped \cup {None}

\* Once all events are handled, the order the window manager keeps is the server's, and
\* so is _NET_CLIENT_LIST_STACKING, although the events tell of it one window at a time
\* and start before the query.  The exception is a window that is restacked or leaves
\* between the selection and the start of the loop.
StackingIsServers ==
  AtRest /\ ~disturbed =>
    /\ wm.stacked = server.order
    /\ server.stacking = SelectSeq(GetChildWindows(server), LAMBDA x : IsListed(Desktop, x))

\* A consumer hears of the map and the unmap of a window in turn, and of both before
\* the window is gone.
ToldInTurn == MappedOnce /\ ReleasedBeforeDestroyed

\* The window manager's picture of the desktop, and what it tells pagers of it.
KnowsTheDesktop == TracksRootChildren /\ ClientListIsCurrent /\ StackingIsServers
=============================================================================
