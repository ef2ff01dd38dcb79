---------------------------- MODULE EventConsumers ----------------------------
(***************************************************************************)
(* How WindowManager hands events on: the maps from windows, properties    *)
(* and Chrome messages to the event consumers, which the layout and panel  *)
(* managers' objects fill and empty through event_consumer_registrar.cc;   *)
(* and, as a part of its own, hotkey_overlay.cc with its keyboard timer.   *)
(***************************************************************************)
EXTENDS Integers

CONSTANTS ConsumerXids,     \* client windows, the titlebars of panels included
          MaxConsumerSteps, \* bound on maps, unmaps and events
          OverlayKeys,      \* modifier keys, of {"left", "right"} \X {"ctrl", "alt", "shift"}
          Keycodes,         \* what they may be mapped to; 0 stands for none
          MaxOverlaySteps   \* bound on toggles, keys and events

\* No window is none of them.
ASSUME ConsumerAssumption == "none" \notin ConsumerXids

\* The image of no key is not that of a modifier.
ASSUME OverlayAssumption ==
  /\ \A key \in OverlayKeys : key[2] # "none"
  /\ 0 \notin Keycodes

VARIABLES consumers, overlay

\* Windows of clients, and the input windows of the objects.
Client(x) == <<"client", x>>
Input(o, i) == <<"input", o, i>>
PropertyOf(x, atom) == <<"property", x, atom>>

\* The managers are objects, too: their registrations last.
LayoutManagerObject == <<"layout", "">>
PanelManagerObject == <<"panels", "">>
Toplevel(x) == <<"toplevel", x>>
PanelOf(x) == <<"panel", x>>
Consumer(o) == IF o[1] \in {"layout", "toplevel"} THEN "layout" ELSE "panels"

\* A set of consumers per key; a key without consumers is not in the map.  The loops over
\* windows, properties and messages register each of them in turn, in an order that is
\* of no consequence: what one call does is what these do for a set of one key.
Register(m, keys, c) ==
  [k \in DOMAIN m \cup keys |-> (IF k \in DOMAIN m THEN m[k] ELSE {}) \cup (IF k \in keys THEN {c} ELSE {})]
Unregister(m, keys, c) ==
  [k \in {j \in DOMAIN m : j \notin keys \/ m[j] # {c}} |-> IF k \in keys THEN m[k] \ {c} ELSE m[k]]

RegisterEventConsumerForWindowEvents(s, xids, c) == [s EXCEPT !.window = Register(@, xids, c)]
UnregisterEventConsumerForWindowEvents(s, xids, c) == [s EXCEPT !.window = Unregister(@, xids, c)]
RegisterEventConsumerForPropertyChanges(s, ps, c) == [s EXCEPT !.property = Register(@, ps, c)]
UnregisterEventConsumerForPropertyChanges(s, ps, c) == [s EXCEPT !.property = Unregister(@, ps, c)]
RegisterEventConsumerForChromeMessages(s, ts, c) == [s EXCEPT !.message = Register(@, ts, c)]
UnregisterEventConsumerForChromeMessages(s, ts, c) == [s EXCEPT !.message = Unregister(@, ts, c)]

\* An EventConsumerRegistrar remembers what it registered; they are kept by object.
NewRegistrar(s, o) ==
  [s EXCEPT !.registrars = [p \in DOMAIN @ \cup {o} |->
     IF p = o THEN [xids |-> {}, properties |-> {}, messages |-> {}] ELSE @[p]]]
RegisterForWindowEvents(s, o, xids) ==
  [RegisterEventConsumerForWindowEvents(s, xids, Consumer(o)) EXCEPT !.registrars[o].xids = @ \cup xids]
RegisterForPropertyChanges(s, o, ps) ==
  [RegisterEventConsumerForPropertyChanges(s, ps, Consumer(o)) EXCEPT !.registrars[o].properties = @ \cup ps]
RegisterForChromeMessages(s, o, ts) ==
  [RegisterEventConsumerForChromeMessages(s, ts, Consumer(o)) EXCEPT !.registrars[o].messages = @ \cup ts]

\* ~EventConsumerRegistrar().
DestroyRegistrar(s, o) ==
  LET r == s.registrars[o]
      windows == UnregisterEventConsumerForWindowEvents(s, r.xids, Consumer(o))
      properties == UnregisterEventConsumerForPropertyChanges(windows, r.properties, Consumer(o))
      all == UnregisterEventConsumerForChromeMessages(properties, r.messages, Consumer(o))
  IN  [all EXCEPT !.registrars = [p \in DOMAIN @ \ {o} |-> @[p]]]

-----------------------------------------------------------------------------
\* The input windows of an object.
InputCount(o) == IF o[1] = "panel" THEN 5 ELSE IF o[1] = "panels" THEN 4 ELSE 1
InputsOf(o) == {Input(o, i) : i \in 1..InputCount(o)}

\* The constructors.  PanelBar and PanelDock have registrars of their own, which live as
\* long as the panel manager's and count as its.
NewLayoutManager(s) ==
  LET o == LayoutManagerObject
      messages == {"WM_MOVE_FLOATING_TAB", "WM_SWITCH_TO_OVERVIEW_MODE"}
  IN  RegisterForWindowEvents(RegisterForChromeMessages(NewRegistrar(s, o), o, messages), o, InputsOf(o))
NewPanelManager(s) ==
  LET o == PanelManagerObject
      messages == {"WM_SET_PANEL_STATE", "WM_NOTIFY_PANEL_DRAGGED", "WM_NOTIFY_PANEL_DRAG_COMPLETE"}
  IN  RegisterForWindowEvents(RegisterForChromeMessages(NewRegistrar(s, o), o, messages), o, InputsOf(o))

NewToplevelWindow(s, x) ==
  LET o == Toplevel(x)
  IN  RegisterForWindowEvents(NewRegistrar(s, o), o, {Client(x)} \cup InputsOf(o))

NewPanel(s, x, titlebar) ==
  LET o == PanelOf(x)
      windows == {Client(x), Client(titlebar)} \cup InputsOf(o)
  IN  RegisterForPropertyChanges(RegisterForWindowEvents(NewRegistrar(s, o), o, windows),
                                 o, {PropertyOf(x, "WM_HINTS")})

AddTransientWindow(s, x, owner) ==
  [RegisterEventConsumerForWindowEvents(s, {Client(x)}, "layout") EXCEPT !.owner[x] = owner]

\* Mutant: the transients are forgotten and their registrations kept.
RemoveTransientRegistered(s, xs) ==
  [s EXCEPT !.owner = [x \in ConsumerXids |-> IF x \in xs THEN "none" ELSE @[x]]]

\* RemoveTransientWindow(), for each of the windows xs.
RemoveTransientWindow(s, xs) ==
  [UnregisterEventConsumerForWindowEvents(s, {Client(x) : x \in xs}, "layout") EXCEPT
     !.owner = [x \in ConsumerXids |-> IF x \in xs THEN "none" ELSE @[x]]]

\* ~ToplevelWindow(): its transients are removed one after the other and stay mapped, without an object.
DestroyToplevelWindow(s, x) ==
  DestroyRegistrar(RemoveTransientWindow(s, {t \in ConsumerXids : s.owner[t] = x}), Toplevel(x))

-----------------------------------------------------------------------------
\* "role" is what a mapped window is to the managers; the windows they do not register for
\* are "other": tab summaries, floating tabs, titlebars without their panel; an "orphan" is a
\* transient that outlives its owner, and what its unmapping does is a matter of LayoutManager.
NothingHeard == [sort |-> "none", key |-> Client("none"), to |-> {}]
ConsumersInit ==
  consumers =
    LET empty == [key \in {} |-> {}]
    IN  NewPanelManager(NewLayoutManager(
          [window |-> empty, property |-> empty, message |-> empty, registrars |-> empty,
           role |-> [x \in ConsumerXids |-> "unmapped"], owner |-> [x \in ConsumerXids |-> "none"],
           titlebar |-> [x \in ConsumerXids |-> "none"], heard |-> NothingHeard, steps |-> 0]))

ConsumersStep(s) ==
  consumers.steps < MaxConsumerSteps /\ consumers' = [s EXCEPT !.heard = NothingHeard, !.steps = @ + 1]

\* LayoutManager::HandleWindowMap() and PanelManager::HandleWindowMap().
MapToplevel(x) ==
  consumers.role[x] = "unmapped" /\ ConsumersStep([NewToplevelWindow(consumers, x) EXCEPT !.role[x] = "toplevel"])
MapTransient(x, owner) ==
  /\ consumers.role[x] = "unmapped" /\ consumers.role[owner] = "toplevel"
  /\ ConsumersStep([AddTransientWindow(consumers, x, owner) EXCEPT !.role[x] = "transient"])
MapOther(x) == consumers.role[x] = "unmapped" /\ ConsumersStep([consumers EXCEPT !.role[x] = "other"])
UnmapOther(x) == consumers.role[x] = "other" /\ ConsumersStep([consumers EXCEPT !.role[x] = "unmapped"])
MapPanel(x, titlebar) ==
  /\ consumers.role[x] = "unmapped" /\ consumers.role[titlebar] = "other"
  /\ ConsumersStep([NewPanel(consumers, x, titlebar) EXCEPT !.role[x] = "panel", !.role[titlebar] = "titlebar",
                                                            !.titlebar[x] = titlebar])

\* HandleWindowUnmap() of the managers.  A titlebar takes its panel with it, whose content stays mapped.
UnmapToplevel(x) ==
  /\ consumers.role[x] = "toplevel"
  /\ ConsumersStep([DestroyToplevelWindow(consumers, x) EXCEPT
       !.role = [y \in ConsumerXids |->
         IF y = x THEN "unmapped" ELSE IF consumers.owner[y] = x THEN "orphan" ELSE consumers.role[y]]])
UnmapTransient(x) ==
  /\ consumers.role[x] = "transient"
  /\ ConsumersStep([RemoveTransientWindow(consumers, {x}) EXCEPT !.role[x] = "unmapped"])
UnmapPanel(x, gone) ==
  LET t == consumers.titlebar[x] IN
  /\ consumers.role[x] = "panel" /\ gone \in {x, t}
  /\ ConsumersStep([DestroyRegistrar(consumers, PanelOf(x)) EXCEPT
       !.titlebar[x] = "none", !.role = [y \in ConsumerXids |->
         IF y = gone THEN "unmapped" ELSE IF y \in {x, t} THEN "other" ELSE consumers.role[y]]])

-----------------------------------------------------------------------------
\* FOR_EACH_EVENT_CONSUMER.
EventConsumersOf(m, key) == IF key \in DOMAIN m THEN m[key] ELSE {}

Hears(sort, key, to) ==
  /\ consumers.steps < MaxConsumerSteps
  /\ consumers' = [consumers EXCEPT !.heard = [sort |-> sort, key |-> key, to |-> to], !.steps = @ + 1]

EventXids == {Client(x) : x \in ConsumerXids} \cup {Input(o, 1) : o \in DOMAIN consumers.registrars}

\* HandleButtonPress(), HandleButtonRelease(), HandleEnterNotify(), HandleLeaveNotify() and
\* HandleMotionNotify().
HandlePointerEvent == \E xid \in EventXids : Hears("pointer", xid, EventConsumersOf(consumers.window, xid))

\* HandleFocusChange(): not those of grabs, nor for the pointer's sake.
HandleFocusChange ==
  \E xid \in EventXids, mode \in {"NotifyNormal", "NotifyWhileGrabbed", "NotifyGrab", "NotifyUngrab"},
     detail \in {"NotifyNonlinear", "NotifyPointer"} :
    LET ignored == mode \in {"NotifyGrab", "NotifyUngrab"} \/ detail = "NotifyPointer"
    IN  IF ignored THEN Hears("none", xid, {}) ELSE Hears("focus", xid, EventConsumersOf(consumers.window, xid))

\* HandlePropertyNotify(); what the Window makes of it is in module Window.
HandlePropertyEvent ==
  \E x \in ConsumerXids, atom \in {"WM_HINTS", "WM_NAME"} :
    Hears("property", PropertyOf(x, atom), EventConsumersOf(consumers.property, PropertyOf(x, atom)))

\* WmIpc::GetMessage(): the type of a message of Chrome, if it is one.
MessageTypes == {"WM_MOVE_FLOATING_TAB", "WM_SET_PANEL_STATE", "WM_NOTIFY_IPC_VERSION", "CHROME_NOTIFY_LAYOUT_MODE"}
GetMessage(e) == IF e.atom = "CHROME_WM_MESSAGE" /\ e.format = 32 /\ e.data \in MessageTypes THEN e.data ELSE "none"

\* HandleClientMessage().
HandleClientMessage ==
  \E xid \in EventXids,
     e \in [atom : {"CHROME_WM_MESSAGE"}, format : {8, 32}, data : MessageTypes \cup {"out_of_range"}]
             \cup [atom : {"MANAGER"}, format : {8, 32}, data : {"WM_S0", "other"}]
             \cup [atom : {"NET_ACTIVE_WINDOW"}, format : {8, 32}, data : {"other"}] :
    LET type == GetMessage(e) IN
    CASE type = "WM_NOTIFY_IPC_VERSION" -> Hears("none", xid, {})
      [] type \notin {"none", "WM_NOTIFY_IPC_VERSION"} -> 
           Hears("message", <<"message", type>>, EventConsumersOf(consumers.message, type))
      [] type = "none" /\ (e.format # 32 \/ (e.atom = "MANAGER" /\ e.data = "WM_S0")) -> Hears("none", xid, {})
      [] OTHER -> Hears("client_message", xid, EventConsumersOf(consumers.window, xid))

\* HandleConfigureRequest(): the window of an unmapped client gets what it asks for at once.
HandleConfigureRequest ==
  \E x \in ConsumerXids, positive \in BOOLEAN :
    IF ~positive \/ consumers.role[x] = "unmapped" THEN Hears("none", Client(x), {})
    ELSE Hears("configure", Client(x), EventConsumersOf(consumers.window, Client(x)))

ConsumersNext ==
  \/ \E x \in ConsumerXids :
       \/ MapToplevel(x) \/ MapOther(x) \/ UnmapOther(x) \/ UnmapToplevel(x) \/ UnmapTransient(x)
       \/ \E y \in ConsumerXids : MapTransient(x, y) \/ MapPanel(x, y) \/ UnmapPanel(x, y)
  \/ HandlePointerEvent \/ HandleFocusChange \/ HandlePropertyEvent \/ HandleClientMessage \/ HandleConfigureRequest

-----------------------------------------------------------------------------
\* HotkeyOverlay::HotkeyOverlay() and RefreshKeyMappings(): "codes" are its *_keycode_.  The
\* server's mapping and the keys that are down are not the window manager's.
OverlayInit ==
  \E map \in [OverlayKeys -> Keycodes \cup {0}] :
    overlay = [showing |-> FALSE, timer |-> FALSE, visible |-> FALSE, image |-> {"none"}, opaque |-> {},
               codes |-> map, pressed |-> {}, map |-> map, events |-> 0, down |-> {},
               seen |-> {}, true |-> FALSE, steps |-> 0]

OverlayStep(o) == overlay.steps < MaxOverlaySteps /\ overlay' = [o EXCEPT !.steps = @ + 1]

\* HideCurrentImage() and ShowImage(): an image is named after the modifiers it is for.
HideCurrentImage(o) == IF o.image = {"none"} THEN o ELSE [o EXCEPT !.opaque = @ \ {o.image}, !.image = {"none"}]
ShowImage(o, image) ==
  LET h == IF o.image # image THEN [HideCurrentImage(o) EXCEPT !.image = image] ELSE o
  IN  [h EXCEPT !.opaque = @ \cup {image}]

\* UpdateImage().
UpdateImage(o) == ShowImage(o, {key[2] : key \in o.pressed})

\* Mutant: the image is only looked at when the keys change.
KeyboardStateUnchanged(o, states) ==
  LET pressed == {key \in OverlayKeys : o.codes[key] \in states}
  IN  IF pressed # o.pressed THEN UpdateImage([o EXCEPT !.pressed = pressed]) ELSE o

\* HandleKeyboardState() and UpdateState().
HandleKeyboardState(o, states) ==
  LET pressed == {key \in OverlayKeys : o.codes[key] \in states}
  IN  IF pressed # o.pressed \/ o.image = {"none"} THEN UpdateImage([o EXCEPT !.pressed = pressed]) ELSE o

\* QueryKeyboardState(): "seen" are the modifiers that are down at the server, and "true" says
\* that the overlay knew the server's mapping.  When the query fails, the states are read from
\* an empty vector.
QueryKeyboardState(o) ==
  {[HandleKeyboardState(o, o.down) EXCEPT !.seen = {key[2] : key \in {k \in OverlayKeys : o.map[k] \in o.down}},
                                          !.true = (o.codes = o.map)]}
    \cup {[HandleKeyboardState(o, states) EXCEPT !.true = FALSE] : states \in SUBSET Keycodes}

\* ToggleHotkeyOverlay().
ToggleHotkeyOverlay ==
  IF ~overlay.showing
  THEN \E o \in QueryKeyboardState([overlay EXCEPT !.showing = TRUE]) :
         OverlayStep([o EXCEPT !.visible = TRUE, !.timer = TRUE])
  ELSE OverlayStep([overlay EXCEPT !.showing = FALSE, !.visible = FALSE, !.timer = FALSE])

\* QueryKeyboardStateThunk() keeps its timer.
QueryKeyboardStateThunk == overlay.timer /\ \E o \in QueryKeyboardState(overlay) : OverlayStep(o)

\* HandleMappingNotify(), and the server and user it follows.
HandleMappingNotify ==
  overlay.events > 0 /\ OverlayStep([overlay EXCEPT !.events = @ - 1, !.codes = overlay.map])
KeyboardIsMapped ==
  \E map \in [OverlayKeys -> Keycodes \cup {0}] :
    map # overlay.map /\ OverlayStep([overlay EXCEPT !.map = map, !.events = @ + 1])
KeyChanges ==
  \E code \in Keycodes :
    OverlayStep([overlay EXCEPT !.down = IF code \in @ THEN @ \ {code} ELSE @ \cup {code}])

OverlayNext ==
  \/ ToggleHotkeyOverlay \/ QueryKeyboardStateThunk \/ HandleMappingNotify \/ KeyboardIsMapped \/ KeyChanges

-----------------------------------------------------------------------------
\* Who has to hear of a window: the manager whose object it belongs to, and nobody else.
OwnerOf(xid) ==
  IF xid[1] = "input" THEN {Consumer(xid[2])}
  ELSE CASE consumers.role[xid[2]] \in {"toplevel", "transient"} -> {"layout"}
         [] consumers.role[xid[2]] \in {"panel", "titlebar"} -> {"panels"}
         [] OTHER -> {}

\* However windows come and go, in whatever order with their transients and titlebars, an
\* event of a window reaches the one manager that has an object for it, a configure request
\* included; one of a window whose object is gone reaches nobody, although X may use its id
\* again, and no entry of a map outlives its objects.
EventsReachOwner ==
  /\ DOMAIN consumers.window =
       {Client(x) : x \in {y \in ConsumerXids : OwnerOf(Client(y)) # {}}}
         \cup UNION {InputsOf(o) : o \in DOMAIN consumers.registrars}
  /\ DOMAIN consumers.property = {PropertyOf(x, "WM_HINTS") : x \in {y \in ConsumerXids : consumers.role[y] = "panel"}}
  /\ consumers.heard.sort \in {"pointer", "focus", "client_message", "configure"} =>
       consumers.heard.to = OwnerOf(consumers.heard.key)

\* While the overlay shows, exactly one image is opaque, and it is that of the modifiers that
\* were down at the last poll, whatever was pressed or mapped anew while it was hidden; the
\* timer polls exactly as long.
OverlayShowsHeldKeys ==
  /\ overlay.timer = overlay.showing
  /\ overlay.showing =>
       /\ overlay.opaque = {overlay.image}
       /\ overlay.true => overlay.image = overlay.seen
=============================================================================
