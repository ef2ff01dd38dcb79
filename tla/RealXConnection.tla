--------------------------- MODULE RealXConnection ---------------------------
(***************************************************************************)
(* The connection to the X server (window_manager/real_x_connection.cc).   *)
(* Requests without a reply are buffered and fail, if they do, some time   *)
(* later; requests with a reply return their own error; Xlib requests are  *)
(* made between TrapErrors() and UntrapErrors(), which share one static    *)
(* handler and error code with everything that is still on its way.        *)
(* Windows belong to other clients and vanish at any time, except while    *)
(* the server is grabbed.                                                  *)
(***************************************************************************)
EXTENDS Naturals, Sequences, FiniteSets

CONSTANTS Properties,   \* values of a property, [format |-> 0] for one that is not set
          NoValue,
          Targets,      \* windows of other clients
          Masks,        \* events that can be selected on them
          MaxRequests   \* bound on the calls

VARIABLE conn

\* A buffered request: its window, whether the current trapped call made it, and the
\* event mask XSelectInput() carries.
Request(x, own, mask) == [x |-> x, own |-> own, mask |-> mask]
NoMask == {"none"}

\* "unread" counts the errors that arrived and were not read, as [foreign, own]; "code" is
\* last_trapped_error_code; "ownFailed" is history: a request of the current call failed.
ConnInit ==
  conn = [pc |-> "idle", op |-> "none", x |-> "none", arg |-> {}, alive |-> Targets, buffer |-> <<>>,
          unread |-> FALSE, trapping |-> FALSE, grabbed |-> FALSE, code |-> FALSE,
          fetched |-> {}, mask |-> [x \in Targets |-> {}], ownFailed |-> FALSE,
          result |-> "none", calls |-> 0]

\* The server handles the oldest buffered request.
Execute(c) ==
  LET r == Head(c.buffer) IN
  IF r.x \notin c.alive
  THEN [c EXCEPT !.buffer = Tail(@), !.unread = TRUE, !.ownFailed = @ \/ r.own]
  ELSE IF r.mask = NoMask THEN [c EXCEPT !.buffer = Tail(@)]
  ELSE [c EXCEPT !.buffer = Tail(@), !.mask[r.x] = r.mask]

\* It handles all of them.
ExecuteAll(c) ==
  LET after[n \in 0..Len(c.buffer)] == IF n = 0 THEN c ELSE Execute(after[n - 1])
  IN after[Len(c.buffer)]

\* XSync(): the buffer is empty and the errors have been read, by HandleXError() if they
\* are trapped.
XSync(c) ==
  LET d == ExecuteAll(c) IN
  [d EXCEPT !.unread = FALSE, !.code = @ \/ (d.trapping /\ d.unread)]

\* Mutant: errors that are on their way are not waited for.
TrapErrorsAtOnce(c) == [c EXCEPT !.trapping = TRUE, !.code = FALSE]

\* TrapErrors(): what was on its way is read before the code is reset.
TrapErrors(c) == [XSync([c EXCEPT !.trapping = TRUE]) EXCEPT !.code = FALSE]

\* UntrapErrors(): the call failed if the code is set.
UntrapErrors(c) ==
  LET d == XSync(c) IN
  [d EXCEPT !.trapping = FALSE, !.pc = "idle", !.result = IF d.code THEN "failed" ELSE "ok"]

-----------------------------------------------------------------------------
(* Calls. *)

MayCall == conn.pc = "idle" /\ conn.calls < MaxRequests /\ conn.result # "aborted"

Called(c) == [c EXCEPT !.calls = @ + 1, !.ownFailed = FALSE]

\* MapWindow(), MoveWindow(), StackWindow(), ...: never fail for the caller.
VoidRequest(x) ==
  /\ MayCall
  /\ conn' = [Called(conn) EXCEPT !.op = "void", !.buffer = Append(@, Request(x, FALSE, NoMask)),
                                  !.result = "ok"]

\* GetWindowAttributes(), GetWindowGeometry(), ...: the reply or the error of this very
\* request, which the server handles after those before it.
QueryRequest(x) ==
  /\ MayCall
  /\ LET d == ExecuteAll(conn) IN
     conn' = [Called(d) EXCEPT !.op = "query", !.ownFailed = x \notin d.alive,
                               !.result = IF x \in d.alive THEN "ok" ELSE "failed"]

\* AddPointerGrabForWindow(): a reply may still say that the grab was not given.
GrabPointer(x, given) ==
  /\ MayCall
  /\ LET d == ExecuteAll(conn) IN
     conn' = [Called(d) EXCEPT !.op = "query", !.ownFailed = x \notin d.alive \/ ~given,
                               !.result = IF x \in d.alive /\ given THEN "ok" ELSE "failed"]

\* CheckForXcbError(): the error of this very request.
CheckForXcbError(c, x) == x \in c.alive

\* GetCompositingPixmapForWindow(): the error is only logged, and the id returned all the
\* same.
GetCompositingPixmapForWindow(x) ==
  /\ MayCall
  /\ LET d == ExecuteAll(conn) IN
     conn' = [Called(d) EXCEPT !.op = "pixmap", !.ownFailed = ~CheckForXcbError(d, x),
                               !.result = "ok"]

\* GetPropertyInternal(): the value of a property that is there, at whatever length.
GetPropertyInternal(p) == IF p.format = 0 THEN NoValue ELSE p

\* GetIntArrayProperty(): the value of a property of 32-bit items.
GetIntArrayProperty(p) ==
  LET v == GetPropertyInternal(p) IN IF v = NoValue \/ v.format # 32 THEN NoValue ELSE v.items

\* GetStringProperty(): the value of a property of bytes, whatever its type.
GetStringProperty(p) ==
  LET v == GetPropertyInternal(p) IN IF v = NoValue \/ v.format # 8 THEN "failed" ELSE "ok"

\* GetIntProperty() of the base class: its CHECK is that the array is not empty.
GetIntProperty(p) ==
  LET v == GetIntArrayProperty(p) IN
  IF v = NoValue THEN "failed" ELSE IF v = <<>> THEN "aborted" ELSE "ok"

\* GetTransientHintForWindow() and other single integers, or the title.
ReadProperty(x, value) ==
  /\ MayCall
  /\ LET d == ExecuteAll(conn)
         r == IF x \in d.alive THEN value ELSE "failed"
     IN conn' = [Called(d) EXCEPT !.op = "query", !.ownFailed = (r = "failed"), !.result = r]

\* The trapped calls start.  SelectInputOnWindow() grabs the server if it is to keep the
\* events that are selected; DeselectInputOnWindow() does not.
TrappedCall(op, x, mask) ==
  /\ MayCall
  /\ conn' = [TrapErrors(Called(conn)) EXCEPT !.op = op, !.x = x, !.arg = mask,
                !.grabbed = (op = "select"),
                !.pc = CASE op \in {"select", "deselect"} -> "fetch"
                         [] op = "replace" -> "change"
                         [] op = "send" -> "request"
                         [] op = "region" -> "region"]

\* An Xlib request on the window waits for its reply; its error is read by the handler,
\* as are those of requests before it.
AwaitReply(c) ==
  LET d == ExecuteAll(c)
      failed == c.x \notin d.alive
  IN [d EXCEPT !.unread = FALSE, !.code = @ \/ d.unread \/ failed, !.ownFailed = @ \/ failed]

\* XGetWindowAttributes().
FetchMask ==
  /\ conn.pc = "fetch"
  /\ LET d == AwaitReply(conn) IN
     conn' = [d EXCEPT !.fetched = d.mask[conn.x], !.pc = "change"]

\* XShapeGetRectangles() of GetWindowBoundingRegion(), and the end of the call.
GetWindowBoundingRegion ==
  /\ conn.pc = "region"
  /\ conn' = UntrapErrors(AwaitReply(conn))

\* Mutant: the events that are selected are not kept.
NewMaskUnmerged(c) == IF c.op = "deselect" THEN c.fetched \ c.arg ELSE c.arg

\* The mask XSelectInput() is called with.
NewMask(c) ==
  CASE c.op = "select" -> c.arg \cup c.fetched
    [] c.op = "deselect" -> c.fetched \ c.arg
    [] c.op = "replace" -> c.arg

\* XSelectInput(), unless the mask to change could not be fetched, and the end of the call.
ChangeMask ==
  /\ conn.pc = "change"
  /\ conn' = UntrapErrors(
       LET c == [conn EXCEPT !.grabbed = FALSE] IN
       IF c.code THEN c
       ELSE [c EXCEPT !.buffer = Append(@, Request(c.x, TRUE, NewMask(c)))])

\* XSendEvent() of SendClientMessageEvent(), and the end of the call.
SendMessage ==
  /\ conn.pc = "request"
  /\ conn' = UntrapErrors([conn EXCEPT !.buffer = Append(@, Request(conn.x, TRUE, NoMask))])

\* The server goes on with the buffer, and the event loop reads errors nobody traps.
ServerStep == conn.buffer # <<>> /\ conn' = Execute(conn)
ReadErrors ==
  /\ conn.pc = "idle" /\ conn.unread
  /\ conn' = [conn EXCEPT !.unread = FALSE]

\* Another client destroys its window, unless the server is grabbed.
WindowVanishes(x) ==
  /\ x \in conn.alive /\ ~conn.grabbed
  /\ conn' = [conn EXCEPT !.alive = @ \ {x}, !.mask[x] = {}]

ConnNext ==
  \/ \E x \in Targets :
       \/ VoidRequest(x) \/ QueryRequest(x) \/ GetCompositingPixmapForWindow(x) \/ WindowVanishes(x)
       \/ \E given \in BOOLEAN : GrabPointer(x, given)
       \/ \E p \in Properties : ReadProperty(x, GetIntProperty(p)) \/ ReadProperty(x, GetStringProperty(p))
       \/ \E op \in {"select", "deselect", "replace", "send", "region"}, m \in (SUBSET Masks) \ {{}} :
            TrappedCall(op, x, m)
  \/ FetchMask \/ GetWindowBoundingRegion \/ ChangeMask \/ SendMessage \/ ServerStep \/ ReadErrors

-----------------------------------------------------------------------------
\* A call reports a failure exactly when one of its own requests failed, whatever errors
\* of earlier requests without a reply arrive meanwhile.  The pixmap of a window is the
\* exception: its id is returned in any case.
BlamesOwnRequest ==
  conn.pc = "idle" /\ conn.op \notin {"void", "pixmap"} => (conn.result = "failed") = conn.ownFailed

\* Adding events to a window's mask loses none of those selected before ("avoid blowing
\* away the previous mask on failure"), and no call leaves the server grabbed or errors
\* trapped, which would stop every other client or the next call.
MaskGrows ==
  [][conn.op = "select" /\ conn.pc = "change" /\ conn'.alive = conn.alive =>
       /\ \A x \in Targets : conn.mask[x] \subseteq conn'.mask[x]
       /\ ~conn'.grabbed /\ ~conn'.trapping]_conn

\* Every call answers for its own request, and leaves what others asked for alone.
CallsAnswerForThemselves == []BlamesOwnRequest /\ MaskGrows

-----------------------------------------------------------------------------
(* Over these requests, RegisterExistence() and GetManagerSelection() of   *)
(* window_manager/window_manager.cc take over from another window manager: *)
(* ours becomes the owner of two selections, one after the other, and      *)
(* waits each time for the window of the owner before it to be destroyed.  *)
(* That owner quits when it is told that it lost a selection, or may exit  *)
(* on its own; a rival may ask for the selections at the same time.        *)

CONSTANTS Selections,   \* the selections in the order they are taken: WM_S0, _NET_WM_CM_S0
          Olds,         \* windows of managers that run already
          Us, Rival,    \* our window, and that of another manager that starts
          NoOwner

ASSUME SelectionAssumption ==
  /\ Selections \in Seq(STRING) /\ Selections # <<>>
  /\ Us \notin Olds \cup {Rival, NoOwner} /\ Rival \notin Olds /\ NoOwner \notin Olds \cup {Rival}

VARIABLE takeover

\* A TRUE "newer" says that a selection changed hands after the timestamp we ask with;
\* "missed" that an owner was gone before we could select its events.
SelInit ==
  \E owners \in [DOMAIN Selections -> Olds \cup {NoOwner}] :
    takeover = [pc |-> "make", n |-> 1, owner |-> owners, current |-> NoOwner,
                previous |-> {}, alive |-> Olds, watched |-> {}, destroyed |-> {},
                lost |-> {}, newer |-> [i \in DOMAIN Selections |-> FALSE],
                missed |-> FALSE, rivalled |-> FALSE]

\* RegisterExistence() makes our window and changes a property of it for the time.
RegisterExistence ==
  /\ takeover.pc = "make"
  /\ takeover' = [takeover EXCEPT !.pc = "stamp", !.alive = @ \cup {Us},
                                  !.newer = [i \in DOMAIN Selections |-> FALSE]]

\* WaitForPropertyChange(): the time is that of the change, however late it is read.
WaitForPropertyChange ==
  /\ takeover.pc = "stamp"
  /\ takeover' = [takeover EXCEPT !.pc = "find"]

\* Mutant: the owner's events are not selected.
FindOwnerOnly ==
  /\ takeover.pc = "find"
  /\ takeover' = [takeover EXCEPT !.current = takeover.owner[takeover.n], !.pc = "own"]

\* GetSelectionOwner().
FindOwner ==
  /\ takeover.pc = "find"
  /\ LET owner == takeover.owner[takeover.n] IN
     takeover' = [takeover EXCEPT !.current = owner,
                                  !.pc = IF owner = NoOwner THEN "own" ELSE "select"]

\* SelectInputOnWindow(): an error, because the window is gone by now, is only logged.
SelectOnOwner ==
  /\ takeover.pc = "select"
  /\ takeover' =
       IF takeover.current \in takeover.alive
       THEN [takeover EXCEPT !.watched = @ \cup {takeover.current}, !.pc = "own"]
       ELSE [takeover EXCEPT !.missed = TRUE, !.pc = "own"]

\* The server: an owner loses a selection to another window.
Lose(t, i, to) ==
  [t EXCEPT !.owner[i] = to,
            !.lost = IF t.owner[i] = NoOwner THEN @ ELSE @ \cup {t.owner[i]}]

\* SetSelectionOwner(): the server ignores a request with an old timestamp.
TakeOwnership ==
  /\ takeover.pc = "own"
  /\ LET t == [takeover EXCEPT !.pc = "check"] IN
     takeover' = IF takeover.newer[takeover.n] THEN t ELSE Lose(t, takeover.n, Us)

\* Mutant: a manager that is there is not waited for.
CheckOwnerOnly ==
  /\ takeover.pc = "check"
  /\ takeover' = [takeover EXCEPT !.previous = @ \cup ({takeover.current} \ {NoOwner}),
                                  !.pc = IF takeover.owner[takeover.n] = Us THEN "next" ELSE "failed"]

\* Did we get it?  If so the MANAGER message is sent, and an old manager waited for.
CheckOwner ==
  /\ takeover.pc = "check"
  /\ takeover' =
       IF takeover.owner[takeover.n] # Us THEN [takeover EXCEPT !.pc = "failed"]
       ELSE [takeover EXCEPT !.previous = @ \cup ({takeover.current} \ {NoOwner}),
                             !.pc = IF takeover.current = NoOwner THEN "next" ELSE "wait"]

\* WaitForWindowToBeDestroyed() reads the events of that window up to its DestroyNotify.
WaitForWindow ==
  /\ takeover.pc = "wait"
  /\ takeover.current \in takeover.destroyed
  /\ takeover' = [takeover EXCEPT !.pc = "next", !.destroyed = @ \ {takeover.current}]

\* On to the second selection, or RegisterExistence() succeeds.
NextSelection ==
  /\ takeover.pc = "next"
  /\ takeover' = IF takeover.n = Len(Selections) THEN [takeover EXCEPT !.pc = "done"]
                 ELSE [takeover EXCEPT !.n = @ + 1, !.pc = "find"]

\* The server destroys a manager's window: its selections have no owner, and we are
\* told if we selected its events.
Vanish(t, w) ==
  [t EXCEPT !.alive = @ \ {w},
            !.owner = [i \in DOMAIN @ |-> IF @[i] = w THEN NoOwner ELSE @[i]],
            !.destroyed = IF w \in t.watched THEN @ \cup {w} ELSE @]

\* A manager that lost a selection destroys its window, as ICCCM 2.8 asks of it.
OldManagerQuits(w) ==
  /\ w \in takeover.alive \cap takeover.lost
  /\ takeover' = Vanish(takeover, w)

\* A manager may exit for any other reason.
OldManagerExits(w) ==
  /\ w \in takeover.alive \ takeover.lost
  /\ takeover' = Vanish(takeover, w)

\* A rival that starts at the same time gets a selection with a later timestamp.
RivalTakes(i) ==
  /\ ~takeover.rivalled
  /\ takeover' = [Lose(takeover, i, Rival) EXCEPT !.newer[i] = TRUE, !.alive = @ \cup {Rival},
                                                !.rivalled = TRUE]

OurStep ==
  \/ RegisterExistence \/ WaitForPropertyChange \/ FindOwner \/ SelectOnOwner \/ TakeOwnership \/ CheckOwner
  \/ WaitForWindow \/ NextSelection

SelNext ==
  \/ OurStep
  \/ \E w \in Olds \cup {Rival} : OldManagerQuits(w) \/ OldManagerExits(w)
  \/ \E i \in DOMAIN Selections : RivalTakes(i)

-----------------------------------------------------------------------------
\* When RegisterExistence() returns true, the managers it took the selections from are
\* gone ("If there was an old manager running, wait for its window to go away"), and a
\* selection is ours unless a rival asked for it later.
ManagesAlone ==
  takeover.pc = "done" =>
    /\ takeover.previous \cap takeover.alive = {}
    /\ \A i \in DOMAIN Selections : takeover.owner[i] = Us \/ takeover.newer[i]

\* RegisterExistence() returns, unless an owner went away between the two requests
\* GetSelectionOwner() and SelectInputOnWindow(): then it waits for an event that was
\* never selected.
TakeoverEnds ==
  <>(takeover.pc \in {"done", "failed"} \/ takeover.missed)
=============================================================================
