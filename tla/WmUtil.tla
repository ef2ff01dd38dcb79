------------------------------- MODULE WmUtil -------------------------------
(***************************************************************************)
(* The helper classes that several parts of the window manager keep as     *)
(* members: Stacker of util.h, KeyBindings of key_bindings.{h,cc} and      *)
(* MotionEventCoalescer of motion_event_coalescer.{h,cc}.  Each is a set of*)
(* operators that map a value of the class to a value; the owner runs the  *)
(* closure or callback that the class would call.                          *)
(***************************************************************************)
EXTENDS Integers, Sequences, FiniteSets, SequencesExt

-----------------------------------------------------------------------------
(* Stacker: an ordering of items, the top one first, in which an item is   *)
(* present at most once.  The map from items to list positions is the      *)
(* sequence itself; Contains is that of SequencesExt.                      *)

\* The 1-based position of an item that is present.
GetIndex(stack, item) == CHOOSE i \in DOMAIN stack : stack[i] = item

\* GetUnder(): the item under another, or none.
GetUnder(stack, item, none) ==
  IF Contains(stack, item) /\ GetIndex(stack, item) < Len(stack)
  THEN stack[GetIndex(stack, item) + 1] ELSE none

\* An item that is present already is not added again.
AddOnTop(stack, item) == IF Contains(stack, item) THEN stack ELSE <<item>> \o stack
AddOnBottom(stack, item) == IF Contains(stack, item) THEN stack ELSE Append(stack, item)
AddAbove(stack, item, other) ==
  IF Contains(stack, item) \/ ~Contains(stack, other) THEN stack
  ELSE InsertAt(stack, GetIndex(stack, other), item)

\* Remove(): an item that is present is erased from its position.
TakeOut(stack, item) ==
  IF Contains(stack, item) THEN RemoveAt(stack, GetIndex(stack, item)) ELSE stack

-----------------------------------------------------------------------------
(* KeyBindings: named actions and the key combinations that begin them.  A *)
(* combination is <<keysym, modifiers>>; lower case and Caps Lock, which   *)
(* the constructor of KeyCombo removes, are not told apart.                *)

\* The constructor.  bindings: a set of <<combo, action>>; the grabs that the X
\* server holds are those of the combinations.
NewKeyBindings == [actions |-> {}, bindings |-> {}, running |-> {}]

Bound(kb, combo) == {b \in kb.bindings : b[1] = combo}
ActionOf(kb, combo) == (CHOOSE b \in Bound(kb, combo) : TRUE)[2]

\* action_names_by_keysym_
ActionsByKey(kb, key) == {b[2] : b \in {c \in kb.bindings : c[1][1] = key}}

AddAction(kb, action) == [kb EXCEPT !.actions = @ \cup {action}]

\* AddBinding() neither overwrites a binding nor binds a missing action.
AddBinding(kb, combo, action) ==
  IF Bound(kb, combo) # {} \/ action \notin kb.actions THEN kb
  ELSE [kb EXCEPT !.bindings = @ \cup {<<combo, action>>}]

\* RemoveBinding(): the action whose binding goes is not running any more.
RemoveBinding(kb, combo) ==
  IF Bound(kb, combo) = {} THEN kb
  ELSE [kb EXCEPT !.bindings = @ \ Bound(kb, combo), !.running = @ \ {ActionOf(kb, combo)}]

\* HandleKeyPress() runs the begin closure of an action that is not running; the
\* repeat closures are NULL.
Begins(kb, combo) == Bound(kb, combo) # {} /\ ActionOf(kb, combo) \notin kb.running
HandleKeyPress(kb, combo) == [kb EXCEPT !.running = @ \cup {ActionOf(kb, combo)}]

\* HandleKeyRelease(): every action of the key ends, whatever the modifiers are now.
HandleKeyRelease(kb, key) == [kb EXCEPT !.running = @ \ ActionsByKey(kb, key)]

-----------------------------------------------------------------------------
(* MotionEventCoalescer: a position that many motion events overwrite and  *)
(* a repeating glib timer hands to a callback, if Queued holds.            *)

\* The constructor: no timer, no position.
Coalescer == [running |-> FALSE, queued |-> FALSE, x |-> -1, y |-> -1]

\* Start(): ignored while the timer runs; else forget the last position.
StartCoalescer(c) ==
  IF c.running THEN c ELSE [running |-> TRUE, queued |-> FALSE, x |-> -1, y |-> -1]

\* StorePosition(): a position that repeats the last one queues nothing.
StorePosition(c, x, y) ==
  IF c.x = x /\ c.y = y THEN c ELSE [c EXCEPT !.x = x, !.y = y, !.queued = TRUE]

\* StopInternal() removes the timer; the owner runs the callback one last time
\* if Queued(c), as Stop() does, and not from the destructor.  The last position, which
\* Start() forgets, is forgotten here.
StopTimer(c) == Coalescer

\* HandleTimer() runs the callback only for a position it has not seen.
Queued(c) == c.queued

\* HandleTimer(), after the callback.
TimerHandled(c) == [c EXCEPT !.queued = FALSE]

=============================================================================
