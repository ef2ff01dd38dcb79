---------------------------- MODULE ScriptRunner ----------------------------
(***************************************************************************)
(* autox/script_runner.cc: the commands of a script, turned into XTEST     *)
(* events.  A command's events reach the X server when it flushes, at its  *)
(* end; a failed CHECK ends the program before, and leaves down what       *)
(* earlier commands pressed.  The server turns the presses back into       *)
(* keysyms with the keyboard mapping.                                      *)
(***************************************************************************)
EXTENDS Integers, Sequences, FiniteSets, SequencesExt

CONSTANTS
  Keyboards,     \* mappings from keycodes to <<keysym, keysym with Shift>>
  Texts,         \* arguments of "string": characters, <<"char", c>>, and escapes, <<"escape", name>>
  Combos,        \* arguments of "hotkey": sequences of keysym names
  KeyNames, MaxCommands

VARIABLE script

NoSymbol == "NoSymbol"
Shifts == {"Shift_L", "Shift_R"}
Modifiers == Shifts \cup {"Control_L", "Alt_L"}
Upper == [x \in {"a", "b"} |-> IF x = "a" THEN "A" ELSE "B"]
Keysyms(keyboard) == (UNION {{keyboard[k][1], keyboard[k][2]} : k \in DOMAIN keyboard}) \ {NoSymbol}

\* Mutant: the last way to type a keysym wins.
LoadLastMapping(keyboard) ==
  [s \in Keysyms(keyboard) |->
     LET k == CHOOSE c \in DOMAIN keyboard :
                /\ s \in {keyboard[c][1], keyboard[c][2]}
                /\ \A d \in DOMAIN keyboard : s \in {keyboard[d][1], keyboard[d][2]} => d <= c
     IN  <<k, FALSE>>]

\* LoadKeyboardMapping(): the first keycode that has the keysym without Shift, or else the first that has it with
\* Shift.  A keysym maps to <<keycode, Shift is required>>.
LoadKeyboardMapping(keyboard) ==
  [s \in Keysyms(keyboard) |->
     LET With(column) == {k \in DOMAIN keyboard : keyboard[k][column] = s}
         First(keycodes) == CHOOSE k \in keycodes : \A c \in keycodes : k <= c
     IN  IF With(1) # {} THEN <<First(With(1)), FALSE>> ELSE <<First(With(2)), TRUE>>]

\* keysyms_to_keycodes_ is read once, by the constructor.
keysyms_to_keycodes == LoadKeyboardMapping(script.keyboard)
GetKeyCodeForKeySym(s) == IF s \in DOMAIN keysyms_to_keycodes THEN keysyms_to_keycodes[s][1] ELSE 0
KeySymRequiresShift(s) == s \in DOMAIN keysyms_to_keycodes /\ keysyms_to_keycodes[s][2]

\* chars_to_keysyms_ has no grave accent; letters and digits are their own keysyms.
chars_to_keysyms == [c \in {" ", "!"} |-> IF c = "!" THEN "exclam" ELSE "space"]
ConvertCharToKeySym(c) ==
  IF c \in {"a", "A", "b", "B", "1"} THEN c
  ELSE IF c \in DOMAIN chars_to_keysyms THEN chars_to_keysyms[c] ELSE NoSymbol

\* Every name but the empty one and "bad" is a keysym's.
XStringToKeysym(name) == IF name \in {"", "bad"} THEN NoSymbol ELSE name
ConvertEscapedStringToKeySym(name) == IF name = "\\" THEN "backslash" ELSE XStringToKeysym(name)
KeySymOf(item) == IF item[1] = "escape" THEN ConvertEscapedStringToKeySym(item[2]) ELSE ConvertCharToKeySym(item[2])

-----------------------------------------------------------------------------
\* The server: held keys, and what a key types.
ShiftHeld(s) == \E k \in s.held : s.keyboard[k][1] \in Shifts
Typed(s, k) ==
  LET column == s.keyboard[k]
  IN  IF ~ShiftHeld(s) THEN column[1]
      ELSE IF column[2] # NoSymbol THEN column[2]
      ELSE IF column[1] \in DOMAIN Upper THEN Upper[column[1]] ELSE column[1]
XTestFakeKeyEvent(s, event) ==
  LET k == event[2]
  IN  IF event[1] = "up" THEN [s EXCEPT !.held = @ \ {k}]
      ELSE IF s.keyboard[k][1] \in Modifiers THEN [s EXCEPT !.held = @ \cup {k}]
      ELSE [s EXCEPT !.held = @ \cup {k}, !.typed = Append(@, Typed(s, k))]
XFlush(s, events) == FoldLeft(XTestFakeKeyEvent, s, events)

\* A command: a failed CHECK aborts, or its events are flushed.  down: the keys that the script wants down; asked:
\* for each keysym to be typed, those that will do; clean: whether no key was down before.
Command(ok, events, down, asked) ==
  /\ script.commands < MaxCommands /\ ~script.aborted
  /\ script' = IF ~ok THEN [script EXCEPT !.aborted = TRUE]
               ELSE [XFlush([script EXCEPT !.typed = <<>>], events) EXCEPT
                       !.commands = @ + 1, !.down = down, !.asked = asked, !.clean = script.held = {}]

\* RunScript(): no list of commands, an unknown command, or CheckNumArgs().
BadCommand == Command(FALSE, <<>>, {}, <<>>)

\* Commands of the mouse, and "sleep", leave the keyboard alone.
MouseCommand(buttons, pointer) ==
  /\ script.commands < MaxCommands /\ ~script.aborted
  /\ script' = [script EXCEPT !.commands = @ + 1, !.buttons = buttons, !.pointer = pointer, !.typed = <<>>, !.asked = <<>>]
HandleButtonCommand(button, button_down) ==
  MouseCommand(IF button_down THEN script.buttons \cup {button} ELSE script.buttons \ {button}, script.pointer)
HandleMotionCommand(x, absolute) == MouseCommand(script.buttons, IF absolute THEN x ELSE script.pointer + x)
HandleSleepCommand == MouseCommand(script.buttons, script.pointer)

\* HandleKeyCommand(): one event, of a keysym that needs no Shift.
HandleKeyCommand(name, key_down) ==
  LET keysym == XStringToKeysym(name)
      k == GetKeyCodeForKeySym(keysym)
  IN  Command(keysym # NoSymbol /\ k # 0 /\ ~KeySymRequiresShift(keysym),
              <<<<IF key_down THEN "down" ELSE "up", k>>>>,
              IF key_down THEN script.down \cup {k} ELSE script.down \ {k},
              IF key_down /\ keysym \notin Modifiers THEN <<{keysym}>> ELSE <<>>)

\* HandleHotkeyCommand(): the keys go down in order and up in the reverse order.  A keysym that needs Shift
\* must come after one, except for an upper-case letter.
FullName(name) ==
  CASE name = "Ctrl" -> "Control_L" [] name = "Alt" -> "Alt_L" [] name = "Shift" -> "Shift_L" [] OTHER -> name
HandleHotkeyCommand(combo) ==
  LET keysyms == [i \in 1..Len(combo) |-> XStringToKeysym(FullName(combo[i]))]
      Keycode(i) == GetKeyCodeForKeySym(keysyms[i])
      saw_shift(i) == \E j \in 1..i : keysyms[j] \in Shifts
      ok == /\ Len(combo) >= 2
            /\ \A i \in 1..Len(combo) :
                 /\ keysyms[i] # NoSymbol /\ Keycode(i) # 0
                 /\ KeySymRequiresShift(keysyms[i]) => saw_shift(i) \/ keysyms[i] \in {"A", "B"}
      Asked(i) == IF KeySymRequiresShift(keysyms[i]) = saw_shift(i) THEN {keysyms[i]}
                  ELSE ToSet(script.keyboard[Keycode(i)]) \cup {"A", "B"}
      typing == SelectSeq([i \in 1..Len(combo) |-> i], LAMBDA i : keysyms[i] \notin Modifiers)
  IN  Command(ok, [i \in 1..Len(combo) |-> <<"down", Keycode(i)>>]
                    \o [i \in 1..Len(combo) |-> <<"up", Keycode(Len(combo) + 1 - i)>>],
              script.down, [i \in 1..Len(typing) |-> Asked(typing[i])])

\* The events of one keysym of a string.
TypeKeySym(keysym) ==
  LET k == GetKeyCodeForKeySym(keysym)
      shift == GetKeyCodeForKeySym("Shift_L")
  IN  IF KeySymRequiresShift(keysym)
      THEN <<<<"down", shift>>, <<"down", k>>, <<"up", k>>, <<"up", shift>>>>
      ELSE <<<<"down", k>>, <<"up", k>>>>

\* HandleStringCommand(): a character without a keysym, or a keysym without a key, aborts.
HandleStringCommand(text) ==
  LET keysyms == [i \in 1..Len(text) |-> KeySymOf(text[i])]
      typing == SelectSeq(keysyms, LAMBDA s : s \notin Modifiers)
  IN  Command(/\ GetKeyCodeForKeySym("Shift_L") # 0
              /\ \A i \in 1..Len(text) : keysyms[i] # NoSymbol /\ GetKeyCodeForKeySym(keysyms[i]) # 0,
              FlattenSeq([i \in 1..Len(text) |-> TypeKeySym(keysyms[i])]), script.down,
              [i \in 1..Len(typing) |-> {typing[i]}])

ScriptStart(keyboard) ==
  [keyboard |-> keyboard, held |-> {}, typed |-> <<>>, down |-> {}, asked |-> <<>>, clean |-> TRUE,
   buttons |-> {}, pointer |-> 0, commands |-> 0, aborted |-> FALSE]
ScriptInit == \E keyboard \in Keyboards : script = ScriptStart(keyboard)
ScriptNext ==
  \/ BadCommand \/ HandleSleepCommand
  \/ \E flag \in BOOLEAN :
       HandleButtonCommand(1, flag) \/ HandleMotionCommand(1, flag) \/ \E name \in KeyNames : HandleKeyCommand(name, flag)
  \/ \E combo \in Combos : HandleHotkeyCommand(combo)
  \/ \E text \in Texts : HandleStringCommand(text)

-----------------------------------------------------------------------------
\* A command that finds no key down types on the server what the script says, on every keyboard, and no command
\* leaves a key down that the script has not asked for: the choice of a keycode, with or without Shift, undoes
\* the server's decoding, and each press has its release.
ScriptTypesAsWritten ==
  /\ script.held \subseteq script.down
  /\ script.clean =>
       /\ Len(script.typed) = Len(script.asked)
       /\ \A i \in 1..Len(script.typed) : script.typed[i] \in script.asked[i]
=============================================================================
