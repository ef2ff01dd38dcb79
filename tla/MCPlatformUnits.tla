---------------------------- MODULE MCPlatformUnits ----------------------------
(***************************************************************************)
(* The parts outside the window system that are checked one at a time:     *)
(* verified boot, the helpers of update_engine, the two updaters' switch   *)
(* of systems, minijail, autox and the metrics file.  A behaviour picks    *)
(* one, "unit", and the others stay as they start.                         *)
(***************************************************************************)
EXTENDS VbootCrypto, FirmwareImage, EngineHelpers, MementoUpdater, MiniJail, BootSwitch, ScriptRunner,
        MetricsFile

VARIABLE unit

vars == <<unit, sha, rsa, fw, procs, ext, mem, jail, switch, script, metrics>>

\* k1 and k2 have the algorithm of the root key, k0 another.
MCKeyAlgorithm == [k \in SignKeys \cup {RootKey} |-> IF k = "k0" THEN 0 ELSE 1]

\* sda, sda1 to sda5, sda9 to sda12
MCBootNumbers == {<<>>, <<1>>, <<2>>, <<3>>, <<4>>, <<5>>, <<9>>, <<1, 0>>, <<1, 1>>, <<1, 2>>}

\* Two keys that may agree or differ, a digit, and the modifiers with or without Shift.
MCKeyboards ==
  LET Key == {<<"a", "A">>, <<"A", "a">>, <<"b", NoSymbol>>, <<"1", "exclam">>, <<"exclam", "backslash">>}
  IN  {<<k, l, <<"1", "exclam">>, <<"Control_L", NoSymbol>>, <<s, NoSymbol>>>> :
         k \in Key, l \in Key, s \in {"Shift_L", "Alt_L"}}
MCTexts ==
  LET Item == {<<"char", c>> : c \in {"a", "A", "!", "grave", "b", "B"}}
                \cup {<<"escape", n>> : n \in {"\\", "Shift_L", "bad"}}
  IN  Item \X Item
MCCombos == {<<"a">>, <<"Ctrl", "A">>, <<"Ctrl", "exclam">>, <<"Shift", "exclam">>, <<"Shift", "a", "1">>,
             <<"Ctrl", "Shift", "B">>, <<"Shift", "bad">>}

\* A unit that is not picked starts in one of its initial states.
MCInit ==
  /\ unit \in {"digest", "rsa", "firmware", "subprocess", "extents", "memento", "jail", "switch", "script",
               "metrics"}
  /\ DigestInit /\ (unit = "digest" \/ sha.algorithm = "sha1")
  /\ FirmwareInit
  /\ unit = "firmware" \/ fw.image = GenerateFirmwareImage(CHOOSE k \in SignKeys : TRUE, 1, 1)
  /\ SubprocessInit /\ ExtentsInit
  /\ UpdaterInit
  /\ MetricsInit
  /\ IF unit = "rsa" THEN RsaInit ELSE rsa = RsaStart(RsaR - 1, 0)
  /\ IF unit = "jail" THEN JailInit ELSE jail = JailStart({}, NotGiven, NotGiven, {}, {})
  /\ IF unit = "switch" THEN SwitchInit ELSE switch = SwitchStart(<<1>>, 1, TRUE)
  /\ IF unit = "script" THEN ScriptInit ELSE script = ScriptStart(CHOOSE k \in Keyboards : TRUE)

MementoUnit(step) == unit = "memento" /\ step /\ UNCHANGED <<unit, sha, rsa, fw, procs, ext, jail, switch, script, metrics>>
MetricsUnit(step) == unit = "metrics" /\ step /\ UNCHANGED <<unit, sha, rsa, fw, procs, ext, mem, jail, switch, script>>

MCNext ==
  \/ unit = "digest" /\ DigestNext /\ UNCHANGED <<unit, rsa, fw, procs, ext, mem, jail, switch, script, metrics>>
  \/ unit = "rsa" /\ RsaNext /\ UNCHANGED <<unit, sha, fw, procs, ext, mem, jail, switch, script, metrics>>
  \/ unit = "firmware" /\ FirmwareNext /\ UNCHANGED <<unit, sha, rsa, procs, ext, mem, jail, switch, script, metrics>>
  \/ unit = "subprocess" /\ SubprocessNext /\ UNCHANGED <<unit, sha, rsa, fw, ext, mem, jail, switch, script, metrics>>
  \/ unit = "extents" /\ ExtentsNext /\ UNCHANGED <<unit, sha, rsa, fw, procs, mem, jail, switch, script, metrics>>
  \/ MementoUnit(UpdaterNext)
  \/ unit = "jail" /\ JailNext /\ UNCHANGED <<unit, sha, rsa, fw, procs, ext, mem, switch, script, metrics>>
  \/ unit = "switch" /\ SwitchNext /\ UNCHANGED <<unit, sha, rsa, fw, procs, ext, mem, jail, script, metrics>>
  \/ unit = "script" /\ ScriptNext /\ UNCHANGED <<unit, sha, rsa, fw, procs, ext, mem, jail, switch, metrics>>
  \/ MetricsUnit(MetricsNext)

\* The loop of software_update.sh goes on; a process that has the lock on the metrics file, or can get it, goes on.
MCSpec ==
  /\ MCInit /\ [][MCNext]_vars
  /\ WF_vars(MementoUnit(LoopRuns))
  /\ WF_vars(MetricsUnit(DaemonStep)) /\ WF_vars(MetricsUnit(ChromeStep))
  /\ \A c \in Clients : WF_vars(MetricsUnit(ClientStep(c)))

\* Nobody waits for ever for a lock: the loop of software_update.sh gets past the lock of a
\* killed run (StaleLockGoes), and a client of the metrics file does not wait for ever for a
\* lock that is in use (ClientsEnd).
LocksAreGot ==
  /\ unit = "memento" => StaleLockGoes
  /\ unit = "metrics" => ClientsEnd
===============================================================================
