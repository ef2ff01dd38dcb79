------------------------------ MODULE MiniJail ------------------------------
(***************************************************************************)
(* minijail: the switches of the command line, the options they make, and  *)
(* the steps of MiniJail::Jail() on the way to the program.  Each step is  *)
(* a system call of env.cc, which the kernel refuses without the right     *)
(* capability; then the process ends (PLOG(FATAL)).                        *)
(***************************************************************************)
EXTENDS Integers, Sequences, FiniteSets

CONSTANTS JailUids, JailGids,   \* ids of the switches; the process starts with 0
          NotGiven

VARIABLE jail

Switches == {"readonly_mounts", "disable_tracing", "benchmark", "by_source", "vfs", "pid", "capabilities"}

\* NotGiven is neither an id nor an Options object.
ASSUME JailAssumption ==
  /\ NotGiven \notin JailUids \cup JailGids
  /\ NotGiven \notin [switches : SUBSET Switches, uid : JailUids \cup {0}, change_uid : BOOLEAN,
                      gid : JailGids \cup {0}, change_gid : BOOLEAN]

\* What the steps and the checks distinguish of the capabilities.
Capabilities == {"SETPCAP", "SETUID", "SETGID", "SYS_ADMIN"}

\* Options(), and ProcessSwitches(): "switches" are those given.  A program is always given.  The ids are
\* numbers: strtol() makes one of anything else as well, and ProcessSwitches() only warns.
MiniJailOptions(switches, uid, gid) ==
  [switches |-> switches, uid |-> IF uid = NotGiven THEN 0 ELSE uid, change_uid |-> uid # NotGiven,
   gid |-> IF gid = NotGiven THEN 0 ELSE gid, change_gid |-> gid # NotGiven]

\* change_gid() returns change_uid_.
change_gid(opts) == opts.change_uid

\* Mutant: read-only mounts without their namespace.
FixUpNothing(opts) ==
  IF {"benchmark", "by_source"} \subseteq opts.switches THEN NotGiven ELSE opts

\* FixUpDependencies(): main() ends without a jail if it fails.
FixUpDependencies(opts) ==
  IF {"benchmark", "by_source"} \subseteq opts.switches THEN NotGiven
  ELSE IF "readonly_mounts" \in opts.switches THEN [opts EXCEPT !.switches = @ \cup {"vfs"}]
  ELSE opts

\* main() starts as root, with all capabilities or in a place that has taken some away.
JailStart(switches, uid, gid, start, supplementary) ==
  LET opts == MiniJailOptions(switches, uid, gid)
      fixed == FixUpDependencies(opts)
  IN  [pc |-> IF fixed = NotGiven THEN "fatal" ELSE "namespaces",
       asked |-> [switches |-> switches, uid |-> uid, gid |-> gid], start |-> start,
       opts |-> IF fixed = NotGiven THEN opts ELSE fixed,
       uid |-> 0, gid |-> 0, groups |-> supplementary,
       effective |-> start, permitted |-> start, inheritable |-> {}, bounding |-> Capabilities,
       keepcaps |-> FALSE, locked |-> FALSE, dumpable |-> TRUE,
       namespaces |-> {}, mounts |-> "host", seccomp |-> "off"]

JailInit ==
  \E switches \in SUBSET Switches, uid \in JailUids \cup {NotGiven}, gid \in JailGids \cup {NotGiven},
     start \in SUBSET Capabilities, supplementary \in {{}, {0}} :
    jail = JailStart(switches, uid, gid, start, supplementary)

\* A call needs a capability; the process ends without it.
Calls(needs, j, next) ==
  jail' = IF needs \subseteq jail.effective THEN [j EXCEPT !.pc = next] ELSE [jail EXCEPT !.pc = "fatal"]

Given(switch) == switch \in jail.opts.switches

-----------------------------------------------------------------------------
\* EnterNamespace(): the clone goes on and the original process exits.
EnterNamespace ==
  /\ jail.pc = "namespaces"
  /\ LET namespaces == {"pid", "vfs"} \cap jail.opts.switches
     IN  Calls(IF namespaces = {} THEN {} ELSE {"SYS_ADMIN"}, [jail EXCEPT !.namespaces = namespaces], "mount")

\* Mount(): /proc, read-only, in the namespace of the jail.
Mount ==
  /\ jail.pc = "mount"
  /\ IF Given("vfs") /\ Given("readonly_mounts")
     THEN Calls({"SYS_ADMIN"}, [jail EXCEPT !.mounts = "jail"], "keepcaps")
     ELSE Calls({}, jail, "keepcaps")

\* KeepRootCapabilities() and DisableDefaultRootPrivileges(): the second locks the flag of the first, and with
\* it a change of user leaves the capabilities alone.
KeepRootCapabilities ==
  /\ jail.pc = "keepcaps"
  /\ IF ~Given("capabilities") THEN Calls({}, jail, "tracing")
     ELSE jail' = [jail EXCEPT !.keepcaps = TRUE, !.pc = IF jail.locked THEN "fatal" ELSE "securebits"]

DisableDefaultRootPrivileges ==
  /\ jail.pc = "securebits"
  /\ Calls({"SETPCAP"}, [jail EXCEPT !.locked = TRUE], "tracing")

DisableTracing ==
  /\ jail.pc = "tracing"
  /\ Calls({}, [jail EXCEPT !.dumpable = ~Given("disable_tracing") /\ @], "user")

\* setresuid() away from root: the kernel clears the capabilities, unless it is told not to.
SetUid(j, uid) ==
  IF uid = 0 \/ j.locked THEN [j EXCEPT !.uid = uid]
  ELSE [j EXCEPT !.uid = uid, !.effective = {}, !.permitted = IF j.keepcaps THEN @ ELSE {}]

\* Mutant: the user first, then the groups.
ChangeUserFirst ==
  /\ jail.pc = "user"
  /\ LET uid == IF jail.opts.change_uid THEN jail.opts.uid ELSE 0
         gid == IF change_gid(jail.opts) THEN jail.opts.gid ELSE 0
         changed == SetUid(jail, uid)
     IN  IF ~jail.opts.change_uid /\ ~change_gid(jail.opts) THEN Calls({}, jail, "seccomp")
         ELSE IF {"SETUID"} \subseteq jail.effective /\ {"SETGID"} \subseteq changed.effective
              THEN jail' = [changed EXCEPT !.gid = gid, !.groups = {}, !.pc = "seccomp"]
              ELSE jail' = [jail EXCEPT !.pc = "fatal"]

\* ChangeUser(): the supplementary groups, those of the user if there is an entry for it (left out of "groups"), then the
\* group and the user.  Setting what is already set needs no capability, but the groups do.
ChangeUser ==
  /\ jail.pc = "user"
  /\ LET uid == IF jail.opts.change_uid THEN jail.opts.uid ELSE 0
         gid == IF change_gid(jail.opts) THEN jail.opts.gid ELSE 0
     IN  IF ~jail.opts.change_uid /\ ~change_gid(jail.opts) THEN Calls({}, jail, "seccomp")
         ELSE Calls({"SETGID"} \cup (IF uid = 0 THEN {} ELSE {"SETUID"}),
                    SetUid([jail EXCEPT !.gid = gid, !.groups = {}], uid), "seccomp")

\* FilterSyscallsBySource() or FilterSyscallsBenchmarkOnly().
FilterSyscalls ==
  /\ jail.pc = "seccomp"
  /\ Calls({}, [jail EXCEPT !.seccomp = IF Given("by_source") THEN "by_source"
                                        ELSE IF Given("benchmark") THEN "benchmark" ELSE "off"],
           IF Given("capabilities") THEN "sanitize" ELSE "run")

\* SanitizeCapabilities(0): CAP_SETPCAP is kept; it has to be there.
SanitizeCapabilities ==
  /\ jail.pc = "sanitize"
  /\ IF "SETPCAP" \in jail.permitted
     THEN Calls({}, [jail EXCEPT !.effective = {"SETPCAP"}, !.permitted = {"SETPCAP"},
                                 !.inheritable = {"SETPCAP"}], "bounding")
     ELSE jail' = [jail EXCEPT !.pc = "fatal"]

\* SanitizeBoundingSet(0).
SanitizeBoundingSet ==
  /\ jail.pc = "bounding"
  /\ Calls({"SETPCAP"}, [jail EXCEPT !.bounding = {"SETPCAP"}], "run")

JailNext ==
  \/ EnterNamespace \/ Mount \/ KeepRootCapabilities \/ DisableDefaultRootPrivileges \/ DisableTracing
  \/ ChangeUser \/ FilterSyscalls \/ SanitizeCapabilities \/ SanitizeBoundingSet

-----------------------------------------------------------------------------
\* The steps do not get into each other's way: for root with all capabilities no step gives up what a
\* later one needs, and the program runs whichever switches can be reconciled.
JailOrderWorks ==
  jail.start = Capabilities /\ ~({"benchmark", "by_source"} \subseteq jail.asked.switches) =>
    jail.pc # "fatal"

\* The program runs in the jail that the switches ask for, however the process was started: never partly
\* jailed.  (The group is what was asked for if a user was asked for as well.)
JailedAsAsked ==
  jail.pc = "run" =>
    LET asked(s) == s \in jail.asked.switches IN
    /\ {"pid", "vfs"} \cap jail.asked.switches \subseteq jail.namespaces
    /\ asked("readonly_mounts") => jail.mounts = "jail"
    /\ ~asked("readonly_mounts") => jail.mounts = "host"
    /\ asked("disable_tracing") => ~jail.dumpable
    /\ asked("by_source") => jail.seccomp = "by_source"
    /\ asked("capabilities") =>
         /\ jail.locked
         /\ UNION {jail.effective, jail.permitted, jail.inheritable, jail.bounding} = {"SETPCAP"}
    /\ jail.asked.uid # NotGiven =>
         /\ jail.uid = jail.asked.uid /\ jail.groups = {}
         /\ ~asked("capabilities") => jail.effective \cup jail.permitted = {}
    /\ jail.asked.uid # NotGiven /\ jail.asked.gid # NotGiven => jail.gid = jail.asked.gid

\* The process that is started is jailed in full, and the order of the steps permits it.
JailHolds == JailOrderWorks /\ JailedAsAsked
=============================================================================
