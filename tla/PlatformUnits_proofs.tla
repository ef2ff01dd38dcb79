-------------------------- MODULE PlatformUnits_proofs --------------------------
(***************************************************************************)
(* Proofs about the parts outside the window system that MCPlatformUnits   *)
(* puts side by side: Subprocess, memento_updater.sh, minijail, the switch *)
(* of systems and the metrics file, for every value of the constants.      *)
(* Each part has an inductive invariant of its own; the steps of the other *)
(* parts leave it alone.  The last section is about DownloadAction, whose  *)
(* specification is Spec.                                                  *)
(***************************************************************************)
EXTENDS MCPlatformUnits, DownloadAction, FiniteSetTheorems, SequenceTheorems, TLAPS

-----------------------------------------------------------------------------
(* Subprocess.                                                             *)

Procs == [child : [ExecTags -> {"unused", "running", "exited", "reaped"}],
          records : [ExecTags -> {"none", "set", "null"}],
          inside : ExecTags \cup {NoTag},
          calls : [ExecTags -> Nat],
          cancelled : [ExecTags -> {"no", "early", "late"}]]

\* One child: its record has a callback exactly while somebody waits for it, and its callback
\* is running exactly when it has been called and the child is not reaped.
ChildIsTracked(t) ==
  /\ procs.child[t] = "unused" => procs.calls[t] = 0 /\ procs.cancelled[t] = "no"
  /\ procs.child[t] = "running" => procs.calls[t] = 0
  /\ procs.child[t] = "exited" => procs.calls[t] = IF procs.inside = t THEN 1 ELSE 0
  /\ procs.inside = t => procs.child[t] = "exited"
  /\ procs.child[t] = "reaped" =>
       (procs.calls[t] = 1 /\ procs.cancelled[t] # "early")
         \/ (procs.calls[t] = 0 /\ procs.cancelled[t] = "early")
  /\ procs.cancelled[t] = "early" => procs.calls[t] = 0
  /\ procs.cancelled[t] = "late" => procs.calls[t] = 1
  /\ procs.records[t] = "set" <=>
       procs.child[t] \in {"running", "exited"} /\ procs.cancelled[t] = "no"

SubprocessInv == procs \in Procs /\ \A t \in ExecTags : ChildIsTracked(t)

\* No command has been executed yet.
LEMMA SubprocessInitInv == SubprocessInit => SubprocessInv
  BY HelpersAssumption DEF SubprocessInit, SubprocessInv, Procs, ChildIsTracked

\* Exec(), the main loop, the callbacks and CancelExec() keep every child tracked.
LEMMA SubprocessNextInv == SubprocessInv /\ SubprocessNext => SubprocessInv'
<1> SUFFICES ASSUME SubprocessInv, SubprocessNext PROVE SubprocessInv'
  OBVIOUS
<1>0. procs \in Procs /\ \A t \in ExecTags : ChildIsTracked(t)
  BY DEF SubprocessInv
<1>1. ASSUME NEW t \in ExecTags, Exec(t) PROVE SubprocessInv'
  <2>1. procs' \in Procs
    BY <1>0, <1>1 DEF Exec, Procs
  <2>2. /\ procs'.inside = procs.inside /\ procs'.calls = procs.calls
        /\ procs'.cancelled = procs.cancelled
        /\ procs'.child[t] = "running" /\ procs'.records[t] = "set"
        /\ \A u \in ExecTags : u # t => procs'.child[u] = procs.child[u]
                                        /\ procs'.records[u] = procs.records[u]
    BY <1>0, <1>1 DEF Exec, Procs
  <2> QED
    BY <1>0, <1>1, <2>1, <2>2 DEF SubprocessInv, ChildIsTracked, Exec
<1>2. ASSUME NEW t \in ExecTags, ChildExits(t) PROVE SubprocessInv'
  <2>1. procs' \in Procs
    BY <1>0, <1>2 DEF ChildExits, Procs
  <2>2. /\ procs'.inside = procs.inside /\ procs'.calls = procs.calls
        /\ procs'.cancelled = procs.cancelled /\ procs'.records = procs.records
        /\ procs'.child[t] = "exited"
        /\ \A u \in ExecTags : u # t => procs'.child[u] = procs.child[u]
    BY <1>0, <1>2 DEF ChildExits, Procs
  <2> QED
    BY <1>0, <1>2, <2>1, <2>2 DEF SubprocessInv, ChildIsTracked, ChildExits
<1>3. ASSUME NEW t \in ExecTags, GChildExitedCallback(t), procs.records[t] = "set"
      PROVE  SubprocessInv'
  <2> DEFINE more == [procs.calls EXCEPT ![t] = @ + 1]
  <2>0. procs' = [procs EXCEPT !.inside = t, !.calls = more]
    BY <1>0, <1>3 DEF GChildExitedCallback, Procs
  <2>a. ASSUME NEW f \in [ExecTags -> Nat] PROVE [f EXCEPT ![t] = @ + 1] \in [ExecTags -> Nat]
    OBVIOUS
  <2>b. more \in [ExecTags -> Nat]
    BY <1>0, <2>a DEF Procs
  <2> HIDE DEF more
  <2>1. procs' \in Procs
    BY <1>0, <2>0, <2>b DEF Procs
  <2>2. /\ procs'.inside = t /\ procs'.child = procs.child
        /\ procs'.cancelled = procs.cancelled /\ procs'.records = procs.records
        /\ procs'.calls[t] = procs.calls[t] + 1
        /\ \A u \in ExecTags : u # t => procs'.calls[u] = procs.calls[u]
    BY <1>0, <1>3 DEF GChildExitedCallback, Procs
  <2>3. procs.inside = NoTag /\ procs.child[t] = "exited"
    BY <1>3 DEF GChildExitedCallback
  <2> QED
    BY <1>0, <1>3, <2>1, <2>2, <2>3, HelpersAssumption DEF SubprocessInv, ChildIsTracked
<1>4. ASSUME NEW t \in ExecTags, GChildExitedCallback(t), procs.records[t] # "set"
      PROVE  SubprocessInv'
  <2>1. procs' \in Procs
    BY <1>0, <1>4 DEF GChildExitedCallback, Procs
  <2>2. /\ procs'.inside = procs.inside /\ procs'.calls = procs.calls
        /\ procs'.cancelled = procs.cancelled
        /\ procs'.child[t] = "reaped" /\ procs'.records[t] = "none"
        /\ \A u \in ExecTags : u # t => procs'.child[u] = procs.child[u]
                                        /\ procs'.records[u] = procs.records[u]
    BY <1>0, <1>4 DEF GChildExitedCallback, Procs
  <2>3. procs.inside = NoTag /\ procs.child[t] = "exited" /\ procs.cancelled[t] = "early"
    BY <1>0, <1>4, HelpersAssumption DEF GChildExitedCallback, ChildIsTracked, Procs
  <2> QED
    BY <1>0, <2>1, <2>2, <2>3, HelpersAssumption DEF SubprocessInv, ChildIsTracked
<1>5. ASSUME NEW t \in ExecTags, CancelExec(t) PROVE SubprocessInv'
  <2>1. procs' \in Procs
    BY <1>0, <1>5 DEF CancelExec, Procs
  <2>2. /\ procs'.inside = procs.inside /\ procs'.calls = procs.calls
        /\ procs'.child = procs.child /\ procs'.records[t] = "null"
        /\ procs'.cancelled[t] = IF procs.calls[t] = 0 THEN "early" ELSE "late"
        /\ \A u \in ExecTags : u # t => procs'.cancelled[u] = procs.cancelled[u]
                                        /\ procs'.records[u] = procs.records[u]
    BY <1>0, <1>5 DEF CancelExec, Procs
  <2> QED
    BY <1>0, <1>5, <2>1, <2>2 DEF SubprocessInv, ChildIsTracked, CancelExec, Procs
<1>6. ASSUME CallbackReturns PROVE SubprocessInv'
  <2> DEFINE t == procs.inside
  <2>0. t \in ExecTags
    BY <1>0, <1>6 DEF CallbackReturns, Procs
  <2>1. procs' \in Procs
    BY <1>0, <1>6, <2>0 DEF CallbackReturns, Procs
  <2>2. /\ procs'.inside = NoTag /\ procs'.calls = procs.calls
        /\ procs'.cancelled = procs.cancelled
        /\ procs'.child[t] = "reaped" /\ procs'.records[t] = "none"
        /\ \A u \in ExecTags : u # t => procs'.child[u] = procs.child[u]
                                        /\ procs'.records[u] = procs.records[u]
    BY <1>0, <1>6, <2>0 DEF CallbackReturns, Procs
  <2> QED
    BY <1>0, <2>0, <2>1, <2>2, HelpersAssumption DEF SubprocessInv, ChildIsTracked, Procs
<1> QED
  BY <1>1, <1>2, <1>3, <1>4, <1>5, <1>6 DEF SubprocessNext

\* However children exit, callbacks start and cancel others and CancelExec() comes early or late:
\* each callback runs once at most, and SubprocessInFlight() tells whether anybody waits.
THEOREM CallbacksSafety == MCSpec => []CallbacksInTurn
<1>1. MCInit => SubprocessInv
  BY SubprocessInitInv DEF MCInit
<1>2. SubprocessInv /\ [MCNext]_vars => SubprocessInv'
  <2>1. UNCHANGED procs /\ SubprocessInv => SubprocessInv'
    BY DEF SubprocessInv, ChildIsTracked
  <2>2. [MCNext]_vars => SubprocessNext \/ UNCHANGED procs
    BY DEF MCNext, vars, MementoUnit, MetricsUnit
  <2> QED
    BY <2>1, <2>2, SubprocessNextInv
<1>3. SubprocessInv => CallbacksInTurn
  BY DEF SubprocessInv, Procs, ChildIsTracked, CallbacksInTurn, SubprocessInFlight, WaitedFor
<1> QED
  BY <1>1, <1>2, <1>3, PTL DEF MCSpec

-----------------------------------------------------------------------------
(* memento_updater.sh.                                                     *)

Places == Holding \cup {"idle", "stale", "check", "acquire", "exit", "interrupted"}

Mem == [lock : UpdaterRuns \cup {"none", "dead"}, completed : BOOLEAN,
        checksum : {"none", "empty", "right", "wrong"}, mounted : BOOLEAN,
        active : Partitions, local : Partitions,
        content : [Partitions -> {"ready", "image", "other", "partial", "zeroed"}],
        pc : [UpdaterRuns -> Places], mode : [UpdaterRuns -> UpdaterModes],
        codes : [UpdaterRuns -> BOOLEAN], sum : [UpdaterRuns -> {"none", "right", "wrong"}],
        faults : Nat, interfered : BOOLEAN]

\* Until a run is interrupted or killed, the lock file is that of the run past it.
LockIsOwn ==
  mem.faults = 0 =>
    /\ mem.lock # "dead"
    /\ \A r \in UpdaterRuns :
         /\ mem.pc[r] \notin {"stale", "interrupted"}
         /\ mem.pc[r] \in Holding \cup {"exit"} => mem.lock = r

\* The partition a run without interference has filled, by how far it has come.
Filled(r) ==
  /\ mem.pc[r] \in Holding \ {"touch"} => mem.active = mem.local
  /\ mem.pc[r] = "download" => mem.checksum = "empty"
  /\ mem.pc[r] = "compare" /\ mem.codes[r] =>
       \/ mem.content[InstallDev(mem)] = "image"
       \/ mem.checksum # "right" /\ mem.sum[r] # "right"
  /\ mem.pc[r] \in {"version", "postinst"} => mem.content[InstallDev(mem)] = "image"
  /\ mem.pc[r] = "mbr" => mem.content[InstallDev(mem)] = "ready"

\* Only one run is past the lock, and openssl writes for a run that has not looked yet.
Undisturbed ==
  /\ mem.content[mem.active] = "ready"
  /\ \A r, s \in UpdaterRuns : mem.pc[r] \in Holding /\ mem.pc[s] \in Holding => r = s
  /\ \A r \in UpdaterRuns : Filled(r)

UpdaterInv ==
  /\ mem \in Mem
  /\ LockIsOwn
  /\ \A r \in UpdaterRuns : mem.sum[r] # "none" => mem.pc[r] = "compare"
  /\ ~mem.interfered => Undisturbed

\* The two partitions are a pair.
LEMMA InstallDevIs ==
  ASSUME NEW m \in Mem
  PROVE  /\ InstallDev(m) \in Partitions /\ InstallDev(m) # m.local
         /\ \A p \in Partitions : p = m.local \/ p = InstallDev(m)
  BY DEF Mem, Partitions, InstallDev

\* What a run does when it goes to another command.
LEMMA GoesToIs ==
  ASSUME NEW m \in Mem, NEW r \in UpdaterRuns, NEW pc \in Places, GoesTo(r, m, pc)
  PROVE  /\ mem' \in Mem
         /\ mem'.lock = m.lock /\ mem'.checksum = m.checksum /\ mem'.active = m.active
         /\ mem'.local = m.local /\ mem'.content = m.content /\ mem'.sum = m.sum
         /\ mem'.faults = m.faults /\ mem'.interfered = m.interfered
         /\ mem'.pc[r] = pc
         /\ pc # "idle" => mem'.codes = m.codes
         /\ \A s \in UpdaterRuns : s # r => mem'.pc[s] = m.pc[s] /\ mem'.codes[s] = m.codes[s]
         /\ InstallDev(mem)' = InstallDev(m)
<1>1. mem' \in Mem
  BY DEF GoesTo, Mem, UpdaterModes
<1> QED
  BY <1>1 DEF GoesTo, Mem, InstallDev

\* At first nobody runs, and both partitions are ready.
LEMMA UpdaterInitInv == UpdaterInit => UpdaterInv
<1> SUFFICES ASSUME UpdaterInit PROVE UpdaterInv
  OBVIOUS
<1>1. mem \in Mem
  BY DEF UpdaterInit, Mem, Partitions, Places, UpdaterModes
<1>2. /\ mem.lock = "none" /\ mem.active = 1 /\ mem.content[1] = "ready"
      /\ \A r \in UpdaterRuns : mem.pc[r] = "idle" /\ mem.sum[r] = "none"
  BY DEF UpdaterInit, Partitions
<1> QED
  BY <1>1, <1>2, UpdaterAssumption
  DEF UpdaterInv, LockIsOwn, Undisturbed, Filled, Holding

\* A step that does not touch the lock keeps it the run's own.
LEMMA LockKept ==
  ASSUME UpdaterInv, NEW m \in Mem, NEW r \in UpdaterRuns, NEW pc \in Places, GoesTo(r, m, pc),
         m.pc = mem.pc, m.lock = mem.lock, m.faults = mem.faults,
         pc \notin {"stale", "interrupted"},
         pc \in Holding \cup {"exit"} => mem.pc[r] \in Holding \cup {"exit"}
  PROVE  LockIsOwn'
  BY GoesToIs DEF UpdaterInv, LockIsOwn

\* A step of one run: what the other runs have filled stays, since only the run past the lock
\* writes, so that this run's own claims are all there is to show.
LEMMA RunKeeps ==
  ASSUME UpdaterInv, NEW m \in Mem, NEW r \in UpdaterRuns, NEW pc \in Places, GoesTo(r, m, pc),
         m.pc = mem.pc, m.local = mem.local, m.interfered = mem.interfered,
         \A s \in UpdaterRuns : s # r => m.sum[s] = mem.sum[s] /\ m.codes[s] = mem.codes[s],
         m.sum[r] # "none" => pc = "compare",
         pc \in Holding => mem.pc[r] \in Holding,
         mem.pc[r] \notin Holding =>
           m.content = mem.content /\ m.active = mem.active /\ m.checksum = mem.checksum,
         LockIsOwn',
         ~mem.interfered => mem'.content[mem'.active] = "ready" /\ Filled(r)'
  PROVE  UpdaterInv'
<1>1. mem' \in Mem
  BY GoesToIs
<1>2. \A s \in UpdaterRuns : mem'.sum[s] # "none" => mem'.pc[s] = "compare"
  BY GoesToIs DEF UpdaterInv
<1>3. ASSUME ~mem'.interfered PROVE Undisturbed'
  <2>1. Undisturbed /\ mem'.content[mem'.active] = "ready" /\ Filled(r)'
    BY <1>3, GoesToIs DEF UpdaterInv
  <2>2. \A q, s \in UpdaterRuns : mem'.pc[q] \in Holding /\ mem'.pc[s] \in Holding => q = s
    BY <2>1, GoesToIs DEF Undisturbed
  <2>3. ASSUME NEW s \in UpdaterRuns, s # r PROVE Filled(s)'
    <3>1. mem'.pc[s] = mem.pc[s] /\ mem'.codes[s] = mem.codes[s] /\ mem'.sum[s] = mem.sum[s]
      BY <2>3, GoesToIs
    <3>2. CASE mem.pc[r] \in Holding
      <4>1. mem'.pc[s] \notin Holding
        BY <2>1, <2>3, <3>1, <3>2 DEF Undisturbed
      <4> QED
        BY <4>1 DEF Filled, Holding
    <3>3. CASE mem.pc[r] \notin Holding
      <4>1. /\ mem'.content = mem.content /\ mem'.active = mem.active
            /\ mem'.checksum = mem.checksum /\ mem'.local = mem.local
            /\ InstallDev(mem)' = InstallDev(mem)
        BY <3>3, GoesToIs DEF InstallDev
      <4> QED
        BY <2>1, <2>3, <3>1, <4>1 DEF Undisturbed, Filled
    <3> QED
      BY <3>2, <3>3
  <2> QED
    BY <2>1, <2>2, <2>3 DEF Undisturbed
<1> QED
  BY <1>1, <1>2, <1>3 DEF UpdaterInv

\* Every command of a run, every fault and a late openssl keep the invariant.
LEMMA UpdaterNextInv == UpdaterInv /\ UpdaterNext => UpdaterInv'
<1> SUFFICES ASSUME UpdaterInv, UpdaterNext PROVE UpdaterInv'
  OBVIOUS
<1> USE DEF Holding, Places
<1>0. /\ mem \in Mem /\ LockIsOwn /\ (~mem.interfered => Undisturbed)
      /\ \A s \in UpdaterRuns : mem.sum[s] # "none" => mem.pc[s] = "compare"
  BY DEF UpdaterInv
<1>a. InstallDev(mem) \in Partitions /\ InstallDev(mem) # mem.local
  BY <1>0, InstallDevIs
<1>b. \A r \in UpdaterRuns : mem.pc[r] \in Places /\ (~mem.interfered => Filled(r))
  BY <1>0 DEF Mem, Undisturbed
<1>1. ASSUME NEW r \in UpdaterRuns, StartUpdater(r) PROVE UpdaterInv'
  <2>1. PICK mode \in UpdaterModes, pc \in {"stale", "check"} :
          /\ GoesTo(r, [mem EXCEPT !.mode[r] = mode], pc)
          /\ pc = "stale" => mem.lock = "dead"
    BY <1>1 DEF StartUpdater
  <2> DEFINE m == [mem EXCEPT !.mode[r] = mode]
  <2>2. /\ m \in Mem /\ m.pc = mem.pc /\ m.local = mem.local /\ m.interfered = mem.interfered
        /\ m.sum = mem.sum /\ m.codes = mem.codes /\ m.content = mem.content
        /\ m.active = mem.active /\ m.checksum = mem.checksum /\ m.lock = mem.lock
        /\ m.faults = mem.faults
    BY <1>0 DEF Mem
  <2>3. GoesTo(r, m, pc)
    BY <2>1
  <2> HIDE DEF m
  <2>4. mem.pc[r] = "idle" /\ mem.sum[r] = "none"
    BY <1>0, <1>1 DEF StartUpdater
  <2>5. LockIsOwn'
    <3>1. CASE pc = "stale"
      BY <1>0, <2>1, <2>2, <2>3, <3>1, GoesToIs DEF LockIsOwn
    <3>2. CASE pc = "check"
      BY <2>2, <2>3, <3>2, LockKept
    <3> QED
      BY <3>1, <3>2
  <2>6. ~mem.interfered => mem'.content[mem'.active] = "ready" /\ Filled(r)'
    BY <1>0, <2>2, <2>3, GoesToIs DEF Undisturbed, Filled
  <2> QED
    BY <2>2, <2>3, <2>4, <2>5, <2>6, RunKeeps
<1>2. ASSUME NEW r \in UpdaterRuns, RemoveStaleLock(r) PROVE UpdaterInv'
  <2> DEFINE m == [mem EXCEPT !.lock = "none"]
  <2>1. GoesTo(r, m, "check") /\ mem.pc[r] = "stale"
    BY <1>2 DEF RemoveStaleLock
  <2>2. /\ m \in Mem /\ m.pc = mem.pc /\ m.local = mem.local /\ m.interfered = mem.interfered
        /\ m.sum = mem.sum /\ m.codes = mem.codes /\ m.content = mem.content
        /\ m.active = mem.active /\ m.checksum = mem.checksum /\ m.faults = mem.faults
    BY <1>0 DEF Mem
  <2> HIDE DEF m
  <2>3. LockIsOwn'
    BY <1>0, <2>1, <2>2, GoesToIs DEF LockIsOwn
  <2>4. ~mem.interfered => mem'.content[mem'.active] = "ready" /\ Filled(r)'
    BY <1>0, <2>1, <2>2, GoesToIs DEF Undisturbed, Filled
  <2> QED
    BY <1>0, <2>1, <2>2, <2>3, <2>4, RunKeeps
<1>3. ASSUME NEW r \in UpdaterRuns, CheckCompleted(r) PROVE UpdaterInv'
  <2>1. PICK pc \in {"idle", "acquire"} : GoesTo(r, mem, pc)
    BY <1>3 DEF CheckCompleted
  <2>2. mem.pc[r] = "check" /\ mem.sum[r] = "none"
    BY <1>0, <1>3 DEF CheckCompleted
  <2>3. LockIsOwn'
    BY <1>0, <2>1, LockKept
  <2>4. ~mem.interfered => mem'.content[mem'.active] = "ready" /\ Filled(r)'
    BY <1>0, <2>1, GoesToIs DEF Undisturbed, Filled
  <2> QED
    BY <1>0, <2>1, <2>2, <2>3, <2>4, RunKeeps
<1>4. ASSUME NEW r \in UpdaterRuns, AcquireLock(r), mem.lock # "none" PROVE UpdaterInv'
  <2>1. GoesTo(r, mem, "idle")
    BY <1>4 DEF AcquireLock
  <2>2. mem.pc[r] = "acquire" /\ mem.sum[r] = "none"
    BY <1>0, <1>4 DEF AcquireLock
  <2>3. LockIsOwn'
    BY <1>0, <2>1, LockKept
  <2>4. ~mem.interfered => mem'.content[mem'.active] = "ready" /\ Filled(r)'
    BY <1>0, <2>1, GoesToIs DEF Undisturbed, Filled
  <2> QED
    BY <1>0, <2>1, <2>2, <2>3, <2>4, RunKeeps
<1>5. ASSUME NEW r \in UpdaterRuns, AcquireLock(r), mem.lock = "none" PROVE UpdaterInv'
  <2> DEFINE late == mem.interfered \/ mem.active # mem.local \/ Running(mem) # {}
             m == [mem EXCEPT !.lock = r, !.interfered = late]
  <2>0. late \in BOOLEAN
    BY <1>0 DEF Mem
  <2>1. GoesTo(r, m, "ask") /\ mem.pc[r] = "acquire"
    BY <1>5 DEF AcquireLock
  <2>2. /\ m \in Mem /\ m.pc = mem.pc /\ m.local = mem.local /\ m.interfered = late
        /\ m.sum = mem.sum /\ m.codes = mem.codes /\ m.content = mem.content /\ m.lock = r
        /\ m.active = mem.active /\ m.checksum = mem.checksum /\ m.faults = mem.faults
    BY <1>0, <2>0 DEF Mem
  <2> HIDE DEF m
  <2>3. LockIsOwn'
    BY <1>0, <1>5, <2>1, <2>2, GoesToIs, UpdaterAssumption DEF LockIsOwn
  <2>4. mem' \in Mem /\ \A q \in UpdaterRuns : mem'.sum[q] # "none" => mem'.pc[q] = "compare"
    BY <1>0, <2>1, <2>2, GoesToIs
  <2>5. ASSUME ~mem'.interfered PROVE Undisturbed'
    <3>1. /\ Undisturbed /\ mem.active = mem.local
          /\ \A q \in UpdaterRuns : mem.pc[q] \notin Holding
      BY <1>0, <2>1, <2>2, <2>5, GoesToIs DEF Running
    <3>2. /\ mem'.pc[r] = "ask" /\ \A q \in UpdaterRuns : q # r => mem'.pc[q] \notin Holding
          /\ mem'.active = mem'.local /\ mem'.content[mem'.active] = "ready"
      BY <2>1, <2>2, <3>1, GoesToIs DEF Undisturbed
    <3> QED
      BY <3>2 DEF Undisturbed, Filled
  <2> QED
    BY <2>3, <2>4, <2>5 DEF UpdaterInv
<1>6. ASSUME NEW r \in UpdaterRuns, PingOmaha(r) PROVE UpdaterInv'
  <2>1. PICK pc \in {"unmount", "exit"} : GoesTo(r, mem, pc)
    BY <1>6 DEF PingOmaha
  <2>2. mem.pc[r] = "ask" /\ mem.sum[r] = "none"
    BY <1>0, <1>6 DEF PingOmaha
  <2>3. LockIsOwn'
    BY <1>0, <2>1, <2>2, LockKept
  <2>4. ~mem.interfered => mem'.content[mem'.active] = "ready" /\ Filled(r)'
    BY <1>0, <1>b, <2>1, <2>2, GoesToIs DEF Undisturbed, Filled
  <2> QED
    BY <1>0, <2>1, <2>2, <2>3, <2>4, RunKeeps
<1>7. ASSUME NEW r \in UpdaterRuns, UnmountInstallDev(r) PROVE UpdaterInv'
  <2>1. PICK pc \in {"start", "exit"}, mounted \in BOOLEAN :
          GoesTo(r, [mem EXCEPT !.mounted = mounted], pc)
    <3>1. CASE GoesTo(r, [mem EXCEPT !.mounted = FALSE], "start")
      BY <3>1
    <3>2. CASE GoesTo(r, mem, "exit")
      <4>1. mem = [mem EXCEPT !.mounted = mem.mounted] /\ mem.mounted \in BOOLEAN
        BY <1>0 DEF Mem
      <4> QED
        BY <3>2, <4>1
    <3> QED
      BY <1>7, <3>1, <3>2 DEF UnmountInstallDev
  <2> DEFINE m == [mem EXCEPT !.mounted = mounted]
  <2>2. /\ m \in Mem /\ m.pc = mem.pc /\ m.local = mem.local /\ m.interfered = mem.interfered
        /\ m.sum = mem.sum /\ m.codes = mem.codes /\ m.content = mem.content
        /\ m.active = mem.active /\ m.checksum = mem.checksum /\ m.lock = mem.lock
        /\ m.faults = mem.faults
    BY <1>0 DEF Mem
  <2>3. GoesTo(r, m, pc)
    BY <2>1
  <2> HIDE DEF m
  <2>4. mem.pc[r] = "unmount" /\ mem.sum[r] = "none"
    BY <1>0, <1>7 DEF UnmountInstallDev
  <2>5. LockIsOwn'
    BY <1>0, <2>2, <2>3, <2>4, LockKept
  <2>6. ~mem.interfered => mem'.content[mem'.active] = "ready" /\ Filled(r)'
    BY <1>0, <1>b, <2>2, <2>3, <2>4, GoesToIs DEF Undisturbed, Filled
  <2> QED
    BY <1>0, <2>2, <2>3, <2>4, <2>5, <2>6, RunKeeps
<1>8. ASSUME NEW r \in UpdaterRuns, StartDownload(r) PROVE UpdaterInv'
  <2> DEFINE m == [mem EXCEPT !.checksum = "empty", !.content[InstallDev(mem)] = "partial"]
  <2>1. GoesTo(r, m, "download")
    BY <1>8 DEF StartDownload
  <2>2. /\ m \in Mem /\ m.pc = mem.pc /\ m.local = mem.local /\ m.interfered = mem.interfered
        /\ m.sum = mem.sum /\ m.codes = mem.codes /\ m.lock = mem.lock
        /\ m.active = mem.active /\ m.checksum = "empty" /\ m.faults = mem.faults
        /\ m.content[mem.local] = mem.content[mem.local]
    BY <1>0, <1>a DEF Mem
  <2> HIDE DEF m
  <2>3. mem.pc[r] = "start" /\ mem.sum[r] = "none"
    BY <1>0, <1>8 DEF StartDownload
  <2>4. LockIsOwn'
    BY <1>0, <2>1, <2>2, <2>3, LockKept
  <2>5. ~mem.interfered => mem'.content[mem'.active] = "ready" /\ Filled(r)'
    BY <1>0, <1>b, <2>1, <2>2, <2>3, GoesToIs DEF Undisturbed, Filled
  <2> QED
    BY <1>0, <2>1, <2>2, <2>3, <2>4, <2>5, RunKeeps
<1>9. ASSUME NEW r \in UpdaterRuns, FinishDownload(r) PROVE UpdaterInv'
  <2>1. PICK content \in {"image", "other", "partial"}, codes \in BOOLEAN, sum \in {"right", "wrong"} :
          /\ GoesTo(r, [mem EXCEPT !.content[InstallDev(mem)] = content, !.codes[r] = codes,
                                   !.sum[r] = sum], "compare")
          /\ codes => content = "image" \/ sum = "wrong"
    <3>1. PICK got \in {[content |-> "image", codes |-> TRUE, sum |-> "right"],
                         [content |-> "other", codes |-> TRUE, sum |-> "wrong"],
                         [content |-> "partial", codes |-> FALSE, sum |-> "wrong"],
                         [content |-> "partial", codes |-> FALSE, sum |-> "right"]} :
            GoesTo(r, [mem EXCEPT !.content[InstallDev(mem)] = got.content,
                                  !.codes[r] = got.codes, !.sum[r] = got.sum], "compare")
      BY <1>9 DEF FinishDownload
    <3>2. got.content \in {"image", "other", "partial"} /\ got.sum \in {"right", "wrong"}
      OBVIOUS
    <3>3. got.codes \in BOOLEAN
      <4>1. CASE got = [content |-> "image", codes |-> TRUE, sum |-> "right"]
        BY <4>1
      <4>2. CASE got = [content |-> "other", codes |-> TRUE, sum |-> "wrong"]
        BY <4>2
      <4>3. CASE got = [content |-> "partial", codes |-> FALSE, sum |-> "wrong"]
        BY <4>3
      <4>4. CASE got = [content |-> "partial", codes |-> FALSE, sum |-> "right"]
        BY <4>4
      <4> QED
        BY <4>1, <4>2, <4>3, <4>4
    <3>4. got.content # "image" /\ got.sum # "wrong" => ~got.codes
      OBVIOUS
    <3> QED
      BY <3>1, <3>2, <3>3, <3>4
  <2> DEFINE m == [mem EXCEPT !.content[InstallDev(mem)] = content, !.codes[r] = codes,
                              !.sum[r] = sum]
  <2>2. /\ m \in Mem /\ m.pc = mem.pc /\ m.local = mem.local /\ m.interfered = mem.interfered
        /\ m.lock = mem.lock /\ m.checksum = mem.checksum
        /\ m.active = mem.active /\ m.faults = mem.faults
        /\ m.content[mem.local] = mem.content[mem.local]
        /\ m.content[InstallDev(mem)] = content /\ m.codes[r] = codes /\ m.sum[r] = sum
        /\ \A q \in UpdaterRuns : q # r => m.sum[q] = mem.sum[q] /\ m.codes[q] = mem.codes[q]
    BY <1>0, <1>a, ZenonT(40) DEF Mem
  <2>3. GoesTo(r, m, "compare")
    BY <2>1
  <2>4. InstallDev(m) = InstallDev(mem)
    BY <2>2 DEF InstallDev
  <2> HIDE DEF m
  <2>5. mem.pc[r] = "download"
    BY <1>9 DEF FinishDownload
  <2>6. LockIsOwn'
    BY <1>0, <2>2, <2>3, <2>5, LockKept
  <2>7. ~mem.interfered => mem'.content[mem'.active] = "ready" /\ Filled(r)'
    BY <1>0, <1>b, <2>1, <2>2, <2>3, <2>4, <2>5, GoesToIs DEF Undisturbed, Filled
  <2> QED
    BY <1>0, <2>2, <2>3, <2>5, <2>6, <2>7, RunKeeps
<1>10. ASSUME NEW r \in UpdaterRuns, CompareChecksum(r) PROVE UpdaterInv'
  <2> DEFINE good == mem.checksum = "right" /\ mem.codes[r]
             pc == IF good THEN "version" ELSE "exit"
             read == [mem EXCEPT !.checksum = "none", !.sum[r] = "none", !.codes[r] = FALSE]
             m == IF good THEN read ELSE [read EXCEPT !.content[InstallDev(mem)] = "zeroed"]
  <2>1. GoesTo(r, m, pc)
    BY <1>10 DEF CompareChecksum
  <2>2. /\ m \in Mem /\ m.pc = mem.pc /\ m.local = mem.local /\ m.interfered = mem.interfered
        /\ m.lock = mem.lock /\ m.active = mem.active /\ m.faults = mem.faults
        /\ m.content[mem.local] = mem.content[mem.local] /\ m.sum[r] = "none"
        /\ good => m.content = mem.content
        /\ \A q \in UpdaterRuns : q # r => m.sum[q] = mem.sum[q] /\ m.codes[q] = mem.codes[q]
    BY <1>0, <1>a, ZenonT(40) DEF Mem
  <2>3. InstallDev(m) = InstallDev(mem)
    BY <2>2 DEF InstallDev
  <2>4. mem.pc[r] = "compare"
    BY <1>10 DEF CompareChecksum
  <2>5. pc \in {"version", "exit"} /\ (pc = "version" => good)
    OBVIOUS
  <2> HIDE DEF m, pc
  <2>6. LockIsOwn'
    BY <1>0, <2>1, <2>2, <2>4, <2>5, LockKept
  <2>7. ~mem.interfered => mem'.content[mem'.active] = "ready" /\ Filled(r)'
    BY <1>0, <1>b, <2>1, <2>2, <2>3, <2>4, <2>5, GoesToIs DEF Undisturbed, Filled
  <2> QED
    BY <1>0, <2>1, <2>2, <2>4, <2>5, <2>6, <2>7, RunKeeps
<1>11. ASSUME NEW r \in UpdaterRuns, CheckVersion(r) PROVE UpdaterInv'
  <2>1. PICK pc \in {"postinst", "exit"}, mounted \in BOOLEAN :
          GoesTo(r, [mem EXCEPT !.mounted = mounted], pc)
    BY <1>11 DEF CheckVersion
  <2> DEFINE m == [mem EXCEPT !.mounted = mounted]
  <2>2. /\ m \in Mem /\ m.pc = mem.pc /\ m.local = mem.local /\ m.interfered = mem.interfered
        /\ m.sum = mem.sum /\ m.codes = mem.codes /\ m.content = mem.content
        /\ m.active = mem.active /\ m.checksum = mem.checksum /\ m.lock = mem.lock
        /\ m.faults = mem.faults
    BY <1>0 DEF Mem
  <2>3. GoesTo(r, m, pc)
    BY <2>1
  <2>4. InstallDev(m) = InstallDev(mem)
    BY <2>2 DEF InstallDev
  <2> HIDE DEF m
  <2>5. mem.pc[r] = "version" /\ mem.sum[r] = "none"
    BY <1>0, <1>11 DEF CheckVersion
  <2>6. LockIsOwn'
    BY <1>0, <2>2, <2>3, <2>5, LockKept
  <2>7. ~mem.interfered => mem'.content[mem'.active] = "ready" /\ Filled(r)'
    BY <1>0, <1>b, <2>2, <2>3, <2>4, <2>5, GoesToIs DEF Undisturbed, Filled
  <2> QED
    BY <1>0, <2>2, <2>3, <2>5, <2>6, <2>7, RunKeeps
<1>12. ASSUME NEW r \in UpdaterRuns, RunPostinst(r) PROVE UpdaterInv'
  <2>1. PICK success \in BOOLEAN, unmounted \in BOOLEAN :
          GoesTo(r, [mem EXCEPT !.mounted = ~unmounted,
                       !.content[InstallDev(mem)] = IF success /\ @ = "image" THEN "ready" ELSE @],
                 IF success THEN "mbr" ELSE "exit")
    BY <1>12 DEF RunPostinst
  <2> DEFINE new == IF success /\ mem.content[InstallDev(mem)] = "image" THEN "ready"
                    ELSE mem.content[InstallDev(mem)]
             m == [mem EXCEPT !.mounted = ~unmounted, !.content[InstallDev(mem)] = new]
             pc == IF success THEN "mbr" ELSE "exit"
  <2>2. /\ m \in Mem /\ m.pc = mem.pc /\ m.local = mem.local /\ m.interfered = mem.interfered
        /\ m.sum = mem.sum /\ m.codes = mem.codes /\ m.lock = mem.lock
        /\ m.active = mem.active /\ m.checksum = mem.checksum /\ m.faults = mem.faults
        /\ m.content[mem.local] = mem.content[mem.local] /\ m.content[InstallDev(mem)] = new
    BY <1>0, <1>a DEF Mem
  <2>3. GoesTo(r, m, pc)
    BY <2>1
  <2>4. InstallDev(m) = InstallDev(mem)
    BY <2>2 DEF InstallDev
  <2>5. mem.pc[r] = "postinst" /\ mem.sum[r] = "none" /\ pc \in {"mbr", "exit"}
        /\ (pc = "mbr" /\ mem.content[InstallDev(mem)] = "image" => new = "ready")
    BY <1>0, <1>12 DEF RunPostinst
  <2> HIDE DEF m, pc, new
  <2>6. LockIsOwn'
    BY <1>0, <2>2, <2>3, <2>5, LockKept
  <2>7. ~mem.interfered => mem'.content[mem'.active] = "ready" /\ Filled(r)'
    BY <1>0, <1>b, <2>2, <2>3, <2>4, <2>5, GoesToIs DEF Undisturbed, Filled
  <2> QED
    BY <1>0, <2>2, <2>3, <2>5, <2>6, <2>7, RunKeeps
<1>13. ASSUME NEW r \in UpdaterRuns, UpdateMbr(r) PROVE UpdaterInv'
  <2>1. PICK chosen \in {mem.active, InstallDev(mem)} :
          GoesTo(r, [mem EXCEPT !.active = chosen], "touch")
    BY <1>13 DEF UpdateMbr
  <2> DEFINE m == [mem EXCEPT !.active = chosen]
  <2>2. /\ m \in Mem /\ m.pc = mem.pc /\ m.local = mem.local /\ m.interfered = mem.interfered
        /\ m.sum = mem.sum /\ m.codes = mem.codes /\ m.lock = mem.lock
        /\ m.active = chosen /\ m.checksum = mem.checksum /\ m.faults = mem.faults
        /\ m.content = mem.content
    BY <1>0, <1>a DEF Mem
  <2>3. GoesTo(r, m, "touch")
    BY <2>1
  <2> HIDE DEF m
  <2>4. mem.pc[r] = "mbr" /\ mem.sum[r] = "none"
    BY <1>0, <1>13 DEF UpdateMbr
  <2>5. LockIsOwn'
    BY <1>0, <2>2, <2>3, <2>4, LockKept
  <2>6. ~mem.interfered => mem'.content[mem'.active] = "ready" /\ Filled(r)'
    BY <1>0, <1>b, <2>1, <2>2, <2>3, <2>4, GoesToIs DEF Undisturbed, Filled
  <2> QED
    BY <1>0, <2>2, <2>3, <2>4, <2>5, <2>6, RunKeeps
<1>14. ASSUME NEW r \in UpdaterRuns, MarkCompleted(r) PROVE UpdaterInv'
  <2> DEFINE m == [mem EXCEPT !.completed = TRUE]
  <2>1. GoesTo(r, m, "exit")
    BY <1>14 DEF MarkCompleted
  <2>2. /\ m \in Mem /\ m.pc = mem.pc /\ m.local = mem.local /\ m.interfered = mem.interfered
        /\ m.sum = mem.sum /\ m.codes = mem.codes /\ m.content = mem.content
        /\ m.active = mem.active /\ m.checksum = mem.checksum /\ m.lock = mem.lock
        /\ m.faults = mem.faults
    BY <1>0 DEF Mem
  <2> HIDE DEF m
  <2>3. mem.pc[r] = "touch" /\ mem.sum[r] = "none"
    BY <1>0, <1>14 DEF MarkCompleted
  <2>4. LockIsOwn'
    BY <1>0, <2>1, <2>2, <2>3, LockKept
  <2>5. ~mem.interfered => mem'.content[mem'.active] = "ready" /\ Filled(r)'
    BY <1>0, <2>1, <2>2, GoesToIs DEF Undisturbed, Filled
  <2> QED
    BY <1>0, <2>1, <2>2, <2>3, <2>4, <2>5, RunKeeps
<1>15. ASSUME NEW r \in UpdaterRuns, RunTrap(r) PROVE UpdaterInv'
  <2> DEFINE m == [mem EXCEPT !.lock = "none"]
  <2>1. PICK pc \in {"exit", "idle"} :
          GoesTo(r, m, pc) /\ (pc = "exit" => mem.pc[r] = "interrupted")
    BY <1>15 DEF RunTrap
  <2>2. /\ m \in Mem /\ m.pc = mem.pc /\ m.local = mem.local /\ m.interfered = mem.interfered
        /\ m.sum = mem.sum /\ m.codes = mem.codes /\ m.content = mem.content
        /\ m.active = mem.active /\ m.checksum = mem.checksum /\ m.lock = "none"
        /\ m.faults = mem.faults
    BY <1>0 DEF Mem
  <2> HIDE DEF m
  <2>3. mem.pc[r] \in {"exit", "interrupted"} /\ mem.sum[r] = "none"
    BY <1>0, <1>15 DEF RunTrap
  <2>4. LockIsOwn'
    BY <1>0, <2>1, <2>2, <2>3, GoesToIs DEF LockIsOwn
  <2>5. ~mem.interfered => mem'.content[mem'.active] = "ready" /\ Filled(r)'
    BY <1>0, <2>1, <2>2, GoesToIs DEF Undisturbed, Filled
  <2> QED
    BY <1>0, <2>1, <2>2, <2>3, <2>4, <2>5, RunKeeps
<1>16. ASSUME NEW r \in UpdaterRuns, ChecksumWritten(r) PROVE UpdaterInv'
  <2>1. mem.sum[r] # "none" /\ mem.pc[r] = "compare"
    BY <1>0, <1>16 DEF ChecksumWritten
  <2>2. /\ mem' \in Mem /\ mem'.pc = mem.pc /\ mem'.local = mem.local
        /\ mem'.interfered = mem.interfered /\ mem'.codes = mem.codes
        /\ mem'.content = mem.content /\ mem'.active = mem.active /\ mem'.lock = mem.lock
        /\ mem'.faults = mem.faults /\ mem'.checksum = mem.sum[r] /\ mem'.sum[r] = "none"
        /\ \A q \in UpdaterRuns : q # r => mem'.sum[q] = mem.sum[q]
    BY <1>0, <1>16 DEF ChecksumWritten, Mem
  <2>3. InstallDev(mem)' = InstallDev(mem)
    BY <2>2 DEF InstallDev
  <2>4. LockIsOwn' /\ \A q \in UpdaterRuns : mem'.sum[q] # "none" => mem'.pc[q] = "compare"
    BY <1>0, <2>2 DEF LockIsOwn
  <2>5. ASSUME ~mem.interfered PROVE Undisturbed'
    <3>1. \A q \in UpdaterRuns : q # r => mem'.pc[q] \notin Holding
      BY <1>0, <2>1, <2>2, <2>5 DEF Undisturbed
    <3>2. \A q \in UpdaterRuns : q # r => Filled(q)'
      BY <3>1 DEF Filled
    <3>3. Filled(r)'
      BY <1>b, <2>1, <2>2, <2>3, <2>5 DEF Filled
    <3> QED
      BY <1>0, <2>2, <2>5, <3>2, <3>3 DEF Undisturbed
  <2> QED
    BY <2>2, <2>4, <2>5 DEF UpdaterInv
<1>17. ASSUME NEW r \in UpdaterRuns, InterruptUpdater(r) PROVE UpdaterInv'
  <2> DEFINE n == mem.faults + 1
             m == [mem EXCEPT !.faults = n, !.sum[r] = "none"]
  <2>0. n \in Nat \ {0}
    BY <1>0 DEF Mem
  <2>1. PICK pc \in {"interrupted", "exit", "idle"} : GoesTo(r, m, pc)
    BY <1>17 DEF InterruptUpdater
  <2> HIDE DEF n
  <2>2. /\ m \in Mem /\ m.pc = mem.pc /\ m.local = mem.local /\ m.interfered = mem.interfered
        /\ m.codes = mem.codes /\ m.content = mem.content
        /\ m.active = mem.active /\ m.checksum = mem.checksum
        /\ m.faults = n /\ m.sum[r] = "none"
        /\ \A q \in UpdaterRuns : q # r => m.sum[q] = mem.sum[q]
    BY <1>0, <2>0 DEF Mem
  <2> HIDE DEF m
  <2>3. LockIsOwn'
    BY <2>0, <2>1, <2>2, GoesToIs DEF LockIsOwn
  <2>4. ~mem.interfered => mem'.content[mem'.active] = "ready" /\ Filled(r)'
    BY <1>0, <2>1, <2>2, GoesToIs DEF Undisturbed, Filled
  <2> QED
    BY <1>0, <2>1, <2>2, <2>3, <2>4, RunKeeps
<1>18. ASSUME NEW r \in UpdaterRuns, KillUpdater(r) PROVE UpdaterInv'
  <2> DEFINE n == mem.faults + 1
             m == [mem EXCEPT !.faults = n, !.sum[r] = "none",
                              !.lock = IF @ = r THEN "dead" ELSE @]
  <2>0. n \in Nat \ {0}
    BY <1>0 DEF Mem
  <2>1. GoesTo(r, m, "idle")
    BY <1>18 DEF KillUpdater
  <2> HIDE DEF n
  <2>2. /\ m \in Mem /\ m.pc = mem.pc /\ m.local = mem.local /\ m.interfered = mem.interfered
        /\ m.codes = mem.codes /\ m.content = mem.content
        /\ m.active = mem.active /\ m.checksum = mem.checksum
        /\ m.faults = n /\ m.sum[r] = "none"
        /\ \A q \in UpdaterRuns : q # r => m.sum[q] = mem.sum[q]
    BY <1>0, <2>0 DEF Mem
  <2> HIDE DEF m
  <2>3. LockIsOwn'
    BY <2>0, <2>1, <2>2, GoesToIs DEF LockIsOwn
  <2>4. ~mem.interfered => mem'.content[mem'.active] = "ready" /\ Filled(r)'
    BY <1>0, <2>1, <2>2, GoesToIs DEF Undisturbed, Filled
  <2> QED
    BY <1>0, <2>1, <2>2, <2>3, <2>4, RunKeeps
<1>19. CASE PowerFailure
  <2> DEFINE n == mem.faults + 1
  <2>0. /\ n \in Nat \ {0}
        /\ mem' = [mem EXCEPT !.faults = n, !.lock = "none", !.completed = FALSE,
             !.checksum = "none", !.mounted = FALSE, !.local = mem.active,
             !.pc = [r \in UpdaterRuns |-> "idle"], !.sum = [r \in UpdaterRuns |-> "none"],
             !.mode = [r \in UpdaterRuns |-> "omaha"], !.codes = [r \in UpdaterRuns |-> FALSE]]
    BY <1>0, <1>19 DEF PowerFailure, Mem
  <2> HIDE DEF n
  <2>1. /\ mem' \in Mem /\ mem'.interfered = mem.interfered /\ mem'.content = mem.content
        /\ mem'.active = mem.active /\ mem'.lock = "none" /\ mem'.faults = n
        /\ \A q \in UpdaterRuns : mem'.pc[q] = "idle" /\ mem'.sum[q] = "none"
    BY <1>0, <2>0 DEF Mem, UpdaterModes
  <2>2. LockIsOwn'
    BY <2>0, <2>1 DEF LockIsOwn
  <2>3. Undisturbed => Undisturbed'
    BY <2>1 DEF Undisturbed, Filled
  <2> QED
    BY <1>0, <2>1, <2>2, <2>3 DEF UpdaterInv
<1> QED
  BY <1>1, <1>2, <1>3, <1>4, <1>5, <1>6, <1>7, <1>8, <1>9, <1>10, <1>11, <1>12, <1>13,
     <1>14, <1>15, <1>16, <1>17, <1>18, <1>19
  DEF UpdaterNext, UpdaterStep

\* No two runs get past the lock while nobody is cut short, and whatever fails the partition
\* that boots next is ready unless a run got in the way of another.
THEOREM UpdaterSafety == MCSpec => []UpdatesInTurn
<1>1. MCInit => UpdaterInv
  BY UpdaterInitInv DEF MCInit
<1>2. UpdaterInv /\ [MCNext]_vars => UpdaterInv'
  <2>1. UNCHANGED mem /\ UpdaterInv => UpdaterInv'
    BY DEF UpdaterInv, LockIsOwn, Undisturbed, Filled, InstallDev
  <2>2. [MCNext]_vars => UpdaterNext \/ UNCHANGED mem
    BY DEF MCNext, vars, MementoUnit, MetricsUnit
  <2> QED
    BY <2>1, <2>2, UpdaterNextInv
<1>3. UpdaterInv => UpdatesInTurn
  <2> SUFFICES ASSUME UpdaterInv PROVE RunsAlone /\ BootsReadyAlone
    BY DEF UpdatesInTurn
  <2>1. BootsReadyAlone
    BY DEF UpdaterInv, Undisturbed, BootsReadyAlone
  <2>2. ASSUME mem.faults = 0 PROVE Cardinality(Running(mem)) <= 1
    <3>1. Running(mem) \subseteq {mem.lock}
      BY <2>2 DEF UpdaterInv, LockIsOwn, Running
    <3>2. CASE Running(mem) = {}
      BY <3>2, FS_EmptySet
    <3>3. CASE Running(mem) = {mem.lock}
      <4>1. Cardinality({mem.lock}) = 1
        BY FS_Singleton
      <4> QED
        BY <3>3, <4>1
    <3> QED
      BY <3>1, <3>2, <3>3
  <2> QED
    BY <2>1, <2>2 DEF RunsAlone
<1> QED
  BY <1>1, <1>2, <1>3, PTL DEF MCSpec

-----------------------------------------------------------------------------
(* minijail.                                                               *)

\* The steps of Jail(), from the last one back.
Filtered == {"sanitize", "bounding", "run"}
UserChanged == Filtered \cup {"seccomp"}
Untraced == UserChanged \cup {"user"}
Kept == Untraced \cup {"tracing"}
Mounted == Kept \cup {"keepcaps", "securebits"}
Entered == Mounted \cup {"mount"}
Steps == Entered \cup {"namespaces"}

JailOptions ==
  [switches : SUBSET Switches, uid : JailUids \cup {0}, change_uid : BOOLEAN,
   gid : JailGids \cup {0}, change_gid : BOOLEAN]

Jails ==
  [pc : Steps \cup {"fatal"},
   asked : [switches : SUBSET Switches, uid : JailUids \cup {NotGiven},
            gid : JailGids \cup {NotGiven}],
   start : SUBSET Capabilities, opts : JailOptions,
   uid : JailUids \cup {0}, gid : JailGids \cup {0}, groups : SUBSET {0},
   effective : SUBSET Capabilities, permitted : SUBSET Capabilities,
   inheritable : SUBSET Capabilities, bounding : SUBSET Capabilities,
   keepcaps : BOOLEAN, locked : BOOLEAN, dumpable : BOOLEAN,
   namespaces : SUBSET {"pid", "vfs"}, mounts : {"host", "jail"},
   seccomp : {"off", "by_source", "benchmark"}]

Contradictory == {"benchmark", "by_source"} \subseteq jail.asked.switches

\* The options are those asked for, with the namespace that read-only mounts need.
OptionsAsAsked ==
  /\ jail.opts.change_uid = (jail.asked.uid # NotGiven)
  /\ jail.asked.uid # NotGiven => jail.opts.uid = jail.asked.uid
  /\ jail.asked.gid # NotGiven => jail.opts.gid = jail.asked.gid
  /\ jail.pc # "fatal" =>
       /\ ~Contradictory
       /\ jail.opts.switches = jail.asked.switches
            \cup (IF "readonly_mounts" \in jail.asked.switches THEN {"vfs"} ELSE {})

\* What the steps behind the process have done.
StepsDone ==
  /\ jail.pc \in Entered => jail.namespaces = {"pid", "vfs"} \cap jail.opts.switches
  /\ jail.pc \in Steps \ Mounted => jail.mounts = "host"
  /\ jail.pc \in Mounted =>
       (jail.mounts = "jail" <=> Given("vfs") /\ Given("readonly_mounts"))
  /\ jail.pc \in Steps \ Kept => ~jail.locked
  /\ jail.pc = "securebits" => Given("capabilities")
  /\ jail.pc \in Kept => (jail.locked <=> Given("capabilities"))
  /\ jail.pc \in Kept => (jail.keepcaps => Given("capabilities"))
  /\ jail.pc \in Steps \ (Kept \cup {"securebits"}) => ~jail.keepcaps
  /\ jail.pc \in Untraced /\ Given("disable_tracing") => ~jail.dumpable
  /\ jail.pc \in UserChanged /\ jail.opts.change_uid =>
       /\ jail.uid = jail.opts.uid /\ jail.gid = jail.opts.gid /\ jail.groups = {}
       /\ ~Given("capabilities") => jail.effective = {} /\ jail.permitted = {}
  /\ jail.pc \in Filtered /\ Given("by_source") => jail.seccomp = "by_source"
  /\ jail.pc \in {"sanitize", "bounding"} => Given("capabilities")
  /\ jail.pc \in {"bounding", "run"} /\ Given("capabilities") =>
       /\ jail.effective = {"SETPCAP"} /\ jail.permitted = {"SETPCAP"}
       /\ jail.inheritable = {"SETPCAP"}
  /\ jail.pc = "run" /\ Given("capabilities") => jail.bounding = {"SETPCAP"}

\* Root with all capabilities still has what the steps ahead need.
EnoughLeft ==
  jail.start = Capabilities /\ ~Contradictory =>
    /\ jail.pc # "fatal"
    /\ jail.pc \in Steps \ UserChanged =>
         jail.effective = Capabilities /\ jail.permitted = Capabilities
    /\ jail.pc \in {"seccomp", "sanitize"} /\ Given("capabilities") =>
         jail.permitted = Capabilities

JailInv == jail \in Jails /\ OptionsAsAsked /\ StepsDone /\ EnoughLeft

\* The options as they were given, before anything is parsed.
LEMMA JailInitInv == MCInit => JailInv
<1>1. ASSUME NEW s \in SUBSET Switches, NEW u \in JailUids \cup {NotGiven},
             NEW g \in JailGids \cup {NotGiven}, NEW c \in SUBSET Capabilities,
             NEW r \in {{}, {0}}, jail = JailStart(s, u, g, c, r)
      PROVE  JailInv
  <2> DEFINE opts == MiniJailOptions(s, u, g)
             fixed == FixUpDependencies(opts)
             all == s \cup (IF "readonly_mounts" \in s THEN {"vfs"} ELSE {})
  <2>1. /\ opts \in JailOptions /\ opts.switches = s
        /\ opts.change_uid = (u # NotGiven)
        /\ u # NotGiven => opts.uid = u
        /\ g # NotGiven => opts.gid = g
    BY DEF MiniJailOptions, JailOptions
  <2> HIDE DEF opts
  <2>2. CASE {"benchmark", "by_source"} \subseteq s
    <3>1. fixed = NotGiven
      BY <2>1, <2>2 DEF FixUpDependencies
    <3> HIDE DEF fixed
    <3>2. /\ jail \in Jails /\ jail.pc = "fatal" /\ jail.opts = opts
          /\ jail.asked = [switches |-> s, uid |-> u, gid |-> g]
      BY <1>1, <2>1, <3>1 DEF JailStart, opts, fixed, Jails, Capabilities, Steps, Entered
    <3> QED
      BY <2>1, <2>2, <3>2
      DEF JailInv, OptionsAsAsked, StepsDone, EnoughLeft, Contradictory, Given,
          Steps, Entered, Mounted, Kept, Untraced, UserChanged, Filtered
  <2>3. CASE ~({"benchmark", "by_source"} \subseteq s)
    <3>1. /\ fixed \in JailOptions /\ fixed.switches = all
          /\ fixed.change_uid = opts.change_uid /\ fixed.uid = opts.uid
          /\ fixed.gid = opts.gid
      BY <2>1, <2>3 DEF FixUpDependencies, JailOptions, Switches
    <3>2. fixed # NotGiven
      BY <3>1, JailAssumption DEF JailOptions
    <3> HIDE DEF fixed
    <3>3. /\ jail \in Jails /\ jail.pc = "namespaces" /\ jail.opts = fixed
          /\ jail.asked = [switches |-> s, uid |-> u, gid |-> g]
          /\ jail.start = c /\ jail.effective = c /\ jail.permitted = c
          /\ jail.mounts = "host" /\ ~jail.locked /\ ~jail.keepcaps
      BY <1>1, <2>1, <3>1, <3>2 DEF JailStart, opts, fixed, Jails, Capabilities, Steps
    <3> QED
      BY <2>1, <2>3, <3>1, <3>3
      DEF JailInv, OptionsAsAsked, StepsDone, EnoughLeft, Contradictory, Given,
          Steps, Entered, Mounted, Kept, Untraced, UserChanged, Filtered
  <2> QED
    BY <2>2, <2>3
<1>2. {} \in SUBSET Switches /\ {} \in SUBSET Capabilities
  OBVIOUS
<1> QED
  BY <1>1, <1>2 DEF MCInit, JailInit

\* A call that is refused ends the process, and refusing is possible only where the process
\* was not started with all capabilities.
LEMMA CallsOrEnds ==
  ASSUME JailInv, NEW needs, NEW j, NEW next, Calls(needs, j, next),
         jail.start = Capabilities /\ ~Contradictory => needs \subseteq jail.effective
  PROVE  JailInv' \/ jail' = [j EXCEPT !.pc = next]
<1>1. CASE needs \subseteq jail.effective
  BY <1>1 DEF Calls
<1>2. CASE ~(needs \subseteq jail.effective)
  <2>1. jail' = [jail EXCEPT !.pc = "fatal"]
    BY <1>2 DEF Calls
  <2>2. /\ jail' \in Jails /\ jail'.pc = "fatal" /\ jail'.opts = jail.opts
        /\ jail'.asked = jail.asked /\ jail'.start = jail.start
    BY <2>1 DEF JailInv, Jails
  <2> QED
    BY <1>2, <2>2
    DEF JailInv, OptionsAsAsked, StepsDone, EnoughLeft, Contradictory, Given,
        Steps, Entered, Mounted, Kept, Untraced, UserChanged, Filtered
<1> QED
  BY <1>1, <1>2

\* What a step leaves alone in any case.
AskedStays == jail' \in Jails /\ jail'.asked = jail.asked /\ jail'.start = jail.start /\ jail'.opts = jail.opts

\* Parsing an option, and every step of Run(), keeps the invariant.
LEMMA JailNextInv ==
  ASSUME 0 \notin JailUids, JailInv, JailNext
  PROVE  JailInv'
<1> USE DEF Steps, Entered, Mounted, Kept, Untraced, UserChanged, Filtered
<1>0. jail \in Jails /\ OptionsAsAsked /\ StepsDone /\ EnoughLeft
  BY DEF JailInv
<1>1. CASE EnterNamespace
  <2>1. JailInv' \/ jail' = [[jail EXCEPT !.namespaces = {"pid", "vfs"} \cap jail.opts.switches] EXCEPT !.pc = "mount"]
    BY <1>0, <1>1, CallsOrEnds DEF EnterNamespace, EnoughLeft, Capabilities
  <2>2. ASSUME jail' = [[jail EXCEPT !.namespaces = {"pid", "vfs"} \cap jail.opts.switches] EXCEPT !.pc = "mount"] PROVE JailInv'
    <3>1. /\ AskedStays /\ jail.pc = "namespaces" /\ jail'.pc = "mount"
          /\ jail'.namespaces = {"pid", "vfs"} \cap jail.opts.switches
          /\ jail'.uid = jail.uid /\ jail'.gid = jail.gid /\ jail'.groups = jail.groups
          /\ jail'.effective = jail.effective /\ jail'.permitted = jail.permitted
          /\ jail'.inheritable = jail.inheritable /\ jail'.bounding = jail.bounding
          /\ jail'.keepcaps = jail.keepcaps /\ jail'.locked = jail.locked
          /\ jail'.dumpable = jail.dumpable /\ jail'.mounts = jail.mounts
          /\ jail'.seccomp = jail.seccomp
      BY <1>0, <1>1, <2>2 DEF EnterNamespace, AskedStays, Jails, Capabilities
    <3>2. OptionsAsAsked'
      BY <1>0, <3>1 DEF OptionsAsAsked, Contradictory, AskedStays
    <3>3. StepsDone'
      BY <1>0, <3>1 DEF StepsDone, Given, AskedStays
    <3>4. EnoughLeft'
      BY <1>0, <3>1 DEF EnoughLeft, Given, Contradictory, AskedStays
    <3> QED
      BY <3>1, <3>2, <3>3, <3>4 DEF JailInv, AskedStays
  <2> QED
    BY <2>1, <2>2
<1>2. CASE Mount
  <2> DEFINE private == Given("vfs") /\ Given("readonly_mounts")
             m == IF private THEN "jail" ELSE jail.mounts
             facts ==
               /\ AskedStays /\ jail.pc = "mount" /\ jail'.pc = "keepcaps"
               /\ jail'.mounts = m
               /\ jail'.uid = jail.uid /\ jail'.gid = jail.gid /\ jail'.groups = jail.groups
               /\ jail'.effective = jail.effective /\ jail'.permitted = jail.permitted
               /\ jail'.inheritable = jail.inheritable /\ jail'.bounding = jail.bounding
               /\ jail'.keepcaps = jail.keepcaps /\ jail'.locked = jail.locked
               /\ jail'.dumpable = jail.dumpable /\ jail'.namespaces = jail.namespaces
               /\ jail'.seccomp = jail.seccomp
  <2>1. JailInv' \/ facts
    <3>1. CASE private
      <4>1. JailInv' \/ jail' = [[jail EXCEPT !.mounts = "jail"] EXCEPT !.pc = "keepcaps"]
        BY <1>0, <1>2, <3>1, CallsOrEnds DEF Mount, EnoughLeft, Capabilities
      <4>2. jail.pc = "mount" /\ m = "jail"
        BY <1>2, <3>1 DEF Mount
      <4> HIDE DEF private, m
      <4>3. ASSUME jail' = [[jail EXCEPT !.mounts = "jail"] EXCEPT !.pc = "keepcaps"]
            PROVE  facts
        <5>1. jail' = [jail EXCEPT !.mounts = "jail", !.pc = "keepcaps"]
          BY <4>3
        <5> QED
          BY <1>0, <4>2, <5>1 DEF AskedStays, Jails
      <4> QED
        BY <4>1, <4>3
    <3>2. CASE ~private
      <4>1. JailInv' \/ jail' = [jail EXCEPT !.pc = "keepcaps"]
        BY <1>2, <3>2, CallsOrEnds DEF Mount
      <4> QED
        BY <1>0, <1>2, <3>2, <4>1 DEF Mount, AskedStays, Jails
    <3> QED
      BY <3>1, <3>2
  <2>2. ASSUME facts PROVE JailInv'
    <3>2. OptionsAsAsked'
      BY <1>0, <2>2 DEF OptionsAsAsked, Contradictory, AskedStays
    <3>3. StepsDone'
      BY <1>0, <2>2 DEF StepsDone, Given, AskedStays
    <3>4. EnoughLeft'
      BY <1>0, <2>2 DEF EnoughLeft, Given, Contradictory, AskedStays
    <3> QED
      BY <2>2, <3>2, <3>3, <3>4 DEF JailInv, AskedStays
  <2> QED
    BY <2>1, <2>2
<1>3. CASE KeepRootCapabilities
  <2>1. CASE ~Given("capabilities")
    <3>1. JailInv' \/ jail' = [jail EXCEPT !.pc = "tracing"]
      BY <1>3, <2>1, CallsOrEnds DEF KeepRootCapabilities
    <3>2. ASSUME jail' = [jail EXCEPT !.pc = "tracing"] PROVE JailInv'
      <4>1. /\ AskedStays /\ jail.pc = "keepcaps" /\ jail'.pc = "tracing"
            /\ jail'.uid = jail.uid /\ jail'.gid = jail.gid /\ jail'.groups = jail.groups
            /\ jail'.effective = jail.effective /\ jail'.permitted = jail.permitted
            /\ jail'.inheritable = jail.inheritable /\ jail'.bounding = jail.bounding
            /\ jail'.keepcaps = jail.keepcaps /\ jail'.locked = jail.locked
            /\ jail'.dumpable = jail.dumpable /\ jail'.namespaces = jail.namespaces
            /\ jail'.mounts = jail.mounts /\ jail'.seccomp = jail.seccomp
        BY <1>0, <1>3, <3>2 DEF KeepRootCapabilities, AskedStays, Jails
      <4> QED
        BY <1>0, <2>1, <4>1
        DEF JailInv, OptionsAsAsked, StepsDone, EnoughLeft, Given, Contradictory, AskedStays
    <3> QED
      BY <3>1, <3>2
  <2>2. CASE Given("capabilities")
    <3>0. jail' = [jail EXCEPT !.keepcaps = TRUE, !.pc = "securebits"]
      <4>1. ~jail.locked
        BY <1>0, <1>3 DEF KeepRootCapabilities, StepsDone
      <4> QED
        BY <1>3, <2>2, <4>1 DEF KeepRootCapabilities
    <3>1. /\ AskedStays /\ jail.pc = "keepcaps" /\ jail'.pc = "securebits"
          /\ jail'.keepcaps
          /\ jail'.uid = jail.uid /\ jail'.gid = jail.gid /\ jail'.groups = jail.groups
          /\ jail'.effective = jail.effective /\ jail'.permitted = jail.permitted
          /\ jail'.inheritable = jail.inheritable /\ jail'.bounding = jail.bounding
          /\ jail'.locked = jail.locked /\ jail'.dumpable = jail.dumpable
          /\ jail'.namespaces = jail.namespaces /\ jail'.mounts = jail.mounts
          /\ jail'.seccomp = jail.seccomp
      BY <1>0, <1>3, <3>0 DEF KeepRootCapabilities, AskedStays, Jails
    <3> QED
      BY <1>0, <2>2, <3>1
      DEF JailInv, OptionsAsAsked, StepsDone, EnoughLeft, Given, Contradictory, AskedStays
  <2> QED
    BY <2>1, <2>2
<1>4. CASE DisableDefaultRootPrivileges
  <2>1. JailInv' \/ jail' = [[jail EXCEPT !.locked = TRUE] EXCEPT !.pc = "tracing"]
    BY <1>0, <1>4, CallsOrEnds DEF DisableDefaultRootPrivileges, EnoughLeft, Capabilities
  <2>2. ASSUME jail' = [[jail EXCEPT !.locked = TRUE] EXCEPT !.pc = "tracing"] PROVE JailInv'
    <3>1. /\ AskedStays /\ jail.pc = "securebits" /\ jail'.pc = "tracing"
          /\ jail'.locked
          /\ jail'.uid = jail.uid /\ jail'.gid = jail.gid /\ jail'.groups = jail.groups
          /\ jail'.effective = jail.effective /\ jail'.permitted = jail.permitted
          /\ jail'.inheritable = jail.inheritable /\ jail'.bounding = jail.bounding
          /\ jail'.keepcaps = jail.keepcaps /\ jail'.dumpable = jail.dumpable
          /\ jail'.namespaces = jail.namespaces /\ jail'.mounts = jail.mounts
          /\ jail'.seccomp = jail.seccomp
      BY <1>0, <1>4, <2>2 DEF DisableDefaultRootPrivileges, AskedStays, Jails, Capabilities
    <3>2. OptionsAsAsked'
      BY <1>0, <3>1 DEF OptionsAsAsked, Contradictory, AskedStays
    <3>3. StepsDone'
      BY <1>0, <3>1 DEF StepsDone, Given, AskedStays
    <3>4. EnoughLeft'
      BY <1>0, <3>1 DEF EnoughLeft, Given, Contradictory, AskedStays
    <3> QED
      BY <3>1, <3>2, <3>3, <3>4 DEF JailInv, AskedStays
  <2> QED
    BY <2>1, <2>2
<1>5. CASE DisableTracing
  <2> DEFINE d == ~Given("disable_tracing") /\ jail.dumpable
  <2>0. d \in BOOLEAN /\ (Given("disable_tracing") => ~d)
    BY <1>0 DEF Jails
  <2>1. JailInv' \/ jail' = [[jail EXCEPT !.dumpable = d] EXCEPT !.pc = "user"]
    BY <1>5, CallsOrEnds, ZenonT(40) DEF DisableTracing
  <2> HIDE DEF d
  <2>2. ASSUME jail' = [[jail EXCEPT !.dumpable = d] EXCEPT !.pc = "user"] PROVE JailInv'
    <3>1. /\ AskedStays /\ jail.pc = "tracing" /\ jail'.pc = "user"
          /\ jail'.dumpable = d
          /\ jail'.uid = jail.uid /\ jail'.gid = jail.gid /\ jail'.groups = jail.groups
          /\ jail'.effective = jail.effective /\ jail'.permitted = jail.permitted
          /\ jail'.inheritable = jail.inheritable /\ jail'.bounding = jail.bounding
          /\ jail'.keepcaps = jail.keepcaps /\ jail'.locked = jail.locked
          /\ jail'.namespaces = jail.namespaces /\ jail'.mounts = jail.mounts
          /\ jail'.seccomp = jail.seccomp
      BY <1>0, <1>5, <2>0, <2>2 DEF DisableTracing, AskedStays, Jails
    <3>2. OptionsAsAsked'
      BY <1>0, <3>1 DEF OptionsAsAsked, Contradictory, AskedStays
    <3>3. StepsDone'
      BY <1>0, <2>0, <3>1 DEF StepsDone, Given, AskedStays
    <3>4. EnoughLeft'
      BY <1>0, <3>1 DEF EnoughLeft, Given, Contradictory, AskedStays
    <3> QED
      BY <3>1, <3>2, <3>3, <3>4 DEF JailInv, AskedStays
  <2> QED
    BY <2>1, <2>2
<1>6. CASE ChangeUser
  <2>1. CASE ~jail.opts.change_uid
    <3>1. JailInv' \/ jail' = [jail EXCEPT !.pc = "seccomp"]
      BY <1>6, <2>1, CallsOrEnds DEF ChangeUser, change_gid
    <3>2. ASSUME jail' = [jail EXCEPT !.pc = "seccomp"] PROVE JailInv'
      <4>1. /\ AskedStays /\ jail.pc = "user" /\ jail'.pc = "seccomp"
            /\ jail'.uid = jail.uid /\ jail'.gid = jail.gid /\ jail'.groups = jail.groups
            /\ jail'.effective = jail.effective /\ jail'.permitted = jail.permitted
            /\ jail'.inheritable = jail.inheritable /\ jail'.bounding = jail.bounding
            /\ jail'.keepcaps = jail.keepcaps /\ jail'.locked = jail.locked
            /\ jail'.dumpable = jail.dumpable /\ jail'.namespaces = jail.namespaces
            /\ jail'.mounts = jail.mounts /\ jail'.seccomp = jail.seccomp
        BY <1>0, <1>6, <3>2 DEF ChangeUser, AskedStays, Jails
      <4> QED
        BY <1>0, <2>1, <4>1
        DEF JailInv, OptionsAsAsked, StepsDone, EnoughLeft, Given, Contradictory, AskedStays
    <3> QED
      BY <3>1, <3>2
  <2>2. CASE jail.opts.change_uid
    <3> DEFINE u == jail.opts.uid
               g == jail.opts.gid
               j == [jail EXCEPT !.gid = g, !.groups = {}]
    <3>0. u \in JailUids /\ u # 0 /\ g \in JailGids \cup {0}
      <4>1. /\ jail.asked.uid \in JailUids \cup {NotGiven} /\ jail.asked.uid # NotGiven
            /\ u = jail.asked.uid
        BY <1>0, <2>2 DEF OptionsAsAsked, Jails
      <4>2. g \in JailGids \cup {0}
        BY <1>0 DEF Jails, JailOptions
      <4> QED
        BY <4>1, <4>2
    <3>1. JailInv' \/ jail' = [SetUid(j, u) EXCEPT !.pc = "seccomp"]
      <4>1. Calls({"SETGID"} \cup {"SETUID"}, SetUid(j, u), "seccomp")
        BY <1>6, <2>2, <3>0 DEF ChangeUser, change_gid
      <4>2. jail.start = Capabilities /\ ~Contradictory =>
              ({"SETGID"} \cup {"SETUID"}) \subseteq jail.effective
        BY <1>0, <1>6 DEF ChangeUser, EnoughLeft, Capabilities
      <4> HIDE DEF j, u
      <4> QED
        BY <4>1, <4>2, CallsOrEnds
    <3>2. ASSUME jail' = [SetUid(j, u) EXCEPT !.pc = "seccomp"] PROVE JailInv'
      <4>0. j = [jail EXCEPT !.gid = g, !.groups = {}]
        OBVIOUS
      <4>1. /\ AskedStays /\ jail.pc = "user" /\ jail'.pc = "seccomp"
            /\ jail'.uid = u /\ jail'.gid = g /\ jail'.groups = {}
            /\ jail.locked => jail'.effective = jail.effective /\ jail'.permitted = jail.permitted
            /\ ~jail.locked => jail'.effective = {}
            /\ ~jail.locked => jail'.permitted = IF jail.keepcaps THEN jail.permitted ELSE {}
            /\ jail'.inheritable = jail.inheritable /\ jail'.bounding = jail.bounding
            /\ jail'.keepcaps = jail.keepcaps /\ jail'.locked = jail.locked
            /\ jail'.dumpable = jail.dumpable /\ jail'.namespaces = jail.namespaces
            /\ jail'.mounts = jail.mounts /\ jail'.seccomp = jail.seccomp
        <5> HIDE DEF u, g
        <5>1. CASE jail.locked
          <6>1. SetUid(j, u) = [j EXCEPT !.uid = u]
            BY <1>0, <5>1 DEF SetUid, Jails
          <6>2. jail' = [jail EXCEPT !.gid = g, !.groups = {}, !.uid = u, !.pc = "seccomp"]
            BY <1>0, <3>2, <6>1 DEF Jails
          <6> QED
            BY <1>0, <1>6, <3>0, <5>1, <6>2 DEF ChangeUser, AskedStays, Jails
        <5>2. CASE ~jail.locked
          <6> DEFINE p == IF jail.keepcaps THEN jail.permitted ELSE {}
          <6>0. p \in SUBSET Capabilities
            BY <1>0 DEF Jails
          <6>1. SetUid(j, u) = [j EXCEPT !.uid = u, !.effective = {}, !.permitted = p]
            BY <1>0, <3>0, <5>2 DEF SetUid, Jails
          <6>2. p = IF jail.keepcaps THEN jail.permitted ELSE {}
            OBVIOUS
          <6> HIDE DEF p
          <6>3. jail' = [jail EXCEPT !.gid = g, !.groups = {}, !.uid = u, !.effective = {},
                                     !.permitted = p, !.pc = "seccomp"]
            BY <1>0, <3>2, <6>1 DEF Jails
          <6> QED
            BY <1>0, <1>6, <3>0, <5>2, <6>0, <6>2, <6>3, ZenonT(40) DEF ChangeUser, AskedStays, Jails
        <5> QED
          BY <5>1, <5>2
      <4>2. OptionsAsAsked'
        BY <1>0, <4>1 DEF OptionsAsAsked, Contradictory, AskedStays
      <4>3. StepsDone'
        BY <1>0, <4>1 DEF StepsDone, Given, AskedStays
      <4>4. EnoughLeft'
        BY <1>0, <4>1 DEF EnoughLeft, StepsDone, Given, Contradictory, AskedStays
      <4> QED
        BY <4>1, <4>2, <4>3, <4>4 DEF JailInv, AskedStays
    <3> QED
      BY <3>1, <3>2
  <2> QED
    BY <2>1, <2>2
<1>7. CASE FilterSyscalls
  <2>0. PICK s \in {"off", "by_source", "benchmark"}, next \in {"sanitize", "run"} :
          /\ Calls({}, [jail EXCEPT !.seccomp = s], next)
          /\ Given("by_source") => s = "by_source"
          /\ next = "sanitize" <=> Given("capabilities")
    BY <1>7 DEF FilterSyscalls
  <2>1. JailInv' \/ jail' = [[jail EXCEPT !.seccomp = s] EXCEPT !.pc = next]
    BY <2>0, CallsOrEnds
  <2>2. ASSUME jail' = [[jail EXCEPT !.seccomp = s] EXCEPT !.pc = next] PROVE JailInv'
    <3>1. /\ AskedStays /\ jail.pc = "seccomp" /\ jail'.pc = next
          /\ jail'.seccomp = s
          /\ jail'.uid = jail.uid /\ jail'.gid = jail.gid /\ jail'.groups = jail.groups
          /\ jail'.effective = jail.effective /\ jail'.permitted = jail.permitted
          /\ jail'.inheritable = jail.inheritable /\ jail'.bounding = jail.bounding
          /\ jail'.keepcaps = jail.keepcaps /\ jail'.locked = jail.locked
          /\ jail'.dumpable = jail.dumpable /\ jail'.namespaces = jail.namespaces
          /\ jail'.mounts = jail.mounts
      BY <1>0, <1>7, <2>2 DEF FilterSyscalls, AskedStays, Jails
    <3>2. OptionsAsAsked'
      BY <1>0, <3>1 DEF OptionsAsAsked, Contradictory, AskedStays
    <3>3. StepsDone'
      BY <1>0, <2>0, <3>1 DEF StepsDone, Given, AskedStays
    <3>4. EnoughLeft'
      BY <1>0, <2>0, <3>1 DEF EnoughLeft, Given, Contradictory, AskedStays
    <3> QED
      BY <3>1, <3>2, <3>3, <3>4 DEF JailInv, AskedStays
  <2> QED
    BY <2>1, <2>2
<1>8. CASE SanitizeCapabilities
  <2> DEFINE j == [jail EXCEPT !.effective = {"SETPCAP"}, !.permitted = {"SETPCAP"},
                               !.inheritable = {"SETPCAP"}]
  <2>1. CASE "SETPCAP" \notin jail.permitted
    <3>1. Calls({"SETPCAP"}, [jail EXCEPT !.pc = "fatal"], "fatal")
      BY <1>8, <2>1 DEF SanitizeCapabilities, Calls
    <3>2. /\ AskedStays /\ jail'.pc = "fatal" /\ jail.pc = "sanitize"
      BY <1>0, <1>8, <2>1 DEF SanitizeCapabilities, AskedStays, Jails
    <3>3. ~(jail.start = Capabilities /\ ~Contradictory)
      BY <1>0, <2>1, <3>2 DEF EnoughLeft, StepsDone, Capabilities
    <3> QED
      BY <1>0, <3>2, <3>3
      DEF JailInv, OptionsAsAsked, StepsDone, EnoughLeft, Given, Contradictory, AskedStays
  <2>2. CASE "SETPCAP" \in jail.permitted
    <3>1. JailInv' \/ jail' = [j EXCEPT !.pc = "bounding"]
      <4>1. Calls({}, j, "bounding")
        BY <1>8, <2>2 DEF SanitizeCapabilities
      <4> HIDE DEF j
      <4> QED
        BY <4>1, CallsOrEnds
    <3>2. ASSUME jail' = [j EXCEPT !.pc = "bounding"] PROVE JailInv'
      <4>1. /\ AskedStays /\ jail.pc = "sanitize" /\ jail'.pc = "bounding"
            /\ jail'.effective = {"SETPCAP"} /\ jail'.permitted = {"SETPCAP"}
            /\ jail'.inheritable = {"SETPCAP"}
            /\ jail'.uid = jail.uid /\ jail'.gid = jail.gid /\ jail'.groups = jail.groups
            /\ jail'.bounding = jail.bounding /\ jail'.keepcaps = jail.keepcaps
            /\ jail'.locked = jail.locked /\ jail'.dumpable = jail.dumpable
            /\ jail'.namespaces = jail.namespaces /\ jail'.mounts = jail.mounts
            /\ jail'.seccomp = jail.seccomp
        BY <1>0, <1>8, <3>2 DEF SanitizeCapabilities, AskedStays, Jails, Capabilities
      <4>2. OptionsAsAsked'
        BY <1>0, <4>1 DEF OptionsAsAsked, Contradictory, AskedStays
      <4>3. StepsDone'
        BY <1>0, <4>1 DEF StepsDone, Given, AskedStays
      <4>4. EnoughLeft'
        BY <1>0, <4>1 DEF EnoughLeft, Given, Contradictory, AskedStays
      <4> QED
        BY <4>1, <4>2, <4>3, <4>4 DEF JailInv, AskedStays
    <3> QED
      BY <3>1, <3>2
  <2> QED
    BY <2>1, <2>2
<1>9. CASE SanitizeBoundingSet
  <2>0. {"SETPCAP"} \subseteq jail.effective
    BY <1>0, <1>9 DEF SanitizeBoundingSet, StepsDone
  <2>1. JailInv' \/ jail' = [[jail EXCEPT !.bounding = {"SETPCAP"}] EXCEPT !.pc = "run"]
    BY <1>9, <2>0, CallsOrEnds DEF SanitizeBoundingSet
  <2>2. ASSUME jail' = [[jail EXCEPT !.bounding = {"SETPCAP"}] EXCEPT !.pc = "run"] PROVE JailInv'
    <3>1. /\ AskedStays /\ jail.pc = "bounding" /\ jail'.pc = "run"
          /\ jail'.bounding = {"SETPCAP"}
          /\ jail'.uid = jail.uid /\ jail'.gid = jail.gid /\ jail'.groups = jail.groups
          /\ jail'.effective = jail.effective /\ jail'.permitted = jail.permitted
          /\ jail'.inheritable = jail.inheritable /\ jail'.keepcaps = jail.keepcaps
          /\ jail'.locked = jail.locked /\ jail'.dumpable = jail.dumpable
          /\ jail'.namespaces = jail.namespaces /\ jail'.mounts = jail.mounts
          /\ jail'.seccomp = jail.seccomp
      BY <1>0, <1>9, <2>2 DEF SanitizeBoundingSet, AskedStays, Jails, Capabilities
    <3>2. OptionsAsAsked'
      BY <1>0, <3>1 DEF OptionsAsAsked, Contradictory, AskedStays
    <3>3. StepsDone'
      BY <1>0, <3>1 DEF StepsDone, Given, AskedStays
    <3>4. EnoughLeft'
      BY <1>0, <3>1 DEF EnoughLeft, Given, Contradictory, AskedStays
    <3> QED
      BY <3>1, <3>2, <3>3, <3>4 DEF JailInv, AskedStays
  <2> QED
    BY <2>1, <2>2
<1> QED
  BY <1>1, <1>2, <1>3, <1>4, <1>5, <1>6, <1>7, <1>8, <1>9 DEF JailNext

\* Whatever the switches and whatever capabilities the process starts with, a program that runs
\* is jailed as asked, and with all capabilities it does run.  A --uid of 0 is left out: a
\* process that stays root keeps its capabilities unless it is asked to drop them.
THEOREM JailSafety ==
  ASSUME 0 \notin JailUids
  PROVE  MCSpec => []JailHolds
<1>1. MCInit => JailInv
  BY JailInitInv
<1>2. JailInv /\ [MCNext]_vars => JailInv'
  <2>1. UNCHANGED jail /\ JailInv => JailInv'
    BY DEF JailInv, OptionsAsAsked, StepsDone, EnoughLeft, Contradictory, Given
  <2>2. [MCNext]_vars => JailNext \/ UNCHANGED jail
    BY DEF MCNext, vars, MementoUnit, MetricsUnit
  <2> QED
    BY <2>1, <2>2, JailNextInv
<1>3. JailInv => JailHolds
  <2> SUFFICES ASSUME JailInv PROVE JailOrderWorks /\ JailedAsAsked
    BY DEF JailHolds
  <2>1. JailOrderWorks
    BY DEF JailInv, EnoughLeft, Contradictory, JailOrderWorks
  <2>2. ASSUME jail.pc = "run" PROVE JailedAsAsked
    <3>1. OptionsAsAsked /\ StepsDone
      BY DEF JailInv
    <3>2. jail \in Jails
      BY DEF JailInv
    <3> USE DEF Filtered, UserChanged, Untraced, Kept, Mounted, Entered, Steps
    <3>3. /\ jail.asked.switches \subseteq jail.opts.switches
          /\ "readonly_mounts" \in jail.asked.switches => Given("vfs")
          /\ \A x \in jail.opts.switches : x # "vfs" => x \in jail.asked.switches
          /\ jail.opts.change_uid = (jail.asked.uid # NotGiven)
          /\ jail.asked.uid # NotGiven => jail.opts.uid = jail.asked.uid
          /\ jail.asked.gid # NotGiven => jail.opts.gid = jail.asked.gid
      BY <2>2, <3>1 DEF OptionsAsAsked, Given
    <3>4. /\ {"pid", "vfs"} \cap jail.asked.switches \subseteq jail.namespaces
          /\ "readonly_mounts" \in jail.asked.switches => jail.mounts = "jail"
          /\ "readonly_mounts" \notin jail.asked.switches => jail.mounts = "host"
          /\ "disable_tracing" \in jail.asked.switches => ~jail.dumpable
          /\ "by_source" \in jail.asked.switches => jail.seccomp = "by_source"
      BY <2>2, <3>1, <3>2, <3>3 DEF StepsDone, Given, Jails
    <3>5. "capabilities" \in jail.asked.switches =>
            /\ jail.locked
            /\ UNION {jail.effective, jail.permitted, jail.inheritable, jail.bounding} = {"SETPCAP"}
      <4>1. ASSUME "capabilities" \in jail.asked.switches
            PROVE  /\ jail.locked
                   /\ jail.effective = {"SETPCAP"} /\ jail.permitted = {"SETPCAP"}
                   /\ jail.inheritable = {"SETPCAP"} /\ jail.bounding = {"SETPCAP"}
        BY <2>2, <3>1, <3>3, <4>1 DEF StepsDone, Given
      <4>2. UNION {{"SETPCAP"}, {"SETPCAP"}, {"SETPCAP"}, {"SETPCAP"}} = {"SETPCAP"}
        OBVIOUS
      <4> QED
        BY <4>1, <4>2
    <3>6. jail.asked.uid # NotGiven =>
            /\ jail.uid = jail.asked.uid /\ jail.groups = {}
            /\ "capabilities" \notin jail.asked.switches => jail.effective \cup jail.permitted = {}
      BY <2>2, <3>1, <3>3 DEF StepsDone, Given
    <3>7. jail.asked.uid # NotGiven /\ jail.asked.gid # NotGiven => jail.gid = jail.asked.gid
      BY <2>2, <3>1, <3>3 DEF StepsDone
    <3> QED
      BY <3>4, <3>5, <3>6, <3>7 DEF JailedAsAsked
  <2>3. jail.pc # "run" => JailedAsAsked
    BY DEF JailedAsAsked
  <2> QED
    BY <2>1, <2>2, <2>3
<1> QED
  BY <1>1, <1>2, <1>3, PTL DEF MCSpec

-----------------------------------------------------------------------------
(* The switch of systems.                                                  *)

Primaries == {Primary(p) : p \in Entries}

\* A record that is written up to entry k, from p to n.
Mixed(p, n, k) == [q \in Entries |-> IF q <= k THEN Flagging(n)[q] ELSE Flagging(p)[q]]

Storage == [flags : [Entries -> BOOLEAN],
            content : [Devices -> {"ready", "empty", "installed", "unfinished"}]]

SwitchStates ==
  [pc : {"handler", "mount", "script", "read", "write", "switched", "failed", "dead"},
   root : Devices, install : Seq(Nat), cache : Storage, disk : Storage, signature : BOOLEAN,
   mbr : {<<>>} \cup [Entries -> BOOLEAN], written : 0..4, mounted : BOOLEAN,
   setAside : SUBSET {"unmounted", "torn", "rerun"}, failures : Nat, updates : Nat]

\* The record moves from p to n, whose system is complete on the disk.
MovesTo(p, n) ==
  /\ switch.install = Primary(n) /\ switch.root = Primary(p)
  /\ switch.cache.content[Primary(n)] = "ready" /\ switch.disk.content[Primary(n)] = "ready"
  /\ switch.mbr = Flagging(n)
  /\ switch.cache.flags = Mixed(p, n, switch.written)
  /\ switch.disk.flags = Flagging(p) \/ (switch.disk.flags = Flagging(n) /\ switch.written # 0)

\* The complete system that runs, or ran, was booted from entry p, and is flagged until WriteMbr().
RunsFrom(p) ==
  /\ switch.pc # "dead"
  /\ switch.cache.content[Primary(p)] = "ready" /\ switch.disk.content[Primary(p)] = "ready"
  /\ switch.root \in Primaries => switch.root = Primary(p)
  /\ switch.pc \in {"mount", "script", "read"} =>
       switch.install = GetInstallDev(switch.root) /\ switch.install # <<>>
  /\ switch.pc \in {"script", "read"} => switch.install \in Devices
  /\ switch.pc = "read" => /\ switch.cache.content[switch.install] = "ready"
                           /\ switch.disk.content[switch.install] = "ready"
  /\ switch.pc \notin {"write", "switched"} =>
       switch.cache.flags = Flagging(p) /\ switch.disk.flags = Flagging(p)
  /\ switch.pc \in {"write", "switched"} => \E n \in Entries \ {p} : MovesTo(p, n)
  /\ switch.pc = "write" => switch.written < 4
  /\ switch.pc = "switched" => switch.written = 4

SwitchInv ==
  /\ switch \in SwitchStates
  /\ switch.pc = "write" => switch.mbr \in [Entries -> BOOLEAN]
  /\ switch.setAside = {} => \E p \in Entries : RunsFrom(p)

\* A name of a device is the letter and digits, and the devices of the entries have one.
LEMMA DeviceIs ==
  ASSUME NEW n \in Seq(0..9)
  PROVE  /\ Device(n) \in Seq(Nat) /\ Len(Device(n)) = Len(n) + 1
         /\ Device(n)[1] = Letter
         /\ \A i \in 1..Len(n) : Device(n)[i + 1] = 48 + n[i]
<1> DEFINE s == [i \in 1..Len(n) |-> Digit(n[i])]
<1>1. Len(n) \in Nat /\ \A i \in 1..Len(n) : n[i] \in 0..9
  OBVIOUS
<1>2. s \in Seq(Nat) /\ Len(s) = Len(n)
  BY <1>1 DEF Digit
<1>3. \A i \in 1..Len(n) : s[i] = 48 + n[i]
  BY DEF Digit
<1>4. <<Letter>> \in Seq(Nat) /\ Len(<<Letter>>) = 1 /\ <<Letter>>[1] = Letter
  BY DEF Letter
<1> HIDE DEF s
<1>5. Device(n) = <<Letter>> \o s
  BY DEF Device, s
<1>6. /\ Device(n) \in Seq(Nat) /\ Len(Device(n)) = Len(n) + 1
      /\ Device(n)[1] = Letter
  BY <1>1, <1>2, <1>4, <1>5
<1>7. \A i \in 1..Len(n) : Device(n)[i + 1] = s[i]
  BY <1>1, <1>2, <1>4, <1>5
<1> QED
  BY <1>3, <1>6, <1>7

\* The name of a primary partition: a letter and one digit.
LEMMA PrimaryIs ==
  ASSUME NEW p \in Entries
  PROVE  /\ Primary(p) \in Devices /\ Primary(p) \in Seq(Nat) /\ Len(Primary(p)) = 2
         /\ Primary(p)[1] = 97 /\ Primary(p)[2] = 48 + p
<1>1. <<p>> \in Seq(0..9) /\ Len(<<p>>) = 1 /\ <<p>>[1] = p
  BY DEF Entries
<1>2. Primary(p) \in Devices
  BY DEF Devices
<1>3. /\ Device(<<p>>) \in Seq(Nat) /\ Len(Device(<<p>>)) = 1 + 1
      /\ Device(<<p>>)[1] = Letter
      /\ \A i \in 1..1 : Device(<<p>>)[i + 1] = 48 + <<p>>[i]
  BY <1>1, DeviceIs
<1>4. Device(<<p>>)[1 + 1] = 48 + <<p>>[1]
  BY <1>3
<1>5. Device(<<p>>)[2] = 48 + p
  BY <1>1, <1>4
<1> QED
  BY <1>2, <1>3, <1>5 DEF Primary, Letter

\* The name of a device: a letter and digits.
LEMMA DevicesAre ==
  ASSUME NEW d \in Devices
  PROVE  /\ d \in Seq(Nat) /\ Len(d) \in Nat \ {0} /\ d[1] = 97
         /\ \A i \in 2..Len(d) : d[i] \in 48..57
<1>1. ASSUME NEW n \in Seq(0..9), d = Device(n)
      PROVE  /\ d \in Seq(Nat) /\ Len(d) \in Nat \ {0} /\ d[1] = 97
             /\ \A i \in 2..Len(d) : d[i] \in 48..57
  <2>1. Len(n) \in Nat /\ \A i \in 1..Len(n) : n[i] \in 0..9
    OBVIOUS
  <2>2. d \in Seq(Nat) /\ Len(d) = Len(n) + 1 /\ d[1] = 97
    BY <1>1, DeviceIs DEF Letter
  <2>3. ASSUME NEW i \in 2..Len(d) PROVE d[i] \in 48..57
    <3>1. i - 1 \in 1..Len(n) /\ (i - 1) + 1 = i
      BY <2>1, <2>2
    <3>2. d[(i - 1) + 1] = 48 + n[i - 1]
      BY <1>1, <3>1, DeviceIs
    <3>3. n[i - 1] \in 0..9
      BY <2>1, <3>1
    <3>4. d[i] = 48 + n[i - 1]
      BY <3>1, <3>2
    <3>5. PICK k \in 0..9 : d[i] = 48 + k
      BY <3>3, <3>4
    <3>6. 48 + k \in 48..57
      OBVIOUS
    <3> QED
      BY <3>5, <3>6, Zenon
  <2> QED
    BY <2>1, <2>2, <2>3
<1>2. CASE \E n \in BootNumbers : d = Device(n)
  BY <1>1, <1>2, SwitchAssumption
<1>3. CASE \E p \in Entries : d = Primary(p)
  <2>1. PICK p \in Entries : d = Primary(p)
    BY <1>3
  <2>2. <<p>> \in Seq(0..9)
    BY DEF Entries
  <2> QED
    BY <1>1, <2>1, <2>2 DEF Primary
<1> QED
  BY <1>2, <1>3 DEF Devices

\* A sequence of two is told by its elements.
LEMMA PrimaryFrom ==
  ASSUME NEW p \in Entries, NEW d \in Seq(Nat), Len(d) = 2, d[1] = 97, d[2] = 48 + p
  PROVE  d = Primary(p)
<1>1. \A i \in 1..2 : d[i] = Primary(p)[i]
  BY PrimaryIs
<1>2. Primary(p) \in Seq(Nat) /\ Len(Primary(p)) = Len(d)
  BY PrimaryIs
<1>3. \A i \in 1..Len(d) : d[i] = Primary(p)[i]
  BY <1>1
<1> QED
  BY <1>2, <1>3, SeqEqual

\* The other device of the pair is never the same, is no entry's device unless the first is, and
\* SetBootableFlagAction takes it only if it is an entry's.
LEMMA OtherOfPairIs ==
  ASSUME NEW d \in Devices, GetInstallDev(d) # <<>>
  PROVE  /\ GetInstallDev(d) \in Seq(Nat) /\ GetInstallDev(d) # d
         /\ GetInstallDev(d) \in Primaries => d \in Primaries
         /\ ~BadDevice(GetInstallDev(d)) =>
              \E n \in Entries : /\ GetInstallDev(d) = Primary(n)
                                 /\ n = GetInstallDev(d)[Len(GetInstallDev(d))] - Digit(0)
<1> DEFINE last == d[Len(d)]
           new == IF last % 2 = 1 THEN last + 1 ELSE last - 1
           g == GetInstallDev(d)
<1>1. /\ d \in Seq(Nat) /\ Len(d) \in Nat \ {0} /\ d[1] = 97
      /\ \A i \in 2..Len(d) : d[i] \in 48..57
  BY DevicesAre
<1>2. IsDigit(last) /\ g = [d EXCEPT ![Len(d)] = new]
  BY DEF GetInstallDev
<1>3. last \in 48..57 /\ Len(d) >= 2
  BY <1>1, <1>2 DEF IsDigit, Digit
<1>4. new \in 47..58 /\ new # last /\ new \in Nat
  BY <1>3
<1>5. \A p \in Entries : new = 48 + p => \E q \in Entries : last = 48 + q
  BY <1>3 DEF Entries
<1> HIDE DEF new, g
<1>6. g \in Seq(Nat) /\ Len(g) = Len(d) /\ g[Len(d)] = new
      /\ \A i \in 1..Len(d) : i # Len(d) => g[i] = d[i]
  BY <1>1, <1>2, <1>4
<1>7. g # d
  BY <1>4, <1>6
<1>8. g \in Primaries => d \in Primaries
  <2> SUFFICES ASSUME NEW p \in Entries, g = Primary(p) PROVE d \in Primaries
    BY DEF Primaries
  <2>1. Len(d) = 2 /\ new = 48 + p
    BY <1>6, PrimaryIs
  <2>2. PICK q \in Entries : last = 48 + q
    BY <1>5, <2>1
  <2>3. d = Primary(q)
    BY <1>1, <2>1, <2>2, PrimaryFrom
  <2> QED
    BY <2>3 DEF Primaries
<1>9. ASSUME ~BadDevice(g) PROVE new - 48 \in Entries /\ g = Primary(new - 48)
  <2>1. new \in 49..52 /\ ~(g[Len(d) - 1] >= 48 /\ g[Len(d) - 1] <= 57)
    BY <1>4, <1>6, <1>9 DEF BadDevice, IsDigit, Digit
  <2>2. Len(d) = 2
    <3>1. ASSUME Len(d) # 2 PROVE FALSE
      <4>1. Len(d) - 1 \in 2..Len(d) /\ Len(d) - 1 \in 1..Len(d) /\ Len(d) - 1 # Len(d)
        <5>0. \A k \in Nat : k >= 2 /\ k # 2 => k >= 3
          OBVIOUS
        <5>1. Len(d) \in Nat /\ Len(d) >= 3
          BY <1>1, <1>3, <3>1, <5>0, Zenon
        <5> QED
          BY <5>1
      <4>2. g[Len(d) - 1] \in 48..57
        BY <1>1, <1>6, <4>1
      <4> QED
        BY <2>1, <4>2
    <3> QED
      BY <3>1
  <2>3. new - 48 \in Entries /\ g[2] = 48 + (new - 48) /\ g[1] = 97 /\ Len(g) = 2
    BY <1>1, <1>4, <1>6, <2>1, <2>2 DEF Entries
  <2> QED
    BY <1>6, <2>3, PrimaryFrom
<1>10. g[Len(g)] - Digit(0) = new - 48
  BY <1>6 DEF Digit
<1> QED
  BY <1>6, <1>7, <1>8, <1>9, <1>10 DEF g

\* The flags of a record that flags one entry.
LEMMA FlaggingIs ==
  ASSUME NEW p \in Entries
  PROVE  /\ Flagging(p) \in [Entries -> BOOLEAN] /\ Flagged(Flagging(p)) = {p}
         /\ Cardinality(Flagged(Flagging(p))) = 1
<1>1. Flagging(p) \in [Entries -> BOOLEAN] /\ Flagged(Flagging(p)) = {p}
  BY DEF Flagging, Flagged
<1> QED
  BY <1>1, FS_Singleton

\* A table with one flag is that of a partition.
LEMMA OneFlag ==
  ASSUME NEW f \in [Entries -> BOOLEAN], Cardinality(Flagged(f)) = 1
  PROVE  \E p \in Entries : f = Flagging(p) /\ Flagged(f) = {p}
<1>1. IsFiniteSet(Entries)
  <2>1. 1 \in Int /\ 4 \in Int
    OBVIOUS
  <2> QED
    BY <2>1, FS_Interval DEF Entries
<1>2. IsFiniteSet(Flagged(f)) /\ Flagged(f) \subseteq Entries
  BY <1>1, FS_Subset DEF Flagged
<1>3. PICK p : Flagged(f) = {p}
  BY <1>2, FS_Singleton
<1>4. p \in Entries
  BY <1>2, <1>3
<1>5. \A q \in Entries : f[q] = (q = p)
  BY <1>3, <1>4 DEF Flagged
<1>6. f = Flagging(p)
  BY <1>5 DEF Flagging
<1> QED
  BY <1>3, <1>4, <1>6

\* After a start the flagged partition, if it is complete, runs.
LEMMA RebootHolds ==
  ASSUME NEW s \in SwitchStates, switch' = Reboot(s)
  PROVE  /\ switch' \in SwitchStates /\ switch'.setAside = s.setAside
         /\ switch'.pc # "write"
         /\ \A q \in Entries :
              /\ s.disk.flags = Flagging(q) /\ s.disk.content[Primary(q)] = "ready"
              => RunsFrom(q)'
<1>1. CASE Cardinality(Flagged(s.disk.flags)) # 1
  <2>1. switch' = [s EXCEPT !.pc = "dead", !.cache = s.disk]
    BY <1>1 DEF Reboot
  <2>2. switch' \in SwitchStates /\ switch'.setAside = s.setAside /\ switch'.pc = "dead"
    BY <2>1 DEF SwitchStates
  <2> QED
    BY <1>1, <2>2, FlaggingIs
<1>2. CASE Cardinality(Flagged(s.disk.flags)) = 1
  <2>0. s.disk \in Storage /\ s.disk.flags \in [Entries -> BOOLEAN]
    BY DEF SwitchStates, Storage
  <2>1. PICK p \in Entries : s.disk.flags = Flagging(p) /\ Flagged(s.disk.flags) = {p}
    BY <1>2, <2>0, OneFlag
  <2>2. (CHOOSE q \in Entries : Flagged(s.disk.flags) = {q}) = p
    BY <2>1
  <2> DEFINE r == IF s.root \in {Primary(q) : q \in Entries} THEN Primary(p) ELSE s.root
  <2>3. switch' = [s EXCEPT !.pc = "handler", !.cache = s.disk, !.mounted = FALSE, !.written = 0,
                            !.mbr = <<>>, !.install = <<>>, !.root = r]
    <3> DEFINE c == CHOOSE q \in Entries : Flagged(s.disk.flags) = {q}
               t == IF s.root \in {Primary(q) : q \in Entries} THEN Primary(c) ELSE s.root
    <3>1. switch' = [s EXCEPT !.pc = "handler", !.cache = s.disk, !.mounted = FALSE, !.written = 0,
                              !.mbr = <<>>, !.install = <<>>, !.root = t]
      BY <1>2 DEF Reboot
    <3>2. c = p
      BY <2>2
    <3> HIDE DEF c
    <3>3. t = r
      BY <3>2
    <3> HIDE DEF t, r
    <3> QED
      BY <3>1, <3>3
  <2>4. r \in Devices /\ (r \in Primaries => r = Primary(p))
    <3>1. s.root \in Devices /\ Primary(p) \in Devices /\ Primary(p) \in Primaries
      BY PrimaryIs DEF SwitchStates, Primaries
    <3>2. r = IF s.root \in Primaries THEN Primary(p) ELSE s.root
      BY DEF Primaries
    <3> HIDE DEF r
    <3> QED
      BY <3>1, <3>2
  <2> HIDE DEF r
  <2>5. /\ switch' \in SwitchStates /\ switch'.setAside = s.setAside
        /\ switch'.pc = "handler" /\ switch'.cache = s.disk /\ switch'.disk = s.disk
        /\ switch'.root = r
    <3>1. <<>> \in Seq(Nat) /\ <<>> \in {<<>>} \cup [Entries -> BOOLEAN] /\ 0 \in 0..4
      OBVIOUS
    <3> QED
      BY <2>0, <2>3, <2>4, <3>1, ZenonT(40) DEF SwitchStates
  <2>6. ASSUME NEW q \in Entries, s.disk.flags = Flagging(q),
               s.disk.content[Primary(q)] = "ready"
        PROVE  RunsFrom(q)'
    <3>1. q = p
      BY <2>1, <2>6, FlaggingIs
    <3> QED
      BY <2>4, <2>5, <2>6, <3>1 DEF RunsFrom
  <2> QED
    BY <2>5, <2>6
<1> QED
  BY <1>1, <1>2

\* The disk before the first update.
LEMMA SwitchStartInv ==
  ASSUME NEW n, Device(n) \in Devices, NEW p \in Entries, NEW sig \in BOOLEAN,
         Device(n) \in Primaries => Device(n) = Primary(p),
         switch = SwitchStart(n, p, sig)
  PROVE  SwitchInv
<1> DEFINE content == [d \in Devices |-> IF d \in {Device(n), Primary(p)} THEN "ready" ELSE "empty"]
           stored == Stored(Flagging(p), content)
<1>1. Device(n) \in Devices /\ Primary(p) \in Devices
  BY DEF Devices
<1>2. /\ stored \in Storage /\ stored.flags = Flagging(p) /\ stored.content[Primary(p)] = "ready"
  BY <1>1, FlaggingIs DEF Stored, Storage
<1> HIDE DEF stored, content
<1>3. switch = [pc |-> "handler", root |-> Device(n), install |-> <<>>, cache |-> stored, disk |-> stored,
       signature |-> sig, mbr |-> <<>>, written |-> 0, mounted |-> FALSE, setAside |-> {}, failures |-> 0,
       updates |-> 0]
  BY DEF SwitchStart, stored, content
<1>4. switch \in SwitchStates
  BY <1>1, <1>2, <1>3 DEF SwitchStates
<1>5. RunsFrom(p)
  BY <1>2, <1>3 DEF RunsFrom
<1> QED
  BY <1>3, <1>4, <1>5 DEF SwitchInv

\* Every system the switch may start from satisfies the invariant.
LEMMA SwitchInitInv ==
  ASSUME SwitchInit \/ switch = SwitchStart(<< 1 >>, 1, TRUE)
  PROVE  SwitchInv
<1>1. ASSUME NEW n \in BootNumbers, NEW p \in Entries,
             p = IF Len(n) = 1 /\ n[1] \in Entries THEN n[1] ELSE 1
      PROVE  Device(n) \in Primaries => Device(n) = Primary(p)
  <2> SUFFICES ASSUME NEW q \in Entries, Device(n) = Primary(q) PROVE Device(n) = Primary(p)
    BY DEF Primaries
  <2>1. n \in Seq(0..9)
    BY SwitchAssumption
  <2>2. Len(n) = 1
    <3>1. Len(n) + 1 = 2 /\ Len(n) \in Nat
      <4>1. Len(Device(n)) = Len(n) + 1 /\ Len(n) \in Nat
        BY <2>1, DeviceIs
      <4>2. Len(Device(n)) = 2
        BY PrimaryIs
      <4> QED
        BY <4>1, <4>2
    <3>2. \A k \in Nat : k + 1 = 2 => k = 1
      OBVIOUS
    <3> QED
      BY <3>1, <3>2, Zenon
  <2>3. Device(n)[1 + 1] = 48 + n[1] /\ n[1] \in 0..9
    <3>1. 1 \in 1..Len(n)
      BY <2>2
    <3> QED
      BY <2>1, <3>1, DeviceIs
  <2>4. Device(n)[2] = 48 + q
    BY PrimaryIs
  <2>5. n[1] = q
    BY <2>3, <2>4 DEF Entries
  <2> QED
    BY <1>1, <2>2, <2>5
<1>2. CASE SwitchInit
  <2>1. PICK n \in BootNumbers, sig \in BOOLEAN :
          switch = SwitchStart(n, IF Len(n) = 1 /\ n[1] \in Entries THEN n[1] ELSE 1, sig)
    BY <1>2 DEF SwitchInit
  <2> DEFINE p == IF Len(n) = 1 /\ n[1] \in Entries THEN n[1] ELSE 1
  <2>3. Device(n) \in Devices
    BY DEF Devices
  <2>2. p \in Entries /\ p = (IF Len(n) = 1 /\ n[1] \in Entries THEN n[1] ELSE 1)
    BY DEF Entries
  <2> HIDE DEF p
  <2> QED
    BY <1>1, <2>1, <2>2, <2>3, SwitchStartInv
<1>3. CASE switch = SwitchStart(<<1>>, 1, TRUE)
  <2>1. 1 \in Entries /\ TRUE \in BOOLEAN /\ Device(<<1>>) = Primary(1)
    BY DEF Entries, Primary
  <2>2. Device(<<1>>) \in Devices
    BY <2>1 DEF Devices
  <2> QED
    BY <1>3, <2>1, <2>2, SwitchStartInv
<1> QED
  BY <1>2, <1>3

\* A step that leaves the record and the partitions alone, before it is written.
LEMMA StaysFlagged ==
  ASSUME NEW p \in Entries, RunsFrom(p), switch.pc \notin {"write", "switched"},
         switch'.pc \notin {"write", "switched", "dead"},
         switch'.cache = switch.cache, switch'.disk = switch.disk, switch'.root = switch.root,
         switch'.pc \in {"mount", "script", "read"} =>
           switch'.install = GetInstallDev(switch'.root) /\ switch'.install # <<>>,
         switch'.pc \in {"script", "read"} => switch'.install \in Devices,
         switch'.pc # "read"
  PROVE  RunsFrom(p)'
BY DEF RunsFrom

\* The install partition is not the one that runs.
LEMMA InstallElsewhere ==
  ASSUME NEW p \in Entries, switch.root \in Devices,
         switch.root \in Primaries => switch.root = Primary(p), GetInstallDev(switch.root) # <<>>
  PROVE  GetInstallDev(switch.root) # Primary(p)
<1>1. CASE switch.root \in Primaries
  BY <1>1, OtherOfPairIs
<1>2. CASE switch.root \notin Primaries
  <2>1. GetInstallDev(switch.root) \notin Primaries
    BY <1>2, OtherOfPairIs
  <2> QED
    BY <2>1 DEF Primaries
<1> QED
  BY <1>1, <1>2

\* A record that is half written flags one entry only if it is as before or has reached the new one.
LEMMA MixedIs ==
  ASSUME NEW p \in Entries, NEW n \in Entries, NEW w \in 0..4
  PROVE  /\ Mixed(p, n, w) \in [Entries -> BOOLEAN]
         /\ Mixed(p, n, 0) = Flagging(p) /\ Mixed(p, n, 4) = Flagging(n)
         /\ Cardinality(Flagged(Mixed(p, n, w))) = 1 =>
              Mixed(p, n, w) = Flagging(p) \/ (Mixed(p, n, w) = Flagging(n) /\ w # 0)
<1>1. Mixed(p, n, w) \in [Entries -> BOOLEAN]
  BY DEF Mixed, Flagging
<1>2. (\A q \in Entries : ~(q <= 0)) /\ \A q \in Entries : q <= 4
  BY DEF Entries
<1>3. Mixed(p, n, 0) = Flagging(p) /\ Mixed(p, n, 4) = Flagging(n)
  BY <1>2 DEF Mixed, Flagging
<1>4. ASSUME Cardinality(Flagged(Mixed(p, n, w))) = 1
      PROVE  Mixed(p, n, w) = Flagging(p) \/ (Mixed(p, n, w) = Flagging(n) /\ w # 0)
  <2>1. PICK x \in Entries : Mixed(p, n, w) = Flagging(x)
    BY <1>1, <1>4, OneFlag
  <2>2. Mixed(p, n, w)[x]
    BY <2>1 DEF Flagging
  <2>3. IF x <= w THEN x = n ELSE x = p
    BY <2>2 DEF Mixed, Flagging
  <2>4. CASE x <= w
    <3>1. x = n /\ w # 0
      BY <1>2, <2>3, <2>4
    <3> QED
      BY <2>1, <3>1
  <2>5. CASE ~(x <= w)
    BY <2>1, <2>3, <2>5
  <2> QED
    BY <2>4, <2>5
<1> QED
  BY <1>1, <1>3, <1>4

\* Every step of the two Actions, of the kernel and of a power failure keeps the invariant.
LEMMA SwitchNextInv ==
  ASSUME SwitchInv, SwitchNext
  PROVE  SwitchInv'
<1>0. /\ switch \in SwitchStates /\ switch.cache \in Storage /\ switch.disk \in Storage
      /\ switch.root \in Devices
      /\ switch.pc = "write" => switch.mbr \in [Entries -> BOOLEAN]
      /\ switch.setAside = {} => \E p \in Entries : RunsFrom(p)
  BY DEF SwitchInv, SwitchStates
<1>1. CASE InstallSystem
  <2> DEFINE install == GetInstallDev(switch.root)
             u == switch.updates + 1
             c == [switch.cache EXCEPT !.content[install] = "installed"]
             d == [switch.disk EXCEPT !.content[install] = "installed"]
  <2>0. u \in Nat /\ switch.pc = "handler"
    BY <1>0, <1>1 DEF SwitchStates, InstallSystem
  <2>1. CASE install = <<>>
    <3>1. switch' = [switch EXCEPT !.pc = "failed"]
      BY <1>1, <2>1 DEF InstallSystem, Failed
    <3>2. /\ switch' \in SwitchStates /\ switch'.pc = "failed" /\ switch'.setAside = switch.setAside
          /\ switch'.cache = switch.cache /\ switch'.disk = switch.disk /\ switch'.root = switch.root
      BY <1>0, <3>1 DEF SwitchStates
    <3> QED
      BY <1>0, <2>0, <3>2, StaysFlagged DEF SwitchInv
  <2>2. CASE install # <<>> /\ install \notin Devices
    <3> HIDE DEF u
    <3>1. switch' = [switch EXCEPT !.install = install, !.updates = u, !.pc = "mount"]
      BY <1>1, <2>2 DEF InstallSystem, u
    <3>2. install \in Seq(Nat)
      BY <1>0, <2>2, OtherOfPairIs
    <3> HIDE DEF install
    <3>3. /\ switch' \in SwitchStates /\ switch'.pc = "mount" /\ switch'.setAside = switch.setAside
          /\ switch'.cache = switch.cache /\ switch'.disk = switch.disk /\ switch'.root = switch.root
          /\ switch'.install = install
      BY <1>0, <2>0, <3>1, <3>2 DEF SwitchStates
    <3> QED
      BY <1>0, <2>0, <2>2, <3>3, StaysFlagged DEF SwitchInv, install
  <2>3. CASE install # <<>> /\ install \in Devices
    <3> HIDE DEF u
    <3>1. switch' = [switch EXCEPT !.install = install, !.updates = u, !.pc = "mount",
                                   !.cache = c, !.disk = d]
      BY <1>0, <1>1, <2>3 DEF InstallSystem, u, SwitchStates
    <3>2. install \in Seq(Nat)
      BY <1>0, <2>3, OtherOfPairIs
    <3>3. /\ c \in Storage /\ d \in Storage
          /\ c.flags = switch.cache.flags /\ d.flags = switch.disk.flags
          /\ \A x \in Devices : x # install =>
               c.content[x] = switch.cache.content[x] /\ d.content[x] = switch.disk.content[x]
      BY <1>0, <2>3 DEF Storage
    <3> HIDE DEF c, d, install
    <3>4. /\ switch' \in SwitchStates /\ switch'.pc = "mount" /\ switch'.setAside = switch.setAside
          /\ switch'.cache = c /\ switch'.disk = d /\ switch'.root = switch.root
          /\ switch'.install = install
      BY <1>0, <2>0, <3>1, <3>2, <3>3 DEF SwitchStates
    <3>5. ASSUME NEW p \in Entries, RunsFrom(p) PROVE RunsFrom(p)'
      <4>1. install # Primary(p) /\ Primary(p) \in Devices
        BY <1>0, <2>3, <3>5, InstallElsewhere, PrimaryIs DEF RunsFrom, install
      <4> QED
        BY <2>0, <2>3, <3>3, <3>4, <3>5, <4>1 DEF RunsFrom, install
    <3> QED
      BY <1>0, <3>4, <3>5 DEF SwitchInv
  <2> QED
    BY <2>1, <2>2, <2>3
<1>2. CASE MountInstalled
  <2>0. switch.pc = "mount"
    BY <1>2 DEF MountInstalled
  <2>1. CASE switch' = Failed(switch)
    <3>1. /\ switch' \in SwitchStates /\ switch'.pc = "failed" /\ switch'.setAside = switch.setAside
          /\ switch'.cache = switch.cache /\ switch'.disk = switch.disk /\ switch'.root = switch.root
      BY <1>0, <2>1 DEF SwitchStates, Failed
    <3> QED
      BY <1>0, <2>0, <3>1, StaysFlagged DEF SwitchInv
  <2>2. CASE /\ switch.install \in Devices
             /\ switch' = [switch EXCEPT !.pc = "script", !.mounted = TRUE]
    <3>1. /\ switch' \in SwitchStates /\ switch'.pc = "script" /\ switch'.setAside = switch.setAside
          /\ switch'.cache = switch.cache /\ switch'.disk = switch.disk /\ switch'.root = switch.root
          /\ switch'.install = switch.install
      BY <1>0, <2>2 DEF SwitchStates
    <3>2. ASSUME NEW p \in Entries, RunsFrom(p) PROVE RunsFrom(p)'
      BY <2>0, <2>2, <3>1, <3>2 DEF RunsFrom
    <3> QED
      BY <1>0, <3>1, <3>2 DEF SwitchInv
  <2> QED
    BY <1>2, <2>1, <2>2 DEF MountInstalled
<1>3. CASE RunPostinstall
  <2>0. switch.pc = "script"
    BY <1>3 DEF RunPostinstall
  <2>1. PICK content \in {"ready", "unfinished"}, unmounts \in BOOLEAN, next \in {"read", "failed"} :
          /\ next = "read" => content = "ready"
          /\ switch' = [switch EXCEPT !.cache.content[switch.install] = content,
                                      !.disk.content[switch.install] = IF unmounts THEN content ELSE @,
                                      !.mounted = ~unmounts,
                                      !.setAside = IF unmounts THEN @ ELSE @ \cup {"unmounted"},
                                      !.pc = next]
    BY <1>3 DEF RunPostinstall
  <2> DEFINE i == switch.install
             c == [switch.cache EXCEPT !.content[i] = content]
             d == [switch.disk EXCEPT !.content[i] = content]
  <2>2. /\ c \in Storage /\ d \in Storage
        /\ c.flags = switch.cache.flags /\ d.flags = switch.disk.flags
        /\ \A x \in Devices : x # i =>
             c.content[x] = switch.cache.content[x] /\ d.content[x] = switch.disk.content[x]
        /\ i \in Devices => c.content[i] = content /\ d.content[i] = content
    BY <1>0, <2>1 DEF Storage
  <2>3. CASE unmounts
    <3>1. switch' = [switch EXCEPT !.cache = c, !.disk = d, !.mounted = FALSE, !.pc = next]
      BY <1>0, <2>1, <2>3 DEF SwitchStates
    <3> HIDE DEF c, d
    <3>2. /\ switch' \in SwitchStates /\ switch'.pc = next /\ switch'.setAside = switch.setAside
          /\ switch'.cache = c /\ switch'.disk = d /\ switch'.root = switch.root
          /\ switch'.install = switch.install
      BY <1>0, <2>2, <3>1 DEF SwitchStates
    <3>3. ASSUME NEW p \in Entries, RunsFrom(p) PROVE RunsFrom(p)'
      <4>1. /\ i \in Devices /\ i = GetInstallDev(switch.root) /\ i # <<>>
            /\ switch.root \in Primaries => switch.root = Primary(p)
        BY <2>0, <3>3 DEF RunsFrom
      <4>2. i # Primary(p) /\ Primary(p) \in Devices
        BY <1>0, <4>1, InstallElsewhere, PrimaryIs
      <4> QED
        BY <2>0, <2>1, <2>2, <3>2, <3>3, <4>1, <4>2 DEF RunsFrom
    <3> QED
      BY <1>0, <3>2, <3>3 DEF SwitchInv
  <2>4. CASE ~unmounts
    <3> DEFINE e == [switch.disk EXCEPT !.content[i] = @]
               a == switch.setAside \cup {"unmounted"}
    <3>1. switch' = [switch EXCEPT !.cache = c, !.disk = e, !.mounted = TRUE, !.setAside = a, !.pc = next]
      BY <1>0, <2>1, <2>4 DEF SwitchStates
    <3>2. e \in Storage /\ a \in SUBSET {"unmounted", "torn", "rerun"} /\ a # {}
      BY <1>0 DEF Storage, SwitchStates
    <3> HIDE DEF c, e, a
    <3>3. switch' \in SwitchStates /\ switch'.setAside = a /\ switch'.pc = next
      BY <1>0, <2>2, <3>1, <3>2 DEF SwitchStates
    <3> QED
      BY <3>2, <3>3 DEF SwitchInv
  <2> QED
    BY <2>3, <2>4
<1>4. CASE ReadMbr \/ ReadMbrFails
  <2>0. switch.pc = "read"
    BY <1>4 DEF ReadMbr, ReadMbrFails
  <2>1. CASE switch' = Failed(switch)
    <3>1. /\ switch' \in SwitchStates /\ switch'.pc = "failed" /\ switch'.setAside = switch.setAside
          /\ switch'.cache = switch.cache /\ switch'.disk = switch.disk /\ switch'.root = switch.root
      BY <1>0, <2>1 DEF SwitchStates, Failed
    <3> QED
      BY <1>0, <2>0, <3>1, StaysFlagged DEF SwitchInv
  <2> DEFINE n == switch.install[Len(switch.install)] - Digit(0)
             m == Flagging(n)
  <2>2. CASE ~BadDevice(switch.install) /\ switch' # Failed(switch)
    <3>1. switch' = [switch EXCEPT !.mbr = m, !.written = 0, !.pc = "write"]
      BY <1>4, <2>2 DEF ReadMbr, ReadMbrFails
    <3>2. m \in [Entries -> BOOLEAN] /\ m = Flagging(n) /\ 0 \in 0..4
      BY DEF Flagging
    <3> HIDE DEF n, m
    <3>3. /\ switch' \in SwitchStates /\ switch'.pc = "write" /\ switch'.setAside = switch.setAside
          /\ switch'.cache = switch.cache /\ switch'.disk = switch.disk /\ switch'.root = switch.root
          /\ switch'.install = switch.install /\ switch'.mbr = m /\ switch'.written = 0
      BY <1>0, <3>1, <3>2 DEF SwitchStates
    <3>4. ASSUME NEW p \in Entries, RunsFrom(p) PROVE RunsFrom(p)'
      <4>1. /\ switch.install = GetInstallDev(switch.root) /\ switch.install # <<>>
            /\ switch.root \in Primaries => switch.root = Primary(p)
            /\ switch.cache.flags = Flagging(p) /\ switch.disk.flags = Flagging(p)
            /\ switch.cache.content[switch.install] = "ready"
            /\ switch.disk.content[switch.install] = "ready"
        BY <2>0, <3>4 DEF RunsFrom
      <4>2. PICK k \in Entries : m = Flagging(k) /\ switch.install = Primary(k)
        BY <1>0, <2>2, <3>2, <4>1, OtherOfPairIs DEF n
      <4>3. switch.install \in Primaries /\ switch.install # switch.root
        <5>1. switch.install \in Primaries
          BY <4>2 DEF Primaries
        <5> QED
          BY <1>0, <4>1, <5>1, OtherOfPairIs
      <4>4. switch.root = Primary(p)
        BY <1>0, <4>1, <4>3, OtherOfPairIs
      <4>5. k # p
        BY <4>2, <4>3, <4>4
      <4>6. Mixed(p, k, 0) = Flagging(p)
        <5>1. \A q \in Entries : ~(q <= 0)
          BY DEF Entries
        <5> QED
          BY <5>1 DEF Mixed, Flagging
      <4>7. MovesTo(p, k)'
        BY <3>3, <4>1, <4>2, <4>4, <4>6 DEF MovesTo
      <4> QED
        BY <2>0, <3>3, <3>4, <4>2, <4>5, <4>7 DEF RunsFrom
    <3> QED
      BY <1>0, <3>2, <3>3, <3>4 DEF SwitchInv
  <2> QED
    BY <1>4, <2>1, <2>2 DEF ReadMbr, ReadMbrFails
<1>5. CASE WriteMbr
  <2>0. switch.pc = "write"
    BY <1>5 DEF WriteMbr
  <2>1. PICK k \in (switch.written + 1)..4 :
          switch' = [switch EXCEPT !.cache.flags = [q \in Entries |-> IF q <= k THEN switch.mbr[q] ELSE @[q]],
                                   !.written = k, !.pc = IF k = 4 THEN "switched" ELSE "write"]
    BY <1>5 DEF WriteMbr
  <2>2. k \in 1..4 /\ k \in 0..4 /\ switch.written \in 0..4 /\ switch.written < k
    BY <1>0, <2>1 DEF SwitchStates
  <2>3. PICK next \in {"switched", "write"} :
          /\ next = "switched" <=> k = 4
          /\ switch' = [switch EXCEPT !.cache.flags = [q \in Entries |-> IF q <= k THEN switch.mbr[q] ELSE @[q]],
                                      !.written = k, !.pc = next]
    BY <2>1
  <2> DEFINE f == [q \in Entries |-> IF q <= k THEN switch.mbr[q] ELSE switch.cache.flags[q]]
             c == [switch.cache EXCEPT !.flags = f]
  <2>4. switch' = [switch EXCEPT !.cache = c, !.written = k, !.pc = next]
    BY <1>0, <2>3 DEF SwitchStates
  <2>5. f \in [Entries -> BOOLEAN]
    BY <1>0, <2>0 DEF Storage
  <2>6. \A q \in Entries : f[q] = IF q <= k THEN switch.mbr[q] ELSE switch.cache.flags[q]
    OBVIOUS
  <2> HIDE DEF f
  <2>7. c \in Storage /\ c.flags = f /\ c.content = switch.cache.content
    BY <1>0, <2>5 DEF Storage
  <2> HIDE DEF c
  <2>8. /\ switch' \in SwitchStates /\ switch'.pc = next /\ switch'.setAside = switch.setAside
        /\ switch'.cache = c /\ switch'.disk = switch.disk /\ switch'.root = switch.root
        /\ switch'.install = switch.install /\ switch'.mbr = switch.mbr /\ switch'.written = k
    BY <1>0, <2>2, <2>4, <2>7 DEF SwitchStates
  <2>9. ASSUME NEW p \in Entries, RunsFrom(p) PROVE RunsFrom(p)'
    <3>1. PICK n \in Entries \ {p} : MovesTo(p, n)
      BY <2>0, <2>9 DEF RunsFrom
    <3>2. f = Mixed(p, n, k)
      <4>1. \A q \in Entries : q \in Int /\ (~(q <= k) => ~(q <= switch.written))
        BY <2>2 DEF Entries
      <4>2. \A q \in Entries : f[q] = Mixed(p, n, k)[q]
        BY <2>6, <3>1, <4>1 DEF MovesTo, Mixed
      <4>3. Mixed(p, n, k) \in [Entries -> BOOLEAN]
        BY <2>2, MixedIs
      <4> QED
        BY <2>5, <4>2, <4>3
    <3>3. k # 0
      BY <2>2
    <3>4. MovesTo(p, n)'
      BY <2>7, <2>8, <3>1, <3>2, <3>3 DEF MovesTo
    <3>5. (next = "write" => k < 4) /\ (next = "switched" => k = 4)
      BY <2>2, <2>3
    <3> QED
      BY <2>0, <2>3, <2>7, <2>8, <2>9, <3>4, <3>5 DEF RunsFrom
  <2> QED
    BY <1>0, <2>0, <2>8, <2>9 DEF SwitchInv
<1>6. CASE WriteMbrFails
  <2>0. switch.pc = "write"
    BY <1>6 DEF WriteMbrFails
  <2> DEFINE a == IF switch.written = 0 THEN switch.setAside ELSE switch.setAside \cup {"torn"}
  <2>1. switch' = [switch EXCEPT !.pc = "failed", !.setAside = a]
    BY <1>0, <1>6 DEF WriteMbrFails, Failed, SwitchStates
  <2>2. /\ a \in SUBSET {"unmounted", "torn", "rerun"}
        /\ a = {} => switch.setAside = {} /\ switch.written = 0
    BY <1>0 DEF SwitchStates
  <2> HIDE DEF a
  <2>3. /\ switch' \in SwitchStates /\ switch'.pc = "failed" /\ switch'.setAside = a
        /\ switch'.cache = switch.cache /\ switch'.disk = switch.disk /\ switch'.root = switch.root
    BY <1>0, <2>1, <2>2 DEF SwitchStates
  <2>4. ASSUME NEW p \in Entries, RunsFrom(p), switch.written = 0 PROVE RunsFrom(p)'
    <3>1. PICK n \in Entries \ {p} : MovesTo(p, n)
      BY <2>0, <2>4 DEF RunsFrom
    <3>2. switch.cache.flags = Flagging(p) /\ switch.disk.flags = Flagging(p)
      BY <2>4, <3>1, MixedIs DEF MovesTo
    <3> QED
      BY <2>0, <2>3, <2>4, <3>2 DEF RunsFrom
  <2> QED
    BY <1>0, <2>2, <2>3, <2>4 DEF SwitchInv
<1>7. CASE WriteBackMbr
  <2> DEFINE one == Cardinality(Flagged(switch.cache.flags)) = 1
             a == IF one THEN switch.setAside ELSE switch.setAside \cup {"torn"}
             d == [switch.disk EXCEPT !.flags = switch.cache.flags]
  <2>0. switch.cache.flags # switch.disk.flags
    BY <1>7 DEF WriteBackMbr
  <2>1. switch' = [switch EXCEPT !.disk = d, !.setAside = a]
    BY <1>0, <1>7 DEF WriteBackMbr, SwitchStates
  <2>2. /\ a \in SUBSET {"unmounted", "torn", "rerun"}
        /\ a = {} => switch.setAside = {} /\ one
    BY <1>0 DEF SwitchStates
  <2>3. d \in Storage /\ d.flags = switch.cache.flags /\ d.content = switch.disk.content
    BY <1>0 DEF Storage
  <2> HIDE DEF a, d
  <2>4. /\ switch' \in SwitchStates /\ switch'.pc = switch.pc /\ switch'.setAside = a
        /\ switch'.cache = switch.cache /\ switch'.disk = d /\ switch'.root = switch.root
        /\ switch'.install = switch.install /\ switch'.mbr = switch.mbr
        /\ switch'.written = switch.written
    BY <1>0, <2>1, <2>2, <2>3 DEF SwitchStates
  <2>5. ASSUME NEW p \in Entries, RunsFrom(p), one PROVE RunsFrom(p)'
    <3>1. switch.pc \in {"write", "switched"}
      BY <2>0, <2>5 DEF RunsFrom
    <3>2. PICK n \in Entries \ {p} : MovesTo(p, n)
      BY <2>5, <3>1 DEF RunsFrom
    <3>3. switch.written \in 0..4
      BY <1>0 DEF SwitchStates
    <3>4. \/ switch.cache.flags = Flagging(p)
          \/ switch.cache.flags = Flagging(n) /\ switch.written # 0
      BY <2>5, <3>2, <3>3, MixedIs DEF MovesTo
    <3>5. MovesTo(p, n)'
      BY <2>3, <2>4, <3>2, <3>4 DEF MovesTo
    <3> QED
      BY <2>3, <2>4, <2>5, <3>1, <3>5 DEF RunsFrom
  <2> QED
    BY <1>0, <2>2, <2>4, <2>5 DEF SwitchInv
<1>8. CASE WriteBackPartition
  <2>0. PICK x \in Devices : switch' = [switch EXCEPT !.disk.content[x] = switch.cache.content[x]]
    BY <1>8 DEF WriteBackPartition
  <2> DEFINE d == [switch.disk EXCEPT !.content[x] = switch.cache.content[x]]
  <2>1. switch' = [switch EXCEPT !.disk = d]
    BY <1>0, <2>0 DEF SwitchStates
  <2>2. /\ d \in Storage /\ d.flags = switch.disk.flags
        /\ \A y \in Devices : switch.cache.content[y] = "ready" /\ switch.disk.content[y] = "ready" =>
             d.content[y] = "ready"
    BY <1>0 DEF Storage
  <2> HIDE DEF d
  <2>3. /\ switch' \in SwitchStates /\ switch'.pc = switch.pc /\ switch'.setAside = switch.setAside
        /\ switch'.cache = switch.cache /\ switch'.disk = d /\ switch'.root = switch.root
        /\ switch'.install = switch.install /\ switch'.mbr = switch.mbr
        /\ switch'.written = switch.written
    BY <1>0, <2>1, <2>2 DEF SwitchStates
  <2>4. ASSUME NEW p \in Entries, RunsFrom(p) PROVE RunsFrom(p)'
    <3>1. \A n \in Entries : Primary(n) \in Devices
      BY PrimaryIs
    <3>2. ASSUME NEW n \in Entries, MovesTo(p, n) PROVE MovesTo(p, n)'
      BY <2>2, <2>3, <3>1, <3>2 DEF MovesTo
    <3>3. switch.pc \in {"write", "switched"} => \E n \in Entries \ {p} : MovesTo(p, n)'
      BY <2>4, <3>2 DEF RunsFrom
    <3> QED
      BY <2>2, <2>3, <2>4, <3>1, <3>3 DEF RunsFrom
  <2> QED
    BY <1>0, <2>3, <2>4 DEF SwitchInv
<1>9. CASE PowerFails
  <2> DEFINE f == switch.failures + 1
             s == [switch EXCEPT !.failures = f]
  <2>1. f \in Nat
    BY <1>0 DEF SwitchStates
  <2>2. switch' = Reboot(s)
    BY <1>9 DEF PowerFails
  <2> HIDE DEF f
  <2>3. s \in SwitchStates /\ s.disk = switch.disk /\ s.setAside = switch.setAside
    BY <1>0, <2>1 DEF SwitchStates
  <2> HIDE DEF s
  <2>4. /\ switch' \in SwitchStates /\ switch'.setAside = switch.setAside /\ switch'.pc # "write"
        /\ \A q \in Entries :
              /\ switch.disk.flags = Flagging(q) /\ switch.disk.content[Primary(q)] = "ready"
              => RunsFrom(q)'
    BY <2>2, <2>3, RebootHolds
  <2>5. ASSUME NEW p \in Entries, RunsFrom(p) PROVE \E q \in Entries : RunsFrom(q)'
    <3>1. CASE switch.disk.flags = Flagging(p)
      BY <2>4, <2>5, <3>1 DEF RunsFrom
    <3>2. CASE switch.disk.flags # Flagging(p)
      <4>1. PICK n \in Entries \ {p} : MovesTo(p, n)
        BY <2>5, <3>2 DEF RunsFrom
      <4> QED
        BY <2>4, <3>2, <4>1 DEF MovesTo
    <3> QED
      BY <3>1, <3>2
  <2> QED
    BY <1>0, <2>4, <2>5 DEF SwitchInv
<1>10. CASE Restart
  <2> DEFINE a == IF Cardinality(Flagged(switch.cache.flags)) = 1 THEN switch.setAside
                  ELSE switch.setAside \cup {"torn"}
             s == [switch EXCEPT !.disk = switch.cache, !.setAside = a]
  <2>1. switch' = Reboot(s) /\ switch.pc \in {"switched", "failed"}
    BY <1>0, <1>10 DEF Restart, SwitchStates
  <2>2. a \in SUBSET {"unmounted", "torn", "rerun"} /\ (a = {} => switch.setAside = {})
    BY <1>0 DEF SwitchStates
  <2> HIDE DEF a
  <2>3. s \in SwitchStates /\ s.disk = switch.cache /\ s.setAside = a
    BY <1>0, <2>2 DEF SwitchStates
  <2> HIDE DEF s
  <2>4. /\ switch' \in SwitchStates /\ switch'.setAside = a /\ switch'.pc # "write"
        /\ \A q \in Entries :
              /\ switch.cache.flags = Flagging(q) /\ switch.cache.content[Primary(q)] = "ready"
              => RunsFrom(q)'
    BY <2>1, <2>3, RebootHolds
  <2>5. ASSUME NEW p \in Entries, RunsFrom(p) PROVE \E q \in Entries : RunsFrom(q)'
    <3>1. CASE switch.pc = "failed"
      BY <2>4, <2>5, <3>1 DEF RunsFrom
    <3>2. CASE switch.pc = "switched"
      <4>1. PICK n \in Entries \ {p} : MovesTo(p, n)
        BY <2>5, <3>2 DEF RunsFrom
      <4>2. switch.cache.flags = Flagging(n)
        BY <2>5, <3>2, <4>1, MixedIs DEF RunsFrom, MovesTo
      <4> QED
        BY <2>4, <4>1, <4>2 DEF MovesTo
    <3> QED
      BY <2>1, <3>1, <3>2
  <2> QED
    BY <1>0, <2>2, <2>4, <2>5 DEF SwitchInv
<1>11. CASE RunAgain
  <2> DEFINE a == IF switch.pc = "switched" THEN switch.setAside \cup {"rerun"} ELSE switch.setAside
  <2>1. switch' = [switch EXCEPT !.pc = "handler", !.setAside = a] /\ switch.pc \in {"switched", "failed"}
    BY <1>0, <1>11 DEF RunAgain, SwitchStates
  <2>2. /\ a \in SUBSET {"unmounted", "torn", "rerun"}
        /\ a = {} => switch.setAside = {} /\ switch.pc = "failed"
    BY <1>0, <2>1 DEF SwitchStates
  <2> HIDE DEF a
  <2>3. /\ switch' \in SwitchStates /\ switch'.pc = "handler" /\ switch'.setAside = a
        /\ switch'.cache = switch.cache /\ switch'.disk = switch.disk /\ switch'.root = switch.root
    BY <1>0, <2>1, <2>2 DEF SwitchStates
  <2> QED
    BY <1>0, <2>2, <2>3, StaysFlagged DEF SwitchInv
<1> QED
  BY <1>1, <1>2, <1>3, <1>4, <1>5, <1>6, <1>7, <1>8, <1>9, <1>10, <1>11 DEF SwitchNext

\* Whenever the power fails while an update is installed, run and made bootable, one partition is
\* flagged on the disk and its system is complete, except after the three things set aside.
THEOREM SwitchSafety == MCSpec => []BootsCompleteSystem
<1>1. MCInit => SwitchInv
  BY SwitchInitInv DEF MCInit
<1>2. SwitchInv /\ [MCNext]_vars => SwitchInv'
  <2>1. UNCHANGED switch /\ SwitchInv => SwitchInv'
    BY DEF SwitchInv, RunsFrom, MovesTo
  <2>2. [MCNext]_vars => SwitchNext \/ UNCHANGED switch
    BY DEF MCNext, vars, MementoUnit, MetricsUnit
  <2> QED
    BY <2>1, <2>2, SwitchNextInv
<1>3. SwitchInv => BootsCompleteSystem
  <2> SUFFICES ASSUME SwitchInv, switch.setAside = {} PROVE BootsCompleteSystem
    BY DEF BootsCompleteSystem
  <2>1. PICK p \in Entries : RunsFrom(p)
    BY DEF SwitchInv
  <2>2. CASE switch.disk.flags = Flagging(p)
    BY <2>1, <2>2, FlaggingIs DEF RunsFrom, BootsCompleteSystem
  <2>3. CASE switch.disk.flags # Flagging(p)
    <3>1. PICK n \in Entries \ {p} : MovesTo(p, n)
      BY <2>1, <2>3 DEF RunsFrom
    <3> QED
      BY <2>3, <3>1, FlaggingIs DEF MovesTo, BootsCompleteSystem
  <2> QED
    BY <2>2, <2>3
<1> QED
  BY <1>1, <1>2, <1>3, PTL DEF MCSpec

-----------------------------------------------------------------------------
(* The metrics file.                                                       *)

\* The messages in the file, whole or in part.
Durations == {<<>>} \cup (NetworkStates \X Int)
Messages == ({"daemon", "part"} \cup Clients) \X Nat \X Durations

MetricsTypes ==
  /\ DOMAIN metrics = DOMAIN MetricsStart
  /\ metrics.file \in Seq(Messages)
  /\ metrics.reported \in Seq(NetworkStates \X Int) /\ metrics.new \in Durations
  /\ metrics.network_state \in NetworkStates \cup {kUnknownNetworkStateId}
  /\ metrics.clock \in Nat /\ metrics.network_state_start \in Nat
  /\ metrics.client \in [Clients -> {"start", "autotest", "lock", "write", "unlock", "done"}]

\* Whoever is between its two calls of flock() has the lock; and what Chrome is about to
\* truncate it has read.  (The daemon may have the lock all the time: a write that falls short
\* leaves it locked.)
Guarded ==
  /\ metrics.chrome # "away" => metrics.lock = "chrome"
  /\ metrics.daemon \in {"write", "unlock"} => metrics.lock = "daemon"
  /\ \A c \in Clients : metrics.client[c] \in {"write", "unlock"} => metrics.lock = c
  /\ metrics.chrome = "truncate" => ToSet(metrics.file) \subseteq metrics.read

MetricsInv == MetricsTypes /\ Guarded /\ NothingTruncatedUnread

\* An empty file, and nobody has the lock.
LEMMA MetricsInitInv == MetricsInit => MetricsInv
<1> SUFFICES ASSUME MetricsInit PROVE MetricsInv
  OBVIOUS
<1>1. metrics = MetricsStart /\ <<>> \in Seq(Messages) /\ <<>> \in Seq(NetworkStates \X Int)
  BY EmptySeq DEF MetricsInit
<1>2. MetricsTypes
  BY <1>1 DEF MetricsTypes, MetricsStart, Durations
<1>3. Guarded
  BY <1>1 DEF Guarded, MetricsStart
<1>4. NothingTruncatedUnread
  BY <1>1 DEF NothingTruncatedUnread, MetricsStart
<1> QED
  BY <1>2, <1>3, <1>4 DEF MetricsInv

\* What write() leaves in the file.
LEMMA FileGrows ==
  ASSUME NEW file \in Seq(Messages), NEW message \in Messages
  PROVE  Append(file, message) \in Seq(Messages) /\ ToSet(Append(file, message)) = ToSet(file) \cup {message}
<1>1. /\ Append(file, message) \in Seq(Messages) /\ Len(Append(file, message)) = Len(file) + 1
      /\ Append(file, message)[Len(file) + 1] = message
      /\ \A i \in 1..Len(file) : Append(file, message)[i] = file[i]
      /\ Len(file) \in Nat
  BY AppendProperties, LenProperties
<1>2. /\ DOMAIN Append(file, message) = 1..(Len(file) + 1) /\ DOMAIN file = 1..Len(file)
  BY <1>1, LenProperties
<1>3. \A i \in 1..(Len(file) + 1) : i \in 1..Len(file) \/ i = Len(file) + 1
  BY <1>1
<1>4. 1..Len(file) \subseteq 1..(Len(file) + 1) /\ Len(file) + 1 \in 1..(Len(file) + 1)
  BY <1>1
<1> HIDE DEF Messages
<1>5. ToSet(Append(file, message)) \subseteq ToSet(file) \cup {message}
  BY <1>1, <1>2, <1>3 DEF ToSet
<1>6. ToSet(file) \cup {message} \subseteq ToSet(Append(file, message))
  BY <1>1, <1>2, <1>4 DEF ToSet
<1> QED
  BY <1>1, <1>5, <1>6

\* A write, all of it or a part, by who has the lock.
LEMMA WriteKeeps ==
  ASSUME MetricsInv, metrics.chrome = "away", NEW message \in Messages,
         NEW m, m \in {Writes(metrics, message), WritesShort(metrics, message)}
  PROVE  /\ DOMAIN m = DOMAIN metrics
         /\ m.file \in Seq(Messages) /\ m.sent \subseteq ToSet(m.file) \cup m.read
         /\ \A f \in DOMAIN metrics \ {"file", "sent", "shortWrites"} : m[f] = metrics[f]
<1>1. DOMAIN metrics = DOMAIN MetricsStart /\ metrics.file \in Seq(Messages)
  BY DEF MetricsInv, MetricsTypes
<1>2. /\ "file" \in DOMAIN metrics /\ "sent" \in DOMAIN metrics /\ "shortWrites" \in DOMAIN metrics
      /\ "read" \in DOMAIN metrics
  BY <1>1 DEF MetricsStart
<1>3. metrics.sent \subseteq ToSet(metrics.file) \cup metrics.read
  BY DEF MetricsInv, NothingTruncatedUnread
<1>4. CASE m = Writes(metrics, message)
  <2>1. /\ DOMAIN m = DOMAIN metrics /\ m.file = Append(metrics.file, message)
        /\ m.sent = metrics.sent \cup {message} /\ m.read = metrics.read
        /\ \A f \in DOMAIN metrics \ {"file", "sent", "shortWrites"} : m[f] = metrics[f]
    BY <1>2, <1>4 DEF Writes
  <2> QED
    BY <1>1, <1>3, <2>1, FileGrows
<1>5. CASE m = WritesShort(metrics, message)
  <2> DEFINE part == <<"part", message[2], message[3]>>
  <2>1. part \in Messages
    BY DEF Messages
  <2> HIDE DEF part
  <2>2. /\ DOMAIN m = DOMAIN metrics /\ m.file = Append(metrics.file, part)
        /\ m.sent = metrics.sent /\ m.read = metrics.read
        /\ \A f \in DOMAIN metrics \ {"file", "sent", "shortWrites"} : m[f] = metrics[f]
    BY <1>2, <1>5 DEF WritesShort, part
  <2> QED
    BY <1>1, <1>3, <2>1, <2>2, FileGrows
<1> QED
  BY <1>4, <1>5
\* Steps that leave the file and the lock alone: the invariant is about what they leave.
LEMMA QuietStep ==
  ASSUME MetricsInv, DOMAIN metrics' = DOMAIN metrics,
         metrics'.file = metrics.file, metrics'.sent = metrics.sent, metrics'.read = metrics.read,
         metrics'.lock = metrics.lock, metrics'.chrome = metrics.chrome,
         metrics'.reported \in Seq(NetworkStates \X Int), metrics'.new \in Durations,
         metrics'.network_state \in NetworkStates \cup {kUnknownNetworkStateId},
         metrics'.clock \in Nat, metrics'.network_state_start \in Nat,
         metrics'.client \in [Clients -> {"start", "autotest", "lock", "write", "unlock", "done"}],
         metrics'.daemon \in {"write", "unlock"} => metrics.daemon \in {"write", "unlock"},
         \A c \in Clients : metrics'.client[c] \in {"write", "unlock"} => metrics'.client[c] = metrics.client[c]
  PROVE  MetricsInv'
<1>1. MetricsTypes'
  BY DEF MetricsInv, MetricsTypes, MetricsStart
<1>2. Guarded'
  BY DEF MetricsInv, Guarded
<1>3. NothingTruncatedUnread'
  BY DEF MetricsInv, NothingTruncatedUnread
<1> QED
  BY <1>1, <1>2, <1>3 DEF MetricsInv

\* A signal is handled: the time of the state before is to be reported.
LEMMA SignalInv ==
  ASSUME MetricsInv, NEW name, NetSignalHandler(name)
  PROVE  MetricsInv'
<1> DEFINE m == IF name \notin NetworkStates \/ name = metrics.network_state THEN metrics
                ELSE LogNetworkStateChange(name)
           diff == metrics.clock - metrics.network_state_start
           diff_ms == IF diff \div TicksPerSecond >= IntMax \div TicksPerSecond THEN IntMax ELSE diff
           entry == <<metrics.network_state, diff_ms>>
<1>1. MetricsTypes
  BY DEF MetricsInv
<1>2. diff_ms \in Int
  BY <1>1, MetricsAssumption DEF MetricsTypes
<1> HIDE DEF diff_ms
<1>3. metrics.network_state # kUnknownNetworkStateId =>
        /\ entry \in NetworkStates \X Int /\ entry \in Durations
        /\ Append(metrics.reported, entry) \in Seq(NetworkStates \X Int)
  <2> SUFFICES ASSUME metrics.network_state # kUnknownNetworkStateId
               PROVE  /\ entry \in NetworkStates \X Int /\ entry \in Durations
                      /\ Append(metrics.reported, entry) \in Seq(NetworkStates \X Int)
    OBVIOUS
  <2>1. entry \in NetworkStates \X Int
    BY <1>1, <1>2 DEF MetricsTypes
  <2> HIDE DEF entry
  <2> QED
    BY <1>1, <2>1, AppendProperties DEF MetricsTypes, Durations
<1> HIDE DEF entry
<1>4. /\ DOMAIN m = DOMAIN metrics
      /\ m.file = metrics.file /\ m.sent = metrics.sent /\ m.read = metrics.read
      /\ m.lock = metrics.lock /\ m.chrome = metrics.chrome
      /\ m.clock = metrics.clock /\ m.client = metrics.client
      /\ m.daemon \in {metrics.daemon, "lock"}
      /\ m.reported \in Seq(NetworkStates \X Int) /\ m.new \in Durations
      /\ m.network_state \in NetworkStates \cup {kUnknownNetworkStateId}
      /\ m.network_state_start \in Nat
  <2>1. CASE name \notin NetworkStates \/ name = metrics.network_state
    BY <1>1, <2>1 DEF MetricsTypes
  <2>2. CASE name \in NetworkStates /\ name # metrics.network_state
    <3>1. CASE metrics.network_state = kUnknownNetworkStateId
      BY <1>1, <2>2, <3>1 DEF MetricsTypes, MetricsStart, LogNetworkStateChange
    <3>2. CASE metrics.network_state # kUnknownNetworkStateId
      <4>1. m = [metrics EXCEPT !.network_state = name, !.network_state_start = metrics.clock,
                                !.daemon = "lock", !.new = entry, !.reported = Append(@, entry)]
        BY <2>2, <3>2 DEF LogNetworkStateChange, entry, diff_ms
      <4> QED
        BY <1>1, <1>3, <2>2, <3>2, <4>1, ZenonT(40) DEF MetricsTypes, MetricsStart
    <3> QED
      BY <3>1, <3>2
  <2> QED
    BY <2>1, <2>2
<1>5. metrics' = [m EXCEPT !.signals = Append(@, <<name, metrics.clock>>)]
  BY DEF NetSignalHandler
<1> HIDE DEF m
<1>6. /\ DOMAIN metrics' = DOMAIN metrics
      /\ metrics'.file = metrics.file /\ metrics'.sent = metrics.sent /\ metrics'.read = metrics.read
      /\ metrics'.lock = metrics.lock /\ metrics'.chrome = metrics.chrome
      /\ metrics'.clock = metrics.clock /\ metrics'.client = metrics.client
      /\ metrics'.daemon \in {metrics.daemon, "lock"}
      /\ metrics'.reported \in Seq(NetworkStates \X Int) /\ metrics'.new \in Durations
      /\ metrics'.network_state \in NetworkStates \cup {kUnknownNetworkStateId}
      /\ metrics'.network_state_start \in Nat
  BY <1>1, <1>4, <1>5 DEF MetricsTypes, MetricsStart
<1> QED
  BY <1>1, <1>6, QuietStep DEF MetricsTypes

\* The daemon's write and that of a client.
LEMMA WriteInv ==
  ASSUME MetricsInv,
         DaemonWrites \/ DaemonFallsShort \/ \E c \in Clients : ClientWrites(c) \/ ClientFallsShort(c)
  PROVE  MetricsInv'
<1>1. /\ MetricsTypes /\ Guarded
  BY DEF MetricsInv
<1>2. ASSUME NEW message \in Messages, NEW m, m \in {Writes(metrics, message), WritesShort(metrics, message)},
             NEW step \in {"unlock", "idle"}, metrics.daemon = "write", metrics' = [m EXCEPT !.daemon = step]
      PROVE  MetricsInv'
  <2>1. metrics.lock = "daemon" /\ metrics.chrome = "away"
    BY <1>1, <1>2 DEF Guarded
  <2>2. /\ DOMAIN m = DOMAIN metrics
        /\ m.file \in Seq(Messages) /\ m.sent \subseteq ToSet(m.file) \cup m.read
        /\ \A f \in DOMAIN metrics \ {"file", "sent", "shortWrites"} : m[f] = metrics[f]
    BY <1>2, <2>1, WriteKeeps
  <2>3. /\ DOMAIN metrics' = DOMAIN metrics /\ metrics'.daemon = step
        /\ metrics'.file = m.file /\ metrics'.sent = m.sent /\ metrics'.read = m.read
        /\ metrics'.lock = metrics.lock /\ metrics'.chrome = metrics.chrome
        /\ metrics'.reported = metrics.reported /\ metrics'.new = metrics.new
        /\ metrics'.network_state = metrics.network_state /\ metrics'.clock = metrics.clock
        /\ metrics'.network_state_start = metrics.network_state_start /\ metrics'.client = metrics.client
    BY <1>1, <1>2, <2>2 DEF MetricsTypes, MetricsStart
  <2>4. MetricsTypes'
    BY <1>1, <2>2, <2>3 DEF MetricsTypes, MetricsStart
  <2>5. Guarded'
    BY <1>1, <2>1, <2>3 DEF Guarded
  <2>6. NothingTruncatedUnread'
    BY <2>2, <2>3 DEF NothingTruncatedUnread
  <2> QED
    BY <2>4, <2>5, <2>6 DEF MetricsInv
<1>3. ASSUME NEW c \in Clients, NEW message \in Messages,
             NEW m, m \in {Writes(metrics, message), WritesShort(metrics, message)},
             metrics.client[c] = "write", metrics' = [m EXCEPT !.client[c] = "unlock"]
      PROVE  MetricsInv'
  <2>1. metrics.lock = c /\ metrics.chrome = "away"
    BY <1>1, <1>3, MetricsAssumption DEF Guarded
  <2>2. /\ DOMAIN m = DOMAIN metrics
        /\ m.file \in Seq(Messages) /\ m.sent \subseteq ToSet(m.file) \cup m.read
        /\ \A f \in DOMAIN metrics \ {"file", "sent", "shortWrites"} : m[f] = metrics[f]
    BY <1>3, <2>1, WriteKeeps
  <2>3. /\ DOMAIN metrics' = DOMAIN metrics /\ metrics'.daemon = metrics.daemon
        /\ metrics'.file = m.file /\ metrics'.sent = m.sent /\ metrics'.read = m.read
        /\ metrics'.lock = metrics.lock /\ metrics'.chrome = metrics.chrome
        /\ metrics'.reported = metrics.reported /\ metrics'.new = metrics.new
        /\ metrics'.network_state = metrics.network_state /\ metrics'.clock = metrics.clock
        /\ metrics'.network_state_start = metrics.network_state_start
        /\ metrics'.client = [metrics.client EXCEPT ![c] = "unlock"]
    BY <1>1, <1>3, <2>2 DEF MetricsTypes, MetricsStart
  <2>4. MetricsTypes'
    BY <1>1, <2>2, <2>3 DEF MetricsTypes, MetricsStart
  <2>5. Guarded'
    BY <1>1, <2>1, <2>3 DEF Guarded, MetricsTypes
  <2>6. NothingTruncatedUnread'
    BY <2>2, <2>3 DEF NothingTruncatedUnread
  <2> QED
    BY <2>4, <2>5, <2>6 DEF MetricsInv
<1>4. DaemonMessage \in Messages
  <2>1. Len(metrics.reported) \in Nat /\ metrics.new \in Durations
    BY <1>1, LenProperties DEF MetricsTypes
  <2> QED
    BY <2>1 DEF DaemonMessage, Messages
<1>5. \A c \in Clients : <<c, 0, <<>>>> \in Messages
  BY DEF Messages, Durations
<1>6. CASE DaemonWrites
  BY <1>2, <1>4, <1>6 DEF DaemonWrites
<1>7. CASE DaemonFallsShort
  BY <1>2, <1>4, <1>7 DEF DaemonFallsShort
<1>8. CASE \E c \in Clients : ClientWrites(c)
  BY <1>3, <1>5, <1>8 DEF ClientWrites
<1>9. CASE \E c \in Clients : ClientFallsShort(c)
  BY <1>3, <1>5, <1>9 DEF ClientFallsShort
<1> QED
  BY <1>6, <1>7, <1>8, <1>9

\* Every step of the daemon, of a client and of Chrome keeps the invariant.
LEMMA MetricsNextInv == MetricsInv /\ MetricsNext => MetricsInv'
<1> SUFFICES ASSUME MetricsInv, MetricsNext PROVE MetricsInv'
  OBVIOUS
<1>1. MetricsTypes /\ Guarded /\ NothingTruncatedUnread
  BY DEF MetricsInv
<1>2. CASE Tick
  <2>1. /\ DOMAIN metrics' = DOMAIN metrics /\ metrics'.clock = metrics.clock + 1
        /\ \A f \in DOMAIN metrics \ {"clock"} : metrics'[f] = metrics[f]
    BY <1>1, <1>2 DEF Tick, MetricsTypes, MetricsStart
  <2> QED
    BY <1>1, <2>1, QuietStep DEF MetricsTypes, MetricsStart
<1>3. CASE \E name \in NetworkStates \cup OtherStates : NetSignalHandler(name)
  BY <1>3, SignalInv
<1>4. CASE DaemonWrites \/ DaemonFallsShort \/ \E c \in Clients : ClientWrites(c) \/ ClientFallsShort(c)
  BY <1>4, WriteInv
<1>5. CASE DaemonLocks \/ DaemonUnlocks
  <2>1. PICK who \in {"daemon", "nobody"}, step \in {"write", "idle"} :
          /\ metrics' = [metrics EXCEPT !.lock = who, !.daemon = step]
          /\ metrics.lock \in {"nobody", "daemon"} /\ (step = "write" => who = "daemon")
    BY <1>1, <1>5 DEF DaemonLocks, DaemonUnlocks, MayLock, Guarded
  <2>2. /\ DOMAIN metrics' = DOMAIN metrics /\ metrics'.lock = who /\ metrics'.daemon = step
        /\ \A f \in DOMAIN metrics \ {"lock", "daemon"} : metrics'[f] = metrics[f]
    BY <1>1, <2>1 DEF MetricsTypes, MetricsStart
  <2>3. MetricsTypes' /\ NothingTruncatedUnread'
    BY <1>1, <2>2 DEF MetricsTypes, MetricsStart, NothingTruncatedUnread
  <2>4. Guarded'
    BY <1>1, <2>1, <2>2, MetricsAssumption DEF Guarded, MetricsTypes, MetricsStart
  <2> QED
    BY <2>3, <2>4 DEF MetricsInv
<1>6. CASE \E c \in Clients : ClientMain(c) \/ ClientFails(c) \/ SendToAutotest(c)
  <2>1. PICK c \in Clients, step \in {"done", "autotest", "lock"} :
          /\ DOMAIN metrics' = DOMAIN metrics
          /\ metrics'.client = [metrics.client EXCEPT ![c] = step]
          /\ \A f \in DOMAIN metrics \ {"client", "targets", "autotest"} : metrics'[f] = metrics[f]
    <3>1. PICK c \in Clients : ClientMain(c) \/ ClientFails(c) \/ SendToAutotest(c)
      BY <1>6
    <3>2. CASE ClientFails(c)
      BY <1>1, <3>2 DEF ClientFails, MetricsTypes, MetricsStart
    <3>3. CASE ClientMain(c)
      <4>1. PICK flags \in SUBSET {"a", "b", "c"}, arguments \in 0..2 :
              metrics' = [metrics EXCEPT !.targets[c] = Targets(flags, arguments),
                                         !.client[c] = IF Targets(flags, arguments) = {} THEN "done" ELSE "autotest"]
        BY <3>3 DEF ClientMain
      <4>2. PICK step \in {"done", "autotest"} :
              step = IF Targets(flags, arguments) = {} THEN "done" ELSE "autotest"
        OBVIOUS
      <4>3. metrics' = [metrics EXCEPT !.targets[c] = Targets(flags, arguments), !.client[c] = step]
        BY <4>1, <4>2
      <4> QED
        BY <1>1, <4>3 DEF MetricsTypes, MetricsStart
    <3>4. CASE SendToAutotest(c)
      <4>1. PICK step \in {"done", "lock"} :
              LET m == [metrics EXCEPT !.client[c] = step]
              IN  metrics' = IF "autotest" \in metrics.targets[c] THEN [m EXCEPT !.autotest = @ \cup {c}] ELSE m
        <5>1. CASE MetricsPath \in metrics.targets[c]
          BY <3>4, <5>1 DEF SendToAutotest
        <5>2. CASE MetricsPath \notin metrics.targets[c]
          BY <3>4, <5>2 DEF SendToAutotest
        <5> QED
          BY <5>1, <5>2
      <4>2. CASE "autotest" \in metrics.targets[c]
        BY <1>1, <4>1, <4>2 DEF MetricsTypes, MetricsStart
      <4>3. CASE "autotest" \notin metrics.targets[c]
        BY <1>1, <4>1, <4>3 DEF MetricsTypes, MetricsStart
      <4> QED
        BY <4>2, <4>3
    <3> QED
      BY <3>1, <3>2, <3>3, <3>4
  <2> QED
    BY <1>1, <2>1, QuietStep DEF MetricsTypes, MetricsStart
<1>7. CASE \E c \in Clients : ClientLocks(c) \/ ClientUnlocks(c)
  <2>1. PICK c \in Clients, who \in Clients \cup {"nobody"}, step \in {"write", "done"} :
          /\ metrics' = [metrics EXCEPT !.lock = who, !.client[c] = step]
          /\ metrics.lock \in {"nobody", c} /\ who \in {"nobody", c} /\ (step = "write" => who = c)
    BY <1>1, <1>7 DEF ClientLocks, ClientUnlocks, MayLock, Guarded
  <2>2. /\ DOMAIN metrics' = DOMAIN metrics /\ metrics'.lock = who
        /\ metrics'.client = [metrics.client EXCEPT ![c] = step]
        /\ \A f \in DOMAIN metrics \ {"lock", "client"} : metrics'[f] = metrics[f]
    BY <1>1, <2>1 DEF MetricsTypes, MetricsStart
  <2>3. MetricsTypes' /\ NothingTruncatedUnread'
    BY <1>1, <2>2 DEF MetricsTypes, MetricsStart, NothingTruncatedUnread
  <2>4. Guarded'
    BY <1>1, <2>1, <2>2, MetricsAssumption DEF Guarded, MetricsTypes, MetricsStart
  <2> QED
    BY <2>3, <2>4 DEF MetricsInv
<1>8. CASE ChromeLocks
  <2>1. /\ metrics.lock \in {"nobody", "chrome"}
        /\ DOMAIN metrics' = DOMAIN metrics /\ metrics'.lock = "chrome" /\ metrics'.chrome = "read"
        /\ \A f \in DOMAIN metrics \ {"lock", "chrome", "reads"} : metrics'[f] = metrics[f]
    BY <1>1, <1>8 DEF ChromeLocks, MayLock, MetricsTypes, MetricsStart
  <2>2. MetricsTypes' /\ NothingTruncatedUnread'
    BY <1>1, <2>1 DEF MetricsTypes, MetricsStart, NothingTruncatedUnread
  <2>3. Guarded'
    BY <1>1, <2>1, MetricsAssumption DEF Guarded, MetricsTypes, MetricsStart
  <2> QED
    BY <2>2, <2>3 DEF MetricsInv
<1>9. CASE ChromeReads
  <2>1. /\ metrics.chrome = "read" /\ metrics'.chrome = "truncate"
        /\ DOMAIN metrics' = DOMAIN metrics /\ metrics'.read = metrics.read \cup ToSet(metrics.file)
        /\ \A f \in DOMAIN metrics \ {"chrome", "read"} : metrics'[f] = metrics[f]
    BY <1>1, <1>9 DEF ChromeReads, MetricsTypes, MetricsStart
  <2>2. MetricsTypes' /\ NothingTruncatedUnread'
    BY <1>1, <2>1 DEF MetricsTypes, MetricsStart, NothingTruncatedUnread
  <2>3. Guarded'
    BY <1>1, <2>1 DEF Guarded, MetricsTypes, MetricsStart
  <2> QED
    BY <2>2, <2>3 DEF MetricsInv
<1>10. CASE ChromeTruncates
  <2>1. /\ metrics.chrome = "truncate" /\ metrics.lock = "chrome" /\ ToSet(metrics.file) \subseteq metrics.read
        /\ metrics'.chrome = "away" /\ metrics'.file = <<>>
        /\ DOMAIN metrics' = DOMAIN metrics
        /\ \A f \in DOMAIN metrics \ {"chrome", "file", "lock"} : metrics'[f] = metrics[f]
    BY <1>1, <1>10 DEF ChromeTruncates, Guarded, MetricsTypes, MetricsStart
  <2>2. MetricsTypes'
    BY <1>1, <2>1, EmptySeq DEF MetricsTypes, MetricsStart
  <2>3. NothingTruncatedUnread'
    BY <1>1, <2>1 DEF NothingTruncatedUnread, MetricsTypes, MetricsStart
  <2>4. Guarded'
    BY <1>1, <2>1, MetricsAssumption DEF Guarded, MetricsTypes, MetricsStart
  <2> QED
    BY <2>2, <2>3, <2>4 DEF MetricsInv
<1>11. CASE DaemonFails
  <2>1. /\ DOMAIN metrics' = DOMAIN metrics /\ metrics'.daemon = "idle"
        /\ \A f \in DOMAIN metrics \ {"daemon"} : metrics'[f] = metrics[f]
    BY <1>1, <1>11 DEF DaemonFails, MetricsTypes, MetricsStart
  <2> QED
    BY <1>1, <2>1, QuietStep DEF MetricsTypes, MetricsStart
<1> QED
  BY <1>2, <1>3, <1>4, <1>5, <1>6, <1>7, <1>8, <1>9, <1>10, <1>11
     DEF MetricsNext, DaemonStep, ClientStep, ChromeStep

\* Chrome truncates nothing that it has not read: every metric that was written whole is in
\* the file or was read, whoever writes at the time, and although the daemon keeps the lock
\* when its write falls short.
THEOREM MetricsSafety == MCSpec => []NothingTruncatedUnread
<1>1. MCInit => MetricsInv
  BY MetricsInitInv DEF MCInit
<1>2. MetricsInv /\ [MCNext]_vars => MetricsInv'
  <2>1. UNCHANGED metrics /\ MetricsInv => MetricsInv'
    BY DEF MetricsInv, MetricsTypes, Guarded, NothingTruncatedUnread
  <2>2. [MCNext]_vars => MetricsNext \/ UNCHANGED metrics
    BY DEF MCNext, vars, MementoUnit, MetricsUnit
  <2> QED
    BY <2>1, <2>2, MetricsNextInv
<1>3. MetricsInv => NothingTruncatedUnread
  BY DEF MetricsInv
<1> QED
  BY <1>1, <1>2, <1>3, PTL DEF MCSpec

-----------------------------------------------------------------------------
(* Verified boot.                                                          *)

\* What a cell of the image or of the blob can be: signatures are of what was signed.
Cells(f) ==
  ({"num"} \X Nat) \cup {Magic, Heap, <<"bad", 0>>, <<"data", 0>>, <<"data", 1>>, <<"preamble", 0>>}
  \cup {f.image.header_checksum} \cup ({"key"} \X SignKeys \X Nat)
  \cup ({"sig"} \X {RootKey} \X Nat \X f.headers \X Nat)
  \cup UNION {{"sig"} \X {x[1]} \X Nat \X {x[2]} \X Nat : x \in f.preambles \cup f.data}

ImageFields ==
  {"magic", "header_len", "sign_algorithm", "sign_key", "key_version", "header_checksum", "key_signature",
   "firmware_version", "firmware_len", "preamble", "preamble_signature", "firmware_signature", "firmware_data"}

DataCells == {<<"data", 0>>, <<"data", 1>>, Heap}

\* Cells of a signature, or of a buffer that none was written to.
SignatureCells(f) == {c \in Cells(f) : c[1] \in {"sig", "heap"}}

ImageTypes(f) ==
  LET m == f.image IN
  /\ DOMAIN m = ImageFields /\ m.magic = Magic /\ m.preamble = <<"preamble", 0>>
  /\ m.header_len \in Nat /\ m.header_len >= HeaderRest /\ m.sign_algorithm \in 0..1
  /\ \E k \in SignKeys : m.sign_key = KeyCells(k)
  /\ m.header_checksum[1] = "sha512"
  /\ m.key_version \in Nat /\ m.firmware_version \in Nat /\ m.firmware_len \in Nat
  /\ m.key_signature \in Seq(SignatureCells(f)) /\ Len(m.key_signature) = 2
  /\ m.preamble_signature \in Seq(SignatureCells(f)) /\ m.firmware_signature \in Seq(SignatureCells(f))
  /\ m.firmware_data \in Seq(DataCells)

\* A preamble is signed together with the data whose length it holds.
SignedTogether(f) ==
  \/ f.preambles = {} /\ f.data = {}
  \/ \E k \in SignKeys, v \in Nat : \E s \in Seq(DataCells) :
       /\ f.preambles = {<<k, <<Num(v), Num(Len(s)), <<"preamble", 0>> >> >>}
       /\ f.data = {<<k, s>>}

\* The blob has at most one preamble.
Once(c, s) == \A i, j \in DOMAIN s : s[i] = c /\ s[j] = c => i = j
BlobTypes(f) == f.blob \in Seq(Cells(f)) /\ Once(<<"preamble", 0>>, f.blob)

\* Nothing was changed: the image is what was generated, and its signatures are of that.
Pristine(f) ==
  LET m == f.image IN
  \E k \in SignKeys :
    /\ m.sign_key = KeyCells(k) /\ m.sign_algorithm = KeyAlgorithm[k]
    /\ m.header_len = HeaderRest + RSAProcessedKeySize(KeyAlgorithm[k])
    /\ m.header_checksum =
         <<"sha512", <<Num(m.header_len), Num(m.sign_algorithm)>> \o KeyCells(k) \o <<Num(m.key_version)>> >>
    /\ f.headers # {} =>
         m.key_signature = Signature(RootKey, RootAlgorithm, WriteFirmwareHeader(m))
    /\ \A p \in f.preambles :
         /\ m.preamble_signature = Signature(p[1], KeyAlgorithm[p[1]], WriteFirmwarePreamble(m))
         /\ m.firmware_signature = Signature(p[1], KeyAlgorithm[p[1]], Field(m.firmware_data, m.firmware_len))

\* The inductive invariant of signing, writing and verifying.
FirmwareIs(f) ==
  /\ DOMAIN f = {"image", "blob", "edits", "asWritten", "headers", "preambles", "data"}
  /\ f.edits \in Nat /\ f.asWritten \in BOOLEAN
  /\ ImageTypes(f) /\ SignedTogether(f) /\ BlobTypes(f)
  /\ f.asWritten => f.blob = WriteFirmwareImage(f.image) /\ f.blob # <<>>
  /\ f.edits = 0 => Pristine(f)

-----------------------------------------------------------------------------
\* Parts of memory are sequences of the length that was asked for.
LEMMA FieldIs ==
  ASSUME NEW S, Heap \in S, NEW field \in Seq(S), NEW n \in Nat
  PROVE  /\ Field(field, n) \in Seq(S) /\ Len(Field(field, n)) = n /\ DOMAIN Field(field, n) = 1..n
         /\ Len(field) = n => Field(field, n) = field
<1>1. Len(field) \in Nat /\ DOMAIN field = 1..Len(field) /\ \A i \in 1..Len(field) : field[i] \in S
  BY LenProperties, ElementOfSeq
<1>2. Field(field, n) \in [1..n -> S]
  BY <1>1 DEF Field
<1>3. Field(field, n) \in Seq(S)
  BY <1>2, SeqDef
<1>4. DOMAIN Field(field, n) = 1..n
  BY <1>2
<1>5. Len(Field(field, n)) = n
  BY <1>3, <1>4, LenProperties
<1>6. ASSUME Len(field) = n PROVE Field(field, n) = field
  BY <1>1, <1>6 DEF Field
<1> QED
  BY <1>3, <1>4, <1>5, <1>6

\* A field has the length that is asked for, wherever it begins.
LEMMA AtIs ==
  ASSUME NEW blob, NEW at, NEW n \in Nat
  PROVE  /\ DOMAIN At(blob, at, n) = 1..n /\ Len(At(blob, at, n)) = n
<1>1. DOMAIN At(blob, at, n) = 1..n
  BY DEF At
<1>2. At(blob, at, n) \in Seq({At(blob, at, n)[i] : i \in 1..n})
  <2> DEFINE s == At(blob, at, n)
             S == {At(blob, at, n)[i] : i \in 1..n}
  <2>1. s = [i \in 1..n |-> s[i]]
    BY DEF At
  <2>2. s \in [1..n -> S]
    BY <2>1
  <2> QED
    BY <2>2, SeqDef
<1> QED
  BY <1>1, <1>2, LenProperties

\* What is read from the first part of memory, and from the last.
LEMMA AtLeft ==
  ASSUME NEW S, NEW s \in Seq(S), NEW t \in Seq(S), NEW at \in Nat, NEW n \in Nat, at + n <= Len(s)
  PROVE  At(s \o t, at, n) = At(s, at, n)
<1>1. /\ Len(s) \in Nat /\ Len(t) \in Nat /\ Len(s \o t) = Len(s) + Len(t)
      /\ \A i \in 1..Len(s) : (s \o t)[i] = s[i]
  BY LenProperties, ConcatProperties
<1> DEFINE u == s \o t
<1>2. \A i \in 1..n : at + i \in 1..Len(s) /\ at + i <= Len(u) /\ u[at + i] = s[at + i]
  BY <1>1
<1> HIDE DEF u
<1>3. At(u, at, n) = At(s, at, n)
  BY <1>1, <1>2 DEF At
<1> QED
  BY <1>3 DEF u

\* Reading behind one part of a concatenation yields the other part.
LEMMA AtRight ==
  ASSUME NEW S, NEW s \in Seq(S), NEW t \in Seq(S)
  PROVE  At(s \o t, Len(s), Len(t)) = t
<1>1. /\ Len(s) \in Nat /\ Len(t) \in Nat /\ Len(s \o t) = Len(s) + Len(t)
      /\ \A i \in 1..Len(t) : (s \o t)[Len(s) + i] = t[i]
  <2>1. /\ Len(s) \in Nat /\ Len(t) \in Nat /\ Len(s \o t) = Len(s) + Len(t)
        /\ \A i \in 1..(Len(s) + Len(t)) : (s \o t)[i] = IF i <= Len(s) THEN s[i] ELSE t[i - Len(s)]
    BY LenProperties, ConcatProperties
  <2>2. ASSUME NEW i \in 1..Len(t) PROVE (s \o t)[Len(s) + i] = t[i]
    <3> DEFINE j == Len(s) + i
    <3>1. j \in 1..(Len(s) + Len(t)) /\ ~(j <= Len(s)) /\ j - Len(s) = i
      BY <2>1
    <3> HIDE DEF j
    <3>2. (s \o t)[j] = t[i]
      BY <2>1, <3>1
    <3> QED
      BY <3>2 DEF j
  <2> QED
    BY <2>1, <2>2
<1> DEFINE u == s \o t
           a == Len(s)
           n == Len(t)
<1>2. t = [i \in 1..n |-> t[i]]
  BY LenProperties
<1>3. \A i \in 1..n : a + i <= Len(u) /\ u[a + i] = t[i]
  BY <1>1
<1> HIDE DEF u, a, n
<1>4. At(u, a, n) = t
  BY <1>2, <1>3 DEF At
<1> QED
  BY <1>4 DEF u, a, n

\* What was read from within the blob is a part of it.
LEMMA AtWithin ==
  ASSUME NEW S, NEW b \in Seq(S), NEW at \in Nat, NEW n \in Nat
  PROVE  /\ \A i \in 1..n : /\ At(b, at, n)[i] # Outside => at + i \in DOMAIN b
                            /\ at + i \in DOMAIN b => At(b, at, n)[i] = b[at + i] /\ b[at + i] \in S
         /\ at + n <= Len(b) => SubSeq(b, at + 1, at + n) = At(b, at, n)
<1>1. Len(b) \in Nat /\ DOMAIN b = 1..Len(b) /\ \A i \in 1..Len(b) : b[i] \in S
  BY LenProperties, ElementOfSeq
<1>2. \A i \in 1..n : /\ At(b, at, n)[i] # Outside => at + i \in DOMAIN b
                      /\ at + i \in DOMAIN b => At(b, at, n)[i] = b[at + i] /\ b[at + i] \in S
  BY <1>1 DEF At
<1>3. ASSUME at + n <= Len(b) PROVE SubSeq(b, at + 1, at + n) = At(b, at, n)
  <2> DEFINE lo == at + 1
             hi == at + n
             u == SubSeq(b, lo, hi)
  <2>1. lo \in Int /\ hi \in Int /\ hi - lo + 1 = n /\ \A i \in lo..hi : b[i] \in S
    BY <1>1, <1>3
  <2> HIDE DEF lo, hi
  <2>2. u \in Seq(S) /\ Len(u) = (IF lo <= hi THEN hi - lo + 1 ELSE 0) /\ \A i \in 1..(hi - lo + 1) : u[i] = b[lo + i - 1]
    BY <2>1, SubSeqProperties
  <2>3. Len(u) = n
    BY <2>1, <2>2
  <2>4. u = [i \in 1..n |-> u[i]]
    BY <2>2, <2>3, LenProperties
  <2>5. \A i \in 1..n : u[i] = b[at + i] /\ at + i <= Len(b)
    <3> SUFFICES ASSUME NEW i \in 1..n PROVE u[i] = b[at + i] /\ at + i <= Len(b)
      OBVIOUS
    <3>1. lo + i - 1 = at + i
      BY DEF lo
    <3>2. u[i] = b[lo + i - 1]
      BY <2>1, <2>2
    <3> QED
      BY <1>1, <1>3, <3>1, <3>2
  <2> HIDE DEF u
  <2>6. u = At(b, at, n)
    BY <2>4, <2>5 DEF At
  <2> QED
    BY <2>6 DEF u, lo, hi
<1> QED
  BY <1>2, <1>3

\* A cell of a field that is not beyond the end is a cell of the blob.
LEMMA AtCell ==
  ASSUME NEW S, NEW b \in Seq(S), NEW at \in Nat, NEW n \in Nat, NEW i \in 1..n, NEW j, j = at + i,
         At(b, at, n)[i] # Outside
  PROVE  j \in DOMAIN b /\ b[j] = At(b, at, n)[i]
  BY AtWithin

\* What is known of a cell by its tag.
LEMMA CellIs ==
  ASSUME NEW f, f.image.header_checksum[1] = "sha512", SignedTogether(f), NEW c \in Cells(f)
  PROVE  /\ c # Outside
         /\ c[1] = "num" => c[2] \in Nat
         /\ c[1] = "key" => c[2] \in SignKeys
         /\ c[1] = "sig" => (c[2] = RootKey /\ c[4] \in f.headers) \/ <<c[2], c[4]>> \in f.preambles \cup f.data
         /\ c[1] = "preamble" => c = <<"preamble", 0>>
<1>1. CASE c \in {"num"} \X Nat
  BY <1>1 DEF Outside
<1>2. CASE c \in {Magic, Heap, <<"bad", 0>>, <<"data", 0>>, <<"data", 1>>, <<"preamble", 0>>}
  BY <1>2 DEF Outside, Magic, Heap
<1>3. CASE c = f.image.header_checksum
  BY <1>3 DEF Outside
<1>4. CASE c \in {"key"} \X SignKeys \X Nat
  BY <1>4 DEF Outside
<1>5. CASE c \in {"sig"} \X {RootKey} \X Nat \X f.headers \X Nat
  BY <1>5 DEF Outside
<1>6. ASSUME NEW x \in f.preambles \cup f.data, c \in {"sig"} \X {x[1]} \X Nat \X {x[2]} \X Nat
      PROVE  /\ c # Outside /\ c[1] = "sig" /\ <<c[2], c[4]>> \in f.preambles \cup f.data
  <2>1. c[1] = "sig" /\ c[2] = x[1] /\ c[4] = x[2]
    BY <1>6
  <2>2. x = <<x[1], x[2]>>
    BY DEF SignedTogether
  <2> QED
    BY <2>1, <2>2 DEF Outside
<1> QED
  BY <1>1, <1>2, <1>3, <1>4, <1>5, <1>6 DEF Cells

\* A key that was read, and a signature that was checked.
LEMMA KeyRead ==
  ASSUME NEW cells, NEW k, k = RSAPublicKeyFromBuf(cells), k # "null", k # "other"
  PROVE  k \in SignKeys \cup {RootKey} /\ cells = KeyCells(k)
<1> DEFINE starts == {s \in DOMAIN KeyAlgorithm : cells[1] = KeyCells(s)[1]}
           first == CHOOSE s \in starts : TRUE
<1>1. starts # {} /\ cells = KeyCells(first) /\ k = first
  BY DEF RSAPublicKeyFromBuf
<1>2. first \in DOMAIN KeyAlgorithm
  BY <1>1
<1> HIDE DEF first
<1> QED
  BY <1>1, <1>2, FirmwareAssumption

\* A key that was written is read back.
LEMMA KeyParsed ==
  ASSUME NEW k \in SignKeys \cup {RootKey}
  PROVE  RSAPublicKeyFromBuf(KeyCells(k)) = k
<1>1. \A s \in SignKeys \cup {RootKey} : KeyAlgorithm[s] \in 0..1
  BY FirmwareAssumption DEF NumAlgorithms
<1>2. \A s \in SignKeys \cup {RootKey} : KeyCells(s)[1] = <<"key", s, 1>>
  BY <1>1 DEF KeyCells, RSAProcessedKeySize, siglen_map
<1>3. {s \in DOMAIN KeyAlgorithm : KeyCells(k)[1] = KeyCells(s)[1]} = {k}
  BY <1>2, FirmwareAssumption
<1> DEFINE first == CHOOSE s \in {k} : TRUE
<1>4. first = k
  OBVIOUS
<1> HIDE DEF first
<1>5. RSAPublicKeyFromBuf(KeyCells(k)) =
        IF {k} = {} THEN "null" ELSE IF Len(KeyCells(k)) # Len(KeyCells(first)) THEN "null"
        ELSE IF KeyCells(k) = KeyCells(first) THEN first ELSE "other"
  BY <1>3 DEF RSAPublicKeyFromBuf, first
<1> QED
  BY <1>4, <1>5

\* A signature that is accepted is the one of these cells, by this key and algorithm.
LEMMA SignatureChecked ==
  ASSUME NEW k \in SignKeys \cup {RootKey}, NEW cells, NEW signature, NEW a \in Nat,
         RSAVerifyBinary(k, cells, signature, a)
  PROVE  KeyAlgorithm[k] = a /\ signature = Signature(k, a, cells) /\ a \in 0..1
<1>1. KeyAlgorithm[k] \in 0..1
  BY FirmwareAssumption DEF NumAlgorithms
<1>2. siglen_map(KeyAlgorithm[k]) = siglen_map(a) /\ signature = Signature(k, a, cells) /\ a < 2
  BY DEF RSAVerifyBinary, RSA_verify, NumAlgorithms
<1> QED
  BY <1>1, <1>2 DEF siglen_map

\* A signature that lies in the blob is of something that was signed.
LEMMA SignatureFound ==
  ASSUME FirmwareIs(fw), NEW k \in SignKeys \cup {RootKey}, NEW cells, NEW at \in Nat, NEW a \in 0..1, KeyAlgorithm[k] = a,
         At(fw.blob, at, siglen_map(a)) = Signature(k, a, cells)
  PROVE  /\ (k = RootKey /\ cells \in fw.headers) \/ <<k, cells>> \in fw.preambles \cup fw.data
         /\ at + siglen_map(a) \in DOMAIN fw.blob
<1> DEFINE b == fw.blob
           n == siglen_map(a)
           sig == At(b, at, n)
<1>1. n \in Nat /\ n >= 1 /\ 1 \in 1..n /\ n \in 1..n
  BY DEF siglen_map
<1>2. b \in Seq(Cells(fw)) /\ fw.image.header_checksum[1] = "sha512" /\ SignedTogether(fw)
  BY DEF FirmwareIs, BlobTypes, ImageTypes
<1>3. sig[1] = <<"sig", k, a, cells, 1>> /\ sig[n] = <<"sig", k, a, cells, n>>
  BY <1>1 DEF Signature
<1>4. sig[1] # Outside /\ sig[n] # Outside
  BY <1>3 DEF Outside
<1> HIDE DEF n, sig
<1>5. /\ \A i \in 1..n : /\ sig[i] # Outside => at + i \in DOMAIN b
                         /\ at + i \in DOMAIN b => sig[i] = b[at + i] /\ b[at + i] \in Cells(fw)
  BY <1>1, <1>2, AtWithin DEF sig
<1>6. at + n \in DOMAIN b /\ sig[1] \in Cells(fw)
  BY <1>1, <1>4, <1>5
<1>7. (k = RootKey /\ cells \in fw.headers) \/ <<k, cells>> \in fw.preambles \cup fw.data
  <2> DEFINE c == sig[1]
  <2>1. c[1] = "sig" /\ c[2] = k /\ c[4] = cells
    BY <1>3
  <2>2. c[1] = "sig" => (c[2] = RootKey /\ c[4] \in fw.headers) \/ <<c[2], c[4]>> \in fw.preambles \cup fw.data
    BY <1>2, <1>6, CellIs
  <2> HIDE DEF c
  <2> QED
    BY <2>1, <2>2
<1> QED
  BY <1>6, <1>7 DEF n

\* What VerifyFirmware() accepts was signed: its key block by the root key (unless in developer
\* mode), its preamble and its data by the key in it.
LEMMA AcceptedWasSigned ==
  ASSUME FirmwareIs(fw), NEW dev \in BOOLEAN, VerifyFirmware(fw.blob, dev) = "success"
  PROVE  \E k \in SignKeys, p \in fw.preambles, d \in fw.data :
           LET hlen == NumberIn(fw.blob[2])
               siglen == siglen_map(KeyAlgorithm[k])
               after == 1 + hlen + siglen_map(RootAlgorithm)
               data == after + 3 + 2 * siglen
           IN  /\ SubSeq(fw.blob, 4, 3 + Len(KeyCells(k))) = KeyCells(k)
               /\ dev \/ SubSeq(fw.blob, 2, 1 + hlen) \in fw.headers
               /\ p = <<k, SubSeq(fw.blob, after + 1, after + 3)>>
               /\ data + NumberIn(p[2][2]) <= Len(fw.blob)
               /\ d = <<k, SubSeq(fw.blob, data + 1, data + NumberIn(p[2][2]))>>
<1> DEFINE b == fw.blob
           hlen == NumberIn(At(b, 1, 1)[1])
           a == NumberIn(At(b, 2, 1)[1])
           header == At(b, 1, hlen)
           k == RSAPublicKeyFromBuf(At(b, 3, RSAProcessedKeySize(a)))
           at == 1 + hlen + siglen_map(RootAlgorithm)
           n == siglen_map(a)
           length == NumberIn(At(b, at + 1, 1)[1])
           pre == At(b, at, 3)
           body == At(b, at + 3 + n + n, length)
<1>1. /\ ~(a >= 2) /\ hlen = 3 + RSAProcessedKeySize(a) + 1
      /\ dev \/ RSAVerifyBinary(RootKey, header, At(b, 1 + hlen, siglen_map(RootAlgorithm)), RootAlgorithm)
      /\ RSAVerifyBinary(k, pre, At(b, at + 3, n), a)
      /\ RSAVerifyBinary(k, body, At(b, at + 3 + n, n), a)
  <2>1. /\ VerifyFirmwareHeader(b, dev) = "success" /\ VerifyFirmwarePreamble(k, b, at, a) = "success"
        /\ VerifyFirmwareData(k, b, at + 3 + n, length, a) = "success"
    BY DEF VerifyFirmware
  <2>2. /\ ~(a >= 2) /\ hlen = 3 + RSAProcessedKeySize(a) + 1
        /\ dev \/ RSAVerifyBinary(RootKey, header, At(b, 1 + hlen, siglen_map(RootAlgorithm)), RootAlgorithm)
    BY <2>1 DEF VerifyFirmwareHeader, NumAlgorithms
  <2>3. RSAVerifyBinary(k, pre, At(b, at + 3, n), a)
    BY <2>1 DEF VerifyFirmwarePreamble
  <2>4. RSAVerifyBinary(k, body, At(b, at + 3 + n, n), a)
    BY <2>1 DEF VerifyFirmwareData
  <2> QED
    BY <2>2, <2>3, <2>4
<1>2. b \in Seq(Cells(fw)) /\ fw.image.header_checksum[1] = "sha512" /\ SignedTogether(fw)
  BY DEF FirmwareIs, BlobTypes, ImageTypes
<1>3. Len(b) \in Nat /\ DOMAIN b = 1..Len(b)
  BY <1>2, LenProperties
\* A number in memory is one, or 99.
<1>4. ASSUME NEW q \in Nat PROVE NumberIn(At(b, q, 1)[1]) \in Nat
  <2> DEFINE c == At(b, q, 1)[1]
  <2>1. /\ c # Outside => q + 1 \in DOMAIN b
        /\ q + 1 \in DOMAIN b => c = b[q + 1] /\ b[q + 1] \in Cells(fw)
    BY <1>2, AtWithin
  <2> HIDE DEF c
  <2>2. CASE c = Outside
    BY <2>2 DEF NumberIn, Outside, c
  <2>3. CASE c \in Cells(fw)
    <3>1. c[1] = "num" => c[2] \in Nat
      BY <1>2, <2>3, CellIs
    <3> QED
      BY <3>1 DEF NumberIn, c
  <2> QED
    BY <2>1, <2>2, <2>3
<1>5. a \in 0..1 /\ hlen \in Nat
  BY <1>1, <1>4
<1>6. /\ RSAProcessedKeySize(a) = 2 * n + 2 /\ n = a + 1 /\ n \in 1..2 /\ hlen = 2 * n + 6 /\ at = hlen + 3
      /\ siglen_map(RootAlgorithm) = 2 /\ RootAlgorithm = 1
  BY <1>1, <1>5 DEF RSAProcessedKeySize, siglen_map, RootAlgorithm, NumAlgorithms
<1>7. at \in Nat /\ length \in Nat
  <2>1. at \in Nat /\ at + 1 \in Nat
    BY <1>6
  <2> QED
    BY <1>4, <2>1
\* The key.
<1>8. k \in SignKeys /\ At(b, 3, RSAProcessedKeySize(a)) = KeyCells(k) /\ KeyAlgorithm[k] = a
  <2>1. k # "null" /\ k # "other"
    BY <1>1 DEF RSAVerifyBinary, RSA_verify
  <2> DEFINE cells == At(b, 3, RSAProcessedKeySize(a))
             m == RSAProcessedKeySize(a)
  <2>2. k \in SignKeys \cup {RootKey} /\ cells = KeyCells(k)
    BY <2>1, KeyRead
  <2>3. KeyAlgorithm[k] = a
    BY <1>1, <1>5, <2>2, SignatureChecked
  <2>4. m \in Nat /\ 1 \in 1..m
    BY <1>6
  <2> HIDE DEF k, m
  <2>5. cells[1] = <<"key", k, 1>>
    BY <2>2, <2>3, <2>4 DEF KeyCells, m
  <2>6. cells[1] # Outside
    BY <2>5 DEF Outside
  <2>7. 3 + 1 \in DOMAIN b /\ cells[1] = b[3 + 1] /\ b[3 + 1] \in Cells(fw)
    BY <1>2, <2>4, <2>6, AtWithin DEF m
  <2>8. b[3 + 1][1] = "key" => b[3 + 1][2] \in SignKeys
    BY <1>2, <2>7, CellIs
  <2> HIDE DEF cells
  <2>9. k \in SignKeys
    BY <2>5, <2>7, <2>8
  <2> QED
    BY <2>2, <2>3, <2>9 DEF cells
<1> HIDE DEF k
\* What the signatures are of.
<1>9. /\ <<k, pre>> \in fw.preambles \cup fw.data
      /\ <<k, body>> \in fw.preambles \cup fw.data
      /\ at + 3 + n + n \in DOMAIN b
  <2>1. k \in SignKeys \cup {RootKey} /\ k # RootKey
    BY <1>8, FirmwareAssumption
  <2>2. At(b, at + 3, n) = Signature(k, a, pre) /\ At(b, at + 3 + n, n) = Signature(k, a, body)
    BY <1>1, <1>5, <2>1, SignatureChecked
  <2>3. at + 3 \in Nat /\ at + 3 + n \in Nat
    BY <1>6, <1>7
  <2> HIDE DEF at, pre, body, a
  <2>4. <<k, pre>> \in fw.preambles \cup fw.data
    BY <1>5, <1>8, <2>1, <2>2, <2>3, SignatureFound
  <2>5. <<k, body>> \in fw.preambles \cup fw.data /\ at + 3 + n + n \in DOMAIN b
    BY <1>5, <1>8, <2>1, <2>2, <2>3, SignatureFound
  <2> QED
    BY <2>4, <2>5
<1>10. PICK s \in Seq(DataCells), v \in Nat, signer \in SignKeys :
         /\ fw.preambles = {<<signer, <<Num(v), Num(Len(s)), <<"preamble", 0>> >> >>}
         /\ fw.data = {<<signer, s>>}
  BY <1>2, <1>9 DEF SignedTogether
<1> DEFINE first == <<Num(v), Num(Len(s)), <<"preamble", 0>> >>
<1>11. /\ Len(s) \in Nat /\ DOMAIN s = 1..Len(s) /\ \A i \in 1..Len(s) : s[i] \in DataCells
  BY LenProperties, ElementOfSeq
<1>12. (pre = first \/ pre = s) /\ (body = first \/ body = s) /\ k = signer
  BY <1>9, <1>10
<1>13. DOMAIN pre = 1..3 /\ DOMAIN body = 1..length /\ Len(pre) = 3 /\ Len(body) = length
  BY <1>7, AtIs, ZenonT(40)
<1>14. length = NumberIn(pre[2])
  <2>1. pre[2] = IF at + 2 <= Len(b) THEN b[at + 2] ELSE Outside
    BY DEF At
  <2>2. At(b, at + 1, 1)[1] = IF at + 1 + 1 <= Len(b) THEN b[at + 1 + 1] ELSE Outside
    BY DEF At
  <2>3. at + 1 + 1 = at + 2
    BY <1>7
  <2> HIDE DEF at
  <2> QED
    BY <2>1, <2>2, <2>3
<1> HIDE DEF b, at, length, pre, body, a, hlen, header, n
<1>15. /\ DOMAIN first = 1..3 /\ Len(first) = 3 /\ first[3] = <<"preamble", 0>> /\ NumberIn(first[2]) = Len(s)
  BY DEF NumberIn, Num
<1>16. pre = first
  <2> SUFFICES ASSUME pre = s PROVE FALSE
    BY <1>12
  <2>1. Len(s) = 3 /\ s[2] \in DataCells
    BY <1>11, <1>13
  <2>2. length = 99
    BY <1>14, <2>1 DEF NumberIn, DataCells, Heap
  <2>3. Len(body) = 3
    BY <1>12, <1>15, <2>1
  <2> HIDE DEF first
  <2>4. length = 3
    BY <1>13, <2>3
  <2> QED
    BY <2>2, <2>4
<1>17. length = Len(s)
  BY <1>14, <1>15, <1>16
<1> HIDE DEF first
<1>18. at + 3 \in DOMAIN b /\ b[at + 3] = <<"preamble", 0>>
  <2>1. pre[3] # Outside
    BY <1>15, <1>16 DEF Outside
  <2> DEFINE j == at + 3
  <2>2. j = at + 3 /\ 3 \in Nat /\ 3 \in 1..3
    OBVIOUS
  <2> HIDE DEF j
  <2>3. j \in DOMAIN b /\ b[j] = pre[3]
    BY <1>2, <1>7, <2>1, <2>2, AtCell DEF pre
  <2> QED
    BY <1>15, <1>16, <2>3 DEF j
<1>19. body = s
  <2> SUFFICES ASSUME body = first PROVE FALSE
    BY <1>12
  <2>1. length = 3 /\ body[3] = <<"preamble", 0>>
    BY <1>13, <1>15
  <2> DEFINE q == at + 3 + n + n
  <2>2. q \in Nat
    BY <1>6, <1>7
  <2>3. body = At(b, q, 3)
    BY <2>1 DEF body
  <2>4. body[3] # Outside
    BY <2>1 DEF Outside
  <2> DEFINE j == q + 3
             i == at + 3
  <2>5. j = q + 3 /\ 3 \in Nat /\ 3 \in 1..3
    OBVIOUS
  <2>6. j # i
    <3>1. n \in Nat /\ at \in Nat
      BY <1>6, <1>7
    <3> QED
      BY <3>1
  <2> HIDE DEF q, j
  <2>7. j \in DOMAIN b /\ b[j] = <<"preamble", 0>>
    <3>1. At(b, q, 3)[3] # Outside /\ At(b, q, 3)[3] = <<"preamble", 0>>
      BY <2>1, <2>3, <2>4
    <3>2. j \in DOMAIN b /\ b[j] = At(b, q, 3)[3]
      <4> DEFINE three == 3
      <4>1. three \in Nat /\ three \in 1..three /\ j = q + three /\ At(b, q, three)[three] # Outside
        BY <2>5, <3>1
      <4> HIDE DEF three
      <4>2. j \in DOMAIN b /\ b[j] = At(b, q, three)[three]
        BY <1>2, <2>2, <4>1, AtCell
      <4> QED
        BY <4>2 DEF three
    <3> QED
      BY <3>1, <3>2
  <2>8. i \in DOMAIN b /\ b[i] = <<"preamble", 0>>
    BY <1>18
  <2>9. \A x, y \in DOMAIN b : b[x] = <<"preamble", 0>> /\ b[y] = <<"preamble", 0>> => x = y
    BY DEF FirmwareIs, BlobTypes, Once, b
  <2> HIDE DEF i
  <2> QED
    BY <2>6, <2>7, <2>8, <2>9
\* Everything lies within the blob.
<1>20. at + 3 + n + n + length <= Len(b)
  <2>1. CASE length = 0
    BY <1>3, <1>6, <1>7, <1>9, <2>1
  <2>2. CASE length # 0
    <3> DEFINE q == at + 3 + n + n
    <3>1. length \in 1..length /\ body[length] \in DataCells /\ q \in Nat
      BY <1>6, <1>7, <1>11, <1>17, <1>19, <2>2
    <3>2. body[length] # Outside
      BY <3>1 DEF DataCells, Outside, Heap
    <3>3. q + length \in DOMAIN b
      <4>1. body = At(b, q, length)
        BY DEF body
      <4> HIDE DEF q
      <4> QED
        BY <1>2, <1>7, <3>1, <3>2, <4>1, AtWithin
    <3> QED
      BY <1>3, <3>3
  <2> QED
    BY <2>1, <2>2
<1>21. hlen = NumberIn(b[2])
  <2>1. 1 + 1 \in DOMAIN b
    BY <1>3, <1>6, <1>18
  <2>2. At(b, 1, 1)[1] = b[1 + 1]
    BY <1>2, <2>1, AtWithin
  <2> QED
    BY <2>2 DEF hlen
<1>22. SubSeq(b, 4, 3 + Len(KeyCells(k))) = KeyCells(k)
  <2> DEFINE m == RSAProcessedKeySize(a)
  <2>1. m \in Nat /\ 3 + m <= Len(b)
    BY <1>3, <1>6, <1>18, SMTT(40)
  <2>2. Len(KeyCells(k)) = m
    BY <1>8, <2>1, AtIs
  <2> HIDE DEF m
  <2>3. SubSeq(b, 3 + 1, 3 + m) = At(b, 3, m)
    <3>1. 3 \in Nat
      OBVIOUS
    <3> QED
      BY <1>2, <2>1, <3>1, AtWithin
  <2>4. SubSeq(b, 4, 3 + m) = KeyCells(k)
    BY <1>8, <2>3 DEF m
  <2> QED
    BY <2>2, <2>4
<1>23. dev \/ SubSeq(b, 2, 1 + hlen) \in fw.headers
  <2> SUFFICES ASSUME ~dev PROVE SubSeq(b, 2, 1 + hlen) \in fw.headers
    OBVIOUS
  <2>1. RSAVerifyBinary(RootKey, header, At(b, 1 + hlen, siglen_map(RootAlgorithm)), RootAlgorithm)
    BY <1>1 DEF hlen, header
  <2>2. /\ KeyAlgorithm[RootKey] = RootAlgorithm /\ RootAlgorithm \in Nat /\ RootAlgorithm \in 0..1
        /\ RootKey \in SignKeys \cup {RootKey}
    BY <1>6, FirmwareAssumption
  <2>3. At(b, 1 + hlen, siglen_map(RootAlgorithm)) = Signature(RootKey, RootAlgorithm, header)
    BY <2>1, <2>2, SignatureChecked
  <2>4. 1 + hlen \in Nat
    BY <1>5
  <2>5. header \in fw.headers \/ <<RootKey, header>> \in fw.preambles \cup fw.data
    BY <2>2, <2>3, <2>4, SignatureFound DEF b
  <2>6. header \in fw.headers
    BY <1>10, <2>5, FirmwareAssumption
  <2>7. 1 + hlen <= Len(b)
    BY <1>3, <1>5, <1>6, <1>18
  <2>8. SubSeq(b, 2, 1 + hlen) = At(b, 1, hlen)
    <3> DEFINE one == 1
    <3>1. one \in Nat /\ one + hlen <= Len(b)
      BY <2>7
    <3> HIDE DEF one
    <3>2. SubSeq(b, one + 1, one + hlen) = At(b, one, hlen)
      BY <1>2, <1>5, <3>1, AtWithin
    <3> QED
      BY <3>2 DEF one
  <2> QED
    BY <2>6, <2>8 DEF header
<1>24. pre = SubSeq(b, at + 1, at + 3)
  <2> DEFINE three == 3
  <2>1. three \in Nat /\ at + three <= Len(b)
    BY <1>3, <1>18
  <2> HIDE DEF three
  <2>2. SubSeq(b, at + 1, at + three) = At(b, at, three)
    BY <1>2, <1>7, <2>1, AtWithin
  <2> QED
    BY <2>2 DEF three, pre
<1> DEFINE data == at + 3 + 2 * n
<1>25. data = at + 3 + n + n /\ data \in Nat
  BY <1>6, <1>7
<1>26. body = SubSeq(b, data + 1, data + length) /\ data + length <= Len(b)
  <2>1. data + length <= Len(b) /\ body = At(b, data, length)
    BY <1>20, <1>25 DEF body
  <2>2. b \in Seq(Cells(fw)) /\ data \in Nat /\ length \in Nat
    BY <1>2, <1>7, <1>25
  <2> HIDE DEF data
  <2>3. data + length <= Len(b) => SubSeq(b, data + 1, data + length) = At(b, data, length)
    BY <2>2, AtWithin
  <2> QED
    BY <2>1, <2>3
<1> DEFINE p == <<k, pre>>
           d == <<k, body>>
<1>27. p \in fw.preambles /\ d \in fw.data
  BY <1>10, <1>12, <1>16, <1>19 DEF first
<1>28. NumberIn(p[2][2]) = length
  BY <1>14 DEF length
<1>29. /\ n = siglen_map(KeyAlgorithm[k]) /\ at = 1 + NumberIn(b[2]) + siglen_map(RootAlgorithm)
  BY <1>8, <1>21 DEF n, at
<1> HIDE DEF data
<1>30. /\ SubSeq(b, 4, 3 + Len(KeyCells(k))) = KeyCells(k)
       /\ dev \/ SubSeq(b, 2, 1 + NumberIn(b[2])) \in fw.headers
       /\ p = <<k, SubSeq(b, at + 1, at + 3)>>
       /\ data + NumberIn(p[2][2]) <= Len(b)
       /\ d = <<k, SubSeq(b, data + 1, data + NumberIn(p[2][2]))>>
  BY <1>21, <1>22, <1>23, <1>24, <1>26, <1>28
<1> QED
  <2> USE <1>8, <1>27
  <2> WITNESS k \in SignKeys, p \in fw.preambles, d \in fw.data
  <2> QED
    BY <1>29, <1>30 DEF b, data

-----------------------------------------------------------------------------
\* What signing adds leaves the cells what they were.
LEMMA CellsGrow ==
  ASSUME NEW f, NEW g, g.image.header_checksum = f.image.header_checksum,
         f.headers \subseteq g.headers, f.preambles \subseteq g.preambles, f.data \subseteq g.data
  PROVE  /\ Cells(f) \subseteq Cells(g)
         /\ Seq(SignatureCells(f)) \subseteq Seq(SignatureCells(g))
<1>1. ASSUME NEW c \in Cells(f) PROVE c \in Cells(g)
  <2>1. CASE c \in {"sig"} \X {RootKey} \X Nat \X f.headers \X Nat
    BY <2>1 DEF Cells
  <2>2. ASSUME NEW x \in f.preambles \cup f.data, c \in {"sig"} \X {x[1]} \X Nat \X {x[2]} \X Nat
        PROVE  c \in Cells(g)
    <3>1. x \in g.preambles \cup g.data
      OBVIOUS
    <3> QED
      BY <2>2, <3>1 DEF Cells
  <2>3. CASE \/ c \in ({"num"} \X Nat) \cup {Magic, Heap, <<"bad", 0>>, <<"data", 0>>, <<"data", 1>>, <<"preamble", 0>>}
             \/ c \in {f.image.header_checksum} \cup ({"key"} \X SignKeys \X Nat)
    BY <2>3 DEF Cells
  <2> QED
    BY <2>1, <2>2, <2>3 DEF Cells
<1>2. SignatureCells(f) \subseteq SignatureCells(g)
  BY <1>1 DEF SignatureCells
<1>3. Seq(SignatureCells(f)) \subseteq Seq(SignatureCells(g))
  BY <1>2, SeqDef
<1> QED
  BY <1>1, <1>3

\* A signature is as long as the algorithm says, and the file holds all of it.
LEMMA SignatureIs ==
  ASSUME NEW k \in SignKeys \cup {RootKey}, NEW cells
  PROVE  LET a == KeyAlgorithm[k]
             n == siglen_map(a)
             s == Signature(k, a, cells)
         IN  /\ n \in 1..2 /\ DOMAIN s = 1..n /\ Len(s) = n /\ s # <<>>
             /\ SignatureFile(k, a, cells) = s
             /\ \A i \in 1..n : s[i] = <<"sig", k, a, cells, i>>
<1> DEFINE a == KeyAlgorithm[k]
           n == siglen_map(a)
           s == Signature(k, a, cells)
<1>1. a \in 0..1
  BY FirmwareAssumption DEF NumAlgorithms
<1>2. n \in 1..2 /\ n \in Nat /\ n >= 1
  BY <1>1 DEF siglen_map
<1> HIDE DEF a, n
<1>3. s = [i \in 1..n |-> <<"sig", k, a, cells, i>>]
  BY DEF Signature, n, a
<1>4. DOMAIN s = 1..n /\ \A i \in 1..n : s[i] = <<"sig", k, a, cells, i>>
  BY <1>3
<1> DEFINE S == {s[i] : i \in 1..n}
<1>5. s \in Seq(S)
  <2>1. s \in [1..n -> S]
    BY <1>3, <1>4
  <2> HIDE DEF s, S
  <2> QED
    BY <1>2, <2>1, SeqDef
<1> HIDE DEF s, S
<1>6. Len(s) = n
  BY <1>2, <1>4, <1>5, LenProperties
<1>7. s # <<>>
  BY <1>2, <1>6
<1>8. SubSeq(s, 1, n) = s
  <2>1. 1 \in Nat /\ n \in Nat /\ \A i \in 1..n : s[i] \in S
    BY <1>2, <1>4 DEF S
  <2> DEFINE u == SubSeq(s, 1, n)
  <2>2. u \in Seq(S) /\ Len(u) = n /\ \A i \in 1..n : u[i] = s[i]
    BY <1>2, <1>5, <2>1, SubSeqProperties
  <2> HIDE DEF u
  <2>3. u = s
    BY <1>5, <1>6, <2>2, SeqEqual
  <2> QED
    BY <2>3 DEF u
<1>9. SignatureFile(k, a, cells) = SubSeq(s, 1, n)
  BY <1>2 DEF SignatureFile, a, n, s
<1> QED
  BY <1>2, <1>4, <1>6, <1>7, <1>8, <1>9 DEF a, n, s

\* Firmware that was just generated.
LEMMA Generated ==
  ASSUME NEW k \in SignKeys, NEW v \in Versions, NEW n \in DataLengths, NEW f,
         f = [image |-> GenerateFirmwareImage(k, v, n), blob |-> <<>>, edits |-> 0, asWritten |-> FALSE,
              headers |-> {}, preambles |-> {}, data |-> {}]
  PROVE  FirmwareIs(f)
<1> DEFINE m == f.image
           a == KeyAlgorithm[k]
           hlen == HeaderRest + RSAProcessedKeySize(a)
<1>1. /\ DOMAIN f = {"image", "blob", "edits", "asWritten", "headers", "preambles", "data"}
      /\ f.edits = 0 /\ f.asWritten = FALSE /\ f.blob = <<>>
      /\ f.headers = {} /\ f.preambles = {} /\ f.data = {} /\ m = GenerateFirmwareImage(k, v, n)
  OBVIOUS
<1>2. a \in 0..1 /\ v \in Nat /\ n \in Nat
  BY FirmwareAssumption DEF NumAlgorithms
<1>3. hlen \in Nat /\ hlen >= HeaderRest
  BY <1>2 DEF HeaderRest, RSAProcessedKeySize, siglen_map
<1>4. /\ DOMAIN m = ImageFields /\ m.magic = Magic /\ m.preamble = <<"preamble", 0>> /\ m.header_len = hlen
      /\ m.sign_algorithm = a /\ m.sign_key = KeyCells(k) /\ m.key_version = v /\ m.firmware_version = v
      /\ m.firmware_len = n
      /\ m.header_checksum = <<"sha512", <<Num(hlen), Num(a)>> \o KeyCells(k) \o <<Num(v)>> >>
      /\ m.key_signature = Field(<<>>, siglen_map(RootAlgorithm))
      /\ m.preamble_signature = <<>> /\ m.firmware_signature = <<>>
      /\ m.firmware_data = [i \in 1..n |-> <<"data", 0>>]
  BY <1>1 DEF GenerateFirmwareImage, ImageFields
<1> HIDE DEF m, a, hlen
<1>5. m.header_checksum[1] = "sha512"
  BY <1>4
<1>6. m.key_signature \in Seq(SignatureCells(f)) /\ Len(m.key_signature) = 2
  <2>1. Heap \in SignatureCells(f)
    BY DEF SignatureCells, Cells, Heap
  <2> DEFINE len == siglen_map(RootAlgorithm)
             none == <<>>
  <2>2. none \in Seq(SignatureCells(f)) /\ len = 2 /\ len \in Nat
    BY DEF siglen_map, RootAlgorithm, NumAlgorithms
  <2>3. m.key_signature = Field(none, len)
    BY <1>4
  <2> HIDE DEF len, none
  <2>4. Field(none, len) \in Seq(SignatureCells(f)) /\ Len(Field(none, len)) = len
    BY <2>1, <2>2, FieldIs
  <2> QED
    BY <2>2, <2>3, <2>4
<1>7. m.firmware_data \in Seq(DataCells)
  <2>1. m.firmware_data \in [1..n -> DataCells]
    BY <1>4 DEF DataCells
  <2> QED
    BY <1>2, <2>1, SeqDef
<1>8. ImageTypes(f)
  <2>1. \E s \in SignKeys : m.sign_key = KeyCells(s)
    BY <1>4
  <2>2. m.preamble_signature \in Seq(SignatureCells(f)) /\ m.firmware_signature \in Seq(SignatureCells(f))
    BY <1>4
  <2>3. /\ m.header_len \in Nat /\ m.header_len >= HeaderRest /\ m.sign_algorithm \in 0..1
        /\ m.key_version \in Nat /\ m.firmware_version \in Nat /\ m.firmware_len \in Nat
        /\ DOMAIN m = ImageFields /\ m.magic = Magic /\ m.preamble = <<"preamble", 0>>
    BY <1>2, <1>3, <1>4
  <2> QED
    BY <1>5, <1>6, <1>7, <2>1, <2>2, <2>3 DEF ImageTypes, m
<1>9. SignedTogether(f)
  BY <1>1 DEF SignedTogether
<1>10. BlobTypes(f)
  BY <1>1 DEF BlobTypes, Once
<1>11. Pristine(f)
  BY <1>1, <1>4 DEF Pristine, m, a, hlen
<1> QED
  BY <1>1, <1>8, <1>9, <1>10, <1>11 DEF FirmwareIs

\* The cell of a signature is a tuple of five.
LEMMA SignatureCell ==
  ASSUME NEW k, NEW a \in Nat, NEW C, NEW c \in C, NEW i \in Nat
  PROVE  <<"sig", k, a, c, i>> \in {"sig"} \X {k} \X Nat \X C \X Nat
OBVIOUS

\* The header is signed.
LEMMA HeaderSigned ==
  ASSUME NEW f, FirmwareIs(f), f.blob = <<>>, f.headers = {}, NEW g,
         DOMAIN g = DOMAIN f, g.edits = f.edits, g.asWritten = f.asWritten, g.blob = f.blob,
         g.preambles = f.preambles, g.data = f.data,
         g.headers = {WriteFirmwareHeader(f.image)}, g.image = AddKeySignature(f.image)
  PROVE  FirmwareIs(g)
<1> DEFINE m == f.image
           w == g.image
           h == WriteFirmwareHeader(m)
           sig == Signature(RootKey, RootAlgorithm, h)
<1>1. /\ DOMAIN f = {"image", "blob", "edits", "asWritten", "headers", "preambles", "data"}
      /\ f.edits \in Nat /\ f.asWritten \in BOOLEAN
      /\ ImageTypes(f) /\ SignedTogether(f) /\ BlobTypes(f) /\ ~f.asWritten
      /\ f.edits = 0 => Pristine(f)
  BY DEF FirmwareIs
<1>2. /\ DOMAIN g = DOMAIN f /\ g.edits = f.edits /\ g.asWritten = f.asWritten /\ g.blob = <<>>
      /\ g.headers = {h} /\ g.preambles = f.preambles /\ g.data = f.data /\ w = AddKeySignature(m)
  BY <1>1
<1>3. DOMAIN m = ImageFields
  BY <1>1 DEF ImageTypes
<1>4. /\ KeyAlgorithm[RootKey] = RootAlgorithm /\ RootKey \in SignKeys \cup {RootKey} /\ siglen_map(RootAlgorithm) = 2
      /\ RootAlgorithm = 1
  BY FirmwareAssumption DEF siglen_map, RootAlgorithm, NumAlgorithms
<1>5. /\ DOMAIN sig = 1..2 /\ Len(sig) = 2 /\ SignatureFile(RootKey, RootAlgorithm, h) = sig
      /\ \A i \in 1..2 : sig[i] = <<"sig", RootKey, RootAlgorithm, h, i>>
  <2> DEFINE al == KeyAlgorithm[RootKey]
             len == siglen_map(al)
             sign == Signature(RootKey, al, h)
  <2> HIDE DEF h
  <2>1. /\ DOMAIN sign = 1..len /\ Len(sign) = len /\ SignatureFile(RootKey, al, h) = sign
        /\ \A i \in 1..len : sign[i] = <<"sig", RootKey, al, h, i>>
    BY <1>4, SignatureIs
  <2>2. al = RootAlgorithm /\ len = 2 /\ sign = sig
    BY <1>4
  <2> HIDE DEF al, len, sign, sig
  <2> QED
    BY <2>1, <2>2
<1> HIDE DEF h, sig, m, w
<1>6. /\ w = [m EXCEPT !.key_signature = sig]
  BY <1>2, <1>5 DEF AddKeySignature, h
<1>7. /\ DOMAIN w = ImageFields /\ w.key_signature = sig
      /\ \A x \in ImageFields \ {"key_signature"} : w[x] = m[x]
  BY <1>3, <1>6 DEF ImageFields
<1>8. /\ w.magic = m.magic /\ w.header_len = m.header_len /\ w.sign_algorithm = m.sign_algorithm
      /\ w.sign_key = m.sign_key /\ w.key_version = m.key_version /\ w.header_checksum = m.header_checksum
      /\ w.firmware_version = m.firmware_version /\ w.firmware_len = m.firmware_len /\ w.preamble = m.preamble
      /\ w.preamble_signature = m.preamble_signature /\ w.firmware_signature = m.firmware_signature
      /\ w.firmware_data = m.firmware_data
  BY <1>7 DEF ImageFields
<1>9. Seq(SignatureCells(f)) \subseteq Seq(SignatureCells(g))
  <2>1. /\ g.image.header_checksum = f.image.header_checksum /\ f.headers \subseteq g.headers
        /\ f.preambles \subseteq g.preambles /\ f.data \subseteq g.data
    BY <1>2, <1>8 DEF m, w
  <2> QED
    BY <2>1, CellsGrow
<1>10. sig \in Seq(SignatureCells(g))
  <2>1. \A i \in 1..2 : sig[i] \in {"sig"} \X {RootKey} \X Nat \X g.headers \X Nat
    <3> SUFFICES ASSUME NEW i \in 1..2
                 PROVE  sig[i] \in {"sig"} \X {RootKey} \X Nat \X g.headers \X Nat
      OBVIOUS
    <3> DEFINE al == RootAlgorithm
    <3>1. al \in Nat
      BY <1>4
    <3>2. h \in g.headers
      BY <1>2
    <3>3. i \in Nat /\ sig[i] = <<"sig", RootKey, al, h, i>>
      BY <1>5
    <3> HIDE DEF al
    <3> QED
      BY <3>1, <3>2, <3>3, SignatureCell
  <2>2. \A i \in 1..2 : sig[i] \in SignatureCells(g)
    BY <1>5, <2>1 DEF SignatureCells, Cells
  <2> DEFINE two == 2
  <2>3. sig = [i \in 1..two |-> sig[i]]
    BY <1>5 DEF sig, Signature
  <2>4. sig \in [1..two -> SignatureCells(g)] /\ two \in Nat
    BY <2>2, <2>3
  <2> HIDE DEF two
  <2> QED
    BY <2>4, SeqDef
<1>11. ImageTypes(g)
  BY <1>1, <1>5, <1>7, <1>8, <1>9, <1>10 DEF ImageTypes, m, w
<1>12. WriteFirmwareHeader(w) = h /\ WriteFirmwarePreamble(w) = WriteFirmwarePreamble(m)
  BY <1>8 DEF WriteFirmwareHeader, WriteFirmwarePreamble, h
<1>13. ASSUME f.edits = 0 PROVE Pristine(g)
  BY <1>1, <1>2, <1>7, <1>8, <1>12, <1>13 DEF Pristine, m, w, sig
<1>14. SignedTogether(g) /\ BlobTypes(g)
  <2>1. SignedTogether(g)
    BY <1>1, <1>2 DEF SignedTogether
  <2>2. BlobTypes(g)
    BY <1>2 DEF BlobTypes, Once
  <2> QED
    BY <2>1, <2>2
<1> QED
  BY <1>1, <1>2, <1>11, <1>13, <1>14 DEF FirmwareIs

\* The firmware is signed.
LEMMA FirmwareSigned ==
  ASSUME NEW f, FirmwareIs(f), f.blob = <<>>, f.preambles = {}, NEW k \in SignKeys, NEW g,
         DOMAIN g = DOMAIN f, g.edits = f.edits, g.asWritten = f.asWritten, g.blob = f.blob, g.headers = f.headers,
         g.image = AddFirmwareSignature(f.image, k, KeyAlgorithm[k]),
         g.preambles = {<<k, WriteFirmwarePreamble(g.image)>>},
         g.data = {<<k, Field(g.image.firmware_data, g.image.firmware_len)>>}
  PROVE  FirmwareIs(g)
<1> DEFINE m == f.image
           w == g.image
           a == KeyAlgorithm[k]
           n == siglen_map(a)
           pre == WriteFirmwarePreamble(m)
           body == Field(m.firmware_data, m.firmware_len)
           s1 == Signature(k, a, pre)
           s2 == Signature(k, a, body)
<1>1. /\ DOMAIN f = {"image", "blob", "edits", "asWritten", "headers", "preambles", "data"}
      /\ f.edits \in Nat /\ f.asWritten \in BOOLEAN
      /\ ImageTypes(f) /\ SignedTogether(f) /\ BlobTypes(f) /\ ~f.asWritten
      /\ f.edits = 0 => Pristine(f)
  BY DEF FirmwareIs
<1>2. /\ DOMAIN g = DOMAIN f /\ g.edits = f.edits /\ g.asWritten = f.asWritten /\ g.blob = <<>>
      /\ g.headers = f.headers /\ w = AddFirmwareSignature(m, k, a)
      /\ g.preambles = {<<k, WriteFirmwarePreamble(w)>>} /\ g.data = {<<k, Field(w.firmware_data, w.firmware_len)>>}
  BY <1>1
<1>3. DOMAIN m = ImageFields
  BY <1>1 DEF ImageTypes
<1>4. k \in SignKeys \cup {RootKey} /\ a \in 0..1
  BY FirmwareAssumption DEF NumAlgorithms
<1>5. /\ n \in 1..2 /\ DOMAIN s1 = 1..n /\ SignatureFile(k, a, pre) = s1 /\ s1 # <<>>
      /\ \A i \in 1..n : s1[i] = <<"sig", k, a, pre, i>>
  <2> HIDE DEF pre
  <2> QED
    BY <1>4, SignatureIs
<1>6. /\ DOMAIN s2 = 1..n /\ SignatureFile(k, a, body) = s2
      /\ \A i \in 1..n : s2[i] = <<"sig", k, a, body, i>>
  <2> HIDE DEF body
  <2> QED
    BY <1>4, SignatureIs
<1> HIDE DEF s1, s2, m, w, pre, body, a
<1>7. w = [m EXCEPT !.preamble_signature = s1, !.firmware_signature = s2]
  BY <1>2, <1>5, <1>6 DEF AddFirmwareSignature, pre, body
<1>8. /\ DOMAIN w = ImageFields /\ w.preamble_signature = s1 /\ w.firmware_signature = s2
      /\ \A x \in ImageFields \ {"preamble_signature", "firmware_signature"} : w[x] = m[x]
  BY <1>3, <1>7 DEF ImageFields
<1>9. /\ w.magic = m.magic /\ w.header_len = m.header_len /\ w.sign_algorithm = m.sign_algorithm
      /\ w.sign_key = m.sign_key /\ w.key_version = m.key_version /\ w.header_checksum = m.header_checksum
      /\ w.firmware_version = m.firmware_version /\ w.firmware_len = m.firmware_len /\ w.preamble = m.preamble
      /\ w.key_signature = m.key_signature /\ w.firmware_data = m.firmware_data
  BY <1>8 DEF ImageFields
<1>10. /\ WriteFirmwareHeader(w) = WriteFirmwareHeader(m) /\ WriteFirmwarePreamble(w) = pre
       /\ Field(w.firmware_data, w.firmware_len) = body
  BY <1>9 DEF WriteFirmwareHeader, WriteFirmwarePreamble, pre, body
<1>11. g.preambles = {<<k, pre>>} /\ g.data = {<<k, body>>} /\ f.data = {}
  BY <1>1, <1>2, <1>10 DEF SignedTogether
<1>12. Seq(SignatureCells(f)) \subseteq Seq(SignatureCells(g))
  <2>1. /\ g.image.header_checksum = f.image.header_checksum /\ f.headers \subseteq g.headers
        /\ f.preambles \subseteq g.preambles /\ f.data \subseteq g.data
    BY <1>2, <1>9, <1>11 DEF m, w
  <2> QED
    BY <2>1, CellsGrow
<1>13. s1 \in Seq(SignatureCells(g)) /\ s2 \in Seq(SignatureCells(g))
  <2>1. ASSUME NEW c, <<k, c>> \in g.preambles \cup g.data, NEW s, DOMAIN s = 1..n, s = Signature(k, a, c),
               \A i \in 1..n : s[i] = <<"sig", k, a, c, i>>
        PROVE  s \in Seq(SignatureCells(g))
    <3> DEFINE x == <<k, c>>
    <3>1. \A i \in 1..n : s[i] \in {"sig"} \X {x[1]} \X Nat \X {x[2]} \X Nat
      <4>1. ASSUME NEW i \in 1..n PROVE s[i] \in {"sig"} \X {k} \X Nat \X {c} \X Nat
        <5>1. i \in Nat /\ a \in Nat /\ c \in {c} /\ s[i] = <<"sig", k, a, c, i>>
          BY <1>4, <1>5, <2>1
        <5> QED
          BY <5>1, SignatureCell
      <4> QED
        BY <4>1
    <3> HIDE DEF x
    <3>2. x \in g.preambles \cup g.data
      BY <2>1 DEF x
    <3>3. \A i \in 1..n : s[i] \in SignatureCells(g)
      BY <2>1, <3>1, <3>2 DEF SignatureCells, Cells
    <3>4. s = [i \in 1..n |-> s[i]]
      BY <2>1 DEF Signature
    <3>5. s \in [1..n -> SignatureCells(g)] /\ n \in Nat
      BY <1>5, <3>3, <3>4
    <3> HIDE DEF n
    <3> QED
      BY <3>5, SeqDef
  <2> QED
    BY <1>5, <1>6, <1>11, <2>1 DEF s1, s2
<1>14. ImageTypes(g)
  BY <1>1, <1>8, <1>9, <1>12, <1>13 DEF ImageTypes, m, w
<1>15. SignedTogether(g)
  <2>1. Heap \in DataCells /\ m.firmware_data \in Seq(DataCells) /\ m.firmware_len \in Nat
    BY <1>1 DEF DataCells, ImageTypes, m
  <2>2. body \in Seq(DataCells) /\ Len(body) = m.firmware_len
    BY <2>1, FieldIs DEF body
  <2>3. pre = <<Num(m.firmware_version), Num(Len(body)), <<"preamble", 0>> >> /\ m.firmware_version \in Nat
    BY <1>1, <2>2 DEF pre, WriteFirmwarePreamble, ImageTypes, m
  <2> QED
    BY <1>11, <2>2, <2>3 DEF SignedTogether
<1>16. BlobTypes(g)
  BY <1>2 DEF BlobTypes, Once
<1>17. ASSUME f.edits = 0 PROVE Pristine(g)
  <2>1. \A p \in g.preambles : p[1] = k
    BY <1>11
  <2>2. \A p \in g.preambles :
          /\ w.preamble_signature = Signature(p[1], KeyAlgorithm[p[1]], WriteFirmwarePreamble(w))
          /\ w.firmware_signature = Signature(p[1], KeyAlgorithm[p[1]], Field(w.firmware_data, w.firmware_len))
    BY <1>8, <1>10, <2>1 DEF s1, s2, a
  <2> QED
    BY <1>1, <1>2, <1>9, <1>10, <1>17, <2>2 DEF Pristine, m, w
<1> QED
  BY <1>1, <1>2, <1>14, <1>15, <1>16, <1>17 DEF FirmwareIs

\* A field of the image is changed.
LEMMA FieldChanged ==
  ASSUME NEW f, FirmwareIs(f), f.blob = <<>>, NEW g, NEW x, NEW v,
         DOMAIN g = DOMAIN f, g.edits = f.edits + 1, g.asWritten = f.asWritten, g.blob = f.blob,
         g.headers = f.headers, g.preambles = f.preambles, g.data = f.data,
         g.image = [f.image EXCEPT ![x] = v],
         \/ x \in {"key_version", "firmware_version", "firmware_len"} /\ v \in Nat
         \/ x = "sign_algorithm" /\ v \in 0..1
         \/ x = "sign_key" /\ \E k \in SignKeys : v = KeyCells(k)
         \/ x = "header_len" /\ v \in Nat /\ v >= HeaderRest
         \/ x = "firmware_data" /\ v \in Seq(DataCells)
  PROVE  FirmwareIs(g)
<1> DEFINE m == f.image
           w == g.image
<1>1. /\ DOMAIN f = {"image", "blob", "edits", "asWritten", "headers", "preambles", "data"}
      /\ f.edits \in Nat /\ f.asWritten \in BOOLEAN
      /\ ImageTypes(f) /\ SignedTogether(f) /\ ~f.asWritten
  BY DEF FirmwareIs
<1>2. DOMAIN m = ImageFields /\ w = [m EXCEPT ![x] = v]
  BY <1>1 DEF ImageTypes
<1> HIDE DEF m, w
<1>3. /\ DOMAIN w = ImageFields
      /\ \A y \in ImageFields : w[y] = IF y = x THEN v ELSE m[y]
  BY <1>2
<1>4. /\ w.magic = m.magic /\ w.preamble = m.preamble /\ w.header_checksum = m.header_checksum
      /\ w.key_signature = m.key_signature /\ w.preamble_signature = m.preamble_signature
      /\ w.firmware_signature = m.firmware_signature
      /\ w.key_version = m.key_version \/ w.key_version \in Nat
      /\ w.firmware_version = m.firmware_version \/ w.firmware_version \in Nat
      /\ w.firmware_len = m.firmware_len \/ w.firmware_len \in Nat
      /\ w.sign_algorithm = m.sign_algorithm \/ w.sign_algorithm \in 0..1
      /\ w.sign_key = m.sign_key \/ \E k \in SignKeys : w.sign_key = KeyCells(k)
      /\ w.header_len = m.header_len \/ (w.header_len \in Nat /\ w.header_len >= HeaderRest)
      /\ w.firmware_data = m.firmware_data \/ w.firmware_data \in Seq(DataCells)
  BY <1>3 DEF ImageFields
<1>5. Seq(SignatureCells(f)) \subseteq Seq(SignatureCells(g))
  <2>1. /\ g.image.header_checksum = f.image.header_checksum /\ f.headers \subseteq g.headers
        /\ f.preambles \subseteq g.preambles /\ f.data \subseteq g.data
    BY <1>4 DEF m, w
  <2> QED
    BY <2>1, CellsGrow
<1>6. ImageTypes(g)
  BY <1>1, <1>3, <1>4, <1>5 DEF ImageTypes, m, w
<1>7. SignedTogether(g)
  BY <1>1 DEF SignedTogether
<1>8. BlobTypes(g)
  BY DEF BlobTypes, Once
<1>9. g.edits # 0 /\ g.edits \in Nat
  BY <1>1
<1> QED
  BY <1>1, <1>6, <1>7, <1>8, <1>9 DEF FirmwareIs

\* What does not occur in a sequence, and what occurs once.
LEMMA OnceRight ==
  ASSUME NEW S, NEW c, NEW s \in Seq(S \ {c}), NEW t \in Seq(S), Once(c, t)
  PROVE  s \o t \in Seq(S) /\ Once(c, s \o t)
<1>1. s \in Seq(S)
  BY SeqDef
<1>2. /\ Len(s) \in Nat /\ Len(t) \in Nat /\ s \o t \in Seq(S) /\ Len(s \o t) = Len(s) + Len(t)
      /\ DOMAIN t = 1..Len(t) /\ \A i \in 1..Len(s) : s[i] # c
      /\ \A i \in 1..Len(s) + Len(t) : (s \o t)[i] = IF i <= Len(s) THEN s[i] ELSE t[i - Len(s)]
  BY <1>1, LenProperties, ElementOfSeq, ConcatProperties
<1> DEFINE u == s \o t
<1>3. DOMAIN u = 1..Len(s) + Len(t)
  BY <1>2, LenProperties
<1>4. \A i \in DOMAIN u : u[i] = c => i - Len(s) \in DOMAIN t /\ t[i - Len(s)] = c
  BY <1>2, <1>3
<1> HIDE DEF u
<1>5. \A i, j \in DOMAIN u : u[i] = c /\ u[j] = c => i = j
  <2> SUFFICES ASSUME NEW i \in DOMAIN u, NEW j \in DOMAIN u, u[i] = c, u[j] = c PROVE i = j
    OBVIOUS
  <2>1. i - Len(s) = j - Len(s)
    BY <1>4 DEF Once
  <2> QED
    BY <1>2, <1>3, <2>1
<1> QED
  BY <1>2, <1>5 DEF Once, u

\* What is at most once in the first part, and not in the second, is at most once in both.
LEMMA OnceLeft ==
  ASSUME NEW S, NEW c, NEW s \in Seq(S), NEW t \in Seq(S \ {c}), Once(c, s)
  PROVE  s \o t \in Seq(S) /\ Once(c, s \o t)
<1>1. t \in Seq(S)
  BY SeqDef
<1>2. /\ Len(s) \in Nat /\ Len(t) \in Nat /\ s \o t \in Seq(S) /\ Len(s \o t) = Len(s) + Len(t)
      /\ DOMAIN s = 1..Len(s) /\ \A i \in 1..Len(t) : t[i] # c
      /\ \A i \in 1..Len(s) + Len(t) : (s \o t)[i] = IF i <= Len(s) THEN s[i] ELSE t[i - Len(s)]
  BY <1>1, LenProperties, ElementOfSeq, ConcatProperties
<1> DEFINE u == s \o t
<1>3. DOMAIN u = 1..Len(s) + Len(t)
  BY <1>2, LenProperties
<1>4. \A i \in DOMAIN u : u[i] = c => i \in DOMAIN s /\ s[i] = c
  <2> SUFFICES ASSUME NEW i \in DOMAIN u, u[i] = c PROVE i \in DOMAIN s /\ s[i] = c
    OBVIOUS
  <2>1. CASE i <= Len(s)
    BY <1>2, <1>3, <2>1
  <2>2. CASE ~(i <= Len(s))
    <3> DEFINE k == i - Len(s)
    <3>1. k \in 1..Len(t)
      BY <1>2, <1>3, <2>2
    <3>2. u[i] = t[k]
      BY <1>2, <1>3, <2>2
    <3> HIDE DEF k
    <3> QED
      BY <1>2, <3>1, <3>2
  <2> QED
    BY <2>1, <2>2
<1> HIDE DEF u
<1> QED
  BY <1>2, <1>4 DEF Once, u

\* A cell of the blob goes bad.
LEMMA CellDamaged ==
  ASSUME NEW f, FirmwareIs(f), NEW g, NEW i \in DOMAIN f.blob, NEW c \in Cells(f), c # <<"preamble", 0>>,
         DOMAIN g = DOMAIN f, g.edits = f.edits + 1, g.asWritten = FALSE, g.blob = [f.blob EXCEPT ![i] = c],
         g.headers = f.headers, g.preambles = f.preambles, g.data = f.data, g.image = f.image
  PROVE  FirmwareIs(g)
<1> DEFINE b == f.blob
           w == g.blob
<1>1. /\ DOMAIN f = {"image", "blob", "edits", "asWritten", "headers", "preambles", "data"}
      /\ f.edits \in Nat /\ ImageTypes(f) /\ SignedTogether(f)
      /\ b \in Seq(Cells(f)) /\ Once(<<"preamble", 0>>, b)
  BY DEF FirmwareIs, BlobTypes
<1>2. Cells(f) \subseteq Cells(g) /\ Seq(SignatureCells(f)) \subseteq Seq(SignatureCells(g))
  BY CellsGrow
<1>3. ImageTypes(g)
  BY <1>1, <1>2 DEF ImageTypes
<1>4. SignedTogether(g)
  BY <1>1 DEF SignedTogether
<1>5. w \in Seq(Cells(g))
  <2>1. b \in Seq(Cells(g)) /\ c \in Cells(g)
    BY <1>1, <1>2, SeqDef
  <2>2. Len(b) \in Nat /\ DOMAIN b = 1..Len(b) /\ \A j \in DOMAIN b : b[j] \in Cells(g)
    BY <2>1, LenProperties, ElementOfSeq
  <2>3. w \in [1..Len(b) -> Cells(g)]
    BY <2>1, <2>2
  <2> QED
    BY <2>2, <2>3, SeqDef
<1>6. Once(<<"preamble", 0>>, w)
  BY <1>1 DEF Once
<1>7. BlobTypes(g)
  BY <1>5, <1>6 DEF BlobTypes
<1>8. g.edits # 0 /\ g.edits \in Nat
  BY <1>1
<1> QED
  BY <1>1, <1>3, <1>4, <1>7, <1>8 DEF FirmwareIs

-----------------------------------------------------------------------------
\* The parts of an image, in the order in which they are written.
LEMMA PartsOfImage ==
  ASSUME NEW f, ImageTypes(f)
  PROVE  LET m == f.image
             S == Cells(f) \ {<<"preamble", 0>>}
             n == siglen_map(m.sign_algorithm)
         IN  /\ n \in 1..2
             /\ <<m.magic>> \in Seq(S)
             /\ WriteFirmwareHeader(m) \in Seq(S) /\ Len(WriteFirmwareHeader(m)) = m.header_len
             /\ m.key_signature \in Seq(S) /\ Len(m.key_signature) = 2
             /\ WriteFirmwarePreamble(m) \in Seq(Cells(f)) /\ Len(WriteFirmwarePreamble(m)) = 3
             /\ Once(<<"preamble", 0>>, WriteFirmwarePreamble(m))
             /\ Field(m.preamble_signature, n) \in Seq(S) /\ Len(Field(m.preamble_signature, n)) = n
             /\ Field(m.firmware_signature, n) \in Seq(S) /\ Len(Field(m.firmware_signature, n)) = n
             /\ Field(m.firmware_data, m.firmware_len) \in Seq(S)
             /\ Len(Field(m.firmware_data, m.firmware_len)) = m.firmware_len
<1> DEFINE m == f.image
           S == Cells(f) \ {<<"preamble", 0>>}
           n == siglen_map(m.sign_algorithm)
           rest == m.header_len - HeaderRest
           h == WriteFirmwareHeader(m)
           p == WriteFirmwarePreamble(m)
<1>1. /\ m.magic = Magic /\ m.preamble = <<"preamble", 0>>
      /\ m.header_len \in Nat /\ m.header_len >= HeaderRest /\ m.sign_algorithm \in 0..1
      /\ \E k \in SignKeys : m.sign_key = KeyCells(k)
      /\ m.header_checksum[1] = "sha512"
      /\ m.key_version \in Nat /\ m.firmware_version \in Nat /\ m.firmware_len \in Nat
      /\ m.key_signature \in Seq(SignatureCells(f)) /\ Len(m.key_signature) = 2
      /\ m.preamble_signature \in Seq(SignatureCells(f)) /\ m.firmware_signature \in Seq(SignatureCells(f))
      /\ m.firmware_data \in Seq(DataCells)
  BY DEF ImageTypes
<1>2. n \in 1..2 /\ n \in Nat /\ rest \in Nat
  BY <1>1 DEF siglen_map, HeaderRest
\* None of these cells is a preamble.
<1>3. /\ Magic \in S /\ Heap \in S /\ DataCells \subseteq S
  BY DEF Magic, Heap, DataCells, Cells
<1>4. m.header_checksum \in S
  <2>1. m.header_checksum \in Cells(f)
    BY DEF Cells
  <2> QED
    BY <1>1, <2>1
<1>5. \A v \in Nat : Num(v) \in S
  BY DEF Num, Cells
<1>6. SignatureCells(f) \subseteq S
  BY DEF SignatureCells
<1>7. m.sign_key \in Seq(S)
  <2>1. PICK k \in SignKeys : m.sign_key = KeyCells(k)
    BY <1>1
  <2> DEFINE size == RSAProcessedKeySize(KeyAlgorithm[k])
  <2>2. size \in Nat
    <3>1. KeyAlgorithm[k] \in 0..1
      BY FirmwareAssumption DEF NumAlgorithms
    <3> QED
      BY <3>1 DEF RSAProcessedKeySize, siglen_map
  <2> HIDE DEF size
  <2>3. m.sign_key = [i \in 1..size |-> <<"key", k, i>>]
    BY <2>1 DEF KeyCells, size
  <2>4. \A i \in Nat : <<"key", k, i>> \in S
    <3> SUFFICES ASSUME NEW i \in Nat PROVE <<"key", k, i>> \in S
      OBVIOUS
    <3>1. <<"key", k, i>> \in {"key"} \X SignKeys \X Nat
      OBVIOUS
    <3> QED
      BY <3>1 DEF Cells
  <2> HIDE DEF m, S
  <2>5. m.sign_key \in [1..size -> S]
    BY <2>2, <2>3, <2>4
  <2> QED
    BY <2>2, <2>5, SeqDef
<1> HIDE DEF S, n, rest
<1>8. /\ m.key_signature \in Seq(S) /\ m.preamble_signature \in Seq(S)
      /\ m.firmware_signature \in Seq(S) /\ m.firmware_data \in Seq(S)
  BY <1>1, <1>3, <1>6, SeqDef
<1> HIDE DEF m
<1>9. /\ Field(m.preamble_signature, n) \in Seq(S) /\ Len(Field(m.preamble_signature, n)) = n
      /\ Field(m.firmware_signature, n) \in Seq(S) /\ Len(Field(m.firmware_signature, n)) = n
      /\ Field(m.firmware_data, m.firmware_len) \in Seq(S)
      /\ Len(Field(m.firmware_data, m.firmware_len)) = m.firmware_len
      /\ Field(m.sign_key, rest) \in Seq(S) /\ Len(Field(m.sign_key, rest)) = rest
  <2>1. Field(m.preamble_signature, n) \in Seq(S) /\ Len(Field(m.preamble_signature, n)) = n
    BY <1>2, <1>3, <1>8, FieldIs
  <2>2. Field(m.firmware_signature, n) \in Seq(S) /\ Len(Field(m.firmware_signature, n)) = n
    BY <1>2, <1>3, <1>8, FieldIs
  <2>3. /\ Field(m.firmware_data, m.firmware_len) \in Seq(S)
        /\ Len(Field(m.firmware_data, m.firmware_len)) = m.firmware_len
    <3> DEFINE len == m.firmware_len
    <3>1. len \in Nat
      BY <1>1
    <3> HIDE DEF len
    <3>2. /\ Field(m.firmware_data, len) \in Seq(S) /\ Len(Field(m.firmware_data, len)) = len
      BY <1>3, <1>8, <3>1, FieldIs
    <3> QED
      BY <3>2 DEF len
  <2>4. Field(m.sign_key, rest) \in Seq(S) /\ Len(Field(m.sign_key, rest)) = rest
    BY <1>2, <1>3, <1>7, FieldIs
  <2> QED
    BY <2>1, <2>2, <2>3, <2>4
<1>10. h \in Seq(S) /\ Len(h) = m.header_len
  <2> DEFINE s == <<Num(m.header_len), Num(m.sign_algorithm)>>
             t == Field(m.sign_key, rest)
             u == <<Num(m.key_version), m.header_checksum>>
  <2>1. s \in Seq(S) /\ Len(s) = 2 /\ u \in Seq(S) /\ Len(u) = 2
    <3>1. Num(m.header_len) \in S /\ Num(m.sign_algorithm) \in S /\ Num(m.key_version) \in S
      BY <1>1, <1>5
    <3> QED
      BY <1>4, <3>1
  <2>2. h = (s \o t) \o u
    BY DEF WriteFirmwareHeader, rest, m
  <2>3. t \in Seq(S) /\ Len(t) = rest
    BY <1>9
  <2> HIDE DEF s, t, u, h
  <2>4. s \o t \in Seq(S) /\ Len(s \o t) = Len(s) + Len(t)
    BY <2>1, <2>3, ConcatProperties
  <2> DEFINE v == s \o t
  <2> HIDE DEF v
  <2>5. v \o u \in Seq(S) /\ Len(v \o u) = Len(v) + Len(u)
    <3>1. v \in Seq(S)
      BY <2>4 DEF v
    <3> QED
      BY <2>1, <3>1, ConcatProperties
  <2>6. h = v \o u /\ Len(v) = 2 + rest
    BY <2>1, <2>2, <2>3, <2>4 DEF v
  <2> QED
    BY <1>1, <2>1, <2>5, <2>6 DEF rest, HeaderRest
<1>11. p \in Seq(Cells(f)) /\ Len(p) = 3 /\ Once(<<"preamble", 0>>, p)
  <2>1. /\ Num(m.firmware_version) \in Cells(f) /\ Num(m.firmware_len) \in Cells(f)
        /\ Num(m.firmware_version) # <<"preamble", 0>> /\ Num(m.firmware_len) # <<"preamble", 0>>
    BY <1>1, <1>5 DEF S
  <2>2. <<"preamble", 0>> \in Cells(f)
    BY DEF Cells
  <2>3. p = <<Num(m.firmware_version), Num(m.firmware_len), <<"preamble", 0>> >>
    BY <1>1 DEF WriteFirmwarePreamble
  <2> HIDE DEF p
  <2> QED
    BY <2>1, <2>2, <2>3 DEF Once
<1>12. <<m.magic>> \in Seq(S)
  BY <1>1, <1>3
<1> QED
  BY <1>1, <1>2, <1>8, <1>9, <1>10, <1>11, <1>12 DEF m, S, n

\* What is read from memory that seven parts were written to, one after the other.
PartsRead(b, S, x1, x2, x3, x4, x5, x6, x7) ==
  LET a2 == Len(x1)
      a3 == a2 + Len(x2)
      a4 == a3 + Len(x3)
      a5 == a4 + Len(x4)
      a6 == a5 + Len(x5)
      a7 == a6 + Len(x6)
  IN  /\ b \in Seq(S) /\ Len(b) = a7 + Len(x7) /\ At(b, 0, Len(x1)) = x1
      /\ At(b, a2, Len(x2)) = x2 /\ At(b, a3, Len(x3)) = x3 /\ At(b, a4, Len(x4)) = x4
      /\ At(b, a5, Len(x5)) = x5 /\ At(b, a6, Len(x6)) = x6 /\ At(b, a7, Len(x7)) = x7

\* Each of seven parts is found at the sum of the lengths before it.
LEMMA SevenParts ==
  ASSUME NEW S, NEW x1 \in Seq(S), NEW x2 \in Seq(S), NEW x3 \in Seq(S), NEW x4 \in Seq(S), NEW x5 \in Seq(S),
         NEW x6 \in Seq(S), NEW x7 \in Seq(S)
  PROVE  PartsRead(x1 \o x2 \o x3 \o x4 \o x5 \o x6 \o x7, S, x1, x2, x3, x4, x5, x6, x7)
<1> DEFINE u1 == x1
           u2 == u1 \o x2
           u3 == u2 \o x3
           u4 == u3 \o x4
           u5 == u4 \o x5
           u6 == u5 \o x6
           u7 == u6 \o x7
<1>3. /\ u2 = u1 \o x2 /\ u3 = u2 \o x3 /\ u4 = u3 \o x4 /\ u5 = u4 \o x5 /\ u6 = u5 \o x6
      /\ u7 = u6 \o x7 /\ x1 \o x2 \o x3 \o x4 \o x5 \o x6 \o x7 = u7 /\ u1 = x1
  OBVIOUS
<1> HIDE DEF u1, u2, u3, u4, u5, u6, u7
<1>0. \A s, t \in Seq(S) : s \o t \in Seq(S) /\ Len(s \o t) = Len(s) + Len(t)
  BY ConcatProperties
<1>1. /\ u1 \in Seq(S) /\ u2 \in Seq(S) /\ u3 \in Seq(S) /\ u4 \in Seq(S) /\ u5 \in Seq(S) /\ u6 \in Seq(S)
      /\ u7 \in Seq(S)
  BY <1>0, <1>3
<1>2. /\ Len(u2) = Len(u1) + Len(x2) /\ Len(u3) = Len(u2) + Len(x3) /\ Len(u4) = Len(u3) + Len(x4)
      /\ Len(u5) = Len(u4) + Len(x5) /\ Len(u6) = Len(u5) + Len(x6) /\ Len(u7) = Len(u6) + Len(x7)
      /\ Len(u1) \in Nat /\ Len(u2) \in Nat /\ Len(u3) \in Nat /\ Len(u4) \in Nat /\ Len(u5) \in Nat /\ Len(u6) \in Nat
      /\ Len(x2) \in Nat /\ Len(x3) \in Nat /\ Len(x4) \in Nat /\ Len(x5) \in Nat /\ Len(x6) \in Nat /\ Len(x7) \in Nat
  BY <1>0, <1>1, <1>3, LenProperties
<1>10. \A at, n \in Nat : at + n <= Len(u1) => At(u2, at, n) = At(u1, at, n)
  <2>1. \A at, n \in Nat : at + n <= Len(u1) => At(u1 \o x2, at, n) = At(u1, at, n)
    BY <1>1, AtLeft
  <2> QED
    BY <1>3, <2>1
<1>11. \A at, n \in Nat : at + n <= Len(u2) => At(u3, at, n) = At(u2, at, n)
  <2>1. \A at, n \in Nat : at + n <= Len(u2) => At(u2 \o x3, at, n) = At(u2, at, n)
    BY <1>1, AtLeft
  <2> QED
    BY <1>3, <2>1
<1>12. \A at, n \in Nat : at + n <= Len(u3) => At(u4, at, n) = At(u3, at, n)
  <2>1. \A at, n \in Nat : at + n <= Len(u3) => At(u3 \o x4, at, n) = At(u3, at, n)
    BY <1>1, AtLeft
  <2> QED
    BY <1>3, <2>1
<1>13. \A at, n \in Nat : at + n <= Len(u4) => At(u5, at, n) = At(u4, at, n)
  <2>1. \A at, n \in Nat : at + n <= Len(u4) => At(u4 \o x5, at, n) = At(u4, at, n)
    BY <1>1, AtLeft
  <2> QED
    BY <1>3, <2>1
<1>14. \A at, n \in Nat : at + n <= Len(u5) => At(u6, at, n) = At(u5, at, n)
  <2>1. \A at, n \in Nat : at + n <= Len(u5) => At(u5 \o x6, at, n) = At(u5, at, n)
    BY <1>1, AtLeft
  <2> QED
    BY <1>3, <2>1
<1>15. \A at, n \in Nat : at + n <= Len(u6) => At(u7, at, n) = At(u6, at, n)
  <2>1. \A at, n \in Nat : at + n <= Len(u6) => At(u6 \o x7, at, n) = At(u6, at, n)
    BY <1>1, AtLeft, SMTT(40)
  <2> QED
    BY <1>3, <2>1
<1>4. At(u7, Len(u1), Len(x2)) = x2
  <2> DEFINE at == Len(u1)
             n == Len(x2)
  <2>1. at \in Nat /\ n \in Nat /\ at + n <= Len(u2)
    BY <1>2
  <2>2. At(u2, at, n) = x2
    <3>1. At(u1 \o x2, Len(u1), Len(x2)) = x2
      BY <1>1, AtRight
    <3> QED
      BY <1>3, <3>1
  <2>3. at + n <= Len(u2) /\ at + n <= Len(u3) /\ at + n <= Len(u4) /\ at + n <= Len(u5) /\ at + n <= Len(u6)
    BY <1>2, <2>1
  <2> HIDE DEF at, n
  <2>4. At(u3, at, n) = At(u2, at, n)
    BY <1>11, <2>1, <2>3
  <2>5. At(u4, at, n) = At(u3, at, n)
    BY <1>12, <2>1, <2>3
  <2>6. At(u5, at, n) = At(u4, at, n)
    BY <1>13, <2>1, <2>3
  <2>7. At(u6, at, n) = At(u5, at, n)
    BY <1>14, <2>1, <2>3
  <2>8. At(u7, at, n) = At(u6, at, n)
    BY <1>15, <2>1, <2>3
  <2> QED
    BY <2>2, <2>4, <2>5, <2>6, <2>7, <2>8 DEF at, n
<1>5. At(u7, Len(u2), Len(x3)) = x3
  <2> DEFINE at == Len(u2)
             n == Len(x3)
  <2>1. at \in Nat /\ n \in Nat /\ at + n <= Len(u3)
    BY <1>2
  <2>2. At(u3, at, n) = x3
    <3>1. At(u2 \o x3, Len(u2), Len(x3)) = x3
      BY <1>1, AtRight
    <3> QED
      BY <1>3, <3>1
  <2>3. at + n <= Len(u3) /\ at + n <= Len(u4) /\ at + n <= Len(u5) /\ at + n <= Len(u6)
    BY <1>2, <2>1
  <2> HIDE DEF at, n
  <2>4. At(u4, at, n) = At(u3, at, n)
    BY <1>12, <2>1, <2>3
  <2>5. At(u5, at, n) = At(u4, at, n)
    BY <1>13, <2>1, <2>3
  <2>6. At(u6, at, n) = At(u5, at, n)
    BY <1>14, <2>1, <2>3
  <2>7. At(u7, at, n) = At(u6, at, n)
    BY <1>15, <2>1, <2>3
  <2> QED
    BY <2>2, <2>4, <2>5, <2>6, <2>7 DEF at, n
<1>6. At(u7, Len(u3), Len(x4)) = x4
  <2> DEFINE at == Len(u3)
             n == Len(x4)
  <2>1. at \in Nat /\ n \in Nat /\ at + n <= Len(u4)
    BY <1>2
  <2>2. At(u4, at, n) = x4
    <3>1. At(u3 \o x4, Len(u3), Len(x4)) = x4
      BY <1>1, AtRight
    <3> QED
      BY <1>3, <3>1
  <2>3. at + n <= Len(u4) /\ at + n <= Len(u5) /\ at + n <= Len(u6)
    BY <1>2, <2>1
  <2> HIDE DEF at, n
  <2>4. At(u5, at, n) = At(u4, at, n)
    BY <1>13, <2>1, <2>3
  <2>5. At(u6, at, n) = At(u5, at, n)
    BY <1>14, <2>1, <2>3
  <2>6. At(u7, at, n) = At(u6, at, n)
    BY <1>15, <2>1, <2>3
  <2> QED
    BY <2>2, <2>4, <2>5, <2>6 DEF at, n
<1>7. At(u7, Len(u4), Len(x5)) = x5
  <2> DEFINE at == Len(u4)
             n == Len(x5)
  <2>1. at \in Nat /\ n \in Nat /\ at + n <= Len(u5)
    BY <1>2
  <2>2. At(u5, at, n) = x5
    <3>1. At(u4 \o x5, Len(u4), Len(x5)) = x5
      BY <1>1, AtRight
    <3> QED
      BY <1>3, <3>1
  <2>3. at + n <= Len(u5) /\ at + n <= Len(u6)
    BY <1>2, <2>1
  <2> HIDE DEF at, n
  <2>4. At(u6, at, n) = At(u5, at, n)
    BY <1>14, <2>1, <2>3
  <2>5. At(u7, at, n) = At(u6, at, n)
    BY <1>15, <2>1, <2>3
  <2> QED
    BY <2>2, <2>4, <2>5 DEF at, n
<1>8. At(u7, Len(u5), Len(x6)) = x6
  <2> DEFINE at == Len(u5)
             n == Len(x6)
  <2>1. at \in Nat /\ n \in Nat /\ at + n <= Len(u6)
    BY <1>2
  <2>2. At(u6, at, n) = x6
    <3>1. At(u5 \o x6, Len(u5), Len(x6)) = x6
      BY <1>1, AtRight
    <3> QED
      BY <1>3, <3>1
  <2>3. at + n <= Len(u6)
    BY <1>2, <2>1
  <2> HIDE DEF at, n
  <2>4. At(u7, at, n) = At(u6, at, n)
    BY <1>15, <2>1, <2>3
  <2> QED
    BY <2>2, <2>4 DEF at, n
<1>9. At(u7, Len(u6), Len(x7)) = x7
  <2> DEFINE at == Len(u6)
             n == Len(x7)
  <2>1. at \in Nat /\ n \in Nat /\ at + n <= Len(u7)
    BY <1>2
  <2>2. At(u7, at, n) = x7
    <3>1. At(u6 \o x7, Len(u6), Len(x7)) = x7
      BY <1>1, AtRight
    <3> QED
      BY <1>3, <3>1
  <2> QED
    BY <2>2
<1>16. At(u7, 0, Len(x1)) = x1
  <2> DEFINE at == 0
             n == Len(x1)
  <2>1. at \in Nat /\ n \in Nat /\ at + n <= Len(u1)
    BY <1>2, <1>3
  <2>2. At(u1, at, n) = x1
    <3>1. x1 = [i \in 1..n |-> x1[i]]
      BY LenProperties
    <3> QED
      BY <1>3, <2>1, <3>1 DEF At
  <2>3. at + n <= Len(u2) /\ at + n <= Len(u3) /\ at + n <= Len(u4) /\ at + n <= Len(u5) /\ at + n <= Len(u6)
    BY <1>2, <2>1
  <2> HIDE DEF at, n
  <2>4. /\ At(u2, at, n) = At(u1, at, n) /\ At(u3, at, n) = At(u2, at, n) /\ At(u4, at, n) = At(u3, at, n)
        /\ At(u5, at, n) = At(u4, at, n) /\ At(u6, at, n) = At(u5, at, n) /\ At(u7, at, n) = At(u6, at, n)
    BY <1>10, <1>11, <1>12, <1>13, <1>14, <1>15, <2>1, <2>3
  <2> QED
    BY <2>2, <2>4 DEF at, n
<1> QED
  BY <1>1, <1>2, <1>3, <1>4, <1>5, <1>6, <1>7, <1>8, <1>9, <1>16 DEF PartsRead

\* Each part of a written image is where VerifyFirmware() looks for it.
LEMMA ImageInMemory ==
  ASSUME NEW f, ImageTypes(f), NEW b, b = WriteFirmwareImage(f.image)
  PROVE  LET m == f.image
             hlen == m.header_len
             n == siglen_map(m.sign_algorithm)
         IN  /\ b \in Seq(Cells(f)) /\ Once(<<"preamble", 0>>, b) /\ b # <<>> /\ At(b, 0, 1)[1] = Magic
             /\ At(b, 1, hlen) = WriteFirmwareHeader(m)
             /\ At(b, 1 + hlen, 2) = m.key_signature
             /\ At(b, 1 + hlen + 2, 3) = WriteFirmwarePreamble(m)
             /\ At(b, 1 + hlen + 2 + 3, n) = Field(m.preamble_signature, n)
             /\ At(b, 1 + hlen + 2 + 3 + n, n) = Field(m.firmware_signature, n)
             /\ At(b, 1 + hlen + 2 + 3 + n + n, m.firmware_len) = Field(m.firmware_data, m.firmware_len)
<1> DEFINE m == f.image
           hlen == m.header_len
           n == siglen_map(m.sign_algorithm)
           c == <<"preamble", 0>>
           C == Cells(f)
           S == C \ {c}
           x1 == <<m.magic>>
           x2 == WriteFirmwareHeader(m)
           x3 == m.key_signature
           x4 == WriteFirmwarePreamble(m)
           x5 == Field(m.preamble_signature, n)
           x6 == Field(m.firmware_signature, n)
           x7 == Field(m.firmware_data, m.firmware_len)
<1>1. /\ n \in 1..2 /\ x1 \in Seq(S) /\ x2 \in Seq(S) /\ Len(x2) = hlen /\ x3 \in Seq(S) /\ Len(x3) = 2
      /\ x4 \in Seq(C) /\ Len(x4) = 3 /\ Once(c, x4) /\ x5 \in Seq(S) /\ Len(x5) = n
      /\ x6 \in Seq(S) /\ Len(x6) = n /\ x7 \in Seq(S) /\ Len(x7) = m.firmware_len
  BY PartsOfImage
<1>2. hlen \in Nat /\ m.firmware_len \in Nat /\ m.magic = Magic
  BY DEF ImageTypes
<1>3. b = x1 \o x2 \o x3 \o x4 \o x5 \o x6 \o x7 /\ Len(x1) = 1 /\ x1[1] = Magic
  BY <1>2 DEF WriteFirmwareImage
<1> HIDE DEF m, hlen, n, C, c, x1, x2, x3, x4, x5, x6, x7
<1>4. /\ x1 \in Seq(C) /\ x2 \in Seq(C) /\ x3 \in Seq(C) /\ x5 \in Seq(C) /\ x6 \in Seq(C) /\ x7 \in Seq(C)
  BY <1>1, SeqDef
<1>5. Once(c, b)
  <2> DEFINE y2 == x1 \o x2
             y3 == y2 \o x3
             y4 == y3 \o x4
             y5 == y4 \o x5
             y6 == y5 \o x6
             y7 == y6 \o x7
  <2>1. b = y7
    BY <1>3
  <2>2. y3 \in Seq(S)
    <3>1. y2 \in Seq(S)
      BY <1>1, ConcatProperties
    <3> HIDE DEF S, y2
    <3> QED
      BY <1>1, <3>1, ConcatProperties
  <2> HIDE DEF y3
  <2>3. y4 \in Seq(C) /\ Once(c, y4)
    BY <1>1, <2>2, OnceRight
  <2> HIDE DEF y4
  <2>4. y5 \in Seq(C) /\ Once(c, y5)
    BY <1>1, <2>3, OnceLeft
  <2> HIDE DEF y5
  <2>5. y6 \in Seq(C) /\ Once(c, y6)
    BY <1>1, <2>4, OnceLeft
  <2> HIDE DEF y6
  <2>6. Once(c, y7)
    BY <1>1, <2>5, OnceLeft
  <2> QED
    BY <2>1, <2>6
<1> DEFINE a2 == Len(x1)
           a3 == a2 + Len(x2)
           a4 == a3 + Len(x3)
           a5 == a4 + Len(x4)
           a6 == a5 + Len(x5)
           a7 == a6 + Len(x6)
<1>6. /\ b \in Seq(C) /\ Len(b) = a7 + Len(x7)
      /\ At(b, 0, Len(x1)) = x1 /\ At(b, a2, Len(x2)) = x2 /\ At(b, a3, Len(x3)) = x3 /\ At(b, a4, Len(x4)) = x4
      /\ At(b, a5, Len(x5)) = x5 /\ At(b, a6, Len(x6)) = x6 /\ At(b, a7, Len(x7)) = x7
  <2>1. x4 \in Seq(C)
    BY <1>1
  <2> DEFINE w == x1 \o x2 \o x3 \o x4 \o x5 \o x6 \o x7
  <2>2. PartsRead(w, C, x1, x2, x3, x4, x5, x6, x7)
    BY <1>4, <2>1, SevenParts
  <2>3. b = w
    BY <1>3
  <2> HIDE DEF w
  <2> QED
    BY <2>2, <2>3 DEF PartsRead
<1>7. /\ a2 = 1 /\ a3 = 1 + hlen /\ a4 = 1 + hlen + 2 /\ a5 = 1 + hlen + 2 + 3 /\ a6 = 1 + hlen + 2 + 3 + n
      /\ a7 = 1 + hlen + 2 + 3 + n + n
  BY <1>1, <1>3
<1> HIDE DEF a2, a3, a4, a5, a6, a7
<1>8. Len(b) >= 1 /\ b # <<>>
  <2>1. Len(b) >= 1
    BY <1>1, <1>2, <1>6, <1>7
  <2> QED
    BY <2>1
<1>9. At(b, 0, 1)[1] = Magic
  BY <1>3, <1>6, <1>7
<1>10. /\ At(b, 1, hlen) = x2 /\ At(b, 1 + hlen, 2) = x3 /\ At(b, 1 + hlen + 2, 3) = x4
       /\ At(b, 1 + hlen + 2 + 3, n) = x5 /\ At(b, 1 + hlen + 2 + 3 + n, n) = x6
       /\ At(b, 1 + hlen + 2 + 3 + n + n, m.firmware_len) = x7
  <2> DEFINE len == m.firmware_len
  <2> HIDE DEF len
  <2>1. Len(x2) = hlen /\ Len(x3) = 2 /\ Len(x4) = 3 /\ Len(x5) = n /\ Len(x6) = n /\ Len(x7) = len
    BY <1>1 DEF len
  <2> QED
    BY <1>6, <1>7, <2>1 DEF len
<1> QED
  BY <1>5, <1>6, <1>8, <1>9, <1>10 DEF m, hlen, n, c, C, x2, x3, x4, x5, x6, x7

\* The image is written.
LEMMA ImageWritten ==
  ASSUME NEW f, FirmwareIs(f), NEW g, DOMAIN g = DOMAIN f, g.edits = f.edits, g.asWritten = TRUE,
         g.blob = WriteFirmwareImage(f.image), g.headers = f.headers, g.preambles = f.preambles, g.data = f.data,
         g.image = f.image
  PROVE  FirmwareIs(g)
<1>1. /\ DOMAIN f = {"image", "blob", "edits", "asWritten", "headers", "preambles", "data"}
      /\ f.edits \in Nat /\ ImageTypes(f) /\ SignedTogether(f) /\ (f.edits = 0 => Pristine(f))
  BY DEF FirmwareIs
<1>2. Cells(f) \subseteq Cells(g) /\ Seq(SignatureCells(f)) \subseteq Seq(SignatureCells(g))
  BY CellsGrow
<1>3. ImageTypes(g)
  BY <1>1, <1>2 DEF ImageTypes
<1>4. SignedTogether(g)
  BY <1>1 DEF SignedTogether
<1>5. BlobTypes(g) /\ g.blob # <<>>
  BY <1>3, ImageInMemory DEF BlobTypes
<1>6. f.edits = 0 => Pristine(g)
  BY <1>1, SMTT(40) DEF Pristine
<1> QED
  BY <1>1, <1>3, <1>4, <1>5, <1>6 DEF FirmwareIs

\* The header, cell by cell.
LEMMA HeaderCells ==
  ASSUME NEW f, ImageTypes(f)
  PROVE  LET m == f.image
             h == WriteFirmwareHeader(m)
             rest == m.header_len - HeaderRest
         IN  /\ h[1] = Num(m.header_len) /\ h[2] = Num(m.sign_algorithm) /\ h[m.header_len] = m.header_checksum
             /\ \A i \in 1..rest : h[2 + i] = Field(m.sign_key, rest)[i]
             /\ SubSeq(h, 1, m.header_len - 1) =
                  <<Num(m.header_len), Num(m.sign_algorithm)>> \o Field(m.sign_key, rest) \o <<Num(m.key_version)>>
<1> DEFINE m == f.image
           len == m.header_len
           rest == len - HeaderRest
           h == WriteFirmwareHeader(m)
           S == {m.header_checksum, Heap} \cup {m.sign_key[i] : i \in DOMAIN m.sign_key}
                  \cup {Num(len), Num(m.sign_algorithm), Num(m.key_version)}
           s == <<Num(len), Num(m.sign_algorithm)>>
           t == Field(m.sign_key, rest)
           x == Num(m.key_version)
           y == m.header_checksum
           u == <<x, y>>
           v == <<x>>
<1>1. len \in Nat /\ len >= 4 /\ rest \in Nat /\ rest = len - 4
  BY DEF ImageTypes, HeaderRest
<1>2. s \in Seq(S) /\ u \in Seq(S) /\ v \in Seq(S) /\ Heap \in S
  <2>1. Num(len) \in S /\ Num(m.sign_algorithm) \in S /\ x \in S /\ y \in S /\ Heap \in S
    OBVIOUS
  <2> HIDE DEF S, len, x, y, m
  <2> QED
    BY <2>1
<1>3. m.sign_key \in Seq(S)
  <2>1. PICK k \in SignKeys : m.sign_key = KeyCells(k)
    BY DEF ImageTypes
  <2> DEFINE size == RSAProcessedKeySize(KeyAlgorithm[k])
  <2>2. size \in Nat
    <3>1. KeyAlgorithm[k] \in 0..1
      BY FirmwareAssumption DEF NumAlgorithms
    <3> QED
      BY <3>1 DEF RSAProcessedKeySize, siglen_map
  <2> HIDE DEF size
  <2>3. m.sign_key = [i \in 1..size |-> <<"key", k, i>>]
    BY <2>1 DEF KeyCells, size
  <2>4. m.sign_key \in [1..size -> S]
    BY <2>3
  <2> HIDE DEF S, m
  <2> QED
    BY <2>2, <2>4, SeqDef
<1>4. t \in Seq(S) /\ Len(t) = rest
  <2> HIDE DEF S, rest
  <2> QED
    BY <1>1, <1>2, <1>3, FieldIs
<1>5. Len(s) = 2 /\ Len(u) = 2 /\ Len(v) = 1 /\ h = (s \o t) \o u
  BY DEF WriteFirmwareHeader
<1>6. s[1] = Num(len) /\ s[2] = Num(m.sign_algorithm) /\ u[1] = x /\ u[2] = y /\ v[1] = x
  OBVIOUS
<1> HIDE DEF S, s, t, u, v, h, x, y, len, rest
<1> DEFINE w == s \o t
<1>7. /\ w \in Seq(S) /\ Len(w) = 2 + rest
      /\ \A i \in 1..(2 + rest) : w[i] = IF i <= 2 THEN s[i] ELSE t[i - 2]
  <2>1. /\ s \o t \in Seq(S) /\ Len(s \o t) = Len(s) + Len(t)
        /\ \A i \in 1..(Len(s) + Len(t)) : (s \o t)[i] = IF i <= Len(s) THEN s[i] ELSE t[i - Len(s)]
    BY <1>2, <1>4, ConcatProperties
  <2> QED
    BY <1>4, <1>5, <2>1
<1> HIDE DEF w
<1>8. /\ h \in Seq(S) /\ Len(h) = len
      /\ \A i \in 1..len : h[i] = IF i <= 2 + rest THEN w[i] ELSE u[i - (2 + rest)]
  <2>1. w \o u \in Seq(S) /\ Len(w \o u) = Len(w) + Len(u)
        /\ \A i \in 1..(Len(w) + Len(u)) : (w \o u)[i] = IF i <= Len(w) THEN w[i] ELSE u[i - Len(w)]
    BY <1>2, <1>7, ConcatProperties
  <2>2. h = w \o u /\ Len(w) = 2 + rest /\ Len(u) = 2 /\ len = 2 + rest + 2
    BY <1>1, <1>5, <1>7 DEF w
  <2> QED
    BY <2>1, <2>2
<1>9. h[1] = Num(len) /\ h[2] = Num(m.sign_algorithm)
  BY <1>1, <1>6, <1>7, <1>8
<1>10. h[len] = y
  <2> DEFINE k == len - (2 + rest)
  <2>1. len \in 1..len /\ ~(len <= 2 + rest) /\ k = 2
    <3>1. rest = len - 4 /\ len \in Nat /\ len >= 4
      BY <1>1
    <3>2. 2 + rest = len - 2
      BY <3>1
    <3>3. len \in 1..len /\ ~(len <= len - 2)
      BY <3>1
    <3>4. len - (len - 2) = 2
      BY <3>1
    <3> QED
      BY <3>2, <3>3, <3>4
  <2>2. h[len] = u[k]
    BY <1>8, <2>1
  <2> QED
    BY <1>6, <2>1, <2>2
<1>11. \A i \in 1..rest : h[2 + i] = t[i]
  <2> SUFFICES ASSUME NEW i \in 1..rest PROVE h[2 + i] = t[i]
    OBVIOUS
  <2> DEFINE j == 2 + i
  <2>1. j \in 1..len /\ j <= 2 + rest /\ ~(j <= 2) /\ j - 2 = i /\ j \in 1..(2 + rest)
    BY <1>1
  <2> HIDE DEF j
  <2>2. h[j] = t[i]
    BY <1>7, <1>8, <2>1
  <2> QED
    BY <2>2 DEF j
<1>12. SubSeq(h, 1, len - 1) = w \o v
  <2> DEFINE n == len - 1
             p == SubSeq(h, 1, n)
             q == w \o v
  <2>1. n \in Nat /\ n = 2 + rest + 1 /\ 1 <= n /\ n - 1 + 1 = n
    BY <1>1
  <2>2. \A i \in 1..n : h[i] \in S
    BY <1>1, <1>8, <2>1, ElementOfSeq
  <2> HIDE DEF n
  <2>3. p \in Seq(S) /\ Len(p) = n /\ \A i \in 1..n : p[i] = h[i]
    <3>1. p \in Seq(S) /\ Len(p) = (IF 1 <= n THEN n - 1 + 1 ELSE 0) /\ \A i \in 1..(n - 1 + 1) : p[i] = h[1 + i - 1]
      BY <1>8, <2>1, <2>2, SubSeqProperties
    <3>2. \A i \in 1..n : 1 + i - 1 = i
      BY <2>1
    <3> QED
      BY <2>1, <3>1, <3>2
  <2>4. q \in Seq(S) /\ Len(q) = n /\ \A i \in 1..n : q[i] = IF i <= 2 + rest THEN w[i] ELSE v[i - (2 + rest)]
    <3>1. /\ w \o v \in Seq(S) /\ Len(w \o v) = Len(w) + Len(v)
          /\ \A i \in 1..(Len(w) + Len(v)) : (w \o v)[i] = IF i <= Len(w) THEN w[i] ELSE v[i - Len(w)]
      BY <1>2, <1>7, ConcatProperties
    <3>2. Len(w) = 2 + rest /\ Len(v) = 1 /\ Len(w) + Len(v) = n
      BY <1>5, <1>7, <2>1
    <3> QED
      BY <3>1, <3>2
  <2>5. \A i \in 1..n : p[i] = q[i]
    <3> SUFFICES ASSUME NEW i \in 1..n PROVE h[i] = q[i]
      BY <2>3
    <3>1. CASE i <= 2 + rest
      BY <1>1, <1>8, <2>1, <2>4, <3>1
    <3>2. CASE ~(i <= 2 + rest)
      <4>1. i - (2 + rest) = 1 /\ i \in 1..len
        BY <1>1, <2>1, <3>2
      <4> QED
        BY <1>6, <1>8, <2>4, <3>2, <4>1
    <3> QED
      BY <3>1, <3>2
  <2> HIDE DEF p, q
  <2>6. p = q
    BY <2>3, <2>4, <2>5, SeqEqual
  <2> QED
    BY <2>6 DEF p, q, n
<1> QED
  BY <1>9, <1>10, <1>11, <1>12 DEF h, y, t, rest, len, w, s, v, x

\* What the verifier reads of the header and of the preamble.
LEMMA HeaderRead ==
  ASSUME NEW f, ImageTypes(f), NEW b, b = WriteFirmwareImage(f.image)
  PROVE  LET m == f.image
             rest == m.header_len - HeaderRest
         IN  /\ NumberIn(At(b, 1, 1)[1]) = m.header_len /\ NumberIn(At(b, 2, 1)[1]) = m.sign_algorithm
             /\ NumberIn(At(b, 1 + m.header_len + 2 + 1, 1)[1]) = m.firmware_len
             /\ At(b, 3, rest) = Field(m.sign_key, rest)
<1> DEFINE m == f.image
           len == m.header_len
           rest == len - HeaderRest
           h == WriteFirmwareHeader(m)
           p == WriteFirmwarePreamble(m)
           key == Field(m.sign_key, rest)
<1>1. len \in Nat /\ len >= 4 /\ rest \in Nat /\ rest = len - 4
  BY DEF ImageTypes, HeaderRest
<1>2. At(b, 1, len) = h /\ At(b, 1 + len + 2, 3) = p
  BY ImageInMemory
<1>3. /\ h[1] = Num(len) /\ h[2] = Num(m.sign_algorithm)
      /\ \A i \in 1..rest : h[2 + i] = key[i]
  BY HeaderCells
<1>4. p[2] = Num(m.firmware_len)
  BY DEF WriteFirmwarePreamble
<1>5. key = [i \in 1..rest |-> key[i]]
  BY DEF Field
<1> HIDE DEF len, rest, h, p, key
<1>6. 1 \in 1..len /\ 2 \in 1..len
  BY <1>1
<1>7. At(b, 1, 1)[1] = Num(len)
  <2>1. At(b, 1, 1)[1] = IF 2 <= Len(b) THEN b[2] ELSE Outside
    BY DEF At
  <2>2. At(b, 1, len)[1] = IF 2 <= Len(b) THEN b[2] ELSE Outside
    BY <1>6 DEF At
  <2> QED
    BY <1>2, <1>3, <2>1, <2>2
<1>8. At(b, 2, 1)[1] = Num(m.sign_algorithm)
  <2>1. At(b, 2, 1)[1] = IF 3 <= Len(b) THEN b[3] ELSE Outside
    BY DEF At
  <2>2. At(b, 1, len)[2] = IF 3 <= Len(b) THEN b[3] ELSE Outside
    BY <1>6 DEF At
  <2> QED
    BY <1>2, <1>3, <2>1, <2>2
<1>9. At(b, 1 + len + 2 + 1, 1)[1] = Num(m.firmware_len)
  <2> DEFINE at == 1 + len + 2
             c == at + 1
             j == at + 2
  <2>1. c + 1 = j
    BY <1>1
  <2>2. At(b, at, 3)[2] = IF j <= Len(b) THEN b[j] ELSE Outside
    BY DEF At
  <2>3. At(b, c, 1)[1] = IF c + 1 <= Len(b) THEN b[c + 1] ELSE Outside
    BY DEF At
  <2>4. At(b, at, 3) = p
    BY <1>2
  <2> HIDE DEF at, c, j
  <2> QED
    BY <1>4, <2>1, <2>2, <2>3, <2>4 DEF at, c
<1>10. At(b, 3, rest) = key
  <2>1. ASSUME NEW i \in 1..rest PROVE At(b, 3, rest)[i] = At(b, 1, len)[2 + i]
    <3> DEFINE j == 2 + i
               c == 3 + i
    <3>1. j \in 1..len /\ 1 + j = c
      BY <1>1
    <3>2. At(b, 3, rest)[i] = IF c <= Len(b) THEN b[c] ELSE Outside
      BY DEF At
    <3> HIDE DEF j, c
    <3>3. At(b, 1, len)[j] = IF 1 + j <= Len(b) THEN b[1 + j] ELSE Outside
      BY <3>1 DEF At
    <3> QED
      BY <3>1, <3>2, <3>3 DEF j
  <2>2. \A i \in 1..rest : At(b, 3, rest)[i] = key[i]
    BY <1>2, <1>3, <2>1
  <2>3. At(b, 3, rest) = [i \in 1..rest |-> At(b, 3, rest)[i]]
    BY DEF At
  <2> QED
    BY <1>5, <2>2, <2>3
<1> QED
  BY <1>7, <1>8, <1>9, <1>10 DEF NumberIn, Num, len, rest, key

\* An image whose blob is accepted is accepted field by field.
LEMMA BothAccept ==
  ASSUME NEW f, FirmwareIs(f), f.asWritten, NEW dev \in BOOLEAN, VerifyFirmware(f.blob, dev) = "success"
  PROVE  VerifyFirmwareImage(f.image, dev) = "success"
<1> DEFINE m == f.image
           b == f.blob
           hlen == NumberIn(At(b, 1, 1)[1])
           a == NumberIn(At(b, 2, 1)[1])
           header == At(b, 1, hlen)
           k == RSAPublicKeyFromBuf(At(b, 3, RSAProcessedKeySize(a)))
           at == 1 + hlen + siglen_map(RootAlgorithm)
           n == siglen_map(a)
           length == NumberIn(At(b, at + 1, 1)[1])
           pre == At(b, at, 3)
           body == At(b, at + 3 + n + n, length)
<1>1. /\ ~(a >= 2) /\ hlen = 3 + RSAProcessedKeySize(a) + 1
      /\ dev \/ RSAVerifyBinary(RootKey, header, At(b, 1 + hlen, siglen_map(RootAlgorithm)), RootAlgorithm)
      /\ RSAVerifyBinary(k, pre, At(b, at + 3, n), a)
      /\ RSAVerifyBinary(k, body, At(b, at + 3 + n, n), a)
  <2>1. /\ VerifyFirmwareHeader(b, dev) = "success" /\ VerifyFirmwarePreamble(k, b, at, a) = "success"
        /\ VerifyFirmwareData(k, b, at + 3 + n, length, a) = "success"
    BY DEF VerifyFirmware
  <2>2. /\ ~(a >= 2) /\ hlen = 3 + RSAProcessedKeySize(a) + 1
        /\ dev \/ RSAVerifyBinary(RootKey, header, At(b, 1 + hlen, siglen_map(RootAlgorithm)), RootAlgorithm)
    BY <2>1 DEF VerifyFirmwareHeader, NumAlgorithms
  <2>3. RSAVerifyBinary(k, pre, At(b, at + 3, n), a)
    BY <2>1 DEF VerifyFirmwarePreamble
  <2>4. RSAVerifyBinary(k, body, At(b, at + 3 + n, n), a)
    BY <2>1 DEF VerifyFirmwareData
  <2> QED
    BY <2>2, <2>3, <2>4
<1>2. ImageTypes(f) /\ b = WriteFirmwareImage(f.image) /\ m.sign_algorithm \in 0..1 /\ m.header_len \in Nat
  BY DEF FirmwareIs, ImageTypes
<1> DEFINE rest == m.header_len - HeaderRest
<1>3. /\ hlen = m.header_len /\ a = m.sign_algorithm
      /\ NumberIn(At(b, 1 + m.header_len + 2 + 1, 1)[1]) = m.firmware_len
      /\ At(b, 3, rest) = Field(m.sign_key, rest)
  BY <1>2, HeaderRead
<1>4. siglen_map(RootAlgorithm) = 2 /\ HeaderRest = 4
  BY DEF siglen_map, RootAlgorithm, NumAlgorithms, HeaderRest
<1> DEFINE al == m.sign_algorithm
           len == m.header_len
           sig == siglen_map(al)
           size == RSAProcessedKeySize(al)
<1>5. rest = size /\ size \in Nat /\ sig \in Nat /\ n = sig
  <2>1. size \in Nat /\ sig \in Nat
    BY <1>2 DEF RSAProcessedKeySize, siglen_map
  <2>2. len = 3 + size + 1
    BY <1>1, <1>3
  <2>3. n = sig
    BY <1>3
  <2> HIDE DEF size, len
  <2>4. len - 4 = size
    BY <2>1, <2>2
  <2> QED
    BY <1>4, <2>1, <2>3, <2>4 DEF len
<1>6. k = RSAPublicKeyFromBuf(Field(m.sign_key, size))
  BY <1>3, <1>5
<1>7. /\ at = 1 + len + 2 /\ length = m.firmware_len
  BY <1>3, <1>4
<1>8. /\ header = WriteFirmwareHeader(m) /\ At(b, 1 + hlen, siglen_map(RootAlgorithm)) = m.key_signature
      /\ pre = WriteFirmwarePreamble(m) /\ At(b, at + 3, n) = Field(m.preamble_signature, sig)
      /\ At(b, at + 3 + n, n) = Field(m.firmware_signature, sig)
      /\ body = Field(m.firmware_data, m.firmware_len)
  <2>1. /\ At(b, 1, len) = WriteFirmwareHeader(m) /\ At(b, 1 + len, 2) = m.key_signature
        /\ At(b, 1 + len + 2, 3) = WriteFirmwarePreamble(m)
        /\ At(b, 1 + len + 2 + 3, sig) = Field(m.preamble_signature, sig)
        /\ At(b, 1 + len + 2 + 3 + sig, sig) = Field(m.firmware_signature, sig)
        /\ At(b, 1 + len + 2 + 3 + sig + sig, m.firmware_len) = Field(m.firmware_data, m.firmware_len)
    BY <1>2, ImageInMemory
  <2> QED
    BY <1>3, <1>4, <1>5, <1>7, <2>1
<1> HIDE DEF k, pre, body, header, at, n, length, hlen, a
<1>9. /\ k # "null" /\ al < 2
      /\ RSA_verify(k, Field(m.preamble_signature, sig), al, WriteFirmwarePreamble(m))
      /\ RSA_verify(k, Field(m.firmware_signature, sig), al, Field(m.firmware_data, m.firmware_len))
  <2>1. /\ RSAVerifyBinary(k, WriteFirmwarePreamble(m), Field(m.preamble_signature, sig), al)
        /\ RSAVerifyBinary(k, Field(m.firmware_data, m.firmware_len), Field(m.firmware_signature, sig), al)
    BY <1>1, <1>3, <1>8
  <2> QED
    BY <2>1 DEF RSAVerifyBinary, NumAlgorithms
<1>10. dev \/ RSA_verify(RootKey, m.key_signature, RootAlgorithm, WriteFirmwareHeader(m))
  BY <1>1, <1>8 DEF RSAVerifyBinary
<1>11. WriteFirmwareHeader(m) =
         <<Num(len), Num(al)>> \o Field(m.sign_key, size) \o <<Num(m.key_version), m.header_checksum>>
  BY <1>5 DEF WriteFirmwareHeader
<1>12. ~(al >= NumAlgorithms)
  BY <1>2 DEF NumAlgorithms
<1> QED
  BY <1>6, <1>9, <1>10, <1>11, <1>12 DEF VerifyFirmwareImage

\* What was built, signed and written without a change is accepted.
LEMMA UnchangedAccepted ==
  ASSUME NEW f, FirmwareIs(f), f.asWritten, f.edits = 0, f.headers # {}, f.preambles # {},
         \A p \in f.preambles : f.image.sign_key = KeyCells(p[1])
  PROVE  VerifyFirmware(f.blob, FALSE) = "success"
<1> DEFINE m == f.image
           b == f.blob
           len == m.header_len
           rest == len - HeaderRest
           h == WriteFirmwareHeader(m)
           pre == WriteFirmwarePreamble(m)
           body == Field(m.firmware_data, m.firmware_len)
<1>1. /\ ImageTypes(f) /\ SignedTogether(f) /\ b = WriteFirmwareImage(f.image) /\ Pristine(f)
  BY DEF FirmwareIs
<1>2. PICK k \in SignKeys :
        /\ m.sign_key = KeyCells(k) /\ m.sign_algorithm = KeyAlgorithm[k]
        /\ len = HeaderRest + RSAProcessedKeySize(KeyAlgorithm[k])
        /\ m.header_checksum = <<"sha512", <<Num(len), Num(m.sign_algorithm)>> \o KeyCells(k) \o <<Num(m.key_version)>> >>
        /\ m.key_signature = Signature(RootKey, RootAlgorithm, h)
        /\ \A p \in f.preambles :
             /\ m.preamble_signature = Signature(p[1], KeyAlgorithm[p[1]], pre)
             /\ m.firmware_signature = Signature(p[1], KeyAlgorithm[p[1]], body)
  BY <1>1 DEF Pristine
<1> DEFINE a == KeyAlgorithm[k]
           n == siglen_map(a)
           size == RSAProcessedKeySize(a)
<1>3. a \in 0..1 /\ n \in Nat /\ size \in Nat /\ size >= 1 /\ HeaderRest = 4 /\ k \in SignKeys \cup {RootKey}
  <2>1. a \in 0..1
    BY FirmwareAssumption DEF NumAlgorithms
  <2> QED
    BY <2>1 DEF RSAProcessedKeySize, siglen_map, HeaderRest
<1>4. rest = size /\ len = 3 + size + 1
  <2> HIDE DEF size
  <2>1. len = HeaderRest + size
    BY <1>2 DEF size
  <2> HIDE DEF len
  <2> QED
    BY <1>3, <2>1
<1> HIDE DEF size
\* The key signed the firmware itself.
<1>5. m.preamble_signature = Signature(k, a, pre) /\ m.firmware_signature = Signature(k, a, body)
  <2>1. PICK p \in f.preambles : TRUE
    OBVIOUS
  <2>2. p[1] \in SignKeys
    BY <1>1 DEF SignedTogether
  <2> DEFINE q == p[1]
  <2>3. KeyCells(k) = KeyCells(q)
    BY <1>2
  <2>4. RSAPublicKeyFromBuf(KeyCells(k)) = k /\ RSAPublicKeyFromBuf(KeyCells(q)) = q
    BY <2>2, KeyParsed
  <2>5. q = k
    BY <2>3, <2>4
  <2> QED
    BY <1>2, <2>5
<1>6. Field(m.sign_key, size) = KeyCells(k)
  <2>1. KeyCells(k) = [i \in 1..size |-> <<"key", k, i>>]
    BY DEF KeyCells, size
  <2>2. Len(KeyCells(k)) = size
    <3> DEFINE S == {<<"key", k, i>> : i \in 1..size}
    <3>1. KeyCells(k) \in [1..size -> S] /\ DOMAIN KeyCells(k) = 1..size
      BY <2>1
    <3> HIDE DEF S
    <3>2. KeyCells(k) \in Seq(S)
      BY <1>3, <3>1, SeqDef
    <3> QED
      BY <1>3, <3>1, <3>2, LenProperties
  <2>3. \A i \in 1..size : i <= Len(KeyCells(k))
    BY <1>3, <2>2
  <2>4. Field(KeyCells(k), size) = [i \in 1..size |-> KeyCells(k)[i]]
    BY <2>3 DEF Field
  <2>5. Field(KeyCells(k), size) = KeyCells(k)
    BY <2>1, <2>4
  <2> QED
    BY <1>2, <2>5
<1>7. Field(Signature(k, a, pre), n) = Signature(k, a, pre) /\ Field(Signature(k, a, body), n) = Signature(k, a, body)
  <2>1. ASSUME NEW c PROVE Field(Signature(k, a, c), n) = Signature(k, a, c)
    <3> DEFINE s == Signature(k, a, c)
    <3>1. Len(s) = n
      BY <1>3, SignatureIs
    <3>2. s = [i \in 1..n |-> s[i]]
      BY DEF Signature
    <3> HIDE DEF s, n
    <3>3. \A i \in 1..n : i <= Len(s)
      BY <1>3, <3>1
    <3>4. Field(s, n) = [i \in 1..n |-> s[i]]
      BY <3>3 DEF Field
    <3> QED
      BY <3>2, <3>4 DEF s
  <2> QED
    BY <2>1
\* What the verifier reads.
<1>8. /\ NumberIn(At(b, 1, 1)[1]) = len /\ NumberIn(At(b, 2, 1)[1]) = a
      /\ NumberIn(At(b, 1 + len + 2 + 1, 1)[1]) = m.firmware_len
      /\ At(b, 3, size) = KeyCells(k)
  <2>1. /\ NumberIn(At(b, 1, 1)[1]) = len /\ NumberIn(At(b, 2, 1)[1]) = m.sign_algorithm
        /\ NumberIn(At(b, 1 + len + 2 + 1, 1)[1]) = m.firmware_len
        /\ At(b, 3, rest) = Field(m.sign_key, rest)
    BY <1>1, HeaderRead
  <2> QED
    BY <1>2, <1>4, <1>6, <2>1
<1>9. /\ At(b, 0, 1)[1] = Magic /\ At(b, 1, len) = h /\ At(b, 1 + len, 2) = Signature(RootKey, RootAlgorithm, h)
      /\ At(b, 1 + len + 2, 3) = pre /\ At(b, 1 + len + 2 + 3, n) = Signature(k, a, pre)
      /\ At(b, 1 + len + 2 + 3 + n, n) = Signature(k, a, body)
      /\ At(b, 1 + len + 2 + 3 + n + n, m.firmware_len) = body
  <2> DEFINE r == siglen_map(m.sign_algorithm)
  <2>1. /\ At(b, 0, 1)[1] = Magic /\ At(b, 1, len) = h /\ At(b, 1 + len, 2) = m.key_signature
        /\ At(b, 1 + len + 2, 3) = pre /\ At(b, 1 + len + 2 + 3, r) = Field(m.preamble_signature, r)
        /\ At(b, 1 + len + 2 + 3 + r, r) = Field(m.firmware_signature, r)
        /\ At(b, 1 + len + 2 + 3 + r + r, m.firmware_len) = body
    BY <1>1, ImageInMemory
  <2>2. r = n
    BY <1>2
  <2> HIDE DEF r
  <2> QED
    BY <1>2, <1>5, <1>7, <2>1, <2>2
<1>10. h[len] = <<"sha512", SubSeq(h, 1, len - 1)>>
  <2>1. /\ h[len] = m.header_checksum
        /\ SubSeq(h, 1, len - 1) =
             <<Num(len), Num(m.sign_algorithm)>> \o Field(m.sign_key, rest) \o <<Num(m.key_version)>>
    BY <1>1, HeaderCells
  <2> QED
    BY <1>2, <1>4, <1>6, <2>1
<1>11. siglen_map(RootAlgorithm) = 2 /\ RootAlgorithm = 1 /\ NumAlgorithms = 2
  BY DEF siglen_map, RootAlgorithm, NumAlgorithms
\* What it decides.
<1>12. RSAPublicKeyFromBuf(KeyCells(k)) = k
  BY <1>3, KeyParsed
<1>13. k # "null" /\ k # "other" /\ RootKey # "null" /\ RootKey # "other" /\ KeyAlgorithm[RootKey] = RootAlgorithm
  BY FirmwareAssumption
<1>14. \A c : RSAVerifyBinary(k, c, Signature(k, a, c), a)
  BY <1>3, <1>11, <1>13 DEF RSAVerifyBinary, RSA_verify
<1>15. RSAVerifyBinary(RootKey, h, Signature(RootKey, RootAlgorithm, h), RootAlgorithm)
  BY <1>11, <1>13 DEF RSAVerifyBinary, RSA_verify
<1> HIDE DEF h, pre, body, len, b, n, a
<1>16. VerifyFirmwareHeader(b, FALSE) = "success"
  <2>1. ~(a >= NumAlgorithms)
    BY <1>3, <1>11
  <2>2. len = 3 + RSAProcessedKeySize(a) + 1
    BY <1>4 DEF size
  <2> QED
    BY <1>8, <1>9, <1>10, <1>11, <1>15, <2>1, <2>2 DEF VerifyFirmwareHeader
<1> DEFINE at == 1 + len + 2
<1>17. VerifyFirmwarePreamble(k, b, at, a) = "success"
  BY <1>9, <1>14 DEF VerifyFirmwarePreamble, n
<1>18. VerifyFirmwareData(k, b, at + 3 + n, m.firmware_len, a) = "success"
  BY <1>9, <1>14 DEF VerifyFirmwareData, n
<1>19. RSAPublicKeyFromBuf(At(b, 3, RSAProcessedKeySize(a))) = k
  BY <1>8, <1>12 DEF size
<1> QED
  BY <1>8, <1>9, <1>11, <1>16, <1>17, <1>18, <1>19 DEF VerifyFirmware, b, n

-----------------------------------------------------------------------------

\* Signing, writing, changing and verifying keep the invariant.
LEMMA FirmwareStep ==
  ASSUME FirmwareIs(fw), FirmwareNext
  PROVE  FirmwareIs(fw')
<1>1. DOMAIN fw = {"image", "blob", "edits", "asWritten", "headers", "preambles", "data"} /\ ImageTypes(fw)
  BY DEF FirmwareIs
<1>2. CASE SignHeader
  <2>1. fw.blob = <<>> /\ fw.headers = {}
    BY <1>2 DEF SignHeader
  <2>2. /\ DOMAIN fw' = DOMAIN fw /\ (fw').edits = fw.edits /\ (fw').asWritten = fw.asWritten /\ (fw').blob = fw.blob
        /\ (fw').preambles = fw.preambles /\ (fw').data = fw.data
        /\ (fw').headers = {WriteFirmwareHeader(fw.image)} /\ (fw').image = AddKeySignature(fw.image)
    BY <1>1, <1>2 DEF SignHeader
  <2> QED
    BY <2>1, <2>2, HeaderSigned
<1>3. ASSUME NEW k \in SignKeys, SignFirmware(k) PROVE FirmwareIs(fw')
  <2>1. fw.blob = <<>> /\ fw.preambles = {}
    BY <1>3 DEF SignFirmware
  <2>2. /\ DOMAIN fw' = DOMAIN fw /\ (fw').edits = fw.edits /\ (fw').asWritten = fw.asWritten /\ (fw').blob = fw.blob
        /\ (fw').headers = fw.headers
        /\ (fw').image = AddFirmwareSignature(fw.image, k, KeyAlgorithm[k])
        /\ (fw').preambles = {<<k, WriteFirmwarePreamble((fw').image)>>}
        /\ (fw').data = {<<k, Field((fw').image.firmware_data, (fw').image.firmware_len)>>}
    <3> DEFINE m == AddFirmwareSignature(fw.image, k, KeyAlgorithm[k])
               pre == WriteFirmwarePreamble(m)
               body == Field(m.firmware_data, m.firmware_len)
    <3>1. fw' = [fw EXCEPT !.image = m, !.preambles = {<<k, pre>>}, !.data = {<<k, body>>}]
      BY <1>3 DEF SignFirmware
    <3> HIDE DEF m, pre, body
    <3>2. /\ DOMAIN fw' = DOMAIN fw /\ (fw').edits = fw.edits /\ (fw').asWritten = fw.asWritten
          /\ (fw').blob = fw.blob /\ (fw').headers = fw.headers
          /\ (fw').image = m /\ (fw').preambles = {<<k, pre>>} /\ (fw').data = {<<k, body>>}
      BY <1>1, <3>1
    <3> QED
      BY <3>2 DEF m, pre, body
  <2> QED
    BY <2>1, <2>2, FirmwareSigned
<1>4. CASE EditImage
  <2> DEFINE Kinds == [key_version : Versions] \cup [firmware_version : Versions] \cup [firmware_len : DataLengths]
                 \cup [sign_algorithm : 0..NumAlgorithms - 1] \cup [sign_key : {KeyCells(k) : k \in SignKeys}]
                 \cup [header_len : {HeaderRest + RSAProcessedKeySize(a) : a \in 0..NumAlgorithms - 1}]
                 \cup [firmware_data : {[i \in 1..n |-> <<"data", 1>>] : n \in DataLengths}]
  <2>1. fw.blob = <<>>
    BY <1>4 DEF EditImage
  <2>2. PICK m \in Kinds :
          LET x == CHOOSE g \in DOMAIN m : TRUE
          IN  fw' = [fw EXCEPT !.image = [@ EXCEPT ![x] = m[x]], !.edits = @ + 1]
    BY <1>4 DEF EditImage
  <2> DEFINE x == CHOOSE g \in DOMAIN m : TRUE
             v == m[x]
  <2>3. ASSUME NEW y, DOMAIN m = {y} PROVE x = y
    BY <2>3
  <2>4. \/ x \in {"key_version", "firmware_version", "firmware_len"} /\ v \in Nat
        \/ x = "sign_algorithm" /\ v \in 0..1
        \/ x = "sign_key" /\ \E k \in SignKeys : v = KeyCells(k)
        \/ x = "header_len" /\ v \in Nat /\ v >= HeaderRest
        \/ x = "firmware_data" /\ v \in Seq(DataCells)
    <3>0. Versions \subseteq Nat /\ DataLengths \subseteq Nat /\ NumAlgorithms = 2
      BY FirmwareAssumption DEF NumAlgorithms
    <3> HIDE DEF x
    <3>1. CASE m \in [key_version : Versions] \cup [firmware_version : Versions] \cup [firmware_len : DataLengths]
      <4>1. CASE m \in [key_version : Versions]
        <5>1. x = "key_version"
          BY <2>3, <4>1
        <5> QED
          BY <3>0, <4>1, <5>1
      <4>2. CASE m \in [firmware_version : Versions]
        <5>1. x = "firmware_version"
          BY <2>3, <4>2
        <5> QED
          BY <3>0, <4>2, <5>1
      <4>3. CASE m \in [firmware_len : DataLengths]
        <5>1. x = "firmware_len"
          BY <2>3, <4>3
        <5> QED
          BY <3>0, <4>3, <5>1
      <4> QED
        BY <3>1, <4>1, <4>2, <4>3
    <3>2. CASE m \in [sign_algorithm : 0..NumAlgorithms - 1]
      <4>1. x = "sign_algorithm"
        BY <2>3, <3>2
      <4> QED
        BY <3>0, <3>2, <4>1
    <3>3. CASE m \in [sign_key : {KeyCells(k) : k \in SignKeys}]
      <4>1. x = "sign_key"
        BY <2>3, <3>3
      <4> QED
        BY <3>3, <4>1
    <3>4. CASE m \in [header_len : {HeaderRest + RSAProcessedKeySize(a) : a \in 0..NumAlgorithms - 1}]
      <4>1. x = "header_len"
        BY <2>3, <3>4
      <4>2. PICK a \in 0..1 : v = HeaderRest + RSAProcessedKeySize(a)
        BY <3>0, <3>4, <4>1
      <4>3. v \in Nat /\ v >= HeaderRest
        BY <4>2 DEF HeaderRest, RSAProcessedKeySize, siglen_map
      <4> QED
        BY <4>1, <4>3
    <3>5. CASE m \in [firmware_data : {[i \in 1..n |-> <<"data", 1>>] : n \in DataLengths}]
      <4>1. x = "firmware_data"
        BY <2>3, <3>5
      <4>2. PICK n \in DataLengths : v = [i \in 1..n |-> <<"data", 1>>]
        BY <3>5, <4>1
      <4>3. v \in [1..n -> DataCells] /\ n \in Nat
        BY <3>0, <4>2 DEF DataCells
      <4> HIDE DEF v
      <4>4. v \in Seq(DataCells)
        BY <4>3, SeqDef
      <4> QED
        BY <4>1, <4>4
    <3> QED
      BY <3>1, <3>2, <3>3, <3>4, <3>5
  <2>5. fw' = [fw EXCEPT !.image = [@ EXCEPT ![x] = v], !.edits = @ + 1]
    BY <2>2
  <2> HIDE DEF x, v
  <2>6. /\ DOMAIN fw' = DOMAIN fw /\ (fw').edits = fw.edits + 1 /\ (fw').asWritten = fw.asWritten
        /\ (fw').blob = fw.blob /\ (fw').headers = fw.headers /\ (fw').preambles = fw.preambles /\ (fw').data = fw.data
        /\ (fw').image = [fw.image EXCEPT ![x] = v]
    BY <1>1, <2>5
  <2> QED
    BY <2>1, <2>4, <2>6, FieldChanged
<1>5. CASE WriteImage
  <2>1. /\ DOMAIN fw' = DOMAIN fw /\ (fw').edits = fw.edits /\ (fw').asWritten = TRUE
        /\ (fw').blob = WriteFirmwareImage(fw.image) /\ (fw').headers = fw.headers
        /\ (fw').preambles = fw.preambles /\ (fw').data = fw.data /\ (fw').image = fw.image
    BY <1>1, <1>5 DEF WriteImage
  <2> QED
    BY <2>1, ImageWritten
<1>6. CASE DamageBlob
  <2>1. PICK i \in DOMAIN fw.blob :
          \E cell \in {<<"bad", 0>>} \cup {Num(v) : v \in Versions \cup DataLengths} :
            fw' = [fw EXCEPT !.blob[i] = cell, !.edits = @ + 1, !.asWritten = FALSE]
    BY <1>6 DEF DamageBlob
  <2>2. PICK c \in {<<"bad", 0>>} \cup {Num(v) : v \in Versions \cup DataLengths} :
          fw' = [fw EXCEPT !.blob[i] = c, !.edits = @ + 1, !.asWritten = FALSE]
    BY <2>1
  <2>3. c \in Cells(fw) /\ c # <<"preamble", 0>>
    BY FirmwareAssumption DEF Cells, Num
  <2>4. /\ DOMAIN fw' = DOMAIN fw /\ (fw').edits = fw.edits + 1 /\ (fw').asWritten = FALSE
        /\ (fw').blob = [fw.blob EXCEPT ![i] = c] /\ (fw').headers = fw.headers
        /\ (fw').preambles = fw.preambles /\ (fw').data = fw.data /\ (fw').image = fw.image
    BY <1>1, <2>2
  <2> QED
    BY <2>3, <2>4, CellDamaged
<1> QED
  BY <1>2, <1>3, <1>4, <1>5, <1>6 DEF FirmwareNext

\* The invariant implies what is promised.
LEMMA FirmwareIsSigned ==
  ASSUME FirmwareIs(fw)
  PROVE  VerifiedIsSigned
<1>1. AcceptedIsSigned
  BY AcceptedWasSigned DEF AcceptedIsSigned
<1>2. ASSUME NEW dev \in BOOLEAN, fw.asWritten, VerifyFirmware(fw.blob, dev) = "success"
      PROVE  VerifyFirmwareImage(fw.image, dev) = "success"
  BY <1>2, BothAccept
<1>3. ASSUME fw.asWritten, fw.edits = 0, fw.headers # {}, fw.preambles # {},
             \A p \in fw.preambles : fw.image.sign_key = KeyCells(p[1])
      PROVE  VerifyFirmware(fw.blob, FALSE) = "success"
  BY <1>3, UnchangedAccepted
<1> QED
  BY <1>1, <1>2, <1>3 DEF VerifiedIsSigned, VerifiersAgree

\* Verified boot, for any number of edits, keys, versions and lengths: what VerifyFirmware() accepts
\* was signed, all of it, by the key in the header, and that by the root key unless in developer
\* mode; VerifyFirmwareImage() accepts what VerifyFirmware() accepts; and what was signed with the
\* key of the header, and not changed, is accepted.
THEOREM FirmwareSafety == MCSpec => []VerifiedIsSigned
<1>1. MCInit => FirmwareIs(fw)
  BY Generated DEF MCInit, FirmwareInit
<1>2. FirmwareIs(fw) /\ [MCNext]_vars => FirmwareIs(fw')
  <2>1. UNCHANGED fw /\ FirmwareIs(fw) => FirmwareIs(fw')
    OBVIOUS
  <2>2. [MCNext]_vars => FirmwareNext \/ UNCHANGED fw
    BY DEF MCNext, vars, MementoUnit, MetricsUnit
  <2> QED
    BY <2>1, <2>2, FirmwareStep
<1>3. FirmwareIs(fw) => VerifiedIsSigned
  BY FirmwareIsSigned
<1> DEFINE I == FirmwareIs(fw)
<1>4. MCInit => I
  BY <1>1
<1>5. I /\ [MCNext]_vars => I'
  BY <1>2
<1>6. I => VerifiedIsSigned
  BY <1>3
<1> HIDE DEF I
<1> QED
  BY <1>4, <1>5, <1>6, PTL DEF MCSpec

-----------------------------------------------------------------------------
(* DownloadAction, for every number of chunks.  A success is authentic     *)
(* because the hash never gets ahead of what was received (HashFollows),   *)
(* so a hash of the whole resource was fed all of it.                      *)

USE ChunksAssumption

\* An Action that has not been performed satisfies IInv.
LEMMA InitIInv == Init => IInv
<1> SUFFICES ASSUME Init PROVE IInv
  OBVIOUS
<1>1. 0 \in 0..Total
  OBVIOUS
<1>2. TypeOK
  BY <1>1 DEF Init, Fetcher!Init, TypeOK
<1>3. StageFits
  BY DEF Init, Fetcher!Init, StageFits
<1>4. HashFollows
  BY DEF Init, Fetcher!Init, HashFollows
<1>5. SuccessMeansAuthentic /\ DirectSuccessMeansWritten
  BY DEF Init, SuccessMeansAuthentic, DirectSuccessMeansWritten
<1> QED
  BY <1>2, <1>3, <1>4, <1>5 DEF IInv

\* Every operation and every callback keeps IInv.
LEMMA NextIInv == IInv /\ [Next]_downloadVars => IInv'
<1> SUFFICES ASSUME IInv, [Next]_downloadVars PROVE IInv'
  OBVIOUS
<1> USE DEF fetcherVars
<1>1. CASE PerformWithoutInput
  <2>1. TypeOK'
    BY <1>1 DEF PerformWithoutInput, Aborts, IInv, TypeOK
  <2>2. StageFits'
    BY <1>1 DEF PerformWithoutInput, Aborts, IInv, StageFits
  <2>3. HashFollows'
    BY <1>1 DEF PerformWithoutInput, IInv, HashFollows
  <2>4. SuccessMeansAuthentic'
    BY <1>1 DEF PerformWithoutInput, Aborts, IInv, SuccessMeansAuthentic
  <2>5. DirectSuccessMeansWritten'
    BY <1>1 DEF PerformWithoutInput, DirectSuccessMeansWritten
  <2> QED
    BY <2>1, <2>2, <2>3, <2>4, <2>5 DEF IInv
<1>2. ASSUME NEW opened \in BOOLEAN, PerformAction(opened) PROVE IInv'
  <2>1. TypeOK'
    BY <1>2
    DEF PerformAction, ActionComplete, Fetcher!BeginTransfer, IInv, TypeOK, StageFits
  <2>2. StageFits'
    BY <1>2 DEF PerformAction, ActionComplete, Fetcher!BeginTransfer, IInv, StageFits
  <2>3. HashFollows'
    BY <1>2
    DEF PerformAction, ActionComplete, Fetcher!BeginTransfer, IInv, StageFits,
        HashFollows
  <2>4. SuccessMeansAuthentic'
    BY <1>2 DEF PerformAction, ActionComplete, IInv, StageFits, SuccessMeansAuthentic
  <2>5. DirectSuccessMeansWritten'
    BY <1>2 DEF PerformAction, ActionComplete, IInv, DirectSuccessMeansWritten
  <2> QED
    BY <2>1, <2>2, <2>3, <2>4, <2>5 DEF IInv
<1>3. ASSUME NEW damaged \in BOOLEAN, NEW ok \in BOOLEAN,
             ReceivedBytes(damaged, ok)
      PROVE  IInv'
  <2>1. TypeOK'
    BY <1>3
    DEF ReceivedBytes, Fetcher!ReceivedBytes, HashAfterWrite, MayBeLeft, IInv, TypeOK,
        HashFollows
  <2>2. StageFits'
    BY <1>3 DEF ReceivedBytes, Fetcher!ReceivedBytes, IInv, StageFits
  <2>3. HashFollows'
    BY <1>3
    DEF ReceivedBytes, Fetcher!ReceivedBytes, HashAfterWrite, WriteReturns,
        DirectWriteReturns, IInv, TypeOK, StageFits, HashFollows
  <2>4. SuccessMeansAuthentic'
    BY <1>3 DEF ReceivedBytes, IInv, StageFits, SuccessMeansAuthentic
  <2>5. DirectSuccessMeansWritten'
    BY <1>3 DEF ReceivedBytes, IInv, StageFits, DirectSuccessMeansWritten
  <2> QED
    BY <2>1, <2>2, <2>3, <2>4, <2>5 DEF IInv
<1>4. CASE ReceivedBytesAborts
  <2>0. received' \in 0..Total
    BY <1>4 DEF ReceivedBytesAborts, Fetcher!ReceivedBytes, IInv, TypeOK
  <2>1. TypeOK'
    BY <1>4, <2>0, Zenon
    DEF ReceivedBytesAborts, Aborts, Fetcher!ReceivedBytes, IInv, TypeOK
  <2>2. StageFits'
    BY <1>4 DEF ReceivedBytesAborts, Aborts, IInv, StageFits
  <2>3. HashFollows'
    BY <1>4 DEF ReceivedBytesAborts, Fetcher!ReceivedBytes, IInv, TypeOK, HashFollows
  <2>4. SuccessMeansAuthentic'
    BY <1>4 DEF ReceivedBytesAborts, Aborts, IInv, StageFits, SuccessMeansAuthentic
  <2>5. DirectSuccessMeansWritten'
    BY <1>4 DEF ReceivedBytesAborts, IInv, StageFits, DirectSuccessMeansWritten
  <2> QED
    BY <2>1, <2>2, <2>3, <2>4, <2>5 DEF IInv
<1>5. ASSUME NEW successful \in BOOLEAN, NEW closed \in BOOLEAN,
             TransferComplete(successful, closed)
      PROVE  IInv'
  <2>1. TypeOK'
    BY <1>5
    DEF TransferComplete, ActionComplete, Aborts, Fetcher!TransferComplete, IInv, TypeOK
  <2>2. StageFits'
    BY <1>5
    DEF TransferComplete, ActionComplete, Aborts, Fetcher!TransferComplete, IInv,
        StageFits
  <2>3. HashFollows'
    BY <1>5 DEF TransferComplete, Fetcher!TransferComplete, IInv, HashFollows
  <2>4. SuccessMeansAuthentic'
    BY <1>5
    DEF TransferComplete, ActionComplete, Aborts, HashMatches, Fetcher!TransferComplete,
        IInv, TypeOK, HashFollows, SuccessMeansAuthentic
  <2>5. DirectSuccessMeansWritten'
    BY <1>5
    DEF TransferComplete, ActionComplete, Aborts, HashMatches, IInv, HashFollows,
        DirectSuccessMeansWritten
  <2> QED
    BY <2>1, <2>2, <2>3, <2>4, <2>5 DEF IInv
<1>6. ASSUME NEW closed \in BOOLEAN, TerminateProcessing(closed) PROVE IInv'
  <2>1. TypeOK'
    BY <1>6 DEF TerminateProcessing, Aborts, Fetcher!TerminateTransfer, IInv, TypeOK
  <2>2. StageFits'
    BY <1>6 DEF TerminateProcessing, Aborts, Fetcher!TerminateTransfer, IInv, StageFits
  <2>3. HashFollows'
    BY <1>6 DEF TerminateProcessing, Fetcher!TerminateTransfer, IInv, HashFollows
  <2>4. SuccessMeansAuthentic'
    BY <1>6 DEF TerminateProcessing, Aborts, IInv, StageFits, SuccessMeansAuthentic
  <2>5. DirectSuccessMeansWritten'
    BY <1>6 DEF TerminateProcessing, Aborts, IInv, DirectSuccessMeansWritten
  <2> QED
    BY <2>1, <2>2, <2>3, <2>4, <2>5 DEF IInv
<1>7. CASE UNCHANGED downloadVars
  BY <1>7
  DEF downloadVars, actionVars, IInv, TypeOK, StageFits, HashFollows,
      SuccessMeansAuthentic, DirectSuccessMeansWritten
<1> QED
  BY <1>1, <1>2, <1>3, <1>4, <1>5, <1>6, <1>7 DEF Next

\* The download keeps its inductive invariant.
THEOREM ActionSafety == Spec => []IInv
  BY InitIInv, NextIInv, PTL DEF Spec

\* The hash and the output never cover more chunks than the resource has.
THEOREM ActionTypeCorrect == Spec => []TypeOK
<1>1. IInv => TypeOK
  BY DEF IInv
<1> QED
  BY <1>1, ActionSafety, PTL

\* TransferComplete() reports a success, and passes the plan on, only after the
\* whole resource arrived undamaged.
THEOREM AuthenticOnSuccess == Spec => []SuccessMeansAuthentic
<1>1. IInv => SuccessMeansAuthentic
  BY DEF IInv
<1> QED
  BY <1>1, ActionSafety, PTL

\* A delta update that DownloadAction reports as a success is in the output.
THEOREM WrittenOnDirectSuccess == Spec => []DirectSuccessMeansWritten
<1>1. IInv => DirectSuccessMeansWritten
  BY DEF IInv
<1> QED
  BY <1>1, ActionSafety, PTL

\* ReceivedBytes() always finds an open writer, and no path leaves one open.
THEOREM WriterOpen == Spec => []WriterOpenWhileActive
<1>1. IInv => WriterOpenWhileActive
  BY DEF IInv, TypeOK, StageFits, WriterOpenWhileActive
<1> QED
  BY <1>1, ActionSafety, PTL
=============================================================================
