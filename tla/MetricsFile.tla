----------------------------- MODULE MetricsFile -----------------------------
(***************************************************************************)
(* /tmp/.chromeos-metrics, the file through which metrics_daemon and       *)
(* metrics_client hand metrics to Chrome, and the lock on it.  The daemon  *)
(* keeps the file open and reports how long each network state lasted; a   *)
(* client opens it for one metric; Chrome (external) reads and truncates   *)
(* it.  A message fits its buffer.  main() of metrics_client exits when it *)
(* has no arguments, so that the metrics of its standard input, which      *)
(* ParseFile() would read, are left out.                                   *)
(***************************************************************************)
EXTENDS Integers, Sequences, FiniteSets, SequencesExt

CONSTANTS
  NetworkStates,     \* the names in network_states.h
  OtherStates,       \* names that are not
  Clients,           \* runs of metrics_client
  TicksPerSecond, IntMax, MaxClock, MaxSignals,
  MaxReads,          \* bound: how often Chrome reads
  MaxShortWrites     \* bound: the file system is full

ASSUME MetricsAssumption ==
  /\ Clients \cap {"nobody", "daemon", "chrome"} = {}
  /\ TicksPerSecond \in Nat \ {0} /\ IntMax \in Nat

VARIABLE metrics

kUnknownNetworkStateId == "unknown"
MetricsPath == "chrome"

MetricsStart ==
  [file |-> <<>>, lock |-> "nobody", autotest |-> {}, clock |-> 0, shortWrites |-> 0,
   daemon |-> "idle", network_state |-> kUnknownNetworkStateId, network_state_start |-> 0, new |-> <<>>,
   signals |-> <<>>, reported |-> <<>>,
   client |-> [c \in Clients |-> "start"], targets |-> [c \in Clients |-> {}],
   chrome |-> "away", reads |-> 0, read |-> {}, sent |-> {}]
MetricsInit == metrics = MetricsStart

Tick == metrics.clock < MaxClock /\ metrics' = [metrics EXCEPT !.clock = @ + 1]

\* write() to a file opened with O_APPEND, all of it or, on a full file system, a part.
Writes(m, message) == [m EXCEPT !.file = Append(@, message), !.sent = @ \cup {message}]
WritesShort(m, message) ==
  [m EXCEPT !.file = Append(@, <<"part", message[2], message[3]>>), !.shortWrites = @ + 1]
MayFallShort == metrics.shortWrites < MaxShortWrites

\* flock(LOCK_EX) waits for another descriptor's lock, and not for the own one.
MayLock(who) == metrics.lock \in {"nobody", who}

-----------------------------------------------------------------------------
\* Mutant: the time of the state before goes on.
LogKeepsStart(name) ==
  LET diff == metrics.clock - metrics.network_state_start
      m == [metrics EXCEPT !.network_state = name]
  IN  IF metrics.network_state = kUnknownNetworkStateId THEN [m EXCEPT !.network_state_start = metrics.clock]
      ELSE [m EXCEPT !.daemon = "lock", !.new = <<metrics.network_state, diff>>,
                     !.reported = Append(@, <<metrics.network_state, diff>>)]

\* LogNetworkStateChange(), for a state that is known and new: the state that ends is reported, in milliseconds
\* that saturate, and the new one starts at the time that was read.  ChromePublishMetric() comes before the
\* assignments in the code; nothing else looks at them.
LogNetworkStateChange(name) ==
  LET diff == metrics.clock - metrics.network_state_start
      diff_ms == IF diff \div TicksPerSecond >= IntMax \div TicksPerSecond THEN IntMax ELSE diff
      m == [metrics EXCEPT !.network_state = name, !.network_state_start = metrics.clock]
  IN  IF metrics.network_state = kUnknownNetworkStateId THEN m
      ELSE [m EXCEPT !.daemon = "lock", !.new = <<metrics.network_state, diff_ms>>,
                     !.reported = Append(@, <<metrics.network_state, diff_ms>>)]

\* NetSignalHandler(), from the main loop.
NetSignalHandler(name) ==
  /\ metrics.daemon = "idle" /\ Len(metrics.signals) < MaxSignals
  /\ LET m == IF name \notin NetworkStates \/ name = metrics.network_state THEN metrics ELSE LogNetworkStateChange(name)
     IN  metrics' = [m EXCEPT !.signals = Append(@, <<name, metrics.clock>>)]

\* ChromePublishMetric(): without the lock the metric is dropped, and a write that falls short returns with it.
DaemonMessage == <<"daemon", Len(metrics.reported), metrics.new>>
DaemonLocks == metrics.daemon = "lock" /\ MayLock("daemon") /\ metrics' = [metrics EXCEPT !.lock = "daemon", !.daemon = "write"]
DaemonFails == metrics.daemon = "lock" /\ metrics' = [metrics EXCEPT !.daemon = "idle"]
DaemonWrites == metrics.daemon = "write" /\ metrics' = [Writes(metrics, DaemonMessage) EXCEPT !.daemon = "unlock"]
DaemonFallsShort ==
  /\ metrics.daemon = "write" /\ MayFallShort
  /\ metrics' = [WritesShort(metrics, DaemonMessage) EXCEPT !.daemon = "idle"]

\* Mutant: the lock is never given back.
DaemonKeepsLock == metrics.daemon = "unlock" /\ metrics' = [metrics EXCEPT !.daemon = "idle"]

DaemonUnlocks == metrics.daemon = "unlock" /\ metrics' = [metrics EXCEPT !.lock = "nobody", !.daemon = "idle"]

DaemonStep == DaemonLocks \/ DaemonWrites \/ DaemonFallsShort \/ DaemonUnlocks

-----------------------------------------------------------------------------
\* main() of metrics_client: flags, a subset of -a, -b and -c, and the arguments after them.  Without flags
\* both files get the metric.
Targets(flags, arguments) ==
  IF arguments # 2 THEN {}
  ELSE IF flags = {} \/ "b" \in flags THEN {"autotest", MetricsPath}
  ELSE {IF flag = "a" THEN "autotest" ELSE MetricsPath : flag \in flags}
ClientMain(c) ==
  /\ metrics.client[c] = "start"
  /\ \E flags \in SUBSET {"a", "b", "c"}, arguments \in 0..2 :
       LET targets == Targets(flags, arguments)
       IN  metrics' = [metrics EXCEPT !.targets[c] = targets, !.client[c] = IF targets = {} THEN "done" ELSE "autotest"]

\* SendToAutotest(): one line, without a lock.
SendToAutotest(c) ==
  /\ metrics.client[c] = "autotest"
  /\ LET m == [metrics EXCEPT !.client[c] = IF MetricsPath \in metrics.targets[c] THEN "lock" ELSE "done"]
     IN  metrics' = IF "autotest" \in metrics.targets[c] THEN [m EXCEPT !.autotest = @ \cup {c}] ELSE m

\* Mutant: the file is written without its lock.
LocksNothing(c) == metrics.client[c] = "lock" /\ metrics' = [metrics EXCEPT !.client[c] = "write"]

\* SendToChrome(): open(), flock(), write(), flock(), close(); the first two may fail.
ClientLocks(c) ==
  metrics.client[c] = "lock" /\ MayLock(c) /\ metrics' = [metrics EXCEPT !.lock = c, !.client[c] = "write"]

ClientFails(c) == metrics.client[c] = "lock" /\ metrics' = [metrics EXCEPT !.client[c] = "done"]
ClientWrites(c) ==
  metrics.client[c] = "write" /\ metrics' = [Writes(metrics, <<c, 0, <<>>>>) EXCEPT !.client[c] = "unlock"]
ClientFallsShort(c) ==
  /\ metrics.client[c] = "write" /\ MayFallShort
  /\ metrics' = [WritesShort(metrics, <<c, 0, <<>>>>) EXCEPT !.client[c] = "unlock"]
ClientUnlocks(c) ==
  /\ metrics.client[c] = "unlock"
  /\ metrics' = [metrics EXCEPT !.lock = IF @ = c THEN "nobody" ELSE @, !.client[c] = "done"]
ClientStep(c) ==
  SendToAutotest(c) \/ ClientLocks(c) \/ ClientWrites(c) \/ ClientFallsShort(c) \/ ClientUnlocks(c)

-----------------------------------------------------------------------------
\* Chrome: reads what there is and truncates the file, under the lock.
ChromeLocks ==
  /\ metrics.chrome = "away" /\ metrics.reads < MaxReads /\ MayLock("chrome")
  /\ metrics' = [metrics EXCEPT !.lock = "chrome", !.chrome = "read", !.reads = @ + 1]
ChromeReads ==
  metrics.chrome = "read" /\ metrics' = [metrics EXCEPT !.read = @ \cup ToSet(metrics.file), !.chrome = "truncate"]
ChromeTruncates ==
  /\ metrics.chrome = "truncate"
  /\ metrics' = [metrics EXCEPT !.file = <<>>, !.lock = IF @ = "chrome" THEN "nobody" ELSE @, !.chrome = "away"]
ChromeStep == ChromeReads \/ ChromeTruncates

MetricsNext ==
  \/ Tick \/ (\E name \in NetworkStates \cup OtherStates : NetSignalHandler(name)) \/ DaemonFails \/ DaemonStep
  \/ (\E c \in Clients : ClientMain(c) \/ ClientFails(c) \/ ClientStep(c))
  \/ ChromeLocks \/ ChromeStep

-----------------------------------------------------------------------------
\* What is written whole is in the file or has been read: Chrome never truncates what it has not seen, whoever
\* writes at the time.
NothingTruncatedUnread == metrics.sent \subseteq ToSet(metrics.file) \cup metrics.read

\* The daemon reports each state once it is over, with the time from the first signal of that state to the first
\* of another known one: names it does not know and repeated signals change nothing, and a wait for the lock
\* neither loses time nor counts it twice.  A time too long for an int is the largest int.
ReportsEveryState ==
  LET known == SelectSeq(metrics.signals, LAMBDA s : s[1] \in NetworkStates)
      starts == SelectSeq([i \in 1..Len(known) |-> i], LAMBDA i : i = 1 \/ known[i][1] # known[i - 1][1])
      Lasted(j) == known[starts[j + 1]][2] - known[starts[j]][2]
  IN  /\ Len(metrics.reported) = IF Len(starts) = 0 THEN 0 ELSE Len(starts) - 1
      /\ \A j \in 1..Len(metrics.reported) :
           /\ metrics.reported[j][1] = known[starts[j]][1]
           /\ metrics.reported[j][2] = Lasted(j) \/ (metrics.reported[j][2] = IntMax /\ Lasted(j) > IntMax - TicksPerSecond)

\* A client that wants the lock ends, unless the daemon has kept it: its write has fallen short and it waits for
\* the next signal with the lock.
LockIsLeft == metrics.lock = "daemon" /\ metrics.daemon = "idle" /\ metrics.shortWrites > 0
ClientsEnd == \A c \in Clients : (metrics.client[c] = "lock") ~> (metrics.client[c] = "done" \/ LockIsLeft)

\* What was measured is reported, and stays in the file until Chrome has read it.
MetricsArrive == NothingTruncatedUnread /\ ReportsEveryState
===============================================================================
