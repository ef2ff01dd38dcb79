--------------------------- MODULE MementoUpdater ---------------------------
(***************************************************************************)
(* memento_softwareupdate: memento_updater.sh as the loop of               *)
(* software_update.sh and a user run it, with ping_omaha.sh.  A run goes   *)
(* from command to command; other runs, interrupts, kills and power        *)
(* failures come in between.  /tmp, with the lock, the completed file, the *)
(* checksum and the mount point, is gone after a power failure.            *)
(***************************************************************************)
EXTENDS Integers, FiniteSets

CONSTANTS UpdaterRuns,   \* those that may run the script at a time
          MaxFaults      \* bound on interrupts, kills and power failures

\* A lock file holds the process id of a run; "dead" stands for one that is gone.
ASSUME UpdaterAssumption == UpdaterRuns \cap {"none", "dead"} = {} /\ MaxFaults \in Nat

VARIABLE mem

\* The partitions of the stick; what one holds: an image that is ready to boot, one postinst has not run
\* on, another image than the one offered, or part of one.
Partitions == {1, 2}
UpdaterModes == {"omaha", "forced"}   \* a URL of the command line is like -f

\* LOCAL_DEV is the partition that was booted, INSTALL_DEV the other one.
InstallDev(m) == 3 - m.local

UpdaterInit ==
  mem = [lock |-> "none", completed |-> FALSE, checksum |-> "none", mounted |-> FALSE,
         active |-> 1, local |-> 1, content |-> [p \in Partitions |-> "ready"],
         pc |-> [r \in UpdaterRuns |-> "idle"], mode |-> [r \in UpdaterRuns |-> "omaha"],
         codes |-> [r \in UpdaterRuns |-> FALSE], sum |-> [r \in UpdaterRuns |-> "none"],
         faults |-> 0, interfered |-> FALSE]

\* Runs between taking the lock and the end of the trap.
Holding == {"ask", "unmount", "start", "download", "compare", "version", "postinst", "mbr", "touch"}
Running(m) == {r \in UpdaterRuns : m.pc[r] \in Holding}

\* A run goes on with another command, or ends, and its variables with it.
GoesTo(r, m, pc) ==
  mem' = IF pc = "idle" THEN [m EXCEPT !.pc[r] = pc, !.mode[r] = "omaha", !.codes[r] = FALSE]
         ELSE [m EXCEPT !.pc[r] = pc]

-----------------------------------------------------------------------------
\* Mutant: a lock is a lock.
StartBehindLock(r) ==
  /\ mem.pc[r] = "idle" /\ mem.content[mem.local] = "ready"
  /\ \E mode \in UpdaterModes : GoesTo(r, [mem EXCEPT !.mode[r] = mode], "check")

\* A lock whose process is dead is taken note of, and removed a command later.
StartUpdater(r) ==
  /\ mem.pc[r] = "idle" /\ mem.content[mem.local] = "ready"
  /\ \E mode \in UpdaterModes :
       GoesTo(r, [mem EXCEPT !.mode[r] = mode], IF mem.lock = "dead" THEN "stale" ELSE "check")

RemoveStaleLock(r) == mem.pc[r] = "stale" /\ GoesTo(r, [mem EXCEPT !.lock = "none"], "check")

CheckCompleted(r) == mem.pc[r] = "check" /\ GoesTo(r, mem, IF mem.completed THEN "idle" ELSE "acquire")

\* Mutant: the lock file is overwritten.
AcquireClobbers(r) ==
  /\ mem.pc[r] = "acquire"
  /\ GoesTo(r, [mem EXCEPT !.lock = r, !.interfered = @ \/ mem.active # mem.local \/ Running(mem) # {}], "ask")

\* noclobber makes the test and the creation one step.  History: whether a run takes the lock when
\* the MBR has been updated already or while another run goes on.
AcquireLock(r) ==
  /\ mem.pc[r] = "acquire"
  /\ IF mem.lock # "none" THEN GoesTo(r, mem, "idle")
     ELSE GoesTo(r, [mem EXCEPT !.lock = r, !.interfered = @ \/ mem.active # mem.local \/ Running(mem) # {}], "ask")

\* What ping_omaha.sh says, or the URL of the command line; updates may be disabled, and the
\* devices no pair of partitions.
PingOmaha(r) == mem.pc[r] = "ask" /\ \E found \in BOOLEAN : GoesTo(r, mem, IF found THEN "unmount" ELSE "exit")

UnmountInstallDev(r) ==
  /\ mem.pc[r] = "unmount"
  /\ \/ GoesTo(r, [mem EXCEPT !.mounted = FALSE], "start")
     \/ mem.mounted /\ GoesTo(r, mem, "exit")

\* The pipeline starts: openssl's redirection empties the checksum's file, and gzip writes.
StartDownload(r) ==
  /\ mem.pc[r] = "start"
  /\ GoesTo(r, [mem EXCEPT !.checksum = "empty", !.content[InstallDev(mem)] = "partial"], "download")

\* The pipeline ends, with the codes of wget, tee and gzip; nobody waits for openssl, which still has to
\* write the checksum.
FinishDownload(r) ==
  /\ mem.pc[r] = "download"
  /\ \E got \in {[content |-> "image", codes |-> TRUE, sum |-> "right"],
                 [content |-> "other", codes |-> TRUE, sum |-> "wrong"],
                 [content |-> "partial", codes |-> FALSE, sum |-> "wrong"],
                 [content |-> "partial", codes |-> FALSE, sum |-> "right"]} :
       GoesTo(r, [mem EXCEPT !.content[InstallDev(mem)] = got.content, !.codes[r] = got.codes,
                             !.sum[r] = got.sum], "compare")

ChecksumWritten(r) ==
  /\ mem.sum[r] # "none"
  /\ mem' = [mem EXCEPT !.checksum = mem.sum[r], !.sum[r] = "none"]

\* Mutant: only the return codes are looked at.
CompareCodesOnly(r) ==
  /\ mem.pc[r] = "compare"
  /\ LET read == [mem EXCEPT !.checksum = "none", !.sum[r] = "none", !.codes[r] = FALSE]
     IN  IF mem.codes[r] THEN GoesTo(r, read, "version")
         ELSE GoesTo(r, [read EXCEPT !.content[InstallDev(mem)] = "zeroed"], "exit")

\* The checksum is read, empty if openssl has not come to write it, and its file removed; what
\* openssl writes afterwards is lost.
CompareChecksum(r) ==
  /\ mem.pc[r] = "compare"
  /\ LET read == [mem EXCEPT !.checksum = "none", !.sum[r] = "none", !.codes[r] = FALSE]
     IN  IF mem.checksum = "right" /\ mem.codes[r] THEN GoesTo(r, read, "version")
         ELSE GoesTo(r, [read EXCEPT !.content[InstallDev(mem)] = "zeroed"], "exit")

\* version_number_greater_than() of this version and the new one.  APP_VERSION is empty for a URL of the
\* command line, and counts as 0.
CheckVersion(r) ==
  /\ mem.pc[r] = "version"
  /\ \E version \in {"none", "older", "newer"} :
       IF version = "none" \/ (version = "older" /\ mem.mode[r] = "omaha")
       THEN \E unmounted \in BOOLEAN : GoesTo(r, [mem EXCEPT !.mounted = ~unmounted], "exit")
       ELSE GoesTo(r, [mem EXCEPT !.mounted = TRUE], "postinst")

\* postinst of the new image; what it makes of half an image is not ready to boot.
RunPostinst(r) ==
  /\ mem.pc[r] = "postinst"
  /\ \E success, unmounted \in BOOLEAN :
       GoesTo(r, [mem EXCEPT !.mounted = ~unmounted,
                             !.content[InstallDev(mem)] = IF success /\ @ = "image" THEN "ready" ELSE @],
              IF success THEN "mbr" ELSE "exit")

\* sync, and sfdisk.  abort_update_if_cmd_failed looks at the code of cat, so a failure goes unnoticed.
UpdateMbr(r) ==
  /\ mem.pc[r] = "mbr"
  /\ \E success \in BOOLEAN :
       GoesTo(r, [mem EXCEPT !.active = IF success THEN InstallDev(mem) ELSE @], "touch")

MarkCompleted(r) == mem.pc[r] = "touch" /\ GoesTo(r, [mem EXCEPT !.completed = TRUE], "exit")

\* The trap: the lock file is removed, whoever's it is.  After an interrupt "exit" within the trap
\* makes it run a second time.
RunTrap(r) ==
  /\ mem.pc[r] \in {"exit", "interrupted"}
  /\ GoesTo(r, [mem EXCEPT !.lock = "none"], IF mem.pc[r] = "interrupted" THEN "exit" ELSE "idle")

UpdaterStep(r) ==
  \/ RemoveStaleLock(r) \/ CheckCompleted(r) \/ AcquireLock(r) \/ PingOmaha(r) \/ UnmountInstallDev(r)
  \/ StartDownload(r) \/ FinishDownload(r) \/ CompareChecksum(r) \/ CheckVersion(r) \/ RunPostinst(r)
  \/ UpdateMbr(r) \/ MarkCompleted(r) \/ RunTrap(r)

-----------------------------------------------------------------------------
\* An interrupt or a kill reaches the script and what it runs; only the first runs the trap, and one that
\* comes while the trap runs makes it run again.
InterruptUpdater(r) ==
  /\ mem.faults < MaxFaults /\ mem.pc[r] # "idle"
  /\ GoesTo(r, [mem EXCEPT !.faults = @ + 1, !.sum[r] = "none"],
            IF mem.pc[r] \in Holding THEN "interrupted"
            ELSE IF mem.pc[r] \in {"exit", "interrupted"} THEN mem.pc[r] ELSE "idle")

KillUpdater(r) ==
  /\ mem.faults < MaxFaults /\ mem.pc[r] # "idle"
  /\ GoesTo(r, [mem EXCEPT !.faults = @ + 1, !.sum[r] = "none",
                           !.lock = IF @ = r THEN "dead" ELSE @], "idle")

PowerFailure ==
  /\ mem.faults < MaxFaults
  /\ mem' = [mem EXCEPT !.faults = @ + 1, !.lock = "none", !.completed = FALSE, !.checksum = "none",
                        !.mounted = FALSE, !.local = mem.active,
                        !.pc = [r \in UpdaterRuns |-> "idle"], !.sum = [r \in UpdaterRuns |-> "none"],
                        !.mode = [r \in UpdaterRuns |-> "omaha"], !.codes = [r \in UpdaterRuns |-> FALSE]]

\* software_update.sh runs the script again and again, and a command comes to an end.
LoopRuns == \E r \in UpdaterRuns : r = "loop" /\ (StartUpdater(r) \/ UpdaterStep(r))

UpdaterNext ==
  \/ \E r \in UpdaterRuns :
       \/ StartUpdater(r) \/ UpdaterStep(r) \/ ChecksumWritten(r) \/ InterruptUpdater(r) \/ KillUpdater(r)
  \/ PowerFailure

-----------------------------------------------------------------------------
\* "Check that this script doesn't run concurrently": no two runs get past the lock, as long as
\* nobody is interrupted, killed or without power.
RunsAlone == mem.faults = 0 => Cardinality(Running(mem)) <= 1

\* "Care is taken to ensure that when this exits the USB stick is configured to boot into the same
\* partition as before or into the new partition": whatever fails or is cut short, and also
\* with openssl late, the partition that boots next holds an image that is ready, unless a run
\* took the lock during another one or after one that updated the MBR.
BootsReadyAlone == ~mem.interfered => mem.content[mem.active] = "ready"

\* A lock left behind by a killed run does not keep the loop from updating: it goes away.
StaleLockGoes == mem.lock = "dead" ~> mem.lock # "dead"

\* Updaters take turns, and none marks a partition bootable that it did not fill.
UpdatesInTurn == RunsAlone /\ BootsReadyAlone

=============================================================================
