------------------------------ MODULE BootSwitch ------------------------------
(***************************************************************************)
(* The end of an update, in update_engine: OmahaResponseHandlerAction      *)
(* picks the other partition of the pair, PostinstallRunnerAction runs the *)
(* script of the new system, SetBootableFlagAction moves the bootable flag *)
(* of the master boot record; the Actions are bonded as in the integration *)
(* test.  Neither the record nor the script's files are synced: what is    *)
(* written is in the page cache until the kernel writes it back, and the   *)
(* power may fail at any time, after which the flagged partition boots.    *)
(***************************************************************************)
EXTENDS Integers, Sequences, FiniteSets

CONSTANTS
  BootNumbers,    \* digits that end the name of the root device at first
  MaxPowerFailures, MaxUpdates

VARIABLE switch

\* The digits of a name are digits.
ASSUME SwitchAssumption ==
  /\ BootNumbers \subseteq Seq(0..9)
  /\ MaxPowerFailures \in Nat /\ MaxUpdates \in Nat

\* A device is the digits and the letter before them, as ASCII codes: sda12 is <<97, 49, 50>>.
Letter == 97
Digit(n) == 48 + n
Device(number) == <<Letter>> \o [i \in 1..Len(number) |-> Digit(number[i])]
IsDigit(c) == c >= Digit(0) /\ c <= Digit(9)
Entries == 1..4
Primary(p) == Device(<<p>>)
Devices == {Device(n) : n \in BootNumbers} \cup {Primary(p) : p \in Entries}

\* The record: the flags of the four entries, by the bytes that hold them.
Flagging(p) == [q \in Entries |-> q = p]

\* cache: what a read returns; disk: what a power failure leaves.
Stored(flags, content) == [flags |-> flags, content |-> content]

SwitchStart(number, p, signature) ==
  LET stored == Stored(Flagging(p), [d \in Devices |-> IF d \in {Device(number), Primary(p)} THEN "ready" ELSE "empty"])
  IN  [pc |-> "handler", root |-> Device(number), install |-> <<>>, cache |-> stored, disk |-> stored,
       signature |-> signature, mbr |-> <<>>, written |-> 0, mounted |-> FALSE, setAside |-> {}, failures |-> 0,
       updates |-> 0]

\* A system on a primary partition was booted by its flag.
SwitchInit ==
  \E number \in BootNumbers, signature \in BOOLEAN :
    switch = SwitchStart(number, IF Len(number) = 1 /\ number[1] \in Entries THEN number[1] ELSE 1, signature)

Failed(s) == [s EXCEPT !.pc = "failed"]

-----------------------------------------------------------------------------
\* The last character alone is paired; '9' becomes ':' and '0' becomes '/'.
GetInstallDev(boot) ==
  LET last == boot[Len(boot)]
  IN  IF ~IsDigit(last) THEN <<>>
      ELSE [boot EXCEPT ![Len(boot)] = IF last % 2 = 1 THEN last + 1 ELSE last - 1]

\* The copy and the download, of modules FilesystemCopier and DownloadAction, overwrite the install partition
\* and leave it durable, without its script run.
InstallSystem ==
  /\ switch.pc = "handler" /\ switch.updates < MaxUpdates
  /\ LET install == GetInstallDev(switch.root)
         s == [switch EXCEPT !.install = install, !.updates = @ + 1, !.pc = "mount"]
     IN  switch' = IF install = <<>> THEN Failed(switch)
                   ELSE IF install \notin Devices THEN s
                   ELSE [s EXCEPT !.cache.content[install] = "installed", !.disk.content[install] = "installed"]

\* PostinstallRunnerAction::PerformAction(): mount() of a name without a partition, or of a mounted one, fails.
MountInstalled ==
  /\ switch.pc = "mount"
  /\ \/ switch' = Failed(switch)
     \/ switch.install \in Devices /\ ~switch.mounted /\ switch' = [switch EXCEPT !.pc = "script", !.mounted = TRUE]

\* Mutant: the result of the script is not looked at.
RunScriptOnly ==
  /\ switch.pc = "script"
  /\ \E success, unmounts \in BOOLEAN :
       LET content == IF success THEN "ready" ELSE "unfinished"
       IN  switch' = [switch EXCEPT !.cache.content[switch.install] = content,
                                    !.disk.content[switch.install] = IF unmounts THEN content ELSE @,
                                    !.mounted = ~unmounts,
                                    !.setAside = IF unmounts THEN @ ELSE @ \cup {"unmounted"},
                                    !.pc = "read"]

\* system() of the script; then umount(), which writes everything back and whose failure is not fatal.
RunPostinstall ==
  /\ switch.pc = "script"
  /\ \E success, unmounts \in BOOLEAN :
       LET content == IF success THEN "ready" ELSE "unfinished"
       IN  switch' = [switch EXCEPT !.cache.content[switch.install] = content,
                                    !.disk.content[switch.install] = IF unmounts THEN content ELSE @,
                                    !.mounted = ~unmounts,
                                    !.setAside = IF unmounts THEN @ ELSE @ \cup {"unmounted"},
                                    !.pc = IF success THEN "read" ELSE "failed"]

\* SetBootableFlagAction::PerformAction() up to the new flags: the name must end in one digit from 1 to 4.
BadDevice(device) ==
  \/ Len(device) < 2
  \/ device[Len(device)] < Digit(1) \/ device[Len(device)] > Digit(4)
  \/ IsDigit(device[Len(device) - 1])

\* ReadMbr() may fail; the signature is of the disk.
ReadMbr ==
  /\ switch.pc = "read"
  /\ switch' = IF BadDevice(switch.install) \/ ~switch.signature THEN Failed(switch)
               ELSE [switch EXCEPT !.mbr = Flagging(switch.install[Len(switch.install)] - Digit(0)),
                                   !.written = 0, !.pc = "write"]
ReadMbrFails == switch.pc = "read" /\ switch' = Failed(switch)

\* WriteMbr(): write() takes some of the entries that are left, all of them as a rule, or fails.
WriteMbr ==
  /\ switch.pc = "write"
  /\ \E n \in (switch.written + 1)..4 :
       switch' = [switch EXCEPT !.cache.flags = [q \in Entries |-> IF q <= n THEN switch.mbr[q] ELSE @[q]],
                                !.written = n, !.pc = IF n = 4 THEN "switched" ELSE "write"]
WriteMbrFails ==
  /\ switch.pc = "write"
  /\ switch' = [Failed(switch) EXCEPT !.setAside = IF switch.written = 0 THEN @ ELSE @ \cup {"torn"}]

-----------------------------------------------------------------------------
\* The kernel writes back the sector of the record, or a partition, when it likes: between two short writes too.
Flagged(flags) == {p \in Entries : flags[p]}
WriteBackMbr ==
  /\ switch.cache.flags # switch.disk.flags
  /\ switch' = [switch EXCEPT !.disk.flags = switch.cache.flags,
                              !.setAside = IF Cardinality(Flagged(switch.cache.flags)) = 1 THEN @ ELSE @ \cup {"torn"}]
WriteBackPartition ==
  \E d \in Devices :
    /\ switch.cache.content[d] # switch.disk.content[d]
    /\ switch' = [switch EXCEPT !.disk.content[d] = switch.cache.content[d]]

\* The flagged partition boots; a system on another one is the one that the first partition loads.
Reboot(s) ==
  LET p == CHOOSE q \in Entries : Flagged(s.disk.flags) = {q}
  IN  IF Cardinality(Flagged(s.disk.flags)) # 1 THEN [s EXCEPT !.pc = "dead", !.cache = s.disk]
      ELSE [s EXCEPT !.pc = "handler", !.cache = s.disk, !.mounted = FALSE, !.written = 0, !.mbr = <<>>,
                     !.install = <<>>, !.root = IF s.root \in {Primary(q) : q \in Entries} THEN Primary(p) ELSE @]
PowerFails ==
  /\ switch.failures < MaxPowerFailures /\ switch.pc # "dead"
  /\ switch' = Reboot([switch EXCEPT !.failures = @ + 1])

\* An orderly restart writes everything back.
Restart ==
  /\ switch.pc \in {"switched", "failed"} /\ switch.updates < MaxUpdates
  /\ switch' = Reboot([switch EXCEPT !.disk = switch.cache,
       !.setAside = IF Cardinality(Flagged(switch.cache.flags)) = 1 THEN @ ELSE @ \cup {"torn"}])

\* UpdateAttempter::ProcessingDone() tries again after a failure; the program may also be run again without a
\* restart, and finds the partition of the last update no different from any other.
RunAgain ==
  /\ switch.pc \in {"switched", "failed"} /\ switch.updates < MaxUpdates
  /\ switch' = [switch EXCEPT !.pc = "handler",
                              !.setAside = IF switch.pc = "switched" THEN @ \cup {"rerun"} ELSE @]

SwitchNext ==
  \/ InstallSystem \/ MountInstalled \/ RunPostinstall \/ ReadMbr \/ ReadMbrFails \/ WriteMbr \/ WriteMbrFails
  \/ WriteBackMbr \/ WriteBackPartition \/ PowerFails \/ Restart \/ RunAgain

-----------------------------------------------------------------------------
\* Whenever the power fails, one partition boots and its system is complete: not the one that an update is
\* overwriting, not one whose script has not run or not reached the disk.  Three things the code does not handle
\* are set aside: a short write() of the record, if the rest fails or the power fails before it, the umount() whose failure
\* is "non-fatal", and an update that is run on top of another one without a restart.
BootsCompleteSystem ==
  \/ switch.setAside # {}
  \/ \E p \in Entries : Flagged(switch.disk.flags) = {p} /\ switch.disk.content[Primary(p)] = "ready"
===============================================================================
