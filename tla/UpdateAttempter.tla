--------------------------- MODULE UpdateAttempter ---------------------------
(***************************************************************************)
(* update_engine/main.cc: UpdateAttempter, the owner and delegate of the   *)
(* ActionProcessor, with the Actions it strings together and the pipes     *)
(* between them.  Every step of this module that concerns the processor is *)
(* a step of ActionProcessor conjoined with what the step does to the      *)
(* pipes, the partitions and the main loop.  What an Action does between   *)
(* PerformAction() and ActionComplete() is in the module of that Action;   *)
(* here it is one step with the outcomes that module allows, a failed CHECK *)
(* that ends the process included.                                         *)
(***************************************************************************)
EXTENDS Integers, Sequences

CONSTANTS
  NoAction,     \* a NULL current_action_
  Boot,         \* the partition the system runs from
  Install       \* the partition GetInstallDev() pairs it with

ASSUME PartitionAssumption == Boot # Install

Kinds == <<"prep", "check", "handler", "copier", "download", "postinst", "bootable">>

\* Update(false) and then, at most once, Update(true): new Actions each time.
Attempts == {1, 2}
Actions == {<<Kinds[i], n>> : i \in 1..Len(Kinds), n \in Attempts}
Async == {<<k, n>> : k \in {"check", "copier", "download"}, n \in Attempts}

ASSUME ObjectAssumption == NoAction \notin Actions

VARIABLES
  actions, current, owner, delegate, ctl, life, owed, allOk, verdict,
             \* the processor, as in ActionProcessor
  attempt,   \* calls of Update()
  enqueued,  \* how many Actions the running Update() has enqueued
  full,      \* full_update_
  pipe,      \* what is in the pipe that leads into each kind of Action
  noUpdate,  \* response_handler_action_->GotNoUpdateResponse()
  loop,      \* the main loop: "running" or "quit"
  disk,      \* what the partitions hold
  offered    \* history: the update the server described in this attempt

procVars == <<actions, current, owner, delegate, ctl, life, owed, allOk, verdict>>
ownVars == <<attempt, enqueued, full, pipe, noUpdate, loop, disk, offered>>
attempterVars == <<procVars, ownVars>>

Processor == INSTANCE ActionProcessor WITH Sync <- Actions \ Async

\* BondActions(): these Actions have an input pipe.  The bonds around the
\* install Action are commented out, "re-add".
Bonded == {"check", "handler", "copier", "download", "bootable"}

\* A new pipe holds a default-constructed object: an UpdateCheckResponse without
\* an update, an InstallPlan that is not full and names no device.
DefaultObjects == [k \in Bonded |-> "default"]

Init ==
  /\ Processor!Init
  /\ attempt = 0 /\ enqueued = 0 /\ full = FALSE
  /\ pipe = DefaultObjects
  /\ noUpdate = FALSE
  /\ loop = "running"
  /\ disk = [p \in {Boot, Install} |-> IF p = Boot THEN "system" ELSE "old"]
  /\ offered = "nothing"

-----------------------------------------------------------------------------
(* Update().                                                               *)

\* Between its first and its last statement Update() only enqueues.
Updating == attempt > 0 /\ enqueued < Len(Kinds)

\* Mutant: ProcessingDone() lets Update() reuse the pipes of the last attempt.
KeepObjects == pipe

\* Update() makes new Actions and bonds them with new pipes.
NewObjects == DefaultObjects

BeginUpdate(force) ==
  /\ attempt' = attempt + 1
  /\ enqueued' = 0
  /\ full' = force
  /\ pipe' = NewObjects
  /\ noUpdate' = FALSE
  /\ offered' = "nothing"

\* main() schedules UpdateInMainLoop(), which calls Update(false).
UpdateInMainLoop ==
  /\ loop = "running" /\ attempt = 0
  /\ Processor!SetDelegate(TRUE)
  /\ BeginUpdate(FALSE)
  /\ UNCHANGED <<loop, disk>>

\* Mutant: the retry enqueues the Actions of the first attempt again.
UpdateEnqueuesOld ==
  /\ Updating
  /\ Processor!EnqueueAction(<<Kinds[enqueued + 1], 1>>)
  /\ enqueued' = enqueued + 1
  /\ UNCHANGED <<attempt, full, pipe, noUpdate, loop, disk, offered>>

\* The loop in Update() over the new Actions.
UpdateEnqueues ==
  /\ Updating
  /\ Processor!EnqueueAction(<<Kinds[enqueued + 1], attempt>>)
  /\ enqueued' = enqueued + 1
  /\ UNCHANGED <<attempt, full, pipe, noUpdate, loop, disk, offered>>

\* The last statement of Update().
UpdateStarts ==
  /\ attempt > 0 /\ ~Updating
  /\ Processor!StartProcessing
  /\ UNCHANGED ownVars

-----------------------------------------------------------------------------
(* The Actions.                                                            *)

Performing(kind) == current = <<kind, attempt>> /\ life = "alive"

\* An Action whose work goes on in the main loop or in a thread.
PerformReturns ==
  /\ Processor!PerformReturns
  /\ UNCHANGED ownVars

\* OmahaRequestPrepAction: the machine id may be unavailable.
RequestPrep(success) ==
  /\ Performing("prep")
  /\ Processor!ActionComplete(success)
  /\ pipe' = IF success THEN [pipe EXCEPT !["check"] = "params"] ELSE pipe
  /\ UNCHANGED <<attempt, enqueued, full, noUpdate, loop, disk, offered>>

\* UpdateCheckAction: a response that cannot be parsed, or one that says whether
\* there is an update.
UpdateCheck(response) ==
  /\ Performing("check")
  /\ Processor!ActionComplete(response # "garbage")
  /\ pipe' = IF response = "garbage" THEN pipe ELSE [pipe EXCEPT !["handler"] = response]
  /\ offered' = IF response \in {"delta", "full"} THEN response ELSE offered
  /\ UNCHANGED <<attempt, enqueued, full, noUpdate, loop, disk>>

\* Mutant: "no update" is reported as a success, so that the queue goes on.
HandledAnyResponse(known) == TRUE

\* OmahaResponseHandlerAction succeeds with an update and a usable boot device.
Handled(known) == pipe["handler"] \in {"delta", "full"} /\ known

\* OmahaResponseHandlerAction: is_full_update follows the name of the image.
ResponseHandler(known) ==
  /\ Performing("handler")
  /\ Processor!ActionComplete(Handled(known))
  /\ noUpdate' = (pipe["handler"] \notin {"delta", "full"})
  /\ pipe' = IF Handled(known) THEN [pipe EXCEPT !["copier"] = pipe["handler"]] ELSE pipe
  /\ UNCHANGED <<attempt, enqueued, full, loop, disk, offered>>

\* A CHECK on what libcurl returned fails while the request is on its way.
UpdateCheckAborts ==
  /\ Performing("check")
  /\ Processor!ActionAborts
  /\ UNCHANGED ownVars

\* The install partition holds one of these afterwards.
Leaves(contents) == disk' \in {[disk EXCEPT ![Install] = c] : c \in contents}

\* Mutant: a full update's plan is passed on as well.
PassedOnAlways == [pipe EXCEPT !["download"] = pipe["copier"]]

\* SetOutputObject(install_plan_), which PerformAction() does not reach for a full update.
PassedOn == IF pipe["copier"] = "full" THEN pipe ELSE [pipe EXCEPT !["download"] = pipe["copier"]]

\* FilesystemCopierAction: nothing for a full update; for a delta update a copy, unless the
\* marker says there is one.  The helper thread passes the plan on whether or not the copy
\* succeeded.
FilesystemCopier(copied) ==
  /\ Performing("copier")
  /\ IF pipe["copier"] = "full"
     THEN /\ Processor!ActionComplete(TRUE)
          /\ pipe' = PassedOn
          /\ UNCHANGED disk
     ELSE /\ Processor!ActionComplete(copied)
          /\ pipe' \in IF copied THEN {PassedOn} ELSE {pipe, PassedOn}
          /\ Leaves({disk[Install], IF copied THEN "copy" ELSE "partial"})
  /\ UNCHANGED <<attempt, enqueued, full, noUpdate, loop, offered>>

\* A CHECK of the copier: Unmount() of what was not mounted, after a failed mkfs or mount; a
\* file that changes its size; CollectThread() on what could not be unmounted, with a copy that
\* may be complete.
FilesystemCopierAborts ==
  /\ Performing("copier")
  /\ pipe["copier"] # "full"
  /\ Processor!ActionAborts
  /\ pipe' \in {pipe, PassedOn}
  /\ Leaves({disk[Install], "partial", "copy"})
  /\ UNCHANGED <<attempt, enqueued, full, noUpdate, loop, offered>>

\* DownloadAction: the default plan names no output, which cannot be opened;
\* otherwise the output is overwritten and the hash decides, although behind the
\* decompressor a failed write goes unnoticed.  There is no output pipe.
Download(authentic) ==
  /\ Performing("download")
  /\ Processor!ActionComplete(pipe["download"] # "default" /\ authentic)
  /\ IF pipe["download"] = "default" THEN UNCHANGED disk
     ELSE Leaves(IF ~authentic THEN {disk[Install], "partial"}
                 ELSE IF pipe["download"] = "full" THEN {"image", "partial"} ELSE {"image"})
  /\ UNCHANGED <<attempt, enqueued, full, pipe, noUpdate, loop, offered>>

\* A CHECK of the download, once the output is open: it cannot be closed, libcurl fails, or
\* the decompressor stops before its input does.
DownloadAborts ==
  /\ Performing("download")
  /\ pipe["download"] # "default"
  /\ Processor!ActionAborts
  /\ Leaves({disk[Install], "partial", "image"})
  /\ UNCHANGED <<attempt, enqueued, full, pipe, noUpdate, loop, offered>>

\* Mutant: without an input object PerformAction() just returns.
PostinstallReturns ==
  /\ Performing("postinst")
  /\ "postinst" \notin Bonded
  /\ ctl' = "loop"
  /\ UNCHANGED <<actions, current, owner, delegate, life, owed, allOk, verdict, ownVars>>

\* PostinstallRunnerAction: CHECK(HasInputObject()).
Postinstall ==
  /\ Performing("postinst")
  /\ "postinst" \notin Bonded
  /\ Processor!ActionAborts
  /\ UNCHANGED ownVars

-----------------------------------------------------------------------------
(* ProcessingDone().                                                       *)

\* Mutant: the first failure is final.
RetriesNever == FALSE

\* A failed attempt is repeated as a full update, once.
Retries == verdict = "failure" /\ ~noUpdate /\ ~full

InProcessingDone ==
  /\ life = "alive" /\ ctl = "delegate"
  /\ loop = "running"
  /\ ~Updating /\ actions = <<>> /\ current = NoAction

\* Update(true), still inside ProcessingDone().
ProcessingDoneRetries ==
  /\ InProcessingDone
  /\ Retries
  /\ BeginUpdate(TRUE)
  /\ UNCHANGED <<procVars, loop, disk>>

\* Mutant: a failed attempt leaves the main loop running.
QuitOnlyOnSuccess ==
  /\ InProcessingDone
  /\ verdict = "success" \/ noUpdate
  /\ Processor!DelegateReturns
  /\ loop' = "quit"
  /\ UNCHANGED <<attempt, enqueued, full, pipe, noUpdate, disk, offered>>

\* g_main_loop_quit() and return.
ProcessingDoneQuits ==
  /\ InProcessingDone
  /\ ~Retries
  /\ Processor!DelegateReturns
  /\ loop' = "quit"
  /\ UNCHANGED <<attempt, enqueued, full, pipe, noUpdate, disk, offered>>

Next ==
  \/ UpdateInMainLoop
  \/ UpdateEnqueues
  \/ UpdateStarts
  \/ PerformReturns
  \/ \E success \in BOOLEAN : RequestPrep(success)
  \/ \E response \in {"garbage", "noupdate", "delta", "full"} : UpdateCheck(response)
  \/ UpdateCheckAborts
  \/ \E known \in BOOLEAN : ResponseHandler(known)
  \/ \E copied \in BOOLEAN : FilesystemCopier(copied)
  \/ FilesystemCopierAborts
  \/ \E authentic \in BOOLEAN : Download(authentic)
  \/ DownloadAborts
  \/ Postinstall
  \/ ProcessingDoneRetries
  \/ ProcessingDoneQuits

Spec == Init /\ [][Next]_attempterVars

\* The main thread keeps running, and every Action reports in the end: the
\* fetcher's and the copier's modules have the conditions.
FairSpec == Spec /\ WF_attempterVars(Next)

-----------------------------------------------------------------------------
(* Properties.                                                             *)

TypeOK ==
  /\ attempt \in {0} \cup Attempts
  /\ enqueued \in 0..Len(Kinds)
  /\ {full, noUpdate} \subseteq BOOLEAN
  /\ pipe \in [Bonded -> {"default", "params", "garbage", "noupdate", "delta", "full"}]
  /\ loop \in {"running", "quit"}
  /\ disk \in [{Boot, Install} -> {"system", "old", "copy", "partial", "image"}]
  /\ offered \in {"nothing", "delta", "full"}

\* UpdateAttempter and its Actions use the processor as ActionProcessor allows,
\* also when Update() runs again inside ProcessingDone(): every synchronous
\* Action reports before it returns, and what is proved there holds here.
UsesProcessorCorrectly == Processor!Spec

\* The retry inside ProcessingDone() runs into none of the processor's CHECKs: if the process
\* aborts, it is in a CHECK of an Action of this attempt, and after the response was handled
\* only for a delta update.  A full update always comes to a report: the copier has no plan for
\* the download, which therefore opens nothing and never hands over to Postinstall.
AbortsInDeltaAction ==
  life = "aborted" =>
    \/ current = <<"check", attempt>>
    \/ offered = "delta" /\ current \in {<<k, attempt>> : k \in {"copier", "download", "postinst"}}

\* Without an update, and before the response was understood, no attempt touches
\* the install partition: what it holds changed only for an update on offer, or
\* in the attempt before.
NoUpdateLeavesDiskAlone ==
  [][disk' # disk => (offered # "nothing" /\ ~noUpdate)]_attempterVars

\* UpdateAttempter gives up only after a full update was tried or when there is
\* no update, and then nothing is left queued or running.
QuitsWithReason ==
  loop = "quit" =>
    /\ current = NoAction /\ actions = <<>>
    /\ full \/ noUpdate \/ verdict = "success"

\* A plan is acted on in the attempt in which the server described it: the plan
\* an Action finds in its pipe is the one on offer, also after a retry.
PlanIsCurrent ==
  life = "alive" =>
    \A k \in {"handler", "copier", "download"} :
      pipe[k] \in {"default", "noupdate", offered}

\* Both attempts, the second started from within the first one's last callback, keep
\* their objects apart and end for a reason.
AttemptsStayApart == TypeOK /\ AbortsInDeltaAction /\ QuitsWithReason /\ PlanIsCurrent

\* The two parties an attempt must not harm, the processor and the install partition.
HarmsNothing == UsesProcessorCorrectly /\ NoUpdateLeavesDiskAlone

\* The process comes to an end: the main loop quits, or a CHECK fails.
UpdateComesToAnEnd == <>(loop = "quit" \/ life = "aborted")

=============================================================================
