--------------------------- MODULE ActionProcessor ---------------------------
(***************************************************************************)
(* update_engine/action_processor.{h,cc} and the AbstractAction half of    *)
(* action.h: a queue of Actions run one after the other on the single glib *)
(* main-loop thread.                                                       *)
(*                                                                         *)
(* Control is explicit.  "loop" is the idle main loop, where a timer or    *)
(* descriptor callback may run; "perform" means that the PerformAction() of *)
(* the current Action is on the stack; "delegate" means that the           *)
(* delegate's ProcessingDone() is on the stack (UpdateAttempter enqueues   *)
(* and starts again from there).  A failed CHECK aborts the process.       *)
(***************************************************************************)
EXTENDS Integers, Sequences

CONSTANTS
  Actions,   \* the Action objects
  Sync,      \* those that always complete inside PerformAction()
  NoAction   \* a NULL current_action_

ASSUME SyncAssumption == Sync \subseteq Actions
ASSUME NoActionAssumption == NoAction \notin Actions

VARIABLES
  actions,   \* actions_, in the order in which they will be processed
  current,   \* current_action_
  owner,     \* owner[a]: a.processor_ is not NULL
  delegate,  \* delegate_ is not NULL
  ctl,       \* what is on the main thread's stack
  life,      \* "alive", "destroyed" (destructor ran) or "aborted" (a CHECK failed)
  owed,      \* history: batches started minus final notifications delivered
  allOk,     \* history: every completion since StartProcessing() was a success
  verdict    \* history: the last argument of ProcessingDone(), "none" before it

procVars == <<actions, current, owner, delegate, ctl, life, owed, allOk, verdict>>

InQueue(a) == \E i \in 1..Len(actions) : actions[i] = a

\* What the processor will run or is running.
Held(a) == InQueue(a) \/ current = a

IsRunning == current # NoAction

Notified == IF delegate THEN 1 ELSE 0

Init ==
  /\ actions = <<>>
  /\ current = NoAction
  /\ owner = [a \in Actions |-> FALSE]
  /\ delegate = FALSE
  /\ ctl = "loop"
  /\ life = "alive"
  /\ owed = 0
  /\ allOk = TRUE
  /\ verdict = "none"

-----------------------------------------------------------------------------
(* Operations called by the owner of the processor.                        *)

CallerRuns == life = "alive" /\ ctl \in {"loop", "delegate"}

\* set_delegate(); every caller does it while nothing is being processed.
SetDelegate(d) ==
  /\ CallerRuns /\ ctl = "loop"
  /\ ~IsRunning
  /\ delegate' = d
  /\ UNCHANGED <<actions, current, owner, ctl, life, owed, allOk, verdict>>

\* Mutant: EnqueueAction() pushes to the front of the queue.
EnqueueActionAtFront(a) ==
  /\ CallerRuns
  /\ ~Held(a)
  /\ actions' = <<a>> \o actions
  /\ owner' = [owner EXCEPT ![a] = TRUE]
  /\ life' = IF owner[a] THEN "aborted" ELSE "alive"
  /\ UNCHANGED <<current, delegate, ctl, owed, allOk, verdict>>

\* EnqueueAction(): push_back, then SetProcessor(this), whose CHECK(!processor_)
\* aborts when the Action still points at a processor.  Callers only pass an
\* Action that is neither queued nor running.
EnqueueAction(a) ==
  /\ CallerRuns
  /\ ~Held(a)
  /\ actions' = Append(actions, a)
  /\ owner' = [owner EXCEPT ![a] = TRUE]
  /\ life' = IF owner[a] THEN "aborted" ELSE "alive"
  /\ UNCHANGED <<current, delegate, ctl, owed, allOk, verdict>>

\* StartProcessing() on a non-empty queue; on an empty one it does nothing.
StartProcessing ==
  /\ CallerRuns
  /\ ~IsRunning
  /\ actions # <<>>
  /\ current' = Head(actions)
  /\ actions' = Tail(actions)
  /\ ctl' = "perform"
  /\ owed' = owed + Notified
  /\ allOk' = TRUE
  /\ verdict' = "none"
  /\ UNCHANGED <<owner, delegate, life>>

\* Mutant: StopProcessing() without the ProcessingStopped() call.
StopWithoutNotification ==
  /\ CallerRuns /\ ctl = "loop"
  /\ IsRunning
  /\ owner' = [owner EXCEPT ![current] = FALSE]
  /\ current' = NoAction
  /\ UNCHANGED <<actions, delegate, ctl, life, owed, allOk, verdict>>

\* Mutant: StopProcessing() that also clears actions_.
StopClearsQueue ==
  /\ CallerRuns /\ ctl = "loop"
  /\ IsRunning
  /\ owner' = [a \in Actions |-> owner[a] /\ ~Held(a)]
  /\ current' = NoAction
  /\ actions' = <<>>
  /\ owed' = owed - Notified
  /\ UNCHANGED <<delegate, ctl, life, allOk, verdict>>

\* StopProcessing(): TerminateProcessing() on the current Action, which is
\* dropped; the queue stays.  A synchronous Action CHECKs that this never
\* happens to it.
StopProcessing ==
  /\ CallerRuns /\ ctl = "loop"
  /\ IsRunning
  /\ IF current \in Sync
     THEN /\ life' = "aborted"
          /\ UNCHANGED <<current, owner, owed>>
     ELSE /\ owner' = [owner EXCEPT ![current] = FALSE]
          /\ current' = NoAction
          /\ owed' = owed - Notified
          /\ UNCHANGED life
  /\ UNCHANGED <<actions, delegate, ctl, allOk, verdict>>

\* ~ActionProcessor(): stop if running, then detach every queued Action.
Destroy ==
  /\ CallerRuns /\ ctl = "loop"
  /\ owner' = [a \in Actions |-> owner[a] /\ ~Held(a)]
  /\ owed' = IF IsRunning THEN owed - Notified ELSE owed
  /\ current' = NoAction
  /\ actions' = <<>>
  /\ life' = IF current \in Sync THEN "aborted" ELSE "destroyed"
  /\ UNCHANGED <<delegate, ctl, allOk, verdict>>

-----------------------------------------------------------------------------
(* Steps of the current Action and of the delegate.                        *)

\* Mutant: a PerformAction() with a return path that forgets ActionComplete().
PerformReturnsUnreported ==
  /\ life = "alive" /\ ctl = "perform"
  /\ ctl' = "loop"
  /\ UNCHANGED <<actions, current, owner, delegate, life, owed, allOk, verdict>>

\* PerformAction() of an asynchronous Action returns with work outstanding.
PerformReturns ==
  /\ life = "alive" /\ ctl = "perform"
  /\ current \notin Sync
  /\ ctl' = "loop"
  /\ UNCHANGED <<actions, current, owner, delegate, life, owed, allOk, verdict>>

\* The current Action may report: from inside PerformAction(), or later from a
\* main-loop callback if it is asynchronous.
MayComplete ==
  /\ life = "alive"
  /\ IsRunning
  /\ ctl = "perform" \/ (ctl = "loop" /\ current \notin Sync)

\* A CHECK of the current Action fails and ends the process.
ActionAborts ==
  /\ MayComplete
  /\ life' = "aborted"
  /\ UNCHANGED <<actions, current, owner, delegate, ctl, owed, allOk, verdict>>

\* Mutant: the queue is not cleared when an Action fails.
RemainingKeptOnFailure(success) == actions

\* actions_ after ActionComplete() has cleared it on failure.
Remaining(success) == IF success THEN actions ELSE <<>>

\* The tail of ActionComplete() once nothing is left: ProcessingDone().
FinishBatch(success) ==
  /\ current' = NoAction
  /\ actions' = <<>>
  /\ verdict' = IF success THEN "success" ELSE "failure"
  /\ owed' = owed - Notified
  /\ ctl' = IF delegate THEN "delegate" ELSE "loop"

\* Mutant: the next Action is started without pop_front().
PerformNextWithoutPop(rest) ==
  /\ current' = Head(rest)
  /\ actions' = rest
  /\ ctl' = "perform"
  /\ UNCHANGED <<verdict, owed>>

\* The tail of ActionComplete() otherwise: perform the next Action.
PerformNext(rest) ==
  /\ current' = Head(rest)
  /\ actions' = Tail(rest)
  /\ ctl' = "perform"
  /\ UNCHANGED <<verdict, owed>>

\* ActionComplete(): the finished Action is detached; the Actions cleared after
\* a failure keep their processor_ pointer.
ActionComplete(success) ==
  /\ MayComplete
  /\ owner' = [owner EXCEPT ![current] = FALSE]
  /\ allOk' = (allOk /\ success)
  /\ IF Remaining(success) = <<>>
     THEN FinishBatch(success)
     ELSE PerformNext(Remaining(success))
  /\ UNCHANGED <<delegate, life>>

\* ProcessingDone() returns to ActionComplete(), which returns to the loop.
DelegateReturns ==
  /\ life = "alive" /\ ctl = "delegate"
  /\ ctl' = "loop"
  /\ UNCHANGED <<actions, current, owner, delegate, life, owed, allOk, verdict>>

Next ==
  \/ \E d \in BOOLEAN : SetDelegate(d)
  \/ \E a \in Actions : EnqueueAction(a)
  \/ StartProcessing
  \/ StopProcessing
  \/ Destroy
  \/ PerformReturns
  \/ ActionAborts
  \/ \E success \in BOOLEAN : ActionComplete(success)
  \/ DelegateReturns

Spec == Init /\ [][Next]_procVars

\* action.h:79: an Action that was started must call ActionComplete(); a
\* PerformAction() or ProcessingDone() that was entered returns.
Fairness ==
  /\ WF_procVars(\E success \in BOOLEAN : ActionComplete(success))
  /\ WF_procVars(PerformReturns)
  /\ WF_procVars(DelegateReturns)

FairSpec == Spec /\ Fairness

-----------------------------------------------------------------------------
(* Properties.                                                             *)

TypeOK ==
  /\ actions \in Seq(Actions)
  /\ current \in Actions \cup {NoAction}
  /\ owner \in [Actions -> BOOLEAN]
  /\ delegate \in BOOLEAN
  /\ ctl \in {"loop", "perform", "delegate"}
  /\ life \in {"alive", "destroyed", "aborted"}
  /\ owed \in {0, 1}
  /\ allOk \in BOOLEAN
  /\ verdict \in {"none", "success", "failure"}

\* Every batch that was started owes its delegate exactly one final
\* notification, ProcessingDone() or ProcessingStopped(), and a batch that is
\* over owes none: StartProcessing(), StopProcessing(), ActionComplete() and the
\* destructor together never skip or repeat it.
OneOutcomePerBatch ==
  life # "aborted" => owed = (IF IsRunning /\ delegate THEN 1 ELSE 0)

\* action_processor.h:81, "success is true iff all actions completed
\* successfully": what ProcessingDone() reported agrees with every completion
\* of the batch, not only with the last one.
VerdictIsTruthful ==
  /\ verdict = "success" => allOk
  /\ verdict = "failure" => ~allOk

\* A queued or running Action points back at the processor and is held once, so
\* the CHECKs of SetProcessor(NULL) and of ActionComplete() hold for it.
HeldActionsAreOwned ==
  life = "alive" =>
    /\ \A a \in Actions : Held(a) => owner[a]
    /\ \A i, j \in 1..Len(actions) : actions[i] = actions[j] => i = j
    /\ ~InQueue(current)

\* postinstall_runner_action.h:37, set_bootable_flag_action.h:39: a synchronous
\* Action is never current when the main loop can call StopProcessing(), so its
\* TerminateProcessing() CHECK(false) is out of reach.
SyncActionNeverStopped ==
  (life = "alive" /\ ctl = "loop") => current \notin Sync

\* While a batch runs nothing in it has failed and no verdict is out, and the
\* delegate is only called between batches.  With the invariants above this is
\* inductive; on its own it is what makes the verdict truthful.
RunningBatchIsClean ==
  life = "alive" =>
    /\ IsRunning => allOk /\ verdict = "none"
    /\ ctl = "delegate" => ~IsRunning

\* Whatever the order of EnqueueAction(), StartProcessing(), StopProcessing(), reports and
\* destruction: each batch gives its delegate one final notification, with the verdict its
\* Actions earned, every Action queued or current points back at the processor, and no
\* synchronous Action is current when TerminateProcessing() could reach it.  The
\* conjunction is inductive.
IInv ==
  /\ TypeOK
  /\ OneOutcomePerBatch
  /\ VerdictIsTruthful
  /\ HeldActionsAreOwned
  /\ SyncActionNeverStopped
  /\ RunningBatchIsClean

\* An Action leaves the processor only by having run, or because the batch was
\* reported as failed, or with the processor itself: StopProcessing() and a
\* successful completion lose nothing that was queued.
NothingSilentlyDropped ==
  [][\A a \in Actions :
       (InQueue(a) /\ ~InQueue(a)')
         => (current' = a \/ verdict' = "failure" \/ life' # "alive")]_procVars

\* While processing goes on, an Action that waits in the queue gets its turn
\* even if callers keep enqueueing others: the queue is first in, first out.
QueuedActionGetsItsTurn ==
  \A a \in Actions :
    (InQueue(a) /\ IsRunning /\ life = "alive")
      ~> (~InQueue(a) \/ ~IsRunning \/ life # "alive")

=============================================================================
