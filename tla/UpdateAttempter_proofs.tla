------------------------ MODULE UpdateAttempter_proofs ------------------------
(***************************************************************************)
(* Proofs about UpdateAttempter.  The inductive invariant follows the      *)
(* seven Actions of an attempt through the processor: those not yet run    *)
(* are in the queue in the order Update() enqueued them, what each pipe    *)
(* holds follows from how far the attempt has come, and no Action of an    *)
(* attempt to come has a processor yet.                                    *)
(***************************************************************************)
EXTENDS UpdateAttempter, TLAPS

Object(i, n) == <<Kinds[i], n>>

\* The attempt is at its i-th Action: the ones after it that were enqueued are waiting in
\* order.  At 0, Update() is still enqueueing or about to start.
At(i) ==
  /\ i \in 0..enqueued
  /\ actions \in Seq(Actions) /\ Len(actions) = enqueued - i
  /\ \A j \in 1..Len(actions) : actions[j] = Object(i + j, attempt)
  /\ current = IF i = 0 THEN NoAction ELSE Object(i, attempt)
  /\ i > 0 => enqueued = 7

\* The objects in the pipes while the attempt is at its i-th Action: what the server offers
\* is known after the second, the plan after the third, and the copier may pass it on if it is
\* one of a delta update; without it the download fails.
Plan(i) ==
  /\ i <= 2 => offered = "nothing" /\ pipe["handler"] = "default"
  /\ i <= 3 => pipe["copier"] = "default" /\ ~noUpdate
  /\ i >= 4 => offered \in {"delta", "full"} /\ pipe["copier"] = offered /\ ~noUpdate
  /\ i <= 4 /\ life = "alive" => pipe["download"] = "default"
  /\ pipe["download"] # "default" => offered = "delta"
  /\ i >= 6 => pipe["download"] # "default"

\* ProcessingDone() has been or is being called.
Done ==
  /\ attempt > 0 /\ enqueued = 7
  /\ actions = <<>> /\ current = NoAction
  /\ verdict \in {"success", "failure"}

Batch == Done \/ \E i \in 0..7 : At(i) /\ Plan(i)

\* Only Actions that were enqueued have ever had a processor.
Owners ==
  /\ owner \in [Actions -> BOOLEAN]
  /\ \A i \in 1..7, n \in Attempts :
       owner[Object(i, n)] => n < attempt \/ (n = attempt /\ i <= enqueued)

\* The second attempt is the full one; the callback and the end belong to an attempt.
Course ==
  /\ attempt = 0 => enqueued = 0
  /\ attempt = 2 => full
  /\ ctl = "delegate" => attempt > 0
  /\ loop = "quit" => Done /\ (full \/ noUpdate \/ verdict = "success")

\* PlanIsCurrent, for a process that has aborted as well.
Current ==
  \A k \in {"handler", "copier", "download"} : pipe[k] \in {"default", "noupdate", offered}

IInv == TypeOK /\ Batch /\ Owners /\ Course /\ Current /\ AbortsInDeltaAction

-----------------------------------------------------------------------------
(* The Action objects.                                                     *)

\* The seven kinds, in the order of the enqueueing loop of Update().
LEMMA KindsAre ==
  /\ Len(Kinds) = 7
  /\ Kinds[1] = "prep" /\ Kinds[2] = "check" /\ Kinds[3] = "handler" /\ Kinds[4] = "copier"
  /\ Kinds[5] = "download" /\ Kinds[6] = "postinst" /\ Kinds[7] = "bootable"
  BY DEF Kinds

\* Update() makes a different object for each kind and attempt, and none is NULL.
LEMMA ObjectsDiffer ==
  ASSUME NEW i \in 1..7, NEW n \in Attempts
  PROVE  /\ Object(i, n) \in Actions /\ Object(i, n) # NoAction
         /\ \A j \in 1..7, m \in Attempts : Object(i, n) = Object(j, m) => i = j /\ n = m
<1>1. Object(i, n) \in Actions
  BY KindsAre DEF Object, Actions
<1>2. \A j \in 1..7 : Kinds[i] = Kinds[j] => i = j
  BY KindsAre
<1> QED
  BY <1>1, <1>2, ObjectAssumption DEF Object

\* While an Action is current the attempt is at one of the seven, all enqueued.
LEMMA RunningAt ==
  ASSUME TypeOK, Batch, Course, current # NoAction
  PROVE  /\ attempt \in Attempts /\ enqueued = 7 /\ loop = "running"
         /\ \E i \in 1..7 : At(i) /\ Plan(i) /\ current = Object(i, attempt)
<1>1. PICK i \in 0..7 : At(i) /\ Plan(i)
  BY DEF Batch, Done
<1>2. i \in 1..7 /\ enqueued = 7 /\ current = Object(i, attempt)
  BY <1>1 DEF At
<1>3. attempt \in Attempts /\ loop = "running"
  BY <1>2 DEF TypeOK, Course, Done
<1> QED
  BY <1>1, <1>2, <1>3

\* ActionComplete() moves the attempt to its next Action, or ends the batch after the last
\* one and after a failure.
LEMMA CompleteMoves ==
  ASSUME TypeOK, Owners, attempt \in Attempts, NEW i \in 1..7, At(i), NEW ok \in BOOLEAN,
         Processor!ActionComplete(ok), UNCHANGED <<attempt, enqueued>>
  PROVE  /\ Owners' /\ life' = "alive"
         /\ ~ok \/ i = 7 => Done'
         /\ ok /\ i < 7 => At(i + 1)'
<1>1. enqueued = 7 /\ current = Object(i, attempt) /\ actions \in Seq(Actions)
      /\ Len(actions) = 7 - i /\ \A j \in 1..Len(actions) : actions[j] = Object(i + j, attempt)
  BY DEF At
<1>2. Owners' /\ life' = "alive"
  <2>1. owner' = [owner EXCEPT ![current] = FALSE] /\ life' = "alive"
    BY DEF Processor!ActionComplete, Processor!MayComplete
  <2> QED
    BY <1>1, <2>1, ObjectsDiffer DEF Owners
<1>3. ASSUME ~ok \/ i = 7 PROVE Done'
  <2>1. Processor!Remaining(ok) = <<>>
    BY <1>1, <1>3 DEF Processor!Remaining
  <2>2. actions' = <<>> /\ current' = NoAction /\ verdict' \in {"success", "failure"}
    BY <2>1 DEF Processor!ActionComplete, Processor!FinishBatch
  <2> QED
    BY <1>1, <2>2 DEF Done, Attempts
<1>4. ASSUME ok, i < 7 PROVE At(i + 1)'
  <2>1. Processor!Remaining(ok) = actions /\ actions # <<>>
    BY <1>1, <1>4 DEF Processor!Remaining
  <2>2. current' = Head(actions) /\ actions' = Tail(actions)
    BY <2>1 DEF Processor!ActionComplete, Processor!PerformNext
  <2>3. Head(actions) = Object(i + 1, attempt)
    BY <1>1, <1>4, <2>1
  <2>4. /\ Tail(actions) \in Seq(Actions) /\ Len(Tail(actions)) = 7 - (i + 1)
        /\ \A j \in 1..Len(Tail(actions)) : Tail(actions)[j] = actions[j + 1] /\ j + 1 \in 1..Len(actions)
    BY <1>1, <1>4, <2>1
  <2>5. \A j \in 1..Len(actions') : actions'[j] = Object((i + 1) + j, attempt)
    <3> TAKE j \in 1..Len(actions')
    <3>1. actions'[j] = Object(i + (j + 1), attempt)
      BY <1>1, <2>2, <2>4
    <3>2. i + (j + 1) = (i + 1) + j
      BY <1>1, <2>2, <2>4
    <3> QED
      BY <3>1, <3>2
  <2>6. enqueued' = 7 /\ attempt' = attempt /\ i + 1 # 0 /\ i + 1 \in 0..7
    BY <1>1, <1>4
  <2>7. Object(i + 1, attempt)' = Object(i + 1, attempt)
    BY <2>6 DEF Object
  <2> QED
    BY <2>2, <2>3, <2>4, <2>5, <2>6, <2>7 DEF At, Object
<1> QED
  BY <1>2, <1>3, <1>4

\* SetOutputObject() writes the pipe to the download and no other, and not for a full update.
LEMMA PassedOnIs ==
  ASSUME TypeOK
  PROVE  /\ PassedOn \in [Bonded -> {"default", "params", "garbage", "noupdate", "delta", "full"}]
         /\ PassedOn["handler"] = pipe["handler"] /\ PassedOn["copier"] = pipe["copier"]
         /\ PassedOn["download"] =
              IF pipe["copier"] = "full" THEN pipe["download"] ELSE pipe["copier"]
  BY DEF PassedOn, TypeOK, Bonded

\* Whatever a step leaves on the install partition, the partitions stay what they are.
LEMMA LeavesDisk ==
  ASSUME TypeOK, NEW S, \A c \in S : c \in {"system", "old", "copy", "partial", "image"},
         Leaves(S)
  PROVE  disk' \in [{Boot, Install} -> {"system", "old", "copy", "partial", "image"}]
  BY DEF Leaves, TypeOK

-----------------------------------------------------------------------------
(* The invariant.                                                          *)

\* Before main() schedules UpdateInMainLoop() there is no attempt.
LEMMA InitIInv == Init => IInv
<1> SUFFICES ASSUME Init PROVE IInv
  OBVIOUS
<1>1. TypeOK
  <2>1. {full, noUpdate} \subseteq BOOLEAN
    BY DEF Init
  <2>2. /\ pipe \in [Bonded -> {"default", "params", "garbage", "noupdate", "delta", "full"}]
        /\ disk \in [{Boot, Install} -> {"system", "old", "copy", "partial", "image"}]
    BY DEF Init, DefaultObjects
  <2> QED
    BY <2>1, <2>2, KindsAre DEF Init, TypeOK
<1>2. At(0) /\ Plan(0)
  BY DEF Init, Processor!Init, At, Plan, DefaultObjects, Bonded
<1>3. Owners
  BY ObjectsDiffer DEF Init, Processor!Init, Owners
<1>4. Course /\ Current /\ AbortsInDeltaAction
  BY DEF Init, Processor!Init, Course, Current, AbortsInDeltaAction, DefaultObjects, Bonded
<1> QED
  BY <1>1, <1>2, <1>3, <1>4 DEF IInv, Batch

\* A new attempt, the first or the one inside ProcessingDone(), starts with nothing queued
\* and new pipes.
LEMMA BeginKeeps ==
  ASSUME IInv, NEW force \in BOOLEAN, BeginUpdate(force), attempt < 2, attempt = 1 => force,
         actions = <<>>, current = NoAction, life = "alive", loop = "running",
         UNCHANGED <<actions, current, owner, life, ctl, verdict, loop, disk>>
  PROVE  IInv'
<1>1. TypeOK'
  <2>1. {full, noUpdate}' \subseteq BOOLEAN
    BY DEF BeginUpdate
  <2>2. pipe' \in [Bonded -> {"default", "params", "garbage", "noupdate", "delta", "full"}]
    BY DEF BeginUpdate, NewObjects, DefaultObjects
  <2>3. attempt' \in {0} \cup Attempts
    BY DEF BeginUpdate, IInv, TypeOK, Attempts
  <2> QED
    BY <2>1, <2>2, <2>3, KindsAre DEF IInv, TypeOK, BeginUpdate
<1>2. At(0)' /\ Plan(0)'
  BY DEF BeginUpdate, NewObjects, DefaultObjects, Bonded, At, Plan
<1>3. Owners'
  BY DEF IInv, Owners, BeginUpdate, TypeOK, Attempts
<1>4. Course' /\ Current' /\ AbortsInDeltaAction'
  BY DEF IInv, TypeOK, BeginUpdate, NewObjects, DefaultObjects, Bonded, Course, Current,
         AbortsInDeltaAction, Attempts
<1> QED
  BY <1>1, <1>2, <1>3, <1>4 DEF IInv, Batch

\* A report of the i-th Action keeps the invariant if it leaves the pipes as the next one
\* has to find them.
LEMMA ReportKeeps ==
  ASSUME IInv, NEW i \in 1..7, At(i), NEW ok \in BOOLEAN, Processor!ActionComplete(ok),
         UNCHANGED <<attempt, enqueued, full, loop>>,
         TypeOK', Current', ok /\ i < 7 => Plan(i + 1)'
  PROVE  IInv'
<1>1. attempt \in Attempts /\ loop = "running"
  BY RunningAt DEF IInv, Processor!ActionComplete, Processor!MayComplete, Processor!IsRunning
<1>2. /\ Owners' /\ life' = "alive"
      /\ ~ok \/ i = 7 => Done'
      /\ ok /\ i < 7 => At(i + 1)'
  BY <1>1, CompleteMoves DEF IInv
<1>3. Batch'
  <2>1. CASE ~ok \/ i = 7
    BY <1>2, <2>1 DEF Batch
  <2>2. CASE ok /\ i < 7
    BY <1>2, <2>2 DEF Batch
  <2> QED
    BY <2>1, <2>2
<1>4. Course' /\ AbortsInDeltaAction'
  BY <1>1, <1>2 DEF IInv, Course, AbortsInDeltaAction, Attempts
<1> QED
  BY <1>2, <1>3, <1>4 DEF IInv

\* Every step of Update(), of the Actions and of ProcessingDone() keeps the invariant.
LEMMA NextIInv == IInv /\ [Next]_attempterVars => IInv'
<1> SUFFICES ASSUME IInv, [Next]_attempterVars PROVE IInv'
  OBVIOUS
<1>0. TypeOK /\ Batch /\ Owners /\ Course /\ Current /\ AbortsInDeltaAction
  BY DEF IInv
<1>1. CASE UpdateInMainLoop
  <2>1. /\ attempt = 0 /\ loop = "running" /\ BeginUpdate(FALSE)
        /\ UNCHANGED <<actions, current, owner, life, ctl, verdict, loop, disk>>
        /\ life = "alive" /\ current = NoAction
    BY <1>1 DEF UpdateInMainLoop, Processor!SetDelegate, Processor!CallerRuns,
                Processor!IsRunning
  <2>2. actions = <<>>
    <3>1. PICK i \in 0..7 : At(i)
      BY <1>0, <2>1 DEF Batch, Done
    <3>2. actions \in Seq(Actions) /\ Len(actions) = 0
      BY <1>0, <2>1, <3>1 DEF At, Course
    <3> QED
      BY <3>2
  <2>3. FALSE \in BOOLEAN /\ attempt < 2 /\ (attempt = 1 => FALSE)
    BY <2>1
  <2> QED
    BY <2>1, <2>2, <2>3, BeginKeeps
<1>2. CASE UpdateEnqueues
  <2> DEFINE a == Object(enqueued + 1, attempt)
  <2>1. /\ attempt \in Attempts /\ enqueued \in 0..6 /\ enqueued' = enqueued + 1
        /\ life = "alive" /\ UNCHANGED <<current, ctl, verdict>>
        /\ UNCHANGED <<attempt, full, pipe, noUpdate, loop, disk, offered>>
        /\ actions' = Append(actions, a) /\ owner' = [owner EXCEPT ![a] = TRUE]
        /\ life' = IF owner[a] THEN "aborted" ELSE "alive"
    BY <1>0, <1>2, KindsAre
    DEF UpdateEnqueues, Updating, TypeOK, Processor!EnqueueAction, Processor!CallerRuns, Object
  <2>2. a \in Actions /\ ~owner[a]
    BY <1>0, <2>1, ObjectsDiffer DEF Owners, Attempts
  <2>3. At(0) /\ Plan(0)
    BY <1>0, <2>1 DEF Batch, Done, At
  <2>4. At(0)' /\ Plan(0)'
    <3>1. /\ actions \in Seq(Actions) /\ Len(actions) = enqueued
          /\ \A j \in 1..Len(actions) : actions[j] = Object(0 + j, attempt)
      BY <2>1, <2>3 DEF At
    <3>2. /\ actions' \in Seq(Actions) /\ Len(actions') = enqueued + 1
          /\ \A j \in 1..Len(actions) : actions'[j] = actions[j]
          /\ actions'[enqueued + 1] = a
      BY <2>1, <2>2, <3>1
    <3>3. \A j \in 1..Len(actions') : actions'[j] = Object(0 + j, attempt)
      BY <2>1, <3>1, <3>2
    <3> QED
      BY <2>1, <2>3, <3>2, <3>3 DEF At, Plan, Object
  <2>5. Owners'
    BY <1>0, <2>1, <2>2, ObjectsDiffer DEF Owners
  <2>6. TypeOK'
    BY <1>0, <2>1, KindsAre DEF TypeOK
  <2>7. Course' /\ Current' /\ AbortsInDeltaAction'
    BY <1>0, <2>1, <2>2 DEF Course, Current, AbortsInDeltaAction, Done, Attempts
  <2> QED
    BY <2>4, <2>5, <2>6, <2>7 DEF IInv, Batch
<1>3. CASE UpdateStarts
  <2>1. /\ attempt \in Attempts /\ enqueued = 7 /\ actions # <<>> /\ current = NoAction
        /\ current' = Head(actions) /\ actions' = Tail(actions)
        /\ ctl' = "perform" /\ UNCHANGED <<owner, life, ownVars>> /\ life = "alive"
    BY <1>0, <1>3, KindsAre DEF UpdateStarts, Updating, TypeOK, Processor!StartProcessing,
                                Processor!CallerRuns, Processor!IsRunning
  <2>2. At(0) /\ Plan(0)
    <3>1. PICK i \in 0..7 : At(i) /\ Plan(i)
      BY <1>0, <2>1 DEF Batch, Done
    <3>2. current = IF i = 0 THEN NoAction ELSE Object(i, attempt)
      BY <3>1 DEF At
    <3>3. i \in 1..7 => Object(i, attempt) # NoAction
      BY <2>1, ObjectsDiffer
    <3>4. i = 0
      BY <2>1, <3>2, <3>3
    <3> QED
      BY <3>1, <3>4
  <2>3. At(1)' /\ Plan(1)'
    <3>1. /\ actions \in Seq(Actions) /\ Len(actions) = 7
          /\ \A j \in 1..Len(actions) : actions[j] = Object(0 + j, attempt)
      BY <2>1, <2>2 DEF At
    <3>2. /\ actions' \in Seq(Actions) /\ Len(actions') = 6 /\ current' = Object(1, attempt)
          /\ \A j \in 1..Len(actions') : actions'[j] = Object(1 + j, attempt)
      <4>1. /\ Tail(actions) \in Seq(Actions) /\ Len(Tail(actions)) = Len(actions) - 1
            /\ \A j \in 1..Len(Tail(actions)) : Tail(actions)[j] = actions[j + 1]
            /\ Head(actions) = actions[1]
        BY <2>1, <3>1
      <4>2. Len(Tail(actions)) = 6 /\ Len(actions) = 7
        BY <3>1, <4>1
      <4>3. \A j \in 1..Len(Tail(actions)) : Tail(actions)[j] = Object(1 + j, attempt)
        <5> TAKE j \in 1..Len(Tail(actions))
        <5>0. j \in 1..6
          BY <4>2
        <5>1. j + 1 \in 1..Len(actions) /\ 0 + (j + 1) = 1 + j
          BY <4>2, <5>0
        <5> QED
          BY <3>1, <4>1, <5>1
      <4>4. actions[1] = Object(1, attempt)
        BY <3>1
      <4> QED
        BY <2>1, <4>1, <4>2, <4>3, <4>4
    <3> QED
      BY <2>1, <2>2, <3>2 DEF At, Plan, Object, ownVars
  <2>4. Owners' /\ TypeOK' /\ Course' /\ Current' /\ AbortsInDeltaAction'
    BY <1>0, <2>1
    DEF Owners, TypeOK, Course, Current, AbortsInDeltaAction, Done, ownVars
  <2> QED
    BY <2>3, <2>4 DEF IInv, Batch
<1>4. CASE PerformReturns
  <2>1. /\ ctl' = "loop" /\ UNCHANGED <<actions, current, owner, life, verdict, ownVars>>
    BY <1>4 DEF PerformReturns, Processor!PerformReturns
  <2>2. Batch'
    BY <1>0, <2>1 DEF Batch, Done, At, Plan, ownVars, Object
  <2>3. Owners' /\ TypeOK' /\ Course' /\ Current' /\ AbortsInDeltaAction'
    BY <1>0, <2>1
    DEF Owners, TypeOK, Course, Current, AbortsInDeltaAction, Done, ownVars
  <2> QED
    BY <2>2, <2>3 DEF IInv
<1>5. ASSUME NEW ok \in BOOLEAN, RequestPrep(ok) PROVE IInv'
  <2>1. PICK i \in 1..7 : At(i) /\ Plan(i) /\ current = Object(i, attempt)
    BY <1>0, <1>5, RunningAt
    DEF RequestPrep, Processor!ActionComplete, Processor!MayComplete, Processor!IsRunning
  <2>2. i = 1
    BY <1>5, <2>1, KindsAre DEF RequestPrep, Performing, Object
  <2>3. Plan(2)' /\ TypeOK' /\ Current'
    BY <1>0, <1>5, <2>1, <2>2 DEF RequestPrep, Performing, Plan, TypeOK, Current, Bonded
  <2> QED
    BY <1>5, <2>1, <2>2, <2>3, ReportKeeps DEF RequestPrep
<1>6. ASSUME NEW r \in {"garbage", "noupdate", "delta", "full"}, UpdateCheck(r) PROVE IInv'
  <2>1. PICK i \in 1..7 : At(i) /\ Plan(i) /\ current = Object(i, attempt)
    BY <1>0, <1>6, RunningAt
    DEF UpdateCheck, Processor!ActionComplete, Processor!MayComplete, Processor!IsRunning
  <2>2. i = 2
    BY <1>6, <2>1, KindsAre DEF UpdateCheck, Performing, Object
  <2>3. Plan(3)' /\ TypeOK' /\ Current'
    BY <1>0, <1>6, <2>1, <2>2 DEF UpdateCheck, Performing, Plan, TypeOK, Current, Bonded
  <2>4. PICK ok \in BOOLEAN : Processor!ActionComplete(ok)
    BY <1>6 DEF UpdateCheck
  <2> QED
    BY <1>6, <2>1, <2>2, <2>3, <2>4, ReportKeeps DEF UpdateCheck
<1>6a. CASE UpdateCheckAborts
  <2>1. /\ current = <<"check", attempt>>
        /\ UNCHANGED <<actions, current, owner, ctl, verdict, ownVars>> /\ life' = "aborted"
    BY <1>6a DEF UpdateCheckAborts, Performing, Processor!ActionAborts
  <2>2. Batch'
    BY <1>0, <2>1 DEF Batch, Done, At, Plan, ownVars, Object
  <2>3. Owners' /\ TypeOK' /\ Course' /\ Current' /\ AbortsInDeltaAction'
    BY <1>0, <2>1
    DEF Owners, TypeOK, Course, Current, AbortsInDeltaAction, Done, ownVars
  <2> QED
    BY <2>2, <2>3 DEF IInv
<1>7. ASSUME NEW known \in BOOLEAN, ResponseHandler(known) PROVE IInv'
  <2>1. PICK i \in 1..7 : At(i) /\ Plan(i) /\ current = Object(i, attempt)
    BY <1>0, <1>7, RunningAt
    DEF ResponseHandler, Processor!ActionComplete, Processor!MayComplete, Processor!IsRunning
  <2>2. i = 3
    BY <1>7, <2>1, KindsAre DEF ResponseHandler, Performing, Object
  <2>3. (Handled(known) => Plan(4)') /\ TypeOK' /\ Current'
    BY <1>0, <1>7, <2>1, <2>2 DEF ResponseHandler, Handled, Performing, Plan, TypeOK, Current, Bonded
  <2>4. Handled(known) \in BOOLEAN
    BY DEF Handled
  <2> QED
    BY <1>7, <2>1, <2>2, <2>3, <2>4, ReportKeeps DEF ResponseHandler
<1>8. ASSUME NEW copied \in BOOLEAN, FilesystemCopier(copied) PROVE IInv'
  <2>1. PICK ok \in BOOLEAN : Processor!ActionComplete(ok)
    BY <1>8 DEF FilesystemCopier
  <2>2. PICK i \in 1..7 : At(i) /\ Plan(i) /\ current = Object(i, attempt)
    BY <1>0, <2>1, RunningAt
    DEF Processor!ActionComplete, Processor!MayComplete, Processor!IsRunning
  <2>3. i = 4
    BY <1>8, <2>2, KindsAre DEF FilesystemCopier, Performing, Object
  <2>4. Plan(5)' /\ Current'
    <3>1. /\ UNCHANGED <<offered, noUpdate>>
          /\ offered \in {"delta", "full"} /\ pipe["copier"] = offered /\ ~noUpdate
          /\ pipe["download"] = "default"
      BY <1>8, <2>2, <2>3 DEF FilesystemCopier, Performing, Plan
    <3>2. pipe' \in {pipe, PassedOn}
      BY <1>8 DEF FilesystemCopier
    <3> QED
      BY <1>0, <3>1, <3>2, PassedOnIs DEF Plan, Current
  <2>5. disk' \in [{Boot, Install} -> {"system", "old", "copy", "partial", "image"}]
    <3> DEFINE S == {disk[Install], IF copied THEN "copy" ELSE "partial"}
    <3>1. \A c \in S : c \in {"system", "old", "copy", "partial", "image"}
      BY <1>0 DEF TypeOK
    <3>2. Leaves(S) \/ UNCHANGED disk
      BY <1>8 DEF FilesystemCopier
    <3> HIDE DEF S
    <3> QED
      BY <1>0, <3>1, <3>2, LeavesDisk DEF TypeOK
  <2>6. TypeOK'
    BY <1>0, <1>8, <2>5, PassedOnIs DEF FilesystemCopier, TypeOK
  <2> QED
    BY <1>8, <2>1, <2>2, <2>3, <2>4, <2>6, ReportKeeps DEF FilesystemCopier
<1>8a. CASE FilesystemCopierAborts
  <2>1. /\ current = <<"copier", attempt>> /\ pipe["copier"] # "full"
        /\ UNCHANGED <<actions, current, owner, ctl, verdict>>
        /\ UNCHANGED <<attempt, enqueued, full, noUpdate, loop, offered>>
        /\ pipe' \in {pipe, PassedOn} /\ life = "alive" /\ life' = "aborted" /\ current # NoAction
    BY <1>8a DEF FilesystemCopierAborts, Performing, Processor!ActionAborts,
                 Processor!MayComplete, Processor!IsRunning
  <2>2. PICK i \in 1..7 : At(i) /\ Plan(i) /\ current = Object(i, attempt)
    BY <1>0, <2>1, RunningAt
  <2>3. i = 4
    BY <2>1, <2>2, KindsAre DEF Object
  <2>4. /\ offered = "delta" /\ pipe["copier"] = "delta" /\ ~noUpdate
        /\ pipe["download"] = "default"
    BY <2>1, <2>2, <2>3 DEF Plan
  <2>5. /\ pipe'["handler"] = pipe["handler"] /\ pipe'["copier"] = pipe["copier"]
        /\ pipe'["download"] \in {"default", "delta"}
        /\ pipe' \in [Bonded -> {"default", "params", "garbage", "noupdate", "delta", "full"}]
    BY <1>0, <2>1, <2>4, PassedOnIs DEF TypeOK
  <2>6. At(4)' /\ current' = <<"copier", attempt'>>
    BY <2>1, <2>2, <2>3 DEF At, Object
  <2>7. disk' \in [{Boot, Install} -> {"system", "old", "copy", "partial", "image"}]
    <3>1. \A c \in {disk[Install], "partial", "copy"} :
            c \in {"system", "old", "copy", "partial", "image"}
      BY <1>0 DEF TypeOK
    <3> QED
      BY <1>0, <1>8a, <3>1, LeavesDisk DEF FilesystemCopierAborts
  <2>8. TypeOK'
    BY <1>0, <2>1, <2>5, <2>7 DEF TypeOK
  <2>9. Plan(4)'
    BY <2>1, <2>4, <2>5 DEF Plan
  <2>10. Current' /\ AbortsInDeltaAction'
    BY <1>0, <2>1, <2>4, <2>5 DEF Current, AbortsInDeltaAction
  <2>11. Owners' /\ Course'
    BY <1>0, <2>1 DEF Owners, Course, Done
  <2> QED
    BY <2>6, <2>8, <2>9, <2>10, <2>11 DEF IInv, Batch
<1>9. ASSUME NEW authentic \in BOOLEAN, Download(authentic) PROVE IInv'
  <2>1. PICK i \in 1..7 : At(i) /\ Plan(i) /\ current = Object(i, attempt)
    BY <1>0, <1>9, RunningAt
    DEF Download, Processor!ActionComplete, Processor!MayComplete, Processor!IsRunning
  <2>2. i = 5
    BY <1>9, <2>1, KindsAre DEF Download, Performing, Object
  <2> DEFINE ok == pipe["download"] # "default" /\ authentic
  <2>3. (ok => Plan(6)') /\ Current'
    BY <1>0, <1>9, <2>1, <2>2 DEF Download, Plan, Current
  <2>4. disk' \in [{Boot, Install} -> {"system", "old", "copy", "partial", "image"}]
    <3> DEFINE S == IF ~authentic THEN {disk[Install], "partial"}
                    ELSE IF pipe["download"] = "full" THEN {"image", "partial"} ELSE {"image"}
    <3>1. \A c \in S : c \in {"system", "old", "copy", "partial", "image"}
      BY <1>0 DEF TypeOK
    <3>2. Leaves(S) \/ UNCHANGED disk
      BY <1>9 DEF Download
    <3> HIDE DEF S
    <3> QED
      BY <1>0, <3>1, <3>2, LeavesDisk DEF TypeOK
  <2>5. TypeOK'
    BY <1>0, <1>9, <2>4 DEF Download, TypeOK
  <2>6. ok \in BOOLEAN /\ Processor!ActionComplete(ok)
        /\ UNCHANGED <<attempt, enqueued, full, loop>>
    BY <1>9 DEF Download
  <2> HIDE DEF ok
  <2> QED
    BY <2>1, <2>2, <2>3, <2>5, <2>6, ReportKeeps
<1>9a. CASE DownloadAborts
  <2>1. /\ current = <<"download", attempt>> /\ pipe["download"] # "default"
        /\ UNCHANGED <<actions, current, owner, ctl, verdict>>
        /\ UNCHANGED <<attempt, enqueued, full, pipe, noUpdate, loop, offered>>
        /\ life' = "aborted" /\ current # NoAction
    BY <1>9a DEF DownloadAborts, Performing, Processor!ActionAborts,
                 Processor!MayComplete, Processor!IsRunning
  <2>2. PICK i \in 1..7 : At(i) /\ Plan(i) /\ current = Object(i, attempt)
    BY <1>0, <2>1, RunningAt
  <2>3. offered = "delta"
    BY <2>1, <2>2 DEF Plan
  <2>4. At(i)' /\ Plan(i)'
    BY <2>1, <2>2 DEF At, Plan, Object
  <2>5. disk' \in [{Boot, Install} -> {"system", "old", "copy", "partial", "image"}]
    <3>1. \A c \in {disk[Install], "partial", "image"} :
            c \in {"system", "old", "copy", "partial", "image"}
      BY <1>0 DEF TypeOK
    <3> QED
      BY <1>0, <1>9a, <3>1, LeavesDisk DEF DownloadAborts
  <2>6. TypeOK' /\ Current' /\ AbortsInDeltaAction'
    BY <1>0, <2>1, <2>3, <2>5 DEF TypeOK, Current, AbortsInDeltaAction
  <2>7. Owners' /\ Course'
    BY <1>0, <2>1 DEF Owners, Course, Done
  <2>8. Batch'
    BY <2>4 DEF Batch
  <2> QED
    BY <2>6, <2>7, <2>8 DEF IInv
<1>10. CASE Postinstall
  <2>1. /\ current = <<"postinst", attempt>> /\ current # NoAction
        /\ UNCHANGED <<actions, current, owner, ctl, verdict, ownVars>> /\ life' = "aborted"
    BY <1>10 DEF Postinstall, Performing, Processor!ActionAborts,
                 Processor!MayComplete, Processor!IsRunning
  <2>2. Batch'
    BY <1>0, <2>1 DEF Batch, Done, At, Plan, ownVars, Object
  <2>3. offered = "delta"
    <3>1. PICK i \in 1..7 : Plan(i) /\ current = Object(i, attempt)
      BY <1>0, <2>1, RunningAt
    <3>2. i = 6
      BY <2>1, <3>1, KindsAre DEF Object
    <3> QED
      BY <3>1, <3>2 DEF Plan
  <2>4. Owners' /\ TypeOK' /\ Course' /\ Current' /\ AbortsInDeltaAction'
    BY <1>0, <2>1, <2>3
    DEF Owners, TypeOK, Course, Current, AbortsInDeltaAction, Done, ownVars
  <2> QED
    BY <2>2, <2>4 DEF IInv
<1>11. CASE ProcessingDoneRetries
  <2>1. /\ BeginUpdate(TRUE) /\ UNCHANGED <<procVars, loop, disk>> /\ ~full
        /\ actions = <<>> /\ current = NoAction /\ life = "alive" /\ loop = "running"
    BY <1>11 DEF ProcessingDoneRetries, InProcessingDone, Retries
  <2>2. attempt < 2
    BY <1>0, <2>1 DEF TypeOK, Attempts, Course
  <2> QED
    BY <2>1, <2>2, BeginKeeps DEF procVars
<1>12. CASE ProcessingDoneQuits
  <2>1. /\ ctl = "delegate" /\ ~Updating /\ actions = <<>> /\ current = NoAction
        /\ ~Retries /\ loop' = "quit" /\ ctl' = "loop"
        /\ UNCHANGED <<actions, current, owner, life, verdict>>
        /\ UNCHANGED <<attempt, enqueued, full, pipe, noUpdate, disk, offered>>
    BY <1>12 DEF ProcessingDoneQuits, InProcessingDone, Processor!DelegateReturns
  <2>2. Done
    <3>1. attempt \in Attempts /\ enqueued = 7
      BY <1>0, <2>1, KindsAre DEF TypeOK, Course, Updating, Attempts
    <3>2. \A i \in 0..7 : ~At(i)
      BY <2>1, <3>1, ObjectsDiffer DEF At
    <3> QED
      BY <1>0, <3>2 DEF Batch
  <2>3. Done' /\ (full \/ noUpdate \/ verdict = "success")'
    BY <2>1, <2>2 DEF Done, Retries
  <2>4. Owners' /\ TypeOK' /\ Course' /\ Current' /\ AbortsInDeltaAction'
    BY <1>0, <2>1, <2>3 DEF Owners, TypeOK, Course, Current, AbortsInDeltaAction
  <2> QED
    BY <2>3, <2>4 DEF IInv, Batch
<1>13. CASE UNCHANGED attempterVars
  <2>1. Batch'
    BY <1>0, <1>13 DEF Batch, Done, At, Plan, attempterVars, procVars, ownVars, Object
  <2>2. Owners' /\ TypeOK' /\ Course' /\ Current' /\ AbortsInDeltaAction'
    BY <1>0, <1>13
    DEF Owners, TypeOK, Course, Current, AbortsInDeltaAction, Done, attempterVars,
        procVars, ownVars
  <2> QED
    BY <2>1, <2>2 DEF IInv
<1> QED
  BY <1>1, <1>2, <1>3, <1>4, <1>5, <1>6, <1>6a, <1>7, <1>8, <1>8a, <1>9, <1>9a, <1>10,
     <1>11, <1>12, <1>13
  DEF Next

-----------------------------------------------------------------------------
(* The theorems.                                                           *)

\* The invariant holds throughout the process.
THEOREM Safety == Spec => []IInv
  BY InitIInv, NextIInv, PTL DEF Spec

\* Both attempts keep their objects apart: a plan is used only in the attempt in which it was
\* offered, Update() inside ProcessingDone() fails no CHECK, and the loop quits for a reason.
THEOREM AttemptsApart == Spec => []AttemptsStayApart
<1>1. IInv => AttemptsStayApart
  BY DEF IInv, AttemptsStayApart, Current, PlanIsCurrent, Course, Done, QuitsWithReason
<1> QED
  BY <1>1, Safety, PTL

\* The install partition changes only for an update the server has described in this attempt.
THEOREM DiskLeftAlone == Spec => NoUpdateLeavesDiskAlone
<1>1. IInv /\ [Next]_attempterVars
        => [disk' # disk => (offered # "nothing" /\ ~noUpdate)]_attempterVars
  <2> SUFFICES ASSUME IInv, Next, disk' # disk
               PROVE  offered # "nothing" /\ ~noUpdate
    BY DEF attempterVars, ownVars
  <2>0. TypeOK /\ Batch /\ Course
    BY DEF IInv
  <2>1. ASSUME NEW copied \in BOOLEAN, FilesystemCopier(copied)
        PROVE  offered # "nothing" /\ ~noUpdate
    <3>1. PICK i \in 1..7 : Plan(i) /\ current = Object(i, attempt)
      BY <2>0, <2>1, RunningAt DEF FilesystemCopier, Processor!ActionComplete,
                                   Processor!MayComplete, Processor!IsRunning
    <3>2. i = 4
      BY <2>1, <3>1, KindsAre DEF FilesystemCopier, Performing, Object
    <3> QED
      BY <3>1, <3>2 DEF Plan
  <2>2. ASSUME NEW authentic \in BOOLEAN, Download(authentic)
        PROVE  offered # "nothing" /\ ~noUpdate
    <3>1. PICK i \in 1..7 : Plan(i) /\ current = Object(i, attempt)
      BY <2>0, <2>2, RunningAt DEF Download, Processor!ActionComplete,
                                   Processor!MayComplete, Processor!IsRunning
    <3>2. i = 5
      BY <2>2, <3>1, KindsAre DEF Download, Performing, Object
    <3> QED
      BY <3>1, <3>2 DEF Plan
  <2>3. CASE FilesystemCopierAborts \/ DownloadAborts
    <3>1. PICK i \in 1..7 : Plan(i) /\ current = Object(i, attempt)
      BY <2>0, <2>3, RunningAt DEF FilesystemCopierAborts, DownloadAborts,
                     Processor!ActionAborts, Processor!MayComplete, Processor!IsRunning
    <3>2. i \in {4, 5}
      BY <2>3, <3>1, KindsAre DEF FilesystemCopierAborts, DownloadAborts, Performing, Object
    <3> QED
      BY <3>1, <3>2 DEF Plan
  <2> QED
    BY <2>1, <2>2, <2>3
    DEF Next, UpdateInMainLoop, UpdateEnqueues, UpdateStarts, PerformReturns, RequestPrep,
        UpdateCheck, UpdateCheckAborts, ResponseHandler, Postinstall, ProcessingDoneRetries,
        ProcessingDoneQuits, ownVars
<1> QED
  BY <1>1, Safety, PTL DEF Spec, NoUpdateLeavesDiskAlone

\* Every step of the attempter, the retry from within ProcessingDone() included, is a step
\* ActionProcessor allows its users, so that what is proved of the processor holds here.
THEOREM UsesProcessor == Spec => UsesProcessorCorrectly
<1>1. Init => Processor!Init
  BY DEF Init
<1>2. IInv /\ [Next]_attempterVars => [Processor!Next]_(Processor!procVars)
  <2> SUFFICES ASSUME IInv, [Next]_attempterVars
               PROVE  Processor!Next \/ UNCHANGED Processor!procVars
    OBVIOUS
  <2>1. CASE UpdateInMainLoop \/ UpdateStarts \/ PerformReturns \/ Postinstall
    BY <2>1 DEF UpdateInMainLoop, UpdateStarts, PerformReturns, Postinstall, Processor!Next
  <2>2. CASE UpdateEnqueues
    <3>1. Object(enqueued + 1, attempt) \in Actions
      BY <2>2, ObjectsDiffer, KindsAre DEF IInv, TypeOK, UpdateEnqueues, Updating
    <3> QED
      BY <2>2, <3>1 DEF UpdateEnqueues, Processor!Next, Object
  <2>3. ASSUME NEW ok \in BOOLEAN, RequestPrep(ok) PROVE Processor!Next
    BY <2>3 DEF RequestPrep, Processor!Next
  <2>4. ASSUME NEW r \in {"garbage", "noupdate", "delta", "full"}, UpdateCheck(r)
        PROVE  Processor!Next
    BY <2>4 DEF UpdateCheck, Processor!Next
  <2>5. ASSUME NEW known \in BOOLEAN, ResponseHandler(known) PROVE Processor!Next
    BY <2>5 DEF ResponseHandler, Handled, Processor!Next
  <2>6. ASSUME NEW copied \in BOOLEAN, FilesystemCopier(copied) PROVE Processor!Next
    BY <2>6 DEF FilesystemCopier, Processor!Next
  <2>7. ASSUME NEW authentic \in BOOLEAN, Download(authentic) PROVE Processor!Next
    BY <2>7 DEF Download, Processor!Next
  <2>8. CASE ProcessingDoneRetries
    BY <2>8 DEF ProcessingDoneRetries, procVars, Processor!procVars
  <2>9. CASE ProcessingDoneQuits
    BY <2>9 DEF ProcessingDoneQuits, Processor!Next
  <2>10. CASE UNCHANGED attempterVars
    BY <2>10 DEF attempterVars, procVars, Processor!procVars
  <2>11. CASE UpdateCheckAborts \/ FilesystemCopierAborts \/ DownloadAborts
    BY <2>11 DEF UpdateCheckAborts, FilesystemCopierAborts, DownloadAborts, Processor!Next
  <2> QED
    BY <2>1, <2>2, <2>3, <2>4, <2>5, <2>6, <2>7, <2>8, <2>9, <2>10, <2>11 DEF Next
<1> QED
  BY <1>1, <1>2, Safety, PTL DEF Spec, UsesProcessorCorrectly, Processor!Spec

\* Neither the processor nor the install partition comes to harm.
THEOREM NothingHarmed == Spec => HarmsNothing
  BY UsesProcessor, DiskLeftAlone, PTL DEF HarmsNothing

=============================================================================
