------------------------ MODULE ActionProcessor_proofs ------------------------
(***************************************************************************)
(* Proofs about ActionProcessor for every set of Actions.  IInv is         *)
(* inductive: the verdict and the notification count are right because a   *)
(* running batch is clean, and a synchronous Action is out of reach of     *)
(* StopProcessing() because the main loop never sees one as current.       *)
(***************************************************************************)
EXTENDS ActionProcessor, TLAPS

\* Appending to a queue of distinct elements one that is not in it keeps them
\* distinct (EnqueueAction()).
LEMMA AppendDistinct ==
  ASSUME NEW S, NEW q \in Seq(S), NEW a \in S,
         \A i, j \in 1..Len(q) : q[i] = q[j] => i = j,
         \A i \in 1..Len(q) : q[i] # a
  PROVE  \A i, j \in 1..Len(Append(q, a)) :
            Append(q, a)[i] = Append(q, a)[j] => i = j
  OBVIOUS

\* Taking the head off a queue of distinct elements leaves distinct elements,
\* none of them the head (StartProcessing(), ActionComplete()).
LEMMA TailDistinct ==
  ASSUME NEW S, NEW q \in Seq(S), q # <<>>,
         \A i, j \in 1..Len(q) : q[i] = q[j] => i = j
  PROVE  /\ Head(q) \in S
         /\ Tail(q) \in Seq(S)
         /\ \A i, j \in 1..Len(Tail(q)) : Tail(q)[i] = Tail(q)[j] => i = j
         /\ \A i \in 1..Len(Tail(q)) : Tail(q)[i] # Head(q)
         /\ \A i \in 1..Len(Tail(q)) : Tail(q)[i] = q[i + 1] /\ i + 1 \in 1..Len(q)
         /\ Head(q) = q[1] /\ 1 \in 1..Len(q)
  OBVIOUS

\* The initial state, an idle processor without Actions, satisfies IInv.
LEMMA InitIInv == Init => IInv
<1> SUFFICES ASSUME Init PROVE IInv
  OBVIOUS
<1>0. Len(<<>>) = 0 /\ <<>> \in Seq(Actions)
  OBVIOUS
<1>1. TypeOK
  BY <1>0 DEF Init, TypeOK
<1>2. OneOutcomePerBatch
  BY DEF Init, OneOutcomePerBatch, IsRunning
<1>3. VerdictIsTruthful
  BY DEF Init, VerdictIsTruthful
<1>4. HeldActionsAreOwned
  BY <1>0, NoActionAssumption DEF Init, HeldActionsAreOwned, Held, InQueue
<1>5. SyncActionNeverStopped
  BY SyncAssumption, NoActionAssumption DEF Init, SyncActionNeverStopped
<1>6. RunningBatchIsClean
  BY DEF Init, RunningBatchIsClean, IsRunning
<1> QED
  BY <1>1, <1>2, <1>3, <1>4, <1>5, <1>6 DEF IInv

\* Every action keeps IInv.
LEMMA NextIInv == IInv /\ [Next]_procVars => IInv'
<1> SUFFICES ASSUME IInv, [Next]_procVars PROVE IInv'
  OBVIOUS
<1>0. /\ TypeOK /\ OneOutcomePerBatch /\ VerdictIsTruthful /\ HeldActionsAreOwned
      /\ SyncActionNeverStopped /\ RunningBatchIsClean
  BY DEF IInv
<1> USE NoActionAssumption, SyncAssumption
<1>1. ASSUME NEW d \in BOOLEAN, SetDelegate(d) PROVE IInv'
  <2>1. TypeOK'
    BY <1>0, <1>1
    DEF TypeOK, SetDelegate, CallerRuns, IsRunning
  <2>2. OneOutcomePerBatch'
    BY <1>0, <1>1
    DEF OneOutcomePerBatch, IsRunning, Notified, SetDelegate, CallerRuns, TypeOK
  <2>3. VerdictIsTruthful'
    BY <1>0, <1>1
    DEF VerdictIsTruthful, SetDelegate, CallerRuns, IsRunning, TypeOK
  <2>4. HeldActionsAreOwned'
    BY <1>0, <1>1
    DEF HeldActionsAreOwned, Held, InQueue, SetDelegate, CallerRuns, IsRunning, TypeOK
  <2>5. SyncActionNeverStopped'
    BY <1>0, <1>1
    DEF SyncActionNeverStopped, SetDelegate, CallerRuns, IsRunning, TypeOK
  <2>6. RunningBatchIsClean'
    BY <1>0, <1>1
    DEF RunningBatchIsClean, IsRunning, SetDelegate, CallerRuns, TypeOK
  <2> QED
    BY <2>1, <2>2, <2>3, <2>4, <2>5, <2>6 DEF IInv
<1>2. ASSUME NEW a \in Actions, EnqueueAction(a) PROVE IInv'
  <2>1. TypeOK'
    BY <1>0, <1>2
    DEF TypeOK, EnqueueAction, CallerRuns
  <2>2. OneOutcomePerBatch'
    BY <1>0, <1>2
    DEF OneOutcomePerBatch, IsRunning, Notified, EnqueueAction, CallerRuns, TypeOK
  <2>3. VerdictIsTruthful'
    BY <1>0, <1>2
    DEF VerdictIsTruthful, EnqueueAction, CallerRuns, TypeOK
  <2>4. HeldActionsAreOwned'
    <3>1. life = "alive" /\ actions \in Seq(Actions) /\ actions' = Append(actions, a)
      BY <1>0, <1>2 DEF EnqueueAction, CallerRuns, TypeOK
    <3>2. /\ \A i, j \in 1..Len(actions) : actions[i] = actions[j] => i = j
          /\ \A i \in 1..Len(actions) : actions[i] # a
      BY <1>0, <1>2, <3>1 DEF HeldActionsAreOwned, EnqueueAction, Held, InQueue
    <3>3. \A i, j \in 1..Len(actions') : actions'[i] = actions'[j] => i = j
      BY <3>1, <3>2, AppendDistinct
    <3>4. \A b \in Actions : InQueue(b)' <=> InQueue(b) \/ b = a
      BY <3>1 DEF InQueue
    <3>5. \A b \in Actions : Held(b)' => owner'[b]
      BY <1>0, <1>2, <3>1, <3>4 DEF HeldActionsAreOwned, EnqueueAction, Held, TypeOK
    <3>6. ~InQueue(current)'
      <4>1. current' = current /\ current # a
        BY <1>2 DEF EnqueueAction, Held
      <4>2. ~InQueue(current)
        BY <1>0, <3>1 DEF HeldActionsAreOwned
      <4> QED
        BY <3>1, <4>1, <4>2 DEF InQueue
    <3> QED
      BY <3>3, <3>5, <3>6 DEF HeldActionsAreOwned
  <2>5. SyncActionNeverStopped'
    BY <1>0, <1>2
    DEF SyncActionNeverStopped, EnqueueAction, CallerRuns, TypeOK
  <2>6. RunningBatchIsClean'
    BY <1>0, <1>2
    DEF RunningBatchIsClean, IsRunning, EnqueueAction, CallerRuns, TypeOK
  <2> QED
    BY <2>1, <2>2, <2>3, <2>4, <2>5, <2>6 DEF IInv
<1>3. CASE StartProcessing
  <2>1. TypeOK'
    BY <1>0, <1>3
    DEF TypeOK, OneOutcomePerBatch, StartProcessing, CallerRuns, IsRunning, Notified
  <2>2. OneOutcomePerBatch'
    BY <1>0, <1>3, TailDistinct
    DEF OneOutcomePerBatch, IsRunning, Notified, StartProcessing, CallerRuns, TypeOK
  <2>3. VerdictIsTruthful'
    BY <1>0, <1>3, TailDistinct
    DEF VerdictIsTruthful, StartProcessing, CallerRuns, IsRunning, TypeOK
  <2>4. HeldActionsAreOwned'
    BY <1>0, <1>3, TailDistinct
    DEF HeldActionsAreOwned, Held, InQueue, StartProcessing, CallerRuns, IsRunning, TypeOK
  <2>5. SyncActionNeverStopped'
    BY <1>0, <1>3, TailDistinct
    DEF SyncActionNeverStopped, StartProcessing, CallerRuns, IsRunning, TypeOK
  <2>6. RunningBatchIsClean'
    BY <1>0, <1>3, TailDistinct
    DEF RunningBatchIsClean, IsRunning, StartProcessing, CallerRuns, TypeOK
  <2> QED
    BY <2>1, <2>2, <2>3, <2>4, <2>5, <2>6 DEF IInv
<1>4. CASE StopProcessing
  <2>1. TypeOK'
    <3>1. current \in Actions /\ owed = Notified
      BY <1>0, <1>4
      DEF TypeOK, OneOutcomePerBatch, StopProcessing, CallerRuns, IsRunning, Notified
    <3>2. owed' \in {0, 1}
      BY <1>0, <1>4, <3>1 DEF TypeOK, StopProcessing, Notified
    <3>3. owner' \in [Actions -> BOOLEAN]
      BY <1>0, <1>4 DEF TypeOK, StopProcessing
    <3> QED
      BY <1>0, <1>4, <3>2, <3>3 DEF TypeOK, StopProcessing
  <2>2. OneOutcomePerBatch'
    BY <1>0, <1>4
    DEF OneOutcomePerBatch, IsRunning, Notified, StopProcessing, CallerRuns, TypeOK
  <2>3. VerdictIsTruthful'
    BY <1>0, <1>4
    DEF VerdictIsTruthful, StopProcessing, CallerRuns, IsRunning, TypeOK
  <2>4. HeldActionsAreOwned'
    BY <1>0, <1>4
    DEF HeldActionsAreOwned, Held, InQueue, StopProcessing, CallerRuns, IsRunning, TypeOK
  <2>5. SyncActionNeverStopped'
    BY <1>0, <1>4
    DEF SyncActionNeverStopped, StopProcessing, CallerRuns, IsRunning, TypeOK
  <2>6. RunningBatchIsClean'
    BY <1>0, <1>4
    DEF RunningBatchIsClean, IsRunning, StopProcessing, CallerRuns, TypeOK
  <2> QED
    BY <2>1, <2>2, <2>3, <2>4, <2>5, <2>6 DEF IInv
<1>5. CASE Destroy
  <2>1. TypeOK'
    BY <1>0, <1>5
    DEF TypeOK, OneOutcomePerBatch, Destroy, CallerRuns, IsRunning, Notified
  <2>2. OneOutcomePerBatch'
    BY <1>0, <1>5
    DEF OneOutcomePerBatch, IsRunning, Notified, Destroy, CallerRuns, TypeOK
  <2>3. VerdictIsTruthful'
    BY <1>0, <1>5
    DEF VerdictIsTruthful, Destroy, CallerRuns, TypeOK
  <2>4. HeldActionsAreOwned'
    BY <1>0, <1>5
    DEF HeldActionsAreOwned, Held, InQueue, Destroy, CallerRuns, TypeOK
  <2>5. SyncActionNeverStopped'
    BY <1>0, <1>5
    DEF SyncActionNeverStopped, Destroy, CallerRuns, TypeOK
  <2>6. RunningBatchIsClean'
    BY <1>0, <1>5
    DEF RunningBatchIsClean, IsRunning, Destroy, CallerRuns, TypeOK
  <2> QED
    BY <2>1, <2>2, <2>3, <2>4, <2>5, <2>6 DEF IInv
<1>6. CASE PerformReturns
  <2>1. TypeOK'
    BY <1>0, <1>6
    DEF TypeOK, PerformReturns
  <2>2. OneOutcomePerBatch'
    BY <1>0, <1>6
    DEF OneOutcomePerBatch, IsRunning, Notified, PerformReturns, TypeOK
  <2>3. VerdictIsTruthful'
    BY <1>0, <1>6
    DEF VerdictIsTruthful, PerformReturns, TypeOK
  <2>4. HeldActionsAreOwned'
    BY <1>0, <1>6
    DEF HeldActionsAreOwned, Held, InQueue, PerformReturns, TypeOK
  <2>5. SyncActionNeverStopped'
    BY <1>0, <1>6
    DEF SyncActionNeverStopped, PerformReturns, TypeOK
  <2>6. RunningBatchIsClean'
    BY <1>0, <1>6
    DEF RunningBatchIsClean, IsRunning, PerformReturns, TypeOK
  <2> QED
    BY <2>1, <2>2, <2>3, <2>4, <2>5, <2>6 DEF IInv
<1>7. ASSUME NEW success \in BOOLEAN, ActionComplete(success) PROVE IInv'
  <2>1. TypeOK'
    <3>1. owed = Notified
      BY <1>0, <1>7
      DEF TypeOK, OneOutcomePerBatch, Notified, ActionComplete, MayComplete, IsRunning
    <3>2. owner' \in [Actions -> BOOLEAN] /\ allOk' \in BOOLEAN
      BY <1>0, <1>7 DEF TypeOK, ActionComplete
    <3>3. CASE Remaining(success) = <<>>
      BY <1>0, <1>7, <3>1, <3>2, <3>3
      DEF TypeOK, ActionComplete, FinishBatch, Notified
    <3>4. CASE Remaining(success) # <<>>
      <4>1. actions # <<>> /\ Remaining(success) = actions
        BY <3>4 DEF Remaining
      <4>2. Head(actions) \in Actions /\ Tail(actions) \in Seq(Actions)
        BY <1>0, <4>1 DEF TypeOK
      <4> QED
        BY <1>0, <1>7, <3>2, <3>4, <4>1, <4>2
        DEF TypeOK, ActionComplete, PerformNext
    <3> QED
      BY <3>3, <3>4
  <2>2. OneOutcomePerBatch'
    BY <1>0, <1>7
    DEF OneOutcomePerBatch, IsRunning, Notified, ActionComplete, MayComplete, FinishBatch, PerformNext, Remaining, TypeOK
  <2>3. VerdictIsTruthful'
    BY <1>0, <1>7
    DEF VerdictIsTruthful, RunningBatchIsClean, ActionComplete, MayComplete, IsRunning,
        FinishBatch, PerformNext, Remaining, TypeOK
  <2>4. HeldActionsAreOwned'
    <3>1. /\ life = "alive" /\ actions \in Seq(Actions) /\ current \in Actions
          /\ owner' = [owner EXCEPT ![current] = FALSE]
      BY <1>0, <1>7 DEF ActionComplete, MayComplete, IsRunning, TypeOK
    <3>2. /\ \A b \in Actions : InQueue(b) => owner[b] /\ b # current
          /\ \A i, j \in 1..Len(actions) : actions[i] = actions[j] => i = j
      BY <1>0, <3>1 DEF HeldActionsAreOwned, Held
    <3>3. CASE Remaining(success) = <<>>
      <4>1. actions' = <<>> /\ current' = NoAction
        BY <1>7, <3>3 DEF ActionComplete, FinishBatch
      <4> QED
        BY <4>1 DEF HeldActionsAreOwned, Held, InQueue
    <3>4. CASE Remaining(success) # <<>>
      <4>1. /\ actions # <<>>
            /\ actions' = Tail(actions) /\ current' = Head(actions)
        BY <1>7, <3>4 DEF ActionComplete, PerformNext, Remaining
      <4>2. /\ current' \in Actions
            /\ \A i, j \in 1..Len(actions') : actions'[i] = actions'[j] => i = j
            /\ \A i \in 1..Len(actions') : actions'[i] # current'
            /\ \A i \in 1..Len(actions') :
                  actions'[i] = actions[i + 1] /\ i + 1 \in 1..Len(actions)
            /\ current' = actions[1] /\ 1 \in 1..Len(actions)
        BY <3>1, <3>2, <4>1, TailDistinct
      <4>3. \A b \in Actions : Held(b)' => InQueue(b)
        BY <4>2 DEF Held, InQueue
      <4>4. \A b \in Actions : Held(b)' => owner'[b]
        BY <1>0, <3>1, <3>2, <4>3 DEF TypeOK
      <4> QED
        BY <4>2, <4>4 DEF HeldActionsAreOwned, InQueue
    <3> QED
      BY <3>3, <3>4
  <2>5. SyncActionNeverStopped'
    BY <1>0, <1>7
    DEF SyncActionNeverStopped, ActionComplete, MayComplete, IsRunning, FinishBatch, PerformNext, Remaining, TypeOK
  <2>6. RunningBatchIsClean'
    BY <1>0, <1>7
    DEF RunningBatchIsClean, IsRunning, ActionComplete, MayComplete, FinishBatch, PerformNext, Remaining, TypeOK
  <2> QED
    BY <2>1, <2>2, <2>3, <2>4, <2>5, <2>6 DEF IInv
<1>8. CASE DelegateReturns
  <2>1. TypeOK'
    BY <1>0, <1>8
    DEF TypeOK, DelegateReturns
  <2>2. OneOutcomePerBatch'
    BY <1>0, <1>8
    DEF OneOutcomePerBatch, IsRunning, Notified, DelegateReturns, TypeOK
  <2>3. VerdictIsTruthful'
    BY <1>0, <1>8
    DEF VerdictIsTruthful, DelegateReturns, TypeOK
  <2>4. HeldActionsAreOwned'
    BY <1>0, <1>8
    DEF HeldActionsAreOwned, Held, InQueue, DelegateReturns, TypeOK
  <2>5. SyncActionNeverStopped'
    BY <1>0, <1>8
    DEF SyncActionNeverStopped, RunningBatchIsClean, IsRunning, DelegateReturns, TypeOK
  <2>6. RunningBatchIsClean'
    BY <1>0, <1>8
    DEF RunningBatchIsClean, IsRunning, DelegateReturns, TypeOK
  <2> QED
    BY <2>1, <2>2, <2>3, <2>4, <2>5, <2>6 DEF IInv
<1>9. CASE UNCHANGED procVars
  <2>1. TypeOK'
    BY <1>0, <1>9
    DEF TypeOK, procVars
  <2>2. OneOutcomePerBatch'
    BY <1>0, <1>9
    DEF OneOutcomePerBatch, IsRunning, Notified, procVars, TypeOK
  <2>3. VerdictIsTruthful'
    BY <1>0, <1>9
    DEF VerdictIsTruthful, procVars, TypeOK
  <2>4. HeldActionsAreOwned'
    BY <1>0, <1>9
    DEF HeldActionsAreOwned, Held, InQueue, procVars, TypeOK
  <2>5. SyncActionNeverStopped'
    BY <1>0, <1>9
    DEF SyncActionNeverStopped, procVars, TypeOK
  <2>6. RunningBatchIsClean'
    BY <1>0, <1>9
    DEF RunningBatchIsClean, IsRunning, procVars, TypeOK
  <2> QED
    BY <2>1, <2>2, <2>3, <2>4, <2>5, <2>6 DEF IInv
<1>10. CASE ActionAborts
  <2>1. TypeOK'
    BY <1>0, <1>10
    DEF TypeOK, ActionAborts, MayComplete
  <2>2. OneOutcomePerBatch'
    BY <1>0, <1>10
    DEF OneOutcomePerBatch, IsRunning, Notified, ActionAborts, MayComplete, TypeOK
  <2>3. VerdictIsTruthful'
    BY <1>0, <1>10
    DEF VerdictIsTruthful, ActionAborts, MayComplete, TypeOK
  <2>4. HeldActionsAreOwned'
    BY <1>0, <1>10
    DEF HeldActionsAreOwned, Held, InQueue, ActionAborts, MayComplete, TypeOK
  <2>5. SyncActionNeverStopped'
    BY <1>0, <1>10
    DEF SyncActionNeverStopped, ActionAborts, MayComplete, TypeOK
  <2>6. RunningBatchIsClean'
    BY <1>0, <1>10
    DEF RunningBatchIsClean, IsRunning, ActionAborts, MayComplete, TypeOK
  <2> QED
    BY <2>1, <2>2, <2>3, <2>4, <2>5, <2>6 DEF IInv
<1> QED
  BY <1>1, <1>2, <1>3, <1>4, <1>5, <1>6, <1>7, <1>8, <1>9, <1>10 DEF Next

\* The processor keeps its inductive invariant for every set of Actions and any
\* sequence of calls and completions.
THEOREM Safety == Spec => []IInv
  BY InitIInv, NextIInv, PTL DEF Spec

\* Its variables keep their types; in particular a batch never owes its delegate
\* fewer than zero or more than one final notification.
THEOREM TypeCorrect == Spec => []TypeOK
<1>1. IInv => TypeOK
  BY DEF IInv
<1> QED
  BY <1>1, Safety, PTL

\* StartProcessing(), StopProcessing(), ActionComplete() and the destructor
\* notify the delegate exactly once per batch.
THEOREM ExactlyOneNotification == Spec => []OneOutcomePerBatch
<1>1. IInv => OneOutcomePerBatch
  BY DEF IInv
<1> QED
  BY <1>1, Safety, PTL

\* ProcessingDone(success) tells the truth about the whole batch, however long.
THEOREM TruthfulVerdict == Spec => []VerdictIsTruthful
<1>1. IInv => VerdictIsTruthful
  BY DEF IInv
<1> QED
  BY <1>1, Safety, PTL

\* The CHECKs on processor_ hold for every Action the processor holds.
THEOREM HeldActionsOwned == Spec => []HeldActionsAreOwned
<1>1. IInv => HeldActionsAreOwned
  BY DEF IInv
<1> QED
  BY <1>1, Safety, PTL

\* TerminateProcessing() is never called on a synchronous Action.
THEOREM SyncActionsSafe == Spec => []SyncActionNeverStopped
<1>1. IInv => SyncActionNeverStopped
  BY DEF IInv
<1> QED
  BY <1>1, Safety, PTL

\* StopProcessing() and a successful completion lose nothing that was queued:
\* the action property, from the type invariant alone.
THEOREM NoSilentDrop == Spec => NothingSilentlyDropped
<1>1. ASSUME TypeOK, [Next]_procVars
      PROVE  [\A a \in Actions : (InQueue(a) /\ ~InQueue(a)')
                => (current' = a \/ verdict' = "failure" \/ life' # "alive")]_procVars
  <2> SUFFICES ASSUME Next, NEW a \in Actions, InQueue(a), ~InQueue(a)'
               PROVE  current' = a \/ verdict' = "failure" \/ life' # "alive"
    BY <1>1
  <2>1. actions \in Seq(Actions)
    BY <1>1 DEF TypeOK
  <2>2. actions' # actions
    BY DEF InQueue
  <2>3. ASSUME actions' = Tail(actions), current' = Head(actions) PROVE current' = a
    <3>1. PICK i \in 1..Len(actions) : actions[i] = a
      BY DEF InQueue
    <3>2. CASE i = 1
      BY <2>1, <2>3, <3>1, <3>2
    <3>3. CASE i # 1
      <4>1. i - 1 \in 1..Len(Tail(actions)) /\ Tail(actions)[i - 1] = actions[i]
        BY <2>1, <3>3
      <4> QED
        BY <2>3, <3>1, <4>1 DEF InQueue
    <3> QED
      BY <3>2, <3>3
  <2>4. ASSUME NEW d \in BOOLEAN, SetDelegate(d) PROVE FALSE
    BY <2>2, <2>4 DEF SetDelegate
  <2>5. ASSUME NEW b \in Actions, EnqueueAction(b) PROVE FALSE
    BY <2>1, <2>5 DEF EnqueueAction, InQueue
  <2>6. CASE StartProcessing
    BY <2>3, <2>6 DEF StartProcessing
  <2>7. CASE StopProcessing
    BY <2>2, <2>7 DEF StopProcessing
  <2>8. CASE Destroy
    BY <2>8 DEF Destroy
  <2>9. CASE PerformReturns
    BY <2>2, <2>9 DEF PerformReturns
  <2>10. ASSUME NEW success \in BOOLEAN, ActionComplete(success)
         PROVE  current' = a \/ verdict' = "failure"
    <3>1. CASE Remaining(success) = <<>>
      <4>1. ~success
        BY <2>1, <3>1 DEF Remaining, InQueue
      <4> QED
        BY <2>10, <3>1, <4>1 DEF ActionComplete, FinishBatch
    <3>2. CASE Remaining(success) # <<>>
      BY <2>3, <2>10, <3>2 DEF ActionComplete, PerformNext, Remaining
    <3> QED
      BY <3>1, <3>2
  <2>11. CASE DelegateReturns
    BY <2>2, <2>11 DEF DelegateReturns
  <2>12. CASE ActionAborts
    BY <2>2, <2>12 DEF ActionAborts
  <2> QED
    BY <2>4, <2>5, <2>6, <2>7, <2>8, <2>9, <2>10, <2>11, <2>12 DEF Next
<1> QED
  BY <1>1, TypeCorrect, PTL DEF Spec, NothingSilentlyDropped

===============================================================================
