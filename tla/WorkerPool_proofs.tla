-------------------------- MODULE WorkerPool_proofs --------------------------
(* The worker pool loses no failure and implements TaskSet, for any number  *)
(* of tasks and workers.                                                    *)
EXTENDS WorkerPool, SequenceTheorems, TLAPS

\* A worker that executes or sends has a task the feeder is past, and no two
\* workers execute the same one.
TakenInv == \A w \in Workers :
    worker[w].at \in {"exec", "send"} => worker[w].task \in 1..next - 1
ShapeInv == \A w \in Workers :
    /\ worker[w].at = "exec" => worker[w] = Executing(worker[w].task)
    /\ worker[w].at = "gone" => worker[w] = Gone
DistinctInv == \A v, w \in Workers :
    worker[v].at = "exec" /\ worker[w].at = "exec" /\ worker[v].task = worker[w].task => v = w
HeldInv == TakenInv /\ ShapeInv /\ DistinctInv

\* Failures are only reported of tasks that failed.
TrueReports ==
    /\ \A i \in DOMAIN results : results[i].bad => results[i].task \in failed
    /\ \A w \in Workers : worker[w].at = "send" /\ worker[w].bad => worker[w].task \in failed
\* Outside a pass nothing is left in the channel, and no goroutine.
IdleInv == ~active => results = <<>> /\ ~draining

PoolInv == /\ PoolTypeOK /\ HeldInv /\ TrueReports /\ IdleInv
           /\ FailureIsReported /\ ClosedMeansDone

LEMMA SomeWorker == Workers # {} /\ 1 \in Workers
  BY PoolAssumption DEF Workers

LEMMA InitPool == Init => PoolInv
  <1> SUFFICES ASSUME Init PROVE PoolInv
    OBVIOUS
  <1> USE PoolAssumption DEF PoolAssumption, Init
  <1>1. \A w \in Workers : worker[w] = Gone
    OBVIOUS
  <1>2. PoolTypeOK
    <2>1. worker \in [Workers -> WorkerState]
      BY DEF Gone, WorkerState
    <2>2. results \in Seq(Outcome) /\ next \in 1..NumTasks + 1
      OBVIOUS
    <2> QED BY <2>1, <2>2 DEF PoolTypeOK
  <1>3. HeldInv
    BY <1>1 DEF HeldInv, TakenInv, ShapeInv, DistinctInv, Gone
  <1>4. TrueReports
    BY <1>1 DEF TrueReports, Gone
  <1>5. IdleInv /\ FailureIsReported /\ ClosedMeansDone
    BY <1>1 DEF IdleInv, FailureIsReported, ClosedMeansDone
  <1> QED BY <1>2, <1>3, <1>4, <1>5 DEF PoolInv

LEMMA RunPool == ASSUME PoolInv, Run PROVE PoolInv'
  <1> USE PoolAssumption DEF PoolAssumption, PoolInv, Run
  <1>1. PoolTypeOK'
    BY DEF PoolTypeOK, Receiving, WorkerState, Tasks
  <1>0. \A w \in Workers : worker'[w] = Receiving
    OBVIOUS
  <1>2. HeldInv'
    BY <1>0 DEF Receiving, HeldInv, TakenInv, ShapeInv, DistinctInv
  <1>3. (TrueReports /\ IdleInv /\ FailureIsReported /\ ClosedMeansDone)'
    BY <1>0 DEF TrueReports, IdleInv, FailureIsReported, ClosedMeansDone, Receiving, Gone
  <1> QED BY <1>1, <1>2, <1>3

LEMMA HandOverPool == ASSUME PoolInv, NEW w \in Workers, HandOver(w) PROVE PoolInv'
  <1> USE PoolAssumption DEF PoolAssumption, PoolInv, HandOver, feedVars, resultVars
  <1>0. next \in Tasks /\ next + 1 \in 1..NumTasks + 1
    BY DEF PoolTypeOK, Tasks
  <1>1. PoolTypeOK'
    BY <1>0 DEF PoolTypeOK, Executing, WorkerState, Tasks
  <1>2. HeldInv'
    BY <1>0 DEF PoolTypeOK, HeldInv, TakenInv, ShapeInv, DistinctInv, Executing, Gone, Tasks
  <1>3. (TrueReports /\ IdleInv)'
    BY DEF PoolTypeOK, TrueReports, IdleInv, Executing
  <1>4. Underway' = Underway
    BY DEF PoolTypeOK, Underway, Executing
  <1>5. FailureIsReported'
    BY <1>4 DEF FailureIsReported
  <1>6. ClosedMeansDone'
    <2>1. worker[w] # Gone /\ draining
      BY DEF Gone, ClosedMeansDone
    <2>2. \A v \in Workers : worker'[v] = Gone => worker[v] = Gone
      BY DEF PoolTypeOK, Executing, Gone
    <2> QED BY <2>1, <2>2 DEF ClosedMeansDone
  <1> QED BY <1>1, <1>2, <1>3, <1>5, <1>6

LEMMA FeederEndsPool == ASSUME PoolInv, FeederEnds PROVE PoolInv'
  <1> USE PoolAssumption DEF PoolAssumption, PoolInv, FeederEnds, resultVars
  <1>1. Underway' = Underway
    BY DEF Underway
  <1> QED BY <1>1 DEF PoolTypeOK, HeldInv, TakenInv, ShapeInv, DistinctInv, TrueReports, IdleInv, FailureIsReported,
                      ClosedMeansDone

LEMMA ExecutePool == ASSUME PoolInv, NEW w \in Workers, Execute(w) PROVE PoolInv'
  <1> USE PoolAssumption DEF PoolAssumption, PoolInv, feedVars, resultVars
  <1>0. worker[w].task \in Tasks
    BY DEF Execute, HeldInv, TakenInv, PoolTypeOK, Tasks
  <1>1. PICK bad \in BOOLEAN, t \in Tasks :
          /\ t = worker[w].task /\ worker[w].at = "exec"
          /\ worker' = [worker EXCEPT ![w] = Sending(t, bad)]
          /\ failed' = IF bad THEN failed \cup {t} ELSE failed
          /\ UNCHANGED <<active, next, feeding, results, draining, firstErr, stopped>>
    BY <1>0 DEF Execute
  <1>2. PoolTypeOK'
    BY <1>1 DEF PoolTypeOK, Sending, WorkerState
  <1>3. HeldInv'
    BY <1>1 DEF PoolTypeOK, HeldInv, TakenInv, ShapeInv, DistinctInv, Sending, Gone, Executing
  <1>4. (TrueReports /\ IdleInv)'
    BY <1>1 DEF PoolTypeOK, TrueReports, IdleInv, Sending
  <1>5. Underway \subseteq Underway' /\ (bad => t \in Underway')
    BY <1>1 DEF PoolTypeOK, Underway, Sending
  <1>6. FailureIsReported'
    BY <1>1, <1>5 DEF FailureIsReported, PoolTypeOK
  <1>7. ClosedMeansDone'
    <2>1. worker[w] # Gone /\ draining
      BY <1>1 DEF Gone, ClosedMeansDone
    <2>2. \A v \in Workers : worker'[v] = Gone => worker[v] = Gone
      BY <1>1 DEF PoolTypeOK, Sending, Gone
    <2> QED BY <1>1, <2>1, <2>2 DEF ClosedMeansDone
  <1> QED BY <1>2, <1>3, <1>4, <1>6, <1>7

LEMMA SendPool == ASSUME PoolInv, NEW w \in Workers, Send(w) PROVE PoolInv'
  <1> USE PoolAssumption DEF PoolAssumption, PoolInv, feedVars
  <1>1. PICK out \in Outcome :
          /\ out = OutcomeOf(w) /\ worker[w].at = "send"
          /\ results' = Append(results, out) /\ worker' = [worker EXCEPT ![w] = Receiving]
          /\ UNCHANGED <<active, next, feeding, draining, firstErr, stopped, failed>>
    BY DEF Send, OutcomeOf, HeldInv, TakenInv, PoolTypeOK, Outcome, WorkerState, Tasks
  <1>2. PoolTypeOK'
    BY <1>1 DEF PoolTypeOK, Receiving, WorkerState
  <1>3. HeldInv'
    BY <1>1 DEF PoolTypeOK, HeldInv, TakenInv, ShapeInv, DistinctInv, Receiving, Gone, Executing
  <1>4. /\ DOMAIN results' = 1..Len(results) + 1 /\ DOMAIN results = 1..Len(results)
        /\ Len(results) \in Nat /\ results'[Len(results) + 1] = out
        /\ \A i \in 1..Len(results) : results'[i] = results[i]
    BY <1>1, AppendProperties DEF PoolTypeOK
  <1>5. TrueReports'
    <2>1. out.bad => out.task \in failed
      BY <1>1 DEF TrueReports, OutcomeOf
    <2>2. \A i \in DOMAIN results' : results'[i].bad => results'[i].task \in failed'
      BY <1>1, <1>4, <2>1 DEF TrueReports
    <2> QED BY <1>1, <2>2 DEF TrueReports, PoolTypeOK, Receiving
  <1>6. IdleInv'
    <2>1. active
      BY <1>1 DEF IdleInv, ClosedMeansDone, Gone
    <2> QED BY <1>1, <2>1 DEF IdleInv
  <1>7. Underway \subseteq Underway'
    <2> SUFFICES ASSUME NEW t \in Underway PROVE t \in Underway'
      OBVIOUS
    <2>1. CASE \E i \in DOMAIN results : results[i].bad /\ results[i].task = t
      BY <2>1, <1>4 DEF Underway
    <2>2. CASE \E v \in Workers : worker[v].at = "send" /\ worker[v].bad /\ worker[v].task = t
      <3>1. PICK v \in Workers : worker[v].at = "send" /\ worker[v].bad /\ worker[v].task = t
        BY <2>2
      <3>2. CASE v = w
        <4>1. out.bad /\ out.task = t
          BY <3>1, <3>2, <1>1 DEF OutcomeOf
        <4> QED BY <4>1, <1>4 DEF Underway
      <3>3. CASE v # w
        BY <3>1, <3>3, <1>1 DEF Underway, PoolTypeOK
      <3> QED BY <3>2, <3>3
    <2> QED BY <2>1, <2>2 DEF Underway
  <1>8. FailureIsReported'
    BY <1>1, <1>7 DEF FailureIsReported
  <1>9. ClosedMeansDone'
    <2>1. worker[w] # Gone /\ draining
      BY <1>1 DEF Gone, ClosedMeansDone
    <2>2. \A v \in Workers : worker'[v] = Gone => worker[v] = Gone
      BY <1>1 DEF PoolTypeOK, Receiving, Gone
    <2> QED BY <1>1, <2>1, <2>2 DEF ClosedMeansDone
  <1> QED BY <1>2, <1>3, <1>5, <1>6, <1>8, <1>9

LEMMA WorkerEndsPool == ASSUME PoolInv, NEW w \in Workers, WorkerEnds(w) PROVE PoolInv'
  <1> USE PoolAssumption DEF PoolAssumption, PoolInv, WorkerEnds, feedVars, resultVars
  <1>1. PoolTypeOK'
    BY DEF PoolTypeOK, Gone, WorkerState
  <1>2. HeldInv'
    BY DEF PoolTypeOK, HeldInv, TakenInv, ShapeInv, DistinctInv, Gone, Executing
  <1>3. (TrueReports /\ IdleInv)'
    BY DEF PoolTypeOK, TrueReports, IdleInv, Gone
  <1>4. ~stopped => Underway' = Underway
    BY DEF PoolTypeOK, Underway, Gone
  <1>5. FailureIsReported'
    BY <1>4 DEF FailureIsReported
  <1>6. ClosedMeansDone'
    <2>1. worker[w] # Gone /\ draining
      BY DEF ClosedMeansDone, Gone
    <2>2. stopped \/ ~feeding
      OBVIOUS
    <2> QED BY <2>1, <2>2 DEF ClosedMeansDone
  <1> QED BY <1>1, <1>2, <1>3, <1>5, <1>6

LEMMA ReceivePool == ASSUME PoolInv, Receive PROVE PoolInv'
  <1> USE PoolAssumption DEF PoolAssumption, PoolInv, feedVars
  <1>1. PICK out \in Outcome :
          /\ out = Head(results) /\ results # <<>> /\ results' = Tail(results) /\ active
          /\ firstErr' = IF out.bad /\ firstErr = Nil THEN out.task ELSE firstErr
          /\ UNCHANGED <<active, next, feeding, worker, draining, stopped, failed>>
    BY HeadTailProperties DEF Receive, PoolTypeOK
  <1>2. results' \in Seq(Outcome) /\ out = results[1] /\ DOMAIN results = 1..Len(results)
        /\ Len(results) \in Nat \ {0} /\ DOMAIN results' = 1..Len(results) - 1
        /\ \A i \in DOMAIN results' : results'[i] = results[i + 1]
    BY <1>1, HeadTailProperties DEF PoolTypeOK
  <1>3. PoolTypeOK' /\ HeldInv' /\ IdleInv' /\ ClosedMeansDone'
    BY <1>1, <1>2 DEF PoolTypeOK, Outcome, HeldInv, TakenInv, ShapeInv, DistinctInv, IdleInv,
                      ClosedMeansDone
  <1>4. TrueReports'
    BY <1>1, <1>2 DEF TrueReports
  <1>5. Underway # {} => Underway' # {} \/ firstErr' # Nil
    <2> SUFFICES ASSUME NEW t \in Underway PROVE Underway' # {} \/ firstErr' # Nil
      OBVIOUS
    <2>1. CASE \E i \in DOMAIN results : results[i].bad /\ results[i].task = t
      <3>1. PICK i \in DOMAIN results : results[i].bad /\ results[i].task = t
        BY <2>1
      <3>2. CASE i = 1
        BY <3>1, <3>2, <1>1, <1>2 DEF Outcome, Tasks
      <3>3. CASE i # 1
        <4>1. i - 1 \in DOMAIN results' /\ results'[i - 1] = results[i]
          BY <1>2, <3>1, <3>3
        <4> QED BY <4>1, <3>1 DEF Underway
      <3> QED BY <3>2, <3>3
    <2>2. CASE \E w \in Workers : worker[w].at = "send" /\ worker[w].bad /\ worker[w].task = t
      BY <2>2, <1>1 DEF Underway
    <2> QED BY <2>1, <2>2 DEF Underway
  <1>6. out.bad => out.task \in failed
    BY <1>1, <1>2 DEF TrueReports
  <1>7. FailureIsReported'
    BY <1>1, <1>5, <1>6 DEF FailureIsReported
  <1> QED BY <1>3, <1>4, <1>7

LEMMA CloseResultsPool == ASSUME PoolInv, CloseResults PROVE PoolInv'
  <1>1. Underway' = Underway
    BY DEF CloseResults, feedVars, Underway
  <1> QED BY <1>1 DEF CloseResults, feedVars, PoolInv, PoolTypeOK, HeldInv, TakenInv, ShapeInv,
                      DistinctInv, TrueReports, IdleInv, FailureIsReported, ClosedMeansDone

LEMMA ReturnPool == ASSUME PoolInv, Return PROVE PoolInv'
  BY DEF Return, feedVars, resultVars, PoolInv, PoolTypeOK, HeldInv, TakenInv, ShapeInv,
         DistinctInv, TrueReports, IdleInv, FailureIsReported, ClosedMeansDone

LEMMA CancelPool == ASSUME PoolInv, Cancel PROVE PoolInv'
  BY DEF Cancel, feedVars, resultVars, PoolInv, PoolTypeOK, HeldInv, TakenInv, ShapeInv,
         DistinctInv, TrueReports, IdleInv, FailureIsReported, ClosedMeansDone

LEMMA RestartPool == ASSUME PoolInv, Restart PROVE PoolInv'
  <1>1. \A w \in Workers : worker[w] = Gone
    BY DEF PoolInv, Restart, IdleInv, ClosedMeansDone
  <1>2. PoolTypeOK'
    <2>1. NumTasks + 1 \in 1..NumTasks + 1
      BY PoolAssumption DEF PoolAssumption
    <2> QED BY <2>1 DEF PoolInv, Restart, PoolTypeOK, Tasks
  <1>3. worker' = worker /\ results' = <<>> /\ ~draining' /\ ~active' /\ results = <<>>
        /\ ~stopped' /\ ~feeding' /\ firstErr' = Nil /\ failed' = {}
    BY DEF PoolInv, Restart, IdleInv
  <1>4. \A w \in Workers : worker'[w] = Gone /\ worker'[w].at = "gone"
    <2>1. Gone.at = "gone"
      BY DEF Gone
    <2> QED BY <1>1, <1>3, <2>1
  <1>5. HeldInv'
    BY <1>4 DEF HeldInv, TakenInv, ShapeInv, DistinctInv
  <1>6. (TrueReports /\ IdleInv)'
    BY <1>3, <1>4 DEF TrueReports, IdleInv
  <1>7. (FailureIsReported /\ ClosedMeansDone)'
    BY <1>3, <1>4 DEF FailureIsReported, ClosedMeansDone
  <1> QED BY <1>2, <1>5, <1>6, <1>7 DEF PoolInv

LEMMA NextPool == PoolInv /\ [Next]_vars => PoolInv'
  <1> SUFFICES ASSUME PoolInv, [Next]_vars PROVE PoolInv'
    OBVIOUS
  <1>1. CASE Run
    BY <1>1, RunPool
  <1>2. CASE FeederEnds
    BY <1>2, FeederEndsPool
  <1>3. ASSUME NEW w \in Workers, WorkerStep(w) PROVE PoolInv'
    BY <1>3, HandOverPool, ExecutePool, SendPool, WorkerEndsPool DEF WorkerStep
  <1>4. CASE CloseResults \/ Receive \/ Return
    BY <1>4, CloseResultsPool, ReceivePool, ReturnPool
  <1>5. CASE Cancel \/ Restart
    BY <1>5, CancelPool, RestartPool
  <1>6. CASE UNCHANGED vars
    BY <1>6 DEF vars, PoolInv, PoolTypeOK, HeldInv, TakenInv, ShapeInv, DistinctInv, TrueReports,
                IdleInv, FailureIsReported, ClosedMeansDone, Underway
  <1> QED BY <1>1, <1>2, <1>3, <1>4, <1>5, <1>6 DEF Next

LEMMA PoolInvariance == Spec => []PoolInv
  BY InitPool, NextPool, PTL DEF Spec

\* The variables of the pool keep their types.
THEOREM PoolTypesHold == Spec => []PoolTypeOK
  BY PoolInvariance, PTL DEF PoolInv

\* Whatever the scheduler does, a failed task's error reaches SyncChain or is
\* on its way.
THEOREM NoFailureIsLost == Spec => []FailureIsReported
  BY PoolInvariance, PTL DEF PoolInv

\* The results are not closed before the workers are done, and while the
\* daemon runs no worker is done before every task has been handed over.
THEOREM ResultsStayOpen == Spec => []ClosedMeansDone
  BY PoolInvariance, PTL DEF PoolInv
-----------------------------------------------------------------------------
(* The refinement: one step of the pool is one step of TaskSet, or none.    *)

\* Steps of the channels alone leave the abstract state as it is.
LEMMA ChannelStutters ==
  ASSUME PoolInv, UNCHANGED <<active, stopped, failed>>, Pending' = Pending,
         active \/ UNCHANGED firstErr
  PROVE  UNCHANGED Abstract!vars
  BY DEF Abstract!vars

LEMMA HandOverAbstract == ASSUME PoolInv, NEW w \in Workers, HandOver(w) PROVE UNCHANGED Abstract!vars
  <1> USE PoolAssumption DEF PoolAssumption, PoolInv
  <1>1. Pending' = Pending
    <2>1. next \in Tasks /\ next' = next + 1 /\ worker[w].at = "recv"
          /\ worker'[w].at = "exec" /\ worker'[w].task = next
          /\ \A v \in Workers \ {w} : worker'[v] = worker[v]
      BY DEF HandOver, PoolTypeOK, Tasks, Executing
    <2>2. \A t \in Tasks : t >= next' <=> t >= next /\ t # next
      BY <2>1 DEF Tasks
    <2>3. ASSUME NEW t \in Tasks PROVE (t \in Pending') <=> (t \in Pending)
      <3>1. CASE t = next
        BY <2>1, <2>2, <3>1 DEF Pending, Tasks
      <3>2. CASE t # next
        BY <2>1, <2>2, <3>2 DEF Pending
      <3> QED BY <3>1, <3>2
    <2> QED BY <2>3 DEF Pending
  <1> QED BY <1>1, ChannelStutters DEF HandOver, resultVars

LEMMA ExecuteAbstract ==
  ASSUME PoolInv, NEW w \in Workers, Execute(w) PROVE \E t \in Tasks : Abstract!Execute(t)
  <1> USE PoolAssumption DEF PoolAssumption, PoolInv
  <1>1. PICK t \in Tasks : t = worker[w].task /\ worker[w].at = "exec" /\ t < next
    BY DEF Execute, HeldInv, TakenInv, PoolTypeOK, Tasks
  <1>2. PICK bad \in BOOLEAN :
          /\ worker' = [worker EXCEPT ![w] = Sending(t, bad)]
          /\ failed' = IF bad THEN failed \cup {t} ELSE failed
          /\ UNCHANGED <<active, next, feeding, results, draining, firstErr, stopped>>
    BY <1>1 DEF Execute, feedVars, resultVars
  <1>3. worker'[w].at = "send" /\ \A v \in Workers \ {w} : worker'[v] = worker[v]
    BY <1>2 DEF PoolTypeOK, Sending
  <1>4. \A v \in Workers \ {w} : ~(worker[v].at = "exec" /\ worker[v].task = t)
    BY <1>1 DEF HeldInv, DistinctInv
  <1>5. next' = next /\ next \in Nat /\ t \in Nat
    BY <1>1, <1>2 DEF PoolTypeOK, Tasks
  <1>6. Pending' = Pending \ {t}
    <2>1. ASSUME NEW u \in Tasks
          PROVE (u \in Pending') <=> (u \in Pending /\ u # t)
      <3>1. CASE u = t
        BY <1>1, <1>3, <1>4, <1>5, <3>1 DEF Pending
      <3>2. CASE u # t
        BY <1>1, <1>3, <1>5, <3>2 DEF Pending
      <3> QED BY <3>1, <3>2
    <2> QED BY <2>1 DEF Pending
  <1>7. active
    <2>1. worker[w] # Gone
      BY <1>1 DEF Gone
    <2> QED BY <2>1 DEF IdleInv, ClosedMeansDone
  <1>8. t \in Pending
    BY <1>1 DEF Pending
  <1> QED BY <1>2, <1>6, <1>7, <1>8 DEF Abstract!Execute

LEMMA ReturnAbstract == ASSUME PoolInv, Return PROVE Abstract!Return
  <1> USE PoolAssumption DEF PoolAssumption, PoolInv, Return, feedVars, resultVars
  <1>1. \A w \in Workers : worker[w] = Gone
    BY DEF ClosedMeansDone
  <1>2. Pending' = Pending
    BY DEF Pending
  <1>3. firstErr \in failed \cup {Nil}
    BY DEF FailureIsReported
  <1>4. ASSUME ~stopped PROVE Pending = {} /\ (firstErr = Nil <=> failed = {})
    <2>1. next > NumTasks
      BY <1>1, <1>4, SomeWorker DEF ClosedMeansDone
    <2>2. Pending = {}
      BY <1>1, <2>1 DEF Pending, Executing, Gone, Tasks, PoolTypeOK
    <2>3. Underway = {}
      BY <1>1 DEF Underway, Gone
    <2> QED BY <2>2, <2>3, <1>4 DEF FailureIsReported, PoolTypeOK, Tasks
  <1> QED BY <1>2, <1>3, <1>4 DEF Abstract!Return

LEMMA InitAbstract == Init => Abstract!Init
  BY PoolAssumption DEF PoolAssumption, Init, Abstract!Init, Pending, Executing, Gone, Tasks

LEMMA RunAbstract == ASSUME PoolInv, Run PROVE Abstract!Start
  <1>1. Pending' = Tasks
    BY PoolAssumption DEF PoolAssumption, Run, Pending, Tasks
  <1> QED BY <1>1 DEF Run, Abstract!Start

LEMMA RestartAbstract == ASSUME PoolInv, Restart PROVE Abstract!Restart
  <1>1. \A w \in Workers : worker'[w] = Gone
    BY DEF PoolInv, IdleInv, ClosedMeansDone, Restart
  <1>2. Pending' = {}
    BY <1>1, PoolAssumption DEF PoolAssumption, Restart, Pending, Executing, Gone, Tasks
  <1> QED BY <1>2 DEF Restart, Abstract!Restart

LEMMA NextAbstract == PoolInv /\ [Next]_vars => [Abstract!Next]_Abstract!vars
  <1> SUFFICES ASSUME PoolInv, [Next]_vars PROVE Abstract!Next \/ UNCHANGED Abstract!vars
    OBVIOUS
  <1>1. CASE Run
    BY <1>1, RunAbstract DEF Abstract!Next
  <1>2. CASE FeederEnds \/ CloseResults
    <2>1. Pending' = Pending
      BY <1>2 DEF FeederEnds, CloseResults, feedVars, Pending
    <2> QED BY <1>2, <2>1, ChannelStutters DEF FeederEnds, CloseResults, resultVars
  <1>3. CASE Receive
    <2>1. Pending' = Pending
      BY <1>3 DEF Receive, feedVars, Pending
    <2> QED BY <1>3, <2>1, ChannelStutters DEF Receive
  <1>4. CASE Return
    BY <1>4, ReturnAbstract DEF Abstract!Next
  <1>5. CASE Cancel
    <2>1. Pending' = Pending
      BY <1>5 DEF Cancel, feedVars, Pending
    <2> QED BY <1>5, <2>1 DEF Cancel, resultVars, Abstract!Next, Abstract!Stop
  <1>6. CASE Restart
    BY <1>6, RestartAbstract DEF Abstract!Next
  <1>7. ASSUME NEW w \in Workers, Send(w) \/ WorkerEnds(w) PROVE UNCHANGED Abstract!vars
    <2>1. Pending' = Pending
      <3>1. /\ worker[w].at # "exec" /\ worker'[w].at # "exec" /\ next' = next
            /\ \A v \in Workers \ {w} : worker'[v] = worker[v]
        BY <1>7 DEF PoolInv, PoolTypeOK, Send, WorkerEnds, feedVars, Receiving, Gone
      <3>2. ASSUME NEW t \in Tasks PROVE (t \in Pending') <=> (t \in Pending)
        BY <3>1 DEF Pending
      <3> QED BY <3>2 DEF Pending
    <2> QED BY <1>7, <2>1, ChannelStutters DEF Send, WorkerEnds, resultVars
  <1>8. ASSUME NEW w \in Workers, WorkerStep(w) PROVE Abstract!Next \/ UNCHANGED Abstract!vars
    BY <1>7, <1>8, HandOverAbstract, ExecuteAbstract DEF WorkerStep, Abstract!Next
  <1>9. CASE UNCHANGED vars
    BY <1>9 DEF vars, Abstract!vars, Pending
  <1> QED BY <1>1, <1>2, <1>3, <1>4, <1>5, <1>6, <1>8, <1>9 DEF Next

\* The channels and goroutines of worker.go and SyncChain do what module
\* TaskSet says: every task once, none forgotten, the error if there is one.
THEOREM PoolImplementsTaskSet == Spec => ExecutesTaskSet
  BY InitAbstract, NextAbstract, PoolInvariance, PTL DEF Spec, ExecutesTaskSet, Abstract!Spec
=============================================================================
