----------------------------- MODULE WorkerPool -----------------------------
(***************************************************************************)
(* The goroutines and channels with which SyncChain executes the tasks of  *)
(* a pass: a feeder on an unbuffered channel, the workers of Pool.Run, the *)
(* goroutine that closes the results, and SyncChain's own loop over them.  *)
(* The daemon's context may be cancelled at any time; every select that    *)
(* looks at it is a choice between its ready branches.                     *)
(***************************************************************************)
EXTENDS Naturals, Sequences

CONSTANTS NumTasks,    \* tasks of a pass, in the order of the slice
          NumWorkers,  \* -workers, also the capacity of the results channel
          Nil

ASSUME PoolAssumption == NumTasks \in Nat /\ NumWorkers \in Nat \ {0} /\ Nil \notin Nat

Tasks == 1..NumTasks
Workers == 1..NumWorkers

VARIABLES
    active,    \* SyncChain is between Pool.Run and its return
    next,      \* the task the feeder offers
    feeding,   \* the feeder runs; taskCh is closed when it ends
    worker,    \* each worker: where it is, and its task with the outcome
    results,   \* the buffered channel of outcomes
    draining,  \* results is not closed
    firstErr,
    stopped,   \* ctx is cancelled
    failed     \* history: tasks whose execution failed

feedVars == <<next, feeding>>
resultVars == <<results, draining, firstErr>>
vars == <<active, next, feeding, worker, results, draining, firstErr, stopped, failed>>

Outcome == [task: Tasks, bad: BOOLEAN]
WorkerState == [at: {"gone", "recv", "exec", "send"}, task: Tasks \cup {Nil}, bad: BOOLEAN]
Gone == [at |-> "gone", task |-> Nil, bad |-> FALSE]
Receiving == [at |-> "recv", task |-> Nil, bad |-> FALSE]
Executing(t) == [at |-> "exec", task |-> t, bad |-> FALSE]
Sending(t, bad) == [at |-> "send", task |-> t, bad |-> bad]

Init ==
    /\ active = FALSE /\ next = NumTasks + 1 /\ feeding = FALSE
    /\ worker = [w \in Workers |-> Gone]
    /\ results = <<>> /\ draining = FALSE /\ firstErr = Nil
    /\ stopped = FALSE /\ failed = {}

\* SyncChain builds a pool for its tasks and starts every goroutine.
Run ==
    /\ ~active /\ ~stopped
    /\ active' = TRUE /\ next' = 1 /\ feeding' = TRUE
    /\ worker' = [w \in Workers |-> Receiving]
    /\ results' = <<>> /\ draining' = TRUE /\ firstErr' = Nil /\ failed' = {}
    /\ UNCHANGED stopped

\* Mutated form: the feeder goes one past the end of the tasks.
HandOverPastEnd(w) ==
    /\ feeding /\ next <= NumTasks + 1 /\ worker[w].at = "recv"
    /\ worker' = [worker EXCEPT ![w] = Executing(next)]
    /\ next' = next + 1
    /\ UNCHANGED <<active, feeding, resultVars, stopped, failed>>

\* Mutated form: the feeder offers the same task again.
HandOverAgain(w) ==
    /\ feeding /\ next <= NumTasks /\ worker[w].at = "recv"
    /\ worker' = [worker EXCEPT ![w] = Executing(next)]
    /\ next' \in {next, next + 1}
    /\ UNCHANGED <<active, feeding, resultVars, stopped, failed>>

\* The unbuffered channel: feeder and worker meet.
HandOver(w) ==
    /\ feeding /\ next <= NumTasks /\ worker[w].at = "recv"
    /\ worker' = [worker EXCEPT ![w] = Executing(next)]
    /\ next' = next + 1
    /\ UNCHANGED <<active, feeding, resultVars, stopped, failed>>

\* Mutated form: only a cancelled feeder closes the channel.
FeederEndsIfStopped ==
    /\ feeding /\ stopped /\ feeding' = FALSE
    /\ UNCHANGED <<active, next, worker, resultVars, stopped, failed>>

\* The feeder has run out of tasks, or takes its ctx.Done branch.
FeederEnds ==
    /\ feeding /\ (next > NumTasks \/ stopped) /\ feeding' = FALSE
    /\ UNCHANGED <<active, next, worker, resultVars, stopped, failed>>

Execute(w) ==
    /\ worker[w].at = "exec"
    /\ \E bad \in BOOLEAN :
          /\ worker' = [worker EXCEPT ![w] = Sending(worker[w].task, bad)]
          /\ failed' = IF bad THEN failed \cup {worker[w].task} ELSE failed
    /\ UNCHANGED <<active, feedVars, resultVars, stopped>>

OutcomeOf(w) == [task |-> worker[w].task, bad |-> worker[w].bad]

\* Mutated form: a worker that finds the channel full drops the outcome.
SendOrDrop(w) ==
    /\ worker[w].at = "send"
    /\ results' = IF Len(results) < NumWorkers - 1
                  THEN Append(results, OutcomeOf(w)) ELSE results
    /\ worker' = [worker EXCEPT ![w] = Receiving]
    /\ UNCHANGED <<active, feedVars, draining, firstErr, stopped, failed>>

Send(w) ==
    /\ worker[w].at = "send" /\ Len(results) < NumWorkers
    /\ results' = Append(results, OutcomeOf(w))
    /\ worker' = [worker EXCEPT ![w] = Receiving]
    /\ UNCHANGED <<active, feedVars, draining, firstErr, stopped, failed>>

\* A worker returns: the channel is closed, or it takes a ctx.Done branch,
\* in the second case perhaps with an outcome nobody will see.
WorkerEnds(w) ==
    /\ \/ worker[w].at = "recv" /\ (~feeding \/ stopped)
       \/ worker[w].at = "send" /\ stopped
    /\ worker' = [worker EXCEPT ![w] = Gone]
    /\ UNCHANGED <<active, feedVars, resultVars, stopped, failed>>

\* Mutated form: the channel is closed when the first worker returns.
CloseWithFirst ==
    /\ draining /\ \E w \in Workers : worker[w] = Gone
    /\ draining' = FALSE
    /\ UNCHANGED <<active, feedVars, worker, results, firstErr, stopped, failed>>

\* wg.Wait returns once every worker has.
CloseResults ==
    /\ draining /\ \A w \in Workers : worker[w] = Gone
    /\ draining' = FALSE
    /\ UNCHANGED <<active, feedVars, worker, results, firstErr, stopped, failed>>

Receive ==
    /\ active /\ results # <<>> /\ results' = Tail(results)
    /\ firstErr' = IF Head(results).bad /\ firstErr = Nil
                   THEN Head(results).task ELSE firstErr
    /\ UNCHANGED <<active, feedVars, worker, draining, stopped, failed>>

Return ==
    /\ active /\ results = <<>> /\ ~draining /\ active' = FALSE
    /\ UNCHANGED <<feedVars, worker, resultVars, stopped, failed>>

\* The daemon is told to stop; its process ends and is started again.
Cancel ==
    /\ ~stopped /\ stopped' = TRUE
    /\ UNCHANGED <<active, feedVars, worker, resultVars, failed>>

Restart ==
    /\ stopped /\ ~active
    /\ next' = NumTasks + 1 /\ feeding' = FALSE /\ firstErr' = Nil
    /\ stopped' = FALSE /\ failed' = {}
    /\ UNCHANGED <<active, worker, results, draining>>

WorkerStep(w) == HandOver(w) \/ Execute(w) \/ Send(w) \/ WorkerEnds(w)
Next == \/ Run \/ FeederEnds \/ (\E w \in Workers : WorkerStep(w))
        \/ CloseResults \/ Receive \/ Return \/ Cancel \/ Restart

Spec == Init /\ [][Next]_vars

\* Every goroutine that can go on does; nothing is assumed of shutdowns.
Fairness == /\ WF_vars(FeederEnds) /\ WF_vars(CloseResults)
            /\ WF_vars(Receive) /\ WF_vars(Return)
            /\ \A w \in Workers : WF_vars(WorkerStep(w))
FairSpec == Spec /\ Fairness
-----------------------------------------------------------------------------
PoolTypeOK ==
    /\ active \in BOOLEAN /\ feeding \in BOOLEAN /\ draining \in BOOLEAN /\ stopped \in BOOLEAN
    /\ next \in 1..NumTasks + 1
    /\ worker \in [Workers -> WorkerState]
    /\ results \in Seq(Outcome)
    /\ firstErr \in Tasks \cup {Nil} /\ failed \subseteq Tasks

\* The tasks whose failure SyncChain can still learn of: outcomes in the
\* channel and in the hands of workers.
Underway == {t \in Tasks :
    \/ \E i \in DOMAIN results : results[i].bad /\ results[i].task = t
    \/ \E w \in Workers : worker[w].at = "send" /\ worker[w].bad /\ worker[w].task = t}

\* No failure is lost: unless the daemon stops, a pass with a failed task has
\* its error or will receive one, and it has an error only if a task failed.
FailureIsReported ==
    /\ firstErr # Nil => firstErr \in failed
    /\ active /\ ~stopped /\ failed # {} => firstErr # Nil \/ Underway # {}

\* While tasks may still be handed over or executed, the results stay open:
\* SyncChain cannot return before its workers have.
ClosedMeansDone ==
    /\ ~draining => \A w \in Workers : worker[w] = Gone
    /\ active /\ ~stopped /\ (\E w \in Workers : worker[w] = Gone) => ~feeding
    /\ active /\ ~stopped /\ ~feeding => next > NumTasks

\* Module TaskSet, with a task pending until its execution has ended.
Pending == {t \in Tasks :
    t >= next \/ \E w \in Workers : worker[w].at = "exec" /\ worker[w].task = t}
Abstract == INSTANCE TaskSet WITH pending <- Pending,
    verdict <- IF active THEN Nil ELSE firstErr
ExecutesTaskSet == Abstract!Spec

\* A pass that has started its pool returns: the pool drains, cancelled or not.
PassReturns == active ~> ~active
=============================================================================
