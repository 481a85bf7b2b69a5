--------------------------- MODULE WorkflowEngine ---------------------------
(***************************************************************************)
(* One approved run executed by the workflow engine: the loop of           *)
(* engine/engine.ts over the durable snapshot, the step attempts it        *)
(* starts, git integration, artifact routing, and the lifecycle that       *)
(* resumes, retries and cancels the run (engine/recovery.ts and            *)
(* workflows/change-run.ts).                                               *)
(*                                                                         *)
(* An action is one transaction on the snapshot, one git or artifact       *)
(* operation, or one event of a worker, so a crash, a cancellation or the  *)
(* settling of another step may fall between any two of them.              *)
(***************************************************************************)
EXTENDS StepScheduler, Sequences

CONSTANTS
  Outputs,           \* Outputs[s]: the output names step s declares
  Inputs,            \* Inputs[s]: the <<producer, output>> pairs s consumes
  MaxAttempts,       \* MaxAttempts[s]: retry.maxAttempts of s
  MayCommitNothing,  \* repairs: they may succeed without a commit
  NoStep,            \* what hand holds between steps
  MaxCrashes,        \* bound on process crashes
  MaxRetries         \* bound on user retries

OutputNames == UNION {Outputs[s] : s \in Steps}

ASSUME StepDeclarations ==
  /\ DOMAIN Outputs = Steps
  /\ Inputs \in [Steps -> SUBSET (Steps \X OutputNames)]
  /\ \A s \in Steps : \A i \in Inputs[s] : i[1] \in Deps[s] /\ i[2] \in Outputs[i[1]]
  /\ MaxAttempts \in [Steps -> 1..5]
  /\ MayCommitNothing \subseteq Mutating
  /\ NoStep \notin Steps

ASSUME BoundsAssumption == MaxCrashes \in Nat /\ MaxRetries \in Nat

VARIABLES
  \* the durable snapshot (WorkflowRunState)
  state,            \* lifecycle state of the engine run
  stepState,        \* stepState[s]: StepRunState of s
  integrated,       \* steps with an integratedCommit
  attempts,         \* attempts[s]: the attempts of s, in number order
  integrationHead,  \* history of the recorded integration head
  \* git and the artifact store
  branch,           \* history of the integration branch
  leftover,         \* leftover[s]: heads of a worktree already made for the
                    \* next attempt number of s (at most one)
  taskCommits,      \* <<s, n>>: attempt n of s has a commit on its branch
  artifacts,        \* <<s, o, n>>: attempt n of s published output o
  \* the stored run
  stored,
  \* the process that holds the lifecycle lease
  pc, queue, hand, aborted, worker, stopped,
  \* the outside world
  cancel, crashes, retries

snapshot == <<state, stepState, integrated, attempts, integrationHead>>
repository == <<branch, leftover, taskCommits>>
process == <<pc, queue, hand, aborted, worker, stopped>>
world == <<cancel, crashes, retries>>
vars == <<snapshot, repository, artifacts, stored, process, world>>

-----------------------------------------------------------------------------
(* The values.                                                             *)

RunLifecycleState == {"running", "completed", "failed", "cancelled"}
StoredState == {"running", "failed", "cancelled", "validating"}
AttemptState == {"prepared", "running", "succeeded", "failed", "cancelled", "interrupted"}
ActiveAttemptStates == {"prepared", "running"}
WorkerState == {"idle", "executing", "succeeded", "failed", "fatal", "cancelled", "settled"}

\* A commit is named by the attempt that made it.
Commit == Steps \X (Nat \ {0})
History == Seq(Commit)
Attempt == [state : AttemptState, base : History, commit : BOOLEAN]

\* Where the engine loop is (between two awaits of WorkflowEngine.run), and
\* where a resume or a retry is before and after it.
EnginePc == {"integrate", "git", "record", "gitFailed", "dispatch", "launch",
             "reserve", "mark", "startFailed", "await", "settling", "cancelling"}
Pc == EnginePc \cup {"off", "recover", "relaunch", "reset", "settled"}

TypeOK ==
  /\ state \in RunLifecycleState
  /\ stepState \in [Steps -> StepRunState]
  /\ integrated \subseteq Mutating
  /\ attempts \in [Steps -> Seq(Attempt)]
  /\ integrationHead \in History
  /\ branch \in History
  /\ leftover \in [Steps -> SUBSET History]
  /\ taskCommits \subseteq Commit
  /\ artifacts \subseteq Steps \X OutputNames \X (Nat \ {0})
  /\ stored \in StoredState
  /\ pc \in Pc
  /\ queue \subseteq Steps
  /\ hand \in Steps \cup {NoStep}
  /\ pc \in {"git", "record", "gitFailed", "reserve", "mark", "startFailed"} => hand \in Steps
  /\ aborted \in BOOLEAN
  /\ worker \in [Steps -> WorkerState]
  /\ stopped \subseteq Steps
  /\ cancel \in {"none", "requested", "foundFailed", "refused", "done"}
  /\ crashes \in 0..MaxCrashes
  /\ retries \in 0..MaxRetries

AttemptNumber(s) == Len(attempts[s])
HasActiveAttempt(s) ==
  attempts[s] # <<>> /\ attempts[s][AttemptNumber(s)].state \in ActiveAttemptStates
ActiveSteps == {s \in Steps : HasActiveAttempt(s)}

\* The newest succeeded attempt of s (attempts.findLast).
Succeeded(s) == {n \in 1..AttemptNumber(s) : attempts[s][n].state = "succeeded"}
ProducedBy(s) == CHOOSE n \in Succeeded(s) : \A m \in Succeeded(s) : m <= n

Published(s, n) == \A o \in Outputs[s] : <<s, o, n>> \in artifacts
Resolves(i) == \E n \in 1..AttemptNumber(i[1]) : <<i[1], i[2], n>> \in artifacts

Reconciled(st) == reconcileWorkflowSteps(st, integrated)
Launchable == launchableStepIds(state, stepState, integrated, ActiveSteps)
Integrable(s) == isNextIntegrable(stepState, integrated, s)
IsFirst(s, S) == s \in S /\ Before(S, s) = {}

-----------------------------------------------------------------------------
\* approveAndLaunch has created the snapshot and the integration branch, and
\* started the engine.
Init ==
  /\ state = "running"
  /\ stepState = [s \in Steps |-> IF Deps[s] = {} THEN "ready" ELSE "planned"]
  /\ integrated = {}
  /\ attempts = [s \in Steps |-> <<>>]
  /\ integrationHead = <<>>
  /\ branch = <<>>
  /\ leftover = [s \in Steps |-> {}]
  /\ taskCommits = {}
  /\ artifacts = {}
  /\ stored = "running"
  /\ pc = "integrate"
  /\ queue = {}
  /\ hand = NoStep
  /\ aborted = FALSE
  /\ worker = [s \in Steps |-> "idle"]
  /\ stopped = {}
  /\ cancel = "none"
  /\ crashes = 0
  /\ retries = 0

-----------------------------------------------------------------------------
(* integratePendingSteps.                                                  *)

\* The next step in plan order has finished: pick its commit to the branch,
\* or record it at once when it changed nothing.
IntegrateNext(s) ==
  /\ pc = "integrate"
  /\ state = "running"
  /\ Integrable(s)
  /\ hand' = s
  /\ pc' = IF attempts[s][ProducedBy(s)].commit THEN "git" ELSE "record"
  /\ UNCHANGED <<snapshot, repository, artifacts, stored, queue, aborted, worker, stopped, world>>

\* Nothing to integrate: dispatch, unless the run stopped or was aborted.
NothingToIntegrate ==
  /\ pc = "integrate"
  /\ state = "running" => ~\E s \in Steps : Integrable(s)
  /\ pc' = IF state = "running" /\ ~aborted THEN "dispatch" ELSE "await"
  /\ UNCHANGED <<snapshot, repository, artifacts, stored, queue, hand, aborted, worker, stopped, world>>

\* Faulty variant of GitIntegrate: the expected head is not compared.
GitIntegrateAnyHead ==
  /\ pc = "git"
  /\ branch' = Append(branch, <<hand, ProducedBy(hand)>>)
  /\ pc' = "record"
  /\ UNCHANGED <<snapshot, leftover, taskCommits, artifacts, stored, queue, hand, aborted, worker, stopped, world>>

\* GitClient.integrateCommit moves the branch by one cherry-picked commit, and
\* only from the head the snapshot recorded.
GitIntegrate ==
  /\ pc = "git"
  /\ branch = integrationHead
  /\ branch' = Append(branch, <<hand, ProducedBy(hand)>>)
  /\ pc' = "record"
  /\ UNCHANGED <<snapshot, leftover, taskCommits, artifacts, stored, queue, hand, aborted, worker, stopped, world>>

\* The branch moved, or the commit does not apply.
GitRefuses ==
  /\ pc = "git"
  /\ pc' = "gitFailed"
  /\ UNCHANGED <<snapshot, repository, artifacts, stored, queue, hand, aborted, worker, stopped, world>>

HeadAfter(s) ==
  IF attempts[s][ProducedBy(s)].commit
  THEN Append(integrationHead, <<s, ProducedBy(s)>>)
  ELSE integrationHead

RecordIntegration ==
  /\ pc = "record"
  /\ integrated' = integrated \cup {hand}
  /\ integrationHead' = HeadAfter(hand)
  /\ stepState' = reconcileWorkflowSteps(stepState, integrated')
  /\ pc' = "integrate"
  /\ hand' = NoStep
  /\ UNCHANGED <<state, attempts, repository, artifacts, stored, queue, aborted, worker, stopped, world>>

\* The failure settles the run as failed whatever its state was.
RecordIntegrationFailure ==
  /\ pc = "gitFailed"
  /\ stepState' = Reconciled([stepState EXCEPT ![hand] = "failed"])
  /\ state' = "failed"
  /\ pc' = "await"
  /\ hand' = NoStep
  /\ UNCHANGED <<integrated, attempts, integrationHead, repository, artifacts, stored, queue, aborted, worker, stopped, world>>

-----------------------------------------------------------------------------
(* dispatchLaunchableSteps and launchStep.                                 *)

Dispatch ==
  /\ pc = "dispatch"
  /\ queue' = Launchable
  /\ pc' = "launch"
  /\ UNCHANGED <<snapshot, repository, artifacts, stored, hand, aborted, worker, stopped, world>>

DispatchDone ==
  /\ pc = "launch"
  /\ queue = {}
  /\ pc' = "await"
  /\ UNCHANGED <<snapshot, repository, artifacts, stored, queue, hand, aborted, worker, stopped, world>>

\* A worktree left by an earlier preparation of this attempt number is reused
\* only at the very head the new one starts from.
CanPrepare(s) ==
  /\ \A i \in Inputs[s] : Resolves(i)
  /\ leftover[s] \subseteq {integrationHead}

\* The inputs are resolved and the worktree of the next attempt exists.
Prepare(s) ==
  /\ pc = "launch"
  /\ IsFirst(s, queue)
  /\ CanPrepare(s)
  /\ hand' = s
  /\ queue' = queue \ {s}
  /\ leftover' = IF s \in UsesSlot
                 THEN [leftover EXCEPT ![s] = {integrationHead}]
                 ELSE leftover
  /\ pc' = "reserve"
  /\ UNCHANGED <<snapshot, branch, taskCommits, artifacts, stored, aborted, worker, stopped, world>>

\* An input is missing, the worktree is refused, or git fails: the step fails
\* and the dispatch ends.
PrepareFails(s) ==
  /\ pc = "launch"
  /\ IsFirst(s, queue)
  /\ hand' = s
  /\ queue' = {}
  /\ pc' = "startFailed"
  /\ UNCHANGED <<snapshot, repository, artifacts, stored, aborted, worker, stopped, world>>

\* The reservation looks at the snapshot again, inside the transaction.
Reserve ==
  /\ pc = "reserve"
  /\ hand \in Launchable
  /\ stepState' = [stepState EXCEPT ![hand] = "running"]
  /\ attempts' = [attempts EXCEPT ![hand] =
       Append(@, [state |-> "prepared", base |-> integrationHead, commit |-> FALSE])]
  /\ leftover' = [leftover EXCEPT ![hand] = {}]
  /\ pc' = "mark"
  /\ UNCHANGED <<state, integrated, integrationHead, branch, taskCommits, artifacts, stored, queue, hand, aborted, worker, stopped, world>>

\* The step may not start any more.  discard removes the worktree; the branch
\* of a mutable one stays.
LoseReservation ==
  /\ pc = "reserve"
  /\ hand \notin Launchable
  /\ leftover' = IF hand \in Mutating THEN leftover ELSE [leftover EXCEPT ![hand] = {}]
  /\ queue' = {}
  /\ hand' = NoStep
  /\ pc' = "await"
  /\ UNCHANGED <<snapshot, branch, taskCommits, artifacts, stored, aborted, worker, stopped, world>>

SetLastAttempt(s, rec) == [attempts EXCEPT ![s][AttemptNumber(s)] = rec]

\* The attempt is marked running and its handler starts; the loop goes on.
MarkRunning ==
  /\ pc = "mark"
  /\ attempts' = SetLastAttempt(hand, [attempts[hand][AttemptNumber(hand)] EXCEPT !.state = "running"])
  /\ worker' = [worker EXCEPT ![hand] = "executing"]
  /\ hand' = NoStep
  /\ pc' = "launch"
  /\ UNCHANGED <<state, stepState, integrated, integrationHead, repository, artifacts, stored, queue, aborted, stopped, world>>

\* failStep: the run stops as failed, but a cancelled run stays cancelled.
FailStart ==
  /\ pc = "startFailed"
  /\ stepState' = Reconciled([stepState EXCEPT ![hand] = "failed"])
  /\ state' = IF state = "cancelled" THEN state ELSE "failed"
  /\ hand' = NoStep
  /\ pc' = "await"
  /\ UNCHANGED <<integrated, attempts, integrationHead, repository, artifacts, stored, queue, aborted, worker, stopped, world>>

-----------------------------------------------------------------------------
(* A running attempt: StepExecutor.execute and the step handlers.          *)

HasCommit(s) == <<s, AttemptNumber(s)>> \in taskCommits

\* commitTaskWork: the one commit of a mutating attempt.
WorkerCommits(s) ==
  /\ worker[s] = "executing"
  /\ s \in Mutating
  /\ ~HasCommit(s)
  /\ taskCommits' = taskCommits \cup {<<s, AttemptNumber(s)>>}
  /\ UNCHANGED <<snapshot, branch, leftover, artifacts, stored, process, world>>

WorkerEnds(s, outcome) ==
  /\ worker[s] = "executing"
  /\ worker' = [worker EXCEPT ![s] = outcome]
  /\ UNCHANGED <<snapshot, repository, artifacts, stored, pc, queue, hand, aborted, stopped, world>>

\* A repair changes nothing when its review found nothing, and that does not
\* change from one attempt to the next.
MustCommit(s) ==
  s \in Mutating /\ (s \in MayCommitNothing => \E n \in 1..AttemptNumber(s) : <<s, n>> \in taskCommits)

WorkerSucceeds(s) ==
  /\ ~aborted
  /\ MustCommit(s) => HasCommit(s)
  /\ WorkerEnds(s, "succeeded")

\* A retryable failure: a lost worker, failing checks, or the step's timeout.
WorkerFails(s) == ~aborted /\ WorkerEnds(s, "failed")

\* A failure the handler declares permanent (retryable: false).
WorkerRejected(s) == ~aborted /\ WorkerEnds(s, "fatal")

\* The abort wins the race against the handler.
WorkerAborted(s) == aborted /\ WorkerEnds(s, "cancelled")

-----------------------------------------------------------------------------
(* routeArtifacts and settleStep: the outputs are written one by one, then *)
(* the attempt settles in a transaction.                                   *)

PublishArtifact(s, o) ==
  /\ worker[s] = "succeeded"
  /\ o \in Outputs[s]
  /\ <<s, o, AttemptNumber(s)>> \notin artifacts
  /\ artifacts' = artifacts \cup {<<s, o, AttemptNumber(s)>>}
  /\ UNCHANGED <<snapshot, repository, stored, process, world>>

\* The store refuses a write: the success becomes a retryable failure.
ArtifactWriteFails(s) ==
  /\ worker[s] = "succeeded"
  /\ ~Published(s, AttemptNumber(s))
  /\ worker' = [worker EXCEPT ![s] = "failed"]
  /\ UNCHANGED <<snapshot, repository, artifacts, stored, pc, queue, hand, aborted, stopped, world>>

\* planStepArtifacts rejects the drafts before anything is written.
RoutingRejected(s) ==
  /\ worker[s] = "succeeded"
  /\ Outputs[s] # {}
  /\ \A o \in Outputs[s] : <<s, o, AttemptNumber(s)>> \notin artifacts
  /\ worker' = [worker EXCEPT ![s] = "fatal"]
  /\ UNCHANGED <<snapshot, repository, artifacts, stored, pc, queue, hand, aborted, stopped, world>>

\* classifyStepFailure: another attempt is allowed.
Retryable(s, outcome) == outcome = "failed" /\ AttemptNumber(s) < MaxAttempts[s]

SettledAttemptState(outcome) == IF outcome = "fatal" THEN "failed" ELSE outcome

\* The state a settled attempt leaves its step in.
SettledStepState(s, outcome) ==
  IF Retryable(s, outcome) THEN "ready" ELSE SettledAttemptState(outcome)

\* The state a settled attempt leaves the run in.
SettledRunState(s, outcome) ==
  IF state # "running" \/ outcome = "succeeded" \/ Retryable(s, outcome) THEN state
  ELSE SettledAttemptState(outcome)

SettleStep(s) ==
  LET outcome == worker[s] IN
  /\ outcome \in {"succeeded", "failed", "fatal", "cancelled"}
  /\ outcome = "succeeded" => Published(s, AttemptNumber(s))
  /\ attempts' = SetLastAttempt(s,
       [attempts[s][AttemptNumber(s)] EXCEPT !.state = SettledAttemptState(outcome),
                                    !.commit = outcome = "succeeded" /\ HasCommit(s)])
  /\ stepState' = Reconciled([stepState EXCEPT ![s] = SettledStepState(s, outcome)])
  /\ state' = SettledRunState(s, outcome)
  /\ worker' = [worker EXCEPT ![s] = "settled"]
  /\ UNCHANGED <<integrated, integrationHead, repository, artifacts, stored, pc, queue, hand, aborted, stopped, world>>

-----------------------------------------------------------------------------
(* The end of a loop iteration, and settleRun.                             *)

\* Faulty variant of CollectSettled: the attempt stays in the active set.
CollectNothing(s) ==
  /\ pc = "await"
  /\ worker[s] = "settled"
  /\ pc' = "integrate"
  /\ UNCHANGED <<snapshot, repository, artifacts, stored, queue, hand, aborted, worker, stopped, world>>

\* Promise.race: one settled attempt leaves the active set.
CollectSettled(s) ==
  /\ pc = "await"
  /\ worker[s] = "settled"
  /\ worker' = [worker EXCEPT ![s] = "idle"]
  /\ pc' = "integrate"
  /\ UNCHANGED <<snapshot, repository, artifacts, stored, queue, hand, aborted, stopped, world>>

\* Nothing is active: settleRun is called with the abort flag as it is now.
NoneActive ==
  /\ pc = "await"
  /\ \A s \in Steps : worker[s] = "idle"
  /\ pc' = IF aborted THEN "cancelling" ELSE "settling"
  /\ UNCHANGED <<snapshot, repository, artifacts, stored, queue, hand, aborted, worker, stopped, world>>

\* A cancelled run ends every step it had not finished, blocked ones included.
EndUnfinished(st) ==
  [s \in Steps |->
     IF st[s] \in {"succeeded", "failed", "cancelled"} THEN st[s] ELSE "cancelled"]

SettledSteps(cancelled) ==
  LET cancelling == /\ cancelled \/ state = "cancelled"
                    /\ state \notin {"failed", "completed"}
  IN  IF cancelling THEN EndUnfinished(Reconciled(stepState)) ELSE Reconciled(stepState)

\* Faulty variant of SettledState: a run that is settled is settled again.
SettledAgain(st) ==
  IF \E s \in Steps : st[s] \notin TerminalStepStates THEN "failed"
  ELSE IF \A s \in Steps : st[s] = "succeeded" THEN "completed"
  ELSE IF \E s \in Steps : st[s] = "cancelled" THEN "cancelled"
  ELSE "failed"

SettledState(st) ==
  IF state # "running" THEN state
  ELSE IF \E s \in Steps : st[s] \notin TerminalStepStates THEN "failed"
  ELSE IF \A s \in Steps : st[s] = "succeeded" THEN "completed"
  ELSE IF \E s \in Steps : st[s] = "cancelled" THEN "cancelled"
  ELSE "failed"

\* settleRun(cancelled) as one transaction.
Settle(cancelled) ==
  /\ stepState' = SettledSteps(cancelled)
  /\ state' = SettledState(SettledSteps(cancelled))
  /\ UNCHANGED <<integrated, attempts, integrationHead>>

SettleRun ==
  /\ pc \in {"settling", "cancelling"}
  /\ Settle(pc = "cancelling")
  /\ pc' = "settled"
  /\ UNCHANGED <<repository, artifacts, stored, queue, hand, aborted, worker, stopped, world>>

\* ChangeRun.settle: the stored run follows the engine run, or starts final
\* validation (where this module ends); the lease is released.
StoreSettled ==
  /\ pc = "settled"
  /\ stored' = IF stored = "cancelled" THEN stored
               ELSE IF state = "completed" THEN "validating" ELSE state
  /\ pc' = "off"
  /\ aborted' = FALSE
  /\ UNCHANGED <<snapshot, repository, artifacts, queue, hand, worker, stopped, world>>

-----------------------------------------------------------------------------
(* Crash, resume and retry.                                                *)

\* The process dies with its workers and its lease; a cancellation it was
\* carrying out dies with it.
Crash ==
  /\ pc # "off"
  /\ crashes < MaxCrashes
  /\ crashes' = crashes + 1
  /\ pc' = "off"
  /\ queue' = {}
  /\ hand' = NoStep
  /\ aborted' = FALSE
  /\ worker' = [s \in Steps |-> "idle"]
  /\ stopped' = {}
  /\ cancel' = IF aborted /\ cancel \in {"requested", "foundFailed"} THEN "done" ELSE cancel
  /\ UNCHANGED <<snapshot, repository, artifacts, stored, retries>>

\* The user resumes a run that is not stored as failed or cancelled.
Resume ==
  /\ pc = "off"
  /\ stored = "running"
  /\ pc' = "recover"
  /\ UNCHANGED <<snapshot, repository, artifacts, stored, queue, hand, aborted, worker, stopped, world>>

\* Faulty variant of Adoptable: the outputs are not checked.
AdoptsCommit(s) == HasActiveAttempt(s) /\ HasCommit(s)

\* Work that was committed, with every declared output durable.
Adoptable(s) == HasActiveAttempt(s) /\ HasCommit(s) /\ Published(s, AttemptNumber(s))

\* Faulty variant of Interrupted: a settled attempt counts as well.
AnyAttemptInterrupted(s) == attempts[s] # <<>> /\ ~Adoptable(s)

\* An interrupted attempt that is not adopted runs again within the budget.
Interrupted(s) == HasActiveAttempt(s) /\ ~Adoptable(s)
OutOfBudget(s) == Interrupted(s) /\ AttemptNumber(s) >= MaxAttempts[s]

RecoveredAttempts ==
  [s \in Steps |->
     IF Adoptable(s)
     THEN [attempts[s] EXCEPT ![AttemptNumber(s)] = [@ EXCEPT !.state = "succeeded", !.commit = TRUE]]
     ELSE IF Interrupted(s)
     THEN [attempts[s] EXCEPT ![AttemptNumber(s)] = [@ EXCEPT !.state = "interrupted"]]
     ELSE attempts[s]]

RecoveredSteps ==
  [s \in Steps |->
     IF Adoptable(s) THEN "succeeded"
     ELSE IF OutOfBudget(s) THEN "failed"
     ELSE IF Interrupted(s) THEN "ready"
     ELSE IF stepState[s] = "blocked" THEN "planned"
     ELSE stepState[s]]

\* recoverWorkflowRun: every attempt still active is settled from git and the
\* artifact store in one transaction.  A run that is still running goes on; a
\* settled one only has its stored state brought up to date.
Recover ==
  /\ pc = "recover"
  /\ IF ActiveSteps = {} THEN UNCHANGED snapshot
     ELSE /\ attempts' = RecoveredAttempts
          /\ stepState' = Reconciled(RecoveredSteps)
          /\ state' = IF state = "running" /\ \E s \in Steps : stepState'[s] = "failed"
                      THEN "failed" ELSE state
          /\ UNCHANGED <<integrated, integrationHead>>
  /\ stopped' = {s \in Steps : OutOfBudget(s)}
  /\ pc' = IF stopped' # {} THEN "relaunch"
           ELSE IF state' = "running" THEN "integrate" ELSE "settled"
  /\ UNCHANGED <<repository, artifacts, stored, queue, hand, aborted, worker, world>>

Replanned(S) == [s \in Steps |-> IF s \in S THEN "planned" ELSE stepState[s]]

\* relaunchInterruptedSteps: the interrupted steps that ran out of budget, and
\* whatever is blocked, run again; the run is running whatever it was.
RelaunchInterrupted ==
  /\ pc = "relaunch"
  /\ stepState' = Reconciled(Replanned({s \in Steps :
                    \/ s \in stopped /\ stepState[s] = "failed"
                    \/ stepState[s] = "blocked"}))
  /\ state' = "running"
  /\ stopped' = {}
  /\ pc' = "integrate"
  /\ UNCHANGED <<integrated, attempts, integrationHead, repository, artifacts, stored, queue, hand, aborted, worker, world>>

\* What retry and resume see of the run (engineRunState).
ViewedState ==
  IF "cancelled" \in {state, stored} THEN "cancelled"
  ELSE IF stored # "running" THEN stored ELSE state

LatestInterrupted(s) == attempts[s] # <<>> /\ attempts[s][AttemptNumber(s)].state = "interrupted"

\* retryableRunWork for a run that failed in its steps.
RetryAccepted ==
  /\ ViewedState = "failed"
  /\ ActiveSteps = {}
  /\ \A s \in Steps : ~LatestInterrupted(s)
  /\ \E s \in Steps : stepState[s] = "failed"

\* The user retries a failed run: markExecuting reopens the stored run ...
Retry ==
  /\ pc = "off"
  /\ retries < MaxRetries
  /\ RetryAccepted
  /\ retries' = retries + 1
  /\ stored' = "running"
  /\ pc' = "reset"
  /\ UNCHANGED <<snapshot, repository, artifacts, queue, hand, aborted, worker, stopped, cancel, crashes>>

\* ... and the failed and blocked steps are planned again.  (The transaction
\* refuses a cancelled snapshot, but a cancellation leaves a failed one alone.)
RetryReset ==
  /\ pc = "reset"
  /\ stepState' = Reconciled(Replanned({s \in Steps : stepState[s] \in {"failed", "blocked"}}))
  /\ state' = "running"
  /\ pc' = "integrate"
  /\ UNCHANGED <<integrated, attempts, integrationHead, repository, artifacts, stored, queue, hand, aborted, worker, stopped, world>>

-----------------------------------------------------------------------------
(* Cancellation, from the executing process or from another one.           *)

\* Faulty variant of SettleAccepted: any snapshot is written.
AnySettleAccepted(cancelled) == TRUE

\* The store refuses a completed snapshot with an unintegrated step, so the
\* transaction of a cancellation that would write one throws.
SettleAccepted(cancelled) ==
  SettledState(SettledSteps(cancelled)) = "completed" => Mutating \subseteq integrated

\* WorkflowEngine.cancel outside the engine loop: settle the snapshot here.
CancelSnapshot ==
  IF SettleAccepted(TRUE)
  THEN /\ Settle(TRUE)
       /\ cancel' = IF state' = "failed" THEN "foundFailed" ELSE "requested"
  ELSE /\ UNCHANGED snapshot
       /\ cancel' = "refused"

\* The process that holds the lease aborts its own execution; while its loop
\* runs the steps stop and the loop settles the run.
CancelHere ==
  /\ cancel = "none"
  /\ stored = "running"
  /\ pc # "off"
  /\ aborted' = TRUE
  /\ IF pc \in EnginePc
     THEN /\ UNCHANGED snapshot
          /\ cancel' = IF state = "failed" THEN "foundFailed" ELSE "requested"
     ELSE CancelSnapshot
  /\ UNCHANGED <<repository, artifacts, stored, pc, queue, hand, worker, stopped, crashes, retries>>

\* Another process settles the snapshot, whoever executes the run.
CancelElsewhere ==
  /\ cancel = "none"
  /\ stored = "running"
  /\ CancelSnapshot
  /\ UNCHANGED <<repository, artifacts, stored, process, crashes, retries>>

\* ChangeRun.cancel then settles the stored run, unless it is terminal.
FinishCancel ==
  /\ cancel \in {"requested", "foundFailed"}
  /\ cancel' = "done"
  /\ stored' = IF stored \in {"failed", "cancelled"} THEN stored
               ELSE IF cancel = "foundFailed" THEN "failed" ELSE "cancelled"
  /\ UNCHANGED <<snapshot, repository, artifacts, process, crashes, retries>>

-----------------------------------------------------------------------------
EngineStep ==
  \/ \E s \in Steps : IntegrateNext(s)
  \/ NothingToIntegrate
  \/ GitIntegrate
  \/ GitRefuses
  \/ RecordIntegration
  \/ RecordIntegrationFailure
  \/ Dispatch
  \/ DispatchDone
  \/ \E s \in Steps : Prepare(s) \/ PrepareFails(s)
  \/ Reserve
  \/ LoseReservation
  \/ MarkRunning
  \/ FailStart
  \/ \E s \in Steps : CollectSettled(s)
  \/ NoneActive
  \/ SettleRun
  \/ StoreSettled
  \/ Recover
  \/ RelaunchInterrupted
  \/ RetryReset

WorkerStep(s) ==
  \/ WorkerSucceeds(s)
  \/ WorkerFails(s)
  \/ WorkerRejected(s)
  \/ WorkerAborted(s)
  \/ \E o \in Outputs[s] : PublishArtifact(s, o)
  \/ ArtifactWriteFails(s)
  \/ RoutingRejected(s)
  \/ SettleStep(s)

UserStep ==
  \/ Resume
  \/ Retry
  \/ CancelHere
  \/ CancelElsewhere
  \/ FinishCancel

Next ==
  \/ EngineStep
  \/ \E s \in Steps : WorkerCommits(s) \/ WorkerStep(s)
  \/ UserStep
  \/ Crash

Spec == Init /\ [][Next]_vars

\* The loop of a live process always takes its next step, and the step timeout
\* ends every attempt.  The user, crashes and commits owe nothing.
Fairness ==
  /\ WF_vars(EngineStep)
  /\ \A s \in Steps : WF_vars(WorkerStep(s))

FairSpec == Spec /\ Fairness

-----------------------------------------------------------------------------
(* Safety.                                                                 *)

\* The commits of the integrated steps that made one.
IntegratedCommits ==
  {<<s, ProducedBy(s)>> : s \in {t \in integrated : attempts[t][ProducedBy(t)].commit}}

\* The integrated steps have all succeeded and are a prefix of the mutating
\* steps in plan order, and the history of the recorded head is exactly their
\* commits in that order: what validateStoredIntegration checks, and more.
IntegrationFollowsPlan ==
  /\ \A s \in integrated : stepState[s] = "succeeded" /\ Before(Mutating, s) \subseteq integrated
  /\ {integrationHead[i] : i \in 1..Len(integrationHead)} = IntegratedCommits
  /\ \A i, j \in 1..Len(integrationHead) :
       i < j => Position[integrationHead[i][1]] < Position[integrationHead[j][1]]

\* The integration branch is at the recorded head, or one commit ahead of it:
\* a commit of the first step in plan order that is not integrated.
BranchAtMostOneAhead ==
  \/ branch = integrationHead
  \/ \E s \in Mutating \ integrated : \E n \in Succeeded(s) :
       /\ branch = Append(integrationHead, <<s, n>>)
       /\ Before(Mutating, s) \subseteq integrated

\* Two attempts that may run at the same time never hold conflicting locks.
LocksExclusive ==
  \A s, t \in ActiveSteps : s # t => <<s, t>> \notin Conflicts

\* No more attempts are active than the run has worker slots; every handler
\* that executes belongs to an active attempt.
SlotsBounded ==
  /\ Cardinality(ActiveSteps \cap UsesSlot) <= MaxWorkers
  /\ \A s \in Steps : worker[s] \in {"executing", "succeeded"} => s \in ActiveSteps

Contains(history, commit) == \E i \in 1..Len(history) : history[i] = commit

\* The commit an active attempt started from contains the result of every
\* dependency, and its inputs are those of the attempt that succeeded.
StartsFromDependencies ==
  \A s \in ActiveSteps :
    /\ \A d \in Deps[s] :
         /\ stepState[d] = "succeeded"
         /\ d \in Mutating /\ attempts[d][ProducedBy(d)].commit
              => Contains(attempts[s][AttemptNumber(s)].base, <<d, ProducedBy(d)>>)
    /\ \A i \in Inputs[s] :
         \A n \in 1..AttemptNumber(i[1]) :
           <<i[1], i[2], n>> \in artifacts => n <= ProducedBy(i[1])

\* A step that counts as succeeded did so in its newest attempt, and all its
\* declared outputs are durable for that attempt.
SuccessIsDurable ==
  \A s \in Steps : stepState[s] = "succeeded" =>
    /\ AttemptNumber(s) \in Succeeded(s)
    /\ Published(s, AttemptNumber(s))

\* The snapshot never waits for a reconciliation: between transactions no step
\* is planned that could be ready, and none is ready that is blocked.
SnapshotReconciled == stepState = reconcileWorkflowSteps(stepState, integrated)

\* A succeeded change that cannot be integrated, because one before it in plan
\* order failed, was blocked or was cancelled.
HeldUp(d) ==
  /\ d \in Mutating \ integrated
  /\ stepState[d] = "succeeded"
  /\ \E f \in Before(Mutating, d) : stepState[f] \in FailureStepStates

\* The loop gives a run up only when nothing can run any more.  The one case of
\* "the workflow stopped while steps were still waiting to run" is a resume that
\* reopened a run with a failed change: what depends on a later change then
\* waits for an integration that cannot come.
NeverStopsWithWorkWaiting ==
  pc = "settling" /\ state = "running" =>
    \A s \in Steps :
      \/ stepState[s] \in TerminalStepStates
      \/ stepState[s] = "planned" /\ \E d \in Deps[s] : stepState[d] = "planned" \/ HeldUp(d)

\* Automatic retries stay within the budget of a step; only the user, by a
\* retry or a resume, adds an attempt.
AttemptBudget ==
  \A s \in Steps : AttemptNumber(s) <= MaxAttempts[s] + retries + crashes

\* A completed run, and one in final validation, has integrated every mutating
\* step, and the branch it will report is the recorded head.
CompletedIsWhole ==
  state = "completed" \/ stored = "validating" =>
    /\ \A s \in Steps : stepState[s] = "succeeded"
    /\ Mutating \subseteq integrated
    /\ branch = integrationHead

\* The snapshot, as any process may read it between two transactions: it needs
\* no reconciliation, no step had more attempts than its budget and the user
\* gave it, and what it calls completed is whole.
SnapshotSound == TypeOK /\ SnapshotReconciled /\ AttemptBudget /\ CompletedIsWhole

-----------------------------------------------------------------------------
(* What a step may never do.                                               *)

\* The attempt history is append-only: a settled attempt is never touched
\* again, and no attempt disappears, through crashes, retries and resumes.
AttemptHistoryKept ==
  [][\A s \in Steps : \A n \in 1..AttemptNumber(s) :
       /\ n <= Len(attempts'[s])
       /\ attempts[s][n].state \notin ActiveAttemptStates => attempts'[s][n] = attempts[s][n]
    ]_vars

\* A new attempt starts only in a run that is running, for a step whose last
\* attempt is settled, from the integration head at that moment.
StartsOnlyWhenAllowed ==
  [][\A s \in Steps : AttemptNumber(s) < Len(attempts'[s]) =>
       /\ state = "running"
       /\ ~HasActiveAttempt(s)
       /\ attempts'[s][AttemptNumber(s) + 1].base = integrationHead
    ]_vars

-----------------------------------------------------------------------------
(* Liveness.                                                               *)

\* An execution that is not killed again returns, with the run settled.
ExecutionSettles ==
  (crashes = MaxCrashes /\ pc # "off") ~> (pc = "off" /\ ViewedState # "running")

-----------------------------------------------------------------------------
(* What the change run relies on.                                          *)

\* What is left of the attempts of the run.
RemainingWork ==
  IF ActiveSteps # {} THEN "active"
  ELSE IF \E s \in Steps : LatestInterrupted(s) THEN "interrupted"
  ELSE IF \E s \in Steps : stepState[s] = "failed" THEN "failed"
  ELSE "none"

Lifecycle == INSTANCE EngineLifecycle
  WITH life <- state, work <- RemainingWork, on <- pc \in EnginePc

\* The engine implements the lifecycle its callers see: attempts start only in
\* a running run, a run completes only with no work left and for good, and only
\* a resume or a retry reopens a failed or cancelled one.
ImplementsLifecycle == Lifecycle!Spec

-----------------------------------------------------------------------------
(* Claims of the documentation that the code does not meet.                *)

\* "Recovery reconciles transitions that may have completed immediately before
\* a crash, including ... integration": whatever crashed before, the engine
\* finds the branch at the head it recorded when it comes to integrate.
RecoveryReconcilesIntegration == pc = "git" => branch = integrationHead

\* "Resume first reconciles durable attempts, commits, artifacts, branches, and
\* worktrees before launching new work": no branch or worktree of an earlier
\* preparation stands in the way of a launch.
ResumeReconcilesWorktrees ==
  pc = "launch" => \A s \in queue : leftover[s] \subseteq {integrationHead}

\* "A cancelled run stays cancelled".
CancelledStaysCancelled == [][state = "cancelled" => state' = "cancelled"]_vars

\* Interrupted steps run again "rather than leaving the run unresumable and
\* unretryable": a run stored as failed, which resume refuses, accepts a retry
\* once nothing of it is active.
FailedRunAcceptsRetry ==
  pc = "off" /\ stored = "failed" /\ ViewedState = "failed" /\ ActiveSteps = {} => RetryAccepted

=============================================================================
