# pi-build-conductor in TLA+

`pi-build-conductor` runs an approved plan of agent work against a git repository:
each step of the plan runs in a worktree of its own, successful changes are picked
onto an integration branch in plan order, reviews and repairs follow, and the final
head is validated before the run is called complete. The program is meant to survive
the death of its process at any point, because everything it decides from is on
disk: the stored run, the engine snapshot, git, and the artifact store.

This directory is the verification project of that program. `PROJECT.json` lists
its components, runs, mutants, source map, findings, hazards and theorems; this file
explains them.

## 1. Inventory

Paths are relative to `src/src/`.

| Component | State it keeps | Operations | Status |
|---|---|---|---|
| Step scheduler, `engine/scheduler.ts` | none | readiness and blocking of steps, lock and worker slot admission, integration order | modelled |
| Workflow engine, `engine/engine.ts`, `executor.ts`, `retry.ts`, `artifact-routing.ts`, `workflow-state.ts` | the snapshot `WorkflowRunState`; in memory, the set of active attempts and an abort signal | `run` (integrate, dispatch, launch, settle, settle the run), `cancel` | modelled |
| Recovery, `engine/recovery.ts` | none | `recoverWorkflowRun` | modelled |
| Change run, `workflows/change-run.ts`, commands in `extension.ts` | the stored run, a lifecycle lease, the map of executing runs | `approveAndLaunch`, `resume`, `retry`, `cancel`, `settle`, final validation | modelled |
| Legacy orchestrator, `orchestrator.ts`, `domain/scheduler.ts` | the stored run; in memory, the scheduling loop, one monitor per attempt, one promise per review pass | approval, the loop, integration, review rounds, repairs, final validation, cancellation, recovery, retry, pruning | modelled |
| Stores, `storage/run-store.ts`, `workflow-state-store.ts`, `file-storage.ts` | one file per run and per snapshot, lock files, leases | `transaction`, `create`, `acquireLifecycleLease`, validation of what is written | partly: transactions, leases and the rules of the validators |
| Git and worktrees, `git/git.ts`, `git/worktrees.ts`, `engine/workspaces.ts` | refs, worktrees, registered workspaces | `integrateCommit`, `commitTaskWork`, `prepareTaskWorktree`, removal, verification | partly |
| Artifact store, `storage/artifact-store.ts` | versioned outputs per run, a lock per run | `write`, `latest`, retention, limits, `pruneRun` | modelled |
| Admission, `engine/admission.ts`, `domain/steps.ts`, `step-context.ts` | none | validation of a plan, growth of a running plan, topological order, input resolution | partly: growth, the rest as assumptions |
| Finalization and review, `engine/finalization.ts`, `review/` | review attempts of the stored run | which reviews cover the final head, which findings are repaired | partly: with the legacy lifecycle |
| Step handlers, `engine/steps/` | a worker session per step | `execute` of change, review, repair, command, planning and investigation steps | partly: as outcomes for the engine, their worker session in detail |
| Worker backend, `workers/server-backend.ts` | a process, a socket, pending requests | spawn, prompt, answer, abort, stop | partly: all but `capabilities` and `list`, which change nothing |
| Attempt logs and events, `storage/attempt-log-store.ts`, `engine/events.ts` | one journal per attempt and its queue, a window of events | `record`, `append`, `flush`, `readTail` | partly: the journal |
| Planning and plan editing, `planning/`, `domain/dag.ts`, `domain/run.ts` | the revisions of a run, an editor per session | discovery, edits, saves and merges, restores, approval | partly: the editor and the revisions |
| Authority, `security/` | the frozen envelope of a run | derivation, acceptance of a plan, revision of an envelope | partly: over areas and commands |
| Validation commands, `validation/` | child processes | run a command with a timeout, task and final validation | not modelled |
| Read-only workflows, `workflows/{runner,plan-only,investigate,change}.ts` | none | builders of plans for the engine | not modelled; the engine executes them |
| Inspection, `inspection/` | none | views of the stores | not modelled but for `run-control.ts` and `engineRunState` |
| Configuration, migration, exports | none | | not modelled |

**How they interact.** A command handler in `extension.ts` takes a run from the store
and gives it to `EngineChangeRunner`, which claims the lifecycle lease and starts a
`WorkflowEngine`. The engine reads and writes its snapshot only in transactions of the
snapshot store; between two of them it awaits git, the worktree manager, the artifact
store, or one of its step executors. Each executor runs a handler, which talks to a
worker process. Cancellation comes from the same process (an abort signal) or from
another one (a transaction on the same snapshot). When the engine returns, the change
run settles the stored run and, after a completed execution, validates the final head.
A run that was created before the engine goes the other way: `Orchestrator` schedules its
tasks itself, over the stored run alone, then reviews, repairs and validates it. Both are
preceded by the review of the plan, where several sessions may edit, approve and cancel the
same stored run, and both write artifacts or attempt journals while they execute.

**What is hard in it.** Decisions made before an await are used after it; several step
attempts settle in any order; git, the artifact store, the snapshot and the stored run
are four durable places that cannot be written together, so a crash falls between any
two of them; a cancellation may hit every one of these gaps; and resume, retry and
cancel must agree on which of them a run accepts next. `hazards` in `PROJECT.json`
lists each of these at its line with the properties that would catch it, or what no property catches of it.

**What makes each component correct.**
- Scheduler: a step starts only from the results of its dependencies, conflicting locks
  never overlap, slots are never oversubscribed, changes integrate in plan order.
- Engine: no attempt is started that the snapshot does not allow, no settled attempt is
  rewritten, the loop never stops while a step could still run, automatic retries stay
  in the budget.
- Recovery: work counts as succeeded only with a commit and all of its outputs durable.
- Change run: a completed run is whole; an execution that is not killed ends settled.
- Worker session: a success is a whole one, no request of a worker stays open behind a
  finished execution, and every worker whose id is known is asked to stop.
- Git: the integration branch is the recorded head, or one commit ahead of it.
- Legacy orchestrator: every write is one the store accepts, committed work is never done
  again once its monitor is gone, a recovery leaves no worker behind, and what is merged is what was reviewed.
- Artifact store: what a write reported stays, the limit holds, the latest version never
  moves back.
- Attempt log: the journal can be read after any failure, and no entry is lost in silence.
- Plan review: what executes is what its user was shown, and no session undoes another.

## 2. Modules

| Module | Content |
|---|---|
| `StepScheduler` | the pure rules of `scheduler.ts`, as operators over a plan given by constants |
| `WorkflowEngine` | the state machine: engine loop, attempts, integration, artifacts, settlement, crash, recovery, resume, retry, cancellation |
| `EngineLifecycle` | the abstract specification of one engine run: lifecycle state, remaining work, whether a process executes it; `WorkflowEngine` implements it |
| `ChangeRun` | the change run around the engine: two durable records, the lifecycle lease, the commands of several hosts, final validation, cancellation; the engine in it is `EngineLifecycle` |
| `WorkerSession` | one step attempt with its worker: the race of the executor, the runner of the worker, the stream of a prompt, status polls; the server and the worker are external |
| `LegacyRun` | the legacy orchestrator from the approval of a run to its integrated tasks: scheduling loop, launches, monitors, UI questions, cancellation, recovery, retry |
| `LegacyReview` | the same run from its integrated tasks to its merge-ready evidence: review rounds, repairs, final validation, and their recovery |
| `AttemptLog` | the journal of one attempt: queue, torn writes, cap and marker, flush, a reader |
| `ArtifactStore` | the artifacts of one run: lock, limit, exclusive publication, retention, readers without a lock |
| `PlanReview` | several sessions that edit, approve and execute one plan inside its authority envelope |
| `MCWorkflowEngine`, `MCLegacyRun`, `MCLegacyReview`, `MCPlanReview` | small plans, categories and sessions for TLC |
| `WorkflowEngineProofs` | lemmas about the scheduling rules; the inductive invariant of the engine loop and its properties; the inductive invariant of the durable state around it, its properties, and that the engine implements `EngineLifecycle` |
| `ChangeRunProofs` | the inductive invariant of `ChangeRun` and its safety properties |
| `WorkerSessionProofs` | the inductive invariant of `WorkerSession` and its safety properties |
| `LegacyRunProofs` | the inductive invariant of `LegacyRun` and its safety properties |
| `LegacyReviewProofs` | the inductive invariant of `LegacyReview` and its safety properties |
| `AttemptLogProofs`, `ArtifactStoreProofs`, `PlanReviewProofs` | the same of the journal, the artifact store and the plan review |

### State and code

An action of `WorkflowEngine` is one transaction, one git or artifact operation, or one
event of a worker; everything the code does without an await in between is one action.

| Variable | Code |
|---|---|
| `state`, `stepState`, `integrated`, `attempts`, `integrationHead` | the snapshot of `workflow-state.ts` |
| `branch`, `taskCommits`, `leftover` | the integration branch, the commit on a task branch, a worktree that no attempt owns yet |
| `artifacts` | versions in the artifact store |
| `stored` | the lifecycle state of the stored run |
| `pc`, `queue`, `hand`, `stopped` | where the engine loop, a resume or a retry is; the rest of one dispatch; the step being integrated or launched; the steps a recovery found out of budget |
| `worker` | the handler of a step, from its start until the loop collects it |
| `aborted` | the abort signal of the execution |
| `cancel`, `crashes`, `retries` | the user and the environment, bounded |

The history of a branch is the sequence of the commits picked onto it, and a commit is
named by the attempt that made it. `pc` follows `WorkflowEngine.run`:
`integrate -> git -> record` for each step in turn, then `dispatch -> launch ->
reserve -> mark` for each step of one dispatch, then `await`, and back to `integrate`
for every collected attempt, until nothing is active and the run is `settling` (or
`cancelling` when the abort is set). `settled` is the transaction of the change run
that brings the stored run up to date. `recover` and `relaunch` come before a resumed
loop, `reset` before a retried one.

An action of `ChangeRun` is one transaction of the run store or the snapshot store, or a
decision of a command between two of them.

| Variable | Code |
|---|---|
| `stored`, `finals`, `mergeReady` | the stored run: its state, its final validation attempts, whether it has merge-ready evidence |
| `life`, `work` | the engine snapshot as its lifecycle state and what is left of its attempts (`EngineLifecycle`) |
| `lease` | the lifecycle lease (`withLifecycle`); that of a dead host goes stale |
| `pc`, `command` | where the command of a host is, and which: `approve` follows `approveAndLaunch`, `snapshot` to `recover` follow `resume`, `assess` and `reset` follow `retry`, `settle` to `validate` follow `settle` and `onValidationReady` |
| `aborted`, `attempt` | the abort signal of the execution and the index of the validation attempt it runs, both in the memory of the host |
| `cancel` | the one cancellation: in the executing host, in another one, or of a run without a snapshot |
| `commands`, `crashes` | the user and the environment, bounded |

`RecordInv` and `HostInv` of `ChangeRunProofs` say what these records and positions mean to
each other. Every write goes through `Write`, with the rules of `validateBuildRun`
that relate the state, the attempts and the evidence (`Valid`): a write they refuse makes
the command throw.

An action of `WorkerSession` is a callback of the process: a frame of a chunk, a timer, an
answer, a disconnect, or one continuation of the runner. It runs to its end, and so does
the chunk it is part of (`Idle`), before anything else does.

| Variable | Code |
|---|---|
| `step`, `signal` | what `StepExecutor.execute` settled, and the abort signal it gave the handler |
| `runner`, `controller`, `result` | the await `StepWorkerRunner.run` is at, its own abort controller, and what it returned |
| `polling` | `polling` and `consecutiveFailures` of `startStatusPolling` |
| `start`, `completion`, `socket` | the two promises of `startPrompt` (`startSettled`, `terminal`) and its socket |
| `left`, `checking`, `failed` | frames left of a chunk, the status request of `handleDisconnect`, and `agentRunFailure` and `retryFailure` |
| `asks`, `writes` | every UI request, in order, with its resolution (`pendingUiRequests` holds the open ones), and the answers being written |
| `worker`, `wire`, `prompted`, `sent` | external: the worker, the frames on their way, and what the server has received and sent |

An action of `LegacyRun` or `LegacyReview` is one transaction of the run store with the code
up to the next await, one git operation, or the end of a worker. Both keep the stored run
as one record `run`, with the fields of `OrchestrationRun` that the code decides from.

| Variable | Code |
|---|---|
| `run` | `LegacyRun`: state, dependencies, tasks, attempts, blocked workers. `LegacyReview`: state, head, rounds, review, repair and final validation attempts, merge-ready evidence |
| `branch`, `advanced` | the integration branch as what was picked onto it, the attempts whose task branch has a commit |
| `live` | the workers on the server |
| `starting` | `LegacyRun`: the commands of `approveAndLaunch`, `resumeAndLaunch` and `retryAndLaunch` that hold no lease: one that prepares the integration branch, and one that is about to ask for the lease |
| `loop` | the process with the lifecycle lease: its await in `runSchedulingLoop`, `launchTask`, `recoverRun`, `runReviewLifecycle`, `runRepairAttempt` or `runFinalValidation`, and the locals it holds there |
| `exec`, `ask` | `monitorExecution` with `finalizeTaskAttempt`, and `handleWorkerUiRequest`, of each attempt |
| `pass` | `launchReviewPass` of each category |
| `cancel` | `cancelRun`, which waits for the commit and integration boundaries that were open when it was called |
| `count` | crashes, retries and questions, bounded |

`AttemptLog` has one action per await of `append`. An entry is a number and a size, a line
of the journal an entry and the offset of its end, from which `append` decides.

| Variable | Code |
|---|---|
| `file` | the journal: its complete lines, and whether bytes follow the last newline |
| `queue`, `pc`, `memory` | `queues`, the await of the append at its head, and the maps `initialized`, `truncated` and `failures` |
| `flush`, `shown` | the flush `finishAttemptLog` waits for, and the tail `readTail` gave a viewer |
| `made`, `lost`, `count` | what was recorded, which losses were told, and the environment, bounded |

`ArtifactStore` has one action per await of `write`, and two for a reader.

| Variable | Code |
|---|---|
| `files` | the published files, `<step>.<output>.<attempt>`, with their content |
| `lock` | the lock directory of the run; stale when its holder stalled or died |
| `writer` | the await of each process in `withRunWriteLock` and `write`, and what it writes |
| `reader` | a `latest` between its listing and its read, and what it returned last |
| `told`, `count` | what writes reported as stored; the environment, bounded |

`PlanReview` has one action per transaction or per dialog of the user.

| Variable | Code |
|---|---|
| `run` | the stored run: state, plan document, envelope, revisions, approved revision |
| `snapshot` | the engine snapshot: the document and envelope it was created with, what steps added |
| `reviewer` | each session in `reviewAndLaunchRun`: the snapshot its editor started from, its candidate, the fields it edited, the conflicts it has to decide |
| `lease`, `consent`, `count` | the lifecycle lease, what the approving user was shown, and the environment, bounded |

### What is abstracted

- A handler is its commit and its outcome: success, a retryable failure (a lost worker,
  a failed check, the timeout), a permanent one, or the abort. The handler
  that outlives its timeout is in `WorkerSession`, without the worktree it may still write to.
- In `WorkerSession` a handler is the run of its worker. A chunk is a number of frames, and
  an oversized frame, one that cannot be parsed and an error of the server are one kind of
  frame. Frames that only report progress are left out, and so is their text. The policy of
  a run answers every UI request at once (`answerUiRequest`). A spawn that fails after the
  server started the worker may leave it behind.
- Recovery finds that the commit of an interrupted attempt verifies, and that adopted
  evidence passed.
- A transaction is atomic and never fails, apart from the one refusal the engine itself
  can provoke: the validator of the snapshot store rejects a completed run with a change
  that is not integrated (`workflow-state-store.ts:505`).
- One user cancels a run at most once. In the executing process the abort signal and the
  transaction of `WorkflowEngine.cancel` are one action.
- Whether a repair has anything to commit is decided by its review inputs, which do not
  change between its attempts (`MustCommit`).
- In `WorkflowEngine`, final validation is the stored state `validating`, where it ends.
  In `ChangeRun` a final validation is its outcome, and a gap in the reviews is a choice.
- `ChangeRun` forgets the steps: an engine run is `EngineLifecycle`, which `engine_recovery`
  checks `WorkflowEngine` to implement.
- `ChangeRun` has one cancellation. One that the snapshot store refuses is a cancellation
  that stops where it is. Edits of a plan that awaits approval, and the checks of the base
  branch, are left out; a run without a snapshot is only cancelled.
- In `LegacyRun` and `LegacyReview` the checks of a task, a repair or a final validation pass
  or throw. A resume and a retry are those of the orchestrator; what the extension
  asks before them is in the engine modules. An approval, a recovery and a retry end without the
  lease, and the loop asks for it in a step of its own (`StartScheduling`), before which another command may
  take it. Commands of one kind are not told apart there. A worker that is being spawned when its process dies is on the server
  before the next process has the lease, so a recovery sees it in the list. The comparison of the history of a completed run
  with git in `recoverRun` is left out. `LegacyReview` leaves UI questions and the life
  of its workers to `LegacyRun`, and a report has at most one finding of a kind: minor, one
  to repair, or one outside the approved scope.
- In `AttemptLog` the text of a line is left out, and progress and terminal entries are alike.
  The branch of `appendTruncationMarker` that cuts a journal back before it writes the marker is
  left out: a journal written under this cap has the room, which `JournalReadable` would show
  violated otherwise.
- In `ArtifactStore` a record is its content and every artifact has size one, so the limits
  on files and on bytes are one. `scan` and `list` only read. Nothing in `src/` configures a retention or
  calls `pruneRun`; both are modelled as the class offers them.
- In `PlanReview` every task is a change step with the full capabilities of its kind, as the
  translation of a task plan makes it. A task is its area and its dependencies; the order of
  the tasks changes only with the tasks there are, so two sessions conflict on it when they
  added or removed different ones, and reordering the same tasks is left out. What the user
  makes of the JSON a conflict or an invalid candidate brings up is any valid plan within
  `MaxChanges` fields of it. The sandbox check is left out.
- An admitted plan is the assumptions of `StepScheduler` and `WorkflowEngine`: an acyclic
  graph in topological order, symmetric locks, inputs declared by dependencies.

## 3. Runs

| Run | Result | Properties | What it shows |
|---|---|---|---|
| `engine_crash` | pass | `IntegrationFollowsPlan`, `LocksExclusive`, `StartsFromDependencies`, `SuccessIsDurable`, `BranchAtMostOneAhead` | Two changes, a reader of what the second one made and a step that conflicts with the first, with automatic retries, a cancellation and a crash at any point: what is integrated, started and counted as succeeded, and where the branch may stand. |
| `engine_recovery` | pass | `SnapshotSound`, `NeverStopsWithWorkWaiting`, `AttemptHistoryKept`, `ImplementsLifecycle`, `ExecutionSettles` | A change, its review and the repair behind it through two crashes, resumes, a user retry and a cancellation: the snapshot stays sound, a step behind a reader is never left waiting, history stays, an execution ends, and the engine implements the lifecycle its callers see. |
| `change_run` | pass | `CompletedIsProved`, `SettledIsFinal`, `ValidationTracked`, `OnlyReopenedRunsRefused`, `EndsAreFinal`, `CommandsEnd` | Two hosts approve, resume and retry one run, with a cancellation and a crash at any point: what a completed run has proved, that settled runs and attempts stay settled, and that every command ends. |
| `worker_session` | pass | `SuccessIsWhole`, `RequestsSound`, `WorkerIsStopped` | One step attempt and its worker: frames in any order and in chunks, a timeout, an abort, a dead worker, lost answers and UI requests that reuse an id: what a success means, that no request stays open, and that every known worker is asked to stop. |
| `legacy_run` | pass | `StoreAccepts`, `BranchFollowsRecord` | Two tasks, dependent or not, on two workers, with failures everywhere, a cancellation and a crash or a retry: every write of the legacy orchestrator is one the store takes, and the branch is what the run records or one commit further. |
| `legacy_recovery` | pass | `NoWorkerOutlives`, `CommittedWorkKept`, `LoopEnds` | One task through two crashes or retries, or one and a question of its worker, with spawns that fail with a worker left: recovery leaves no worker behind, never throws away a commit that no monitor is at work on, and whoever holds the lifecycle lease gives it back. |
| `legacy_review` | pass | `StoreAccepts`, `ReviewedAsMerged`, `RepairsReachBranchOnce`, `CommittedRepairKept`, `LifecycleEnds` | Two categories with findings of three kinds, through rounds, two repairs, a final validation, a crash, a retry and a cancellation: what is merged is what was reviewed, repairs reach the branch once, the store takes every write, and the lifecycle ends. |
| `attempt_log` | pass | `JournalReadable`, `LossIsTold`, `ShownStays`, `FlushEnds` | Four entries of two sizes under a cap, with torn writes, failing syncs, a death of the process and a reader beside it: the journal stays readable, no entry is lost in silence, and a flush returns. |
| `artifact_store` | pass | `KeptAsTold`, `LimitHeld`, `LatestMovesForward` | Two processes publish three attempts of an output under a lock that may go stale, with a crash, a retention and a reader without a lock: immutability, the limit, and what the latest version is. |
| `plan_review` | pass | `RecordsAccepted`, `ApprovedAsShown`, `NoEditLost`, `HistoryKept` | Two sessions edit, merge, restore, cancel, approve and execute one plan, with a crash: what executes is what its user was shown, inside the frozen envelope, and no session undoes the edit of another. |
| `resume_integration` | violation | `RecoveryReconcilesIntegration` | A crash between moving the integration branch and recording it leaves a head that no resume reconciles. |
| `save_comes_back` | violation | `SaveComesBack` | A save of the plan editor that is refused for its authority, or because the run is no longer editable, is tried again for ever. |

**Bounds.** `MaxCrashes`, `MaxRetries` and `MaxTroubles` bound what the environment does; one crash
reaches every gap between two durable writes, two reach a crash inside the recovery of
another. Four steps are enough for two changes of which the second is read, an integration
order and a lock conflict at the same time (`engine_crash`). Three are a repair behind a review
(`engine_recovery`). `MaxAttempts` is 2 for one step, so an automatic retry happens. No other
quantity of the engine is bounded: attempts, artifacts and histories are as long as the run makes them.
Two hosts and one crash give every race of `ChangeRun`: a command with another one, with
a dead lifecycle, and with a cancellation in either process. Three commands are an approval, a
resume of the run it left, and a retry of that; the safety properties were also checked
with four commands and two crashes. `worker_session` has one id, so every second request
reuses one; three events of the agent are a request, its repetition and an error or the end
of a run; two undelivered frames make a chunk whose first frame ends the execution before
its second is handled; two failures in a row stand for `MAX_CONSECUTIVE_STATUS_FAILURES`.

`legacy_run` has two tasks, with and without a dependency, so that integration order, the
worker limit and a failure beside a running task all happen, and one crash or retry;
`legacy_recovery` gives one task two of them, so that a crash falls into a recovery. A question
(`Asking` names the tasks whose workers ask, `MaxAsks` bounds the questions) counts as a trouble, so
`legacy_recovery` has two crashes or retries, or one and a question. `legacy_run` has no question: two tasks with one
are six million states, too many for a run. `legacy_questions.cfg`, kept beside the runs, is that instance, with the tasks
apart and one that asks: a question recorded late makes the store refuse the end of its attempt, the loop ends while the other
monitor works, and a resume recovers beside it. TLC finds no error in it, with `StoreAccepts` and `CommittedWorkKept`
(about three minutes on four workers). `MaxAttempts` in `legacy_recovery` is the number of attempts these bounds can reach; it names the monitors
that fairness speaks of, and no guard looks at it. The inductive invariant of the proofs was
checked on two tasks with a question, on two with a crash, and on one with both. `legacy_review` has two of the five categories: one batch of two passes, a category with
findings to repair and one with a finding outside the scope, both repairs and a third round.
`attempt_log` has entries of one and three bytes under a cap of seven with a marker of two,
so the cap is met by a line that fits, one that does not, and one that leaves no room
for the marker. `artifact_store` has three attempts under a limit of two, and a retention
of one. `plan_review` has two sessions, as a conflict needs, two tasks that may depend on each other, one title, an area
and a suite that the authored envelope refuses, three worker limits, so that each session may change the limit to one
of its own, and two edits of one field each; its sessions and its limits are symmetric, and no property of it is a
liveness property. No other symmetry is used, because steps, tasks and categories differ. Deadlock is
not checked: a run that is stored as cancelled, failed or completed stops, and so do the
stores when nobody writes.

**Fairness.** In `engine_recovery` a live process takes the next step of
its loop (`WF(EngineStep)`: the event loop of Node runs every resolved promise), and
every handler ends (`WF(WorkerStep(s))`: `StepExecutor.execute` races the handler with
the step timeout). The user, crashes and commits owe nothing. `ExecutionSettles` is
conditional on the last crash: an execution that is killed again and again need not end.
In `change_run` a command takes its next step (`WF(LifecycleStep(h))`), a command that waits
for the lease gets it or gives up (`claimLifecycle` retries within a deadline), and an
execution returns or throws, which is `ExecutionSettles` of the engine. A cancellation
owes nothing. In `worker_session` the runner takes its next step (a stop has a request timeout),
a chunk is processed to its end, a status request is answered or times out, the timers of the start and of the
step fire, and the executor sees a handler that returned. A spawn has no timeout once it is
connected (`timeoutAfterConnect: false`), so it is not assumed to return: `WorkerIsStopped`
starts when the worker is known. The server, the worker and the writes of answers owe nothing.
In `legacy_recovery` and `legacy_review` the process goes on (the loop, the recovery, the
lifecycle, each monitor and each pass): every await of them is a git command, a transaction or
a worker, and a worker ends by its own timeout. In `attempt_log` appends and flushes go on, in
`save_comes_back` the editor does what needs no user (`Editor`). Users, other sessions and the environment owe nothing
in any of them.

## 4. Findings

Each is a run that TLC must find violated, of a statement the repository makes.

- **`RecoveryReconcilesIntegration`** (`resume_integration`, `src/src/git/git.ts:1032`). integrateCommit moves the branch (git.ts:1073) before engine.ts:612 records it. After a crash in between, recovery looks only at active attempts (recovery.ts:248), the step integrates again from the recorded head, and integrateCommit throws that the branch moved (git.ts:1032) on every resume and retry. README.md:381 says "Recovery reconciles transitions that may have completed immediately before a crash, including worker spawn, commit creation, integration, validation, and cleanup."
- **`SaveComesBack`** (`save_comes_back`, `src/src/planning/plan-editor.ts:246`). persistCandidate takes every failure of a save (plan-editor.ts:246) for a concurrent edit: it reloads, merges, and with no conflict calls itself with the merged candidate (282). A plan that leaves its authority envelope (authority.ts:375, reached from domain/run.ts:215) and a run that is no longer editable (domain/run.ts:149) are refused again on every round, with nothing changed, so the editor notifies and saves without end and the user never gets the candidate back. README.md:113 says "The interactive editor can change tasks, dependencies, order, paths, commands, title, and worker limit.", and README.md:208 says that a plan outside its envelope "is refused when the run is created, and refused again for any later plan revision": refused, and not retried for ever.

Four further configurations, not among the runs, show statements of the repository that a
sequence of steps violates; TLC finds each of them within seconds. `commit_interrupted.cfg`
belongs to the list below, and `legacy_questions.cfg`, which passes, to the bounds of section 3.

| Configuration | Module | Property | What happens |
|---|---|---|---|
| `resume_worktrees.cfg` | `MCWorkflowEngine` | `ResumeReconcilesWorktrees` | A crash between `engine.ts:268` and `292` leaves a worktree of no attempt; once another step moved the head, `prepareTaskWorktree` refuses it (`worktrees.ts:190`). `README.md:147` says that a resume first reconciles branches and worktrees. |
| `cancelled_reopened.cfg` | `MCWorkflowEngine` | `CancelledStaysCancelled` | A resume that relaunches interrupted steps sets a snapshot that was cancelled meanwhile to running (`change-run.ts:382`); the comment at `change-run.ts:948` says a cancelled run stays cancelled. |
| `failed_dead_end.cfg` | `MCWorkflowEngine` | `FailedRunAcceptsRetry` | A relaunched step whose start fails leaves a failed run that resume (`extension.ts:1649`) and retry (`run-control.ts:88`) both refuse; the comment at `change-run.ts:333` says relaunching avoids just that. |
| `cancel_stays_open.cfg` | `ChangeRun` | `CancelledNeverOpen` | A resume reopens a completed run with its evidence (`change-run.ts:951`); the store then refuses its cancellation (`run-store.ts:1358`), and it stays running. `change-run.ts:508` says that a cancelled run never stays open. |

Behaviour of the legacy orchestrator that the models show and no document speaks of:

- The store refuses to settle an attempt while a late question of its worker is recorded as
  blocked: the attempt stays validating, and the loop ends, until a resume (`LegacyRun`: `Refuses`).
- A recovery that fails writes `failed` over a run that was cancelled meanwhile
  (`RecoverCommitFails`, `RecoverRepairFails`, `RemoveStaleAttemptFails`), and so does an approval whose integration
  branch cannot be prepared (`PrepareIntegrationBranchFails`). The cancelled attempt of a launch that was in between is then
  launched and worked on (`Revoked` of `LegacyRunProofs`), since only a cancelled run ends a launch.
- A loop that ends on an execution that threw (the store refused the failure of its attempt, as above)
  gives the lease back with its other monitors at work (`orchestrator.ts:3240`). A resume in the same process then
  recovers the run beside them: it looks for commits first, a monitor records one after that, and
  `recoverInterruptedRun` interrupts the attempt with its commit; its task is done again. TLC shows it with
  `commit_interrupted.cfg` (`CommitNeverInterrupted` of `MCLegacyRun`).
- A run that failed outside any task accepts neither a resume that continues it nor a retry.
- `completeFinalValidationAttempt` is returned and not awaited inside the `try` of
  `runFinalValidation`: a history that is not merge ready leaves the run validating until a resume.
- A review attempt that failed fails its round again after a resume, and the branch of
  `RemoveStaleAttempt` for an attempt that still runs is never taken, since a recovery interrupts it first.

## 5. Proofs

TLAPS checks every proof for all plans, any number of steps, workers, crashes and
retries. The only assumptions are the named ones of the modules: `PlanAssumption`,
`LocksAssumption`, `WorkersAssumption`, `StepDeclarations`, `BoundsAssumption`,
`HostsAssumption`, `SessionAssumption`, `LogAssumption`, `StoreAssumption`,
`ReviewAssumption`, `LegacyAssumption`.

| Theorem | Module | Property | What it establishes |
|---|---|---|---|
| `TypeCorrect` | `WorkflowEngineProofs` |  | Every variable keeps its type in every plan, through every crash, resume, retry and cancellation. |
| `EngineInvariant` | `WorkflowEngineProofs` |  | The inductive invariant: what the loop knows of the steps it holds, and how step states and attempts relate. |
| `IntegrationIsOrdered` | `WorkflowEngineProofs` | `IntegrationFollowsPlan` | The integrated steps are a succeeded prefix of the plan and the recorded head is exactly their commits in order. |
| `LocksAreExclusive` | `WorkflowEngineProofs` | `LocksExclusive` | Two attempts with conflicting locks are never active together. |
| `SlotsAreBounded` | `WorkflowEngineProofs` |  | Never more active attempts than worker slots, and no handler without an active attempt. |
| `AttemptHistorySafe` | `WorkflowEngineProofs` | `AttemptHistoryKept` | Settled attempts are immutable and no attempt disappears. |
| `StartsAreAllowed` | `WorkflowEngineProofs` |  | An attempt is only added to a running run, for a step without an active one, at the recorded head. |
| `SnapshotInvariance` | `WorkflowEngineProofs` |  | The inductive invariant of the durable state: how the snapshot, the commits, the branch and the artifacts hang together between two transactions, and what the loop has not seen yet. |
| `SuccessesAreDurable` | `WorkflowEngineProofs` | `SuccessIsDurable` | A step that counts as succeeded did so in its newest attempt, with every output of that attempt in the store. |
| `BranchIsKnown` | `WorkflowEngineProofs` | `BranchAtMostOneAhead` | The integration branch is the recorded head or one commit of the next step ahead of it, after any crash. |
| `StartsFromResults` | `WorkflowEngineProofs` | `StartsFromDependencies` | An active attempt starts from a head with the commits of all its dependencies, and reads the outputs of the attempts that succeeded. |
| `SnapshotIsSound` | `WorkflowEngineProofs` | `SnapshotSound` | The snapshot never needs a reconciliation, no attempt exceeds the budget of its step and the user, and a completed run has integrated every change. |
| `NeverStopsEarly` | `WorkflowEngineProofs` | `NeverStopsWithWorkWaiting` | The loop gives a run up only when every step that waits does so for another one that waits, or for a change behind a failed one. |
| `ImplementsTheLifecycle` | `WorkflowEngineProofs` | `ImplementsLifecycle` | The engine, with all its steps, handlers, crashes and resumes, implements EngineLifecycle. |
| `Invariance` | `ChangeRunProofs` |  | The inductive invariant of the change run: what each host may rely on at each of its awaits, and how the stored run and the snapshot relate. |
| `TypeCorrect` | `ChangeRunProofs` |  | The stored run, its validation attempts and the snapshot keep their types, whatever the hosts do. |
| `CompletedProved` | `ChangeRunProofs` | `CompletedIsProved` | A completed run has a completed execution, merge-ready evidence and a last validation that passed. |
| `SettledFinal` | `ChangeRunProofs` | `SettledIsFinal` | A command that settled its run finds it settled until it gives the lease back. |
| `ValidationIsTracked` | `ChangeRunProofs` | `ValidationTracked` | The attempt a host validates is the last one and runs, unless the run was cancelled. |
| `OnlyReopenedRefused` | `ChangeRunProofs` | `OnlyReopenedRunsRefused` | The store refuses a write of a command only of a run reopened with its evidence. |
| `LifecyclesExclusive` | `ChangeRunProofs` |  | Two hosts never work on the run at once. |
| `FinalHistory` | `ChangeRunProofs` |  | Final validation attempts are only added and a settled one never changes. |
| `CancelledFinal` | `ChangeRunProofs` |  | A cancelled run with a snapshot stays cancelled. |
| `EndsFinal` | `ChangeRunProofs` | `EndsAreFinal` | The validations of a run that ended and the cancellation of a run are both final. |
| `Invariance` | `WorkerSessionProofs` |  | The inductive invariant of the worker session: what stream, runner and executor know of each other. |
| `TypeCorrect` | `WorkerSessionProofs` |  | The promises, requests and frames of a session keep their types, whatever the server sends. |
| `SuccessWhole` | `WorkerSessionProofs` | `SuccessIsWhole` | A step succeeds only with a completed execution, a stopped worker and no abort. |
| `EveryRequestResolved` | `WorkerSessionProofs` |  | No request stays open behind a finished execution but those that came after it. |
| `AnswersAreOwn` | `WorkerSessionProofs` |  | An answer resolves the request it was written for and no other. |
| `RequestsAreSound` | `WorkerSessionProofs` | `RequestsSound` | The requests of a worker end with its execution, and only by their own answers. |
| `TypeCorrect` | `ArtifactStoreProofs` |  | The files, the lock, the writers and the reader keep their types, whatever becomes of the lock. |
| `Kept` | `ArtifactStoreProofs` | `KeptAsTold` | What a write reported as stored is found with its content until newer attempts supersede it, with any number of processes inside the lock at once. |
| `Limited` | `ArtifactStoreProofs` | `LimitHeld` | The run exceeds its limit by no more than the processes that a stale lock let pass the check together. |
| `MovesForward` | `ArtifactStoreProofs` | `LatestMovesForward` | No reader is shown an older version of an output after a newer one. |
| `Invariance` | `AttemptLogProofs` |  | The inductive invariant of the journal: what is on the disk, what the append at the head of the queue knows of it, and the order of both. |
| `Readable` | `AttemptLogProofs` | `JournalReadable` | The journal can be read after any torn write, failed append or death of its writer, in order and under its cap. |
| `LossTold` | `AttemptLogProofs` | `LossIsTold` | No recorded entry is lost without a marker, a thrown error or a dead process to tell. |
| `TailIsKept` | `AttemptLogProofs` | `ShownStays` | What a viewer read stays in the journal as it was read. |
| `Invariance` | `PlanReviewProofs` |  | The inductive invariant of plan review: the stored run, the snapshot, what the approving user saw, and what each session holds in its terminal. |
| `Accepted` | `PlanReviewProofs` | `RecordsAccepted` | The stored plan, its revisions, its envelope and the growing snapshot always satisfy the rules of the stores. |
| `Shown` | `PlanReviewProofs` | `ApprovedAsShown` | What executes is the revision its user was shown, in the envelope frozen with it. |
| `EditsKept` | `PlanReviewProofs` | `NoEditLost` | A session changes only the fields its user edited, however many saves it lost to others. |
| `History` | `PlanReviewProofs` | `HistoryKept` | Revisions are only appended, and an approved plan and its envelope are final. |
| `Invariance` | `LegacyReviewProofs` |  | The inductive invariant of the legacy review: what the lifecycle, each pass, a repair and a recovery know of the run at each of their awaits. |
| `Accepted` | `LegacyReviewProofs` | `StoreAccepts` | Every write of the review lifecycle is one the run store takes, whatever a cancellation or a crash does between its awaits. |
| `Reviewed` | `LegacyReviewProofs` | `ReviewedAsMerged` | A run past its reviews was reviewed in every category on the very head that is validated and merged, and the branch is at that head. |
| `BranchFollows` | `LegacyReviewProofs` | `RepairsReachBranchOnce` | No repair reaches the branch twice and at most two do; through any crash the branch is the recorded head, or ahead of it by one committed repair. |
| `CommitsKept` | `LegacyReviewProofs` | `CommittedRepairKept` | A repair whose commit is recorded is never interrupted, so its work is never done again. |
| `Invariance` | `LegacyRunProofs` |  | The inductive invariant of the legacy run: what the scheduling loop, each monitor and a recovery know of the run at each of their awaits, and how far the branch may be ahead of the record. |
| `Accepted` | `LegacyRunProofs` | `StoreAccepts` | Every write of the scheduling loop, its monitors, a recovery, a retry and a cancellation is one the run store takes, for any plan, number of workers and number of crashes. |
| `BranchFollows` | `LegacyRunProofs` | `BranchFollowsRecord` | The integration branch is the recorded history or one commit of a succeeded task ahead of it, whenever the process stops, fails or is retried. |
| `NoneOutlives` | `LegacyRunProofs` | `NoWorkerOutlives` | No attempt that a recovery declares interrupted has a worker left on the server, recorded or not. |
| `WorkKept` | `LegacyRunProofs` | `CommittedWorkKept` | An attempt with a recorded commit and no monitor is never interrupted, so its work is never done again. |
| `OnePassReconciles` | `WorkflowEngineProofs` |  | The pass of reconcileWorkflowSteps in plan order, which reads what it has just written, yields exactly the states of the model's reconciliation, for every plan. |
| `FirstFitIsThePick` | `WorkflowEngineProofs` |  | The greedy loop of launchableStepIds has one result for every plan, and that is the model's FirstFit. |
| `OnePassReconciles` | `LegacyRunProofs` |  | The pass of reconcileTaskStates in plan order yields exactly the model's next states, for every plan of tasks. |
| `LoopFindsResets` | `LegacyRunProofs` |  | The loop of stepRetryWork, in any order, never takes a task outside the model's Resets and ends with all of them. |

**The argument for the engine.** `TypeOK` is not inductive: the loop reads a step through `hand`, and
whether `attempts[hand]` has the attempt it is about to mark or settle depends on where
`pc` is. The inductive invariant is `TypeInv == TypeOK /\ Control /\ Attempting`.
`Control` says what each position of the loop knows: nothing is in hand or queued
outside a dispatch or an integration, handlers exist only while the loop runs, a step
being integrated has succeeded and is the next one, a step at `mark` has a prepared attempt. `Attempting`
relates step states to attempts: the newest attempt of a succeeded step succeeded, a
step with a handler has an active attempt, a step with an active attempt is running
unless the run has been settled under it, an integrated step has succeeded.
The plan of `engine_crash` was also checked with `TypeInv` as an invariant before it was
proved. `WorkflowEngineProofs` has one lemma per action, and then one
further invariant per property: `IntegrationIsOrdered` extends `IntegrationFollowsPlan`
with what the loop holds between `git` and `record`, `LocksAreExclusive` and
`SlotsAreBounded` rest on the lemmas about `launchableStepIds` that come first in the module,
and the two action properties follow from `TypeInv` directly.

**The argument for the snapshot.** What a process finds after a crash was left by a transaction
that trusted an earlier one, so none of the properties of the durable state is inductive.
`SnapshotInv` joins nine parts to `TypeInv` and `IntegrationFollowsPlan`; TLC checked it on both
plans of the engine first.
- `IsReconciled`: every transaction leaves the step states as a fixed point of
  `reconcileWorkflowSteps`. It rests on `RulesFromFixpoint` and `ReconcileIsEnough` of
  `WorkflowEngineProofs`, which say what a fixed point is without its recursion.
- `Owned`: every active attempt has a handler while the loop runs, so a run is settled only
  when none is left.
- `WithinBudget`: a step that may start again has an attempt left. A resume and a retry pay for one
  more, which `stopped` and `reset` carry to the transaction that uses it.
- `SuccessIsDurable` and `CommitsKnown`: the outputs and the commit of a success exist, and an
  attempt without a commit never had one. The recovery decides by these.
- `BranchKnown`: the branch is the recorded head, or ahead of it by the commit of
  the one step that `NextIsUnique` allows, whether the process that picked it lives or not.
- `BasesHold`: an active attempt started from a head with the commits of its dependencies.
  Heads only grow, and a succeeded dependency is never reset.
- `Whole`: a completed run has every step succeeded and every change integrated.
- `NothingOverlooked`: what the loop has not seen came from a handler it has not collected.

`NeverStopsEarly` takes the earliest change that is not integrated when the loop settles. It has not
succeeded, or it would be integrated next; it is not planned, because the earliest planned step
waits for an earlier change that is not integrated; so it has failed, and holds up the later ones.
`ImplementsTheLifecycle` proves each step of the engine to be a step or a stutter of
`EngineLifecycle`; beyond `SnapshotInv` it needs `WorkWaits`, that a resume that comes to relaunch
steps still finds an interrupted one, and a retry that comes to reset them a failed one.

**The argument for the change run.** None of its properties is inductive: that a completed
run is proved depends on what the host that completes it knew before its last awaits. The
inductive invariant is `Inv == TypeOK /\ RecordInv /\ \A h : HostInv(h)`. `HostInv` gives the
lease to the host that works, so `OwnStep` can conclude that a step of it disturbs no
other host; the only other steps that write the records belong to a cancellation, and
`CancellationStep` shows that what a working host relies on survives each of them. What it
relies on is local: a snapshot from `interrupt` on, a completed execution and no running
validation at `finalize`, and at `validate` either a run that was cancelled or its own running
attempt as the last one. `RecordInv` carries what holds between commands: the rules of the
store, and that only a completed execution is ever validated.

**The argument for the worker session.** Each operation on the promises of a stream is one
case of `StreamEffect`: a completion is final, and when it is reached no request stays open.
A frame does that, or it registers a request (`MessageEffect`), so `EffectFacts` carries
`RequestsResolved` and `AnsweredIsWritten`, the two parts of `RequestsSound`, over every step at once. `Inv` adds that there is
no stream before `startPrompt` (`NoStream`), and what the runner and the executor conclude
(`Outcomes`): a runner that returned success stopped its worker after an execution that
succeeded, and an aborted signal means a step that has not succeeded and never will.

**The argument for the journal.** `Whole` is the journal on the disk, `Appending` what the append at
the head of the queue knows of it, `InOrder` that the journal and then the queue are in the order of
recording. `Whole` keeps room for the marker in every journal without one, so a journal never has to be
cut for its marker, and `LinesStay`: lines are only ever added. `ShownStays` follows from that,
and `LossIsTold` from what `Appending` says of an append that ended.

**The argument for the artifact store.** The lock goes stale while its holder still writes, so
nothing rests on mutual exclusion: each process carries a fact that others cannot take away.
A version it found superseded stays superseded (`StaleIsSuperseded`, by `SupersededStays`: what is
removed had as many newer versions itself), a version it published or found is stored with its
content until superseded (`PublishedIsSettled`), and so is one it reported (`ToldIsSettled`).
`ShownIsStored` and `ListedIsNewer` are the reader's. `LimitHeld` counts the processes
that may be past the check.

**The argument for the plan review.** `RunAccepted` and `SnapshotAccepted` are the rules of the two
stores, `Consented` ties the approved revision to what its user was shown, and `SessionsHold` what each
session keeps in its terminal while others write: its draft differs from the revision it is based on in
the edited fields only. `MergeFacts` and `BetweenFacts` carry that over a merge and over a list of
revisions, which gives `NoEditLost`.

**The argument for the legacy review.** None of its properties is inductive: whether a write is
accepted depends on what the loop, a pass or a repair learned before its last await, while a
cancellation may come at every one of them. The inductive invariant `Inv` has a part for each
list of the run, and each part says what whoever works on the list knows at each await:
- `RoundsHold`: the head has one commit for each round but the last, which is based on it; a round in
  repair has the report of every category.
- `ReviewsHold`: an active review attempt is of the last round, and belongs to the pass at work on it
  (`Passing`) unless its process died before a recovery.
- `RepairsHold`: a repair whose commit is recorded is never interrupted, and an active repair is the last one, made on the head for the required findings. `Working` is what
  the loop or a recovery knows of it, whether or not the run was cancelled meanwhile.
- `FindingsHold`: no finding is open while a run reviews or once it is past its reviews (`PastReview`), and then the
  last round has succeeded on the head that is merged.
- `FinalsHold`: the validation the loop works on runs, unless the run was cancelled or its history was refused.
- `BranchHolds`: the branch is the recorded head, or one commit ahead of it by a repair that is
  committed and not integrated.

`Rewrite` frames every write that settles an attempt, `MoveStep` every step that
writes nothing, and `CompleteStep` the one write that touches a repair, its findings, the round and
the head together. `CommittedRepairKept` needs `RepairsHold` only: a recovery interrupts
what has no commit, and completes the rest.

**The argument for the legacy run.** The loop, one monitor per attempt, the handlers of questions, a
recovery and a cancellation write one record, and the store checks each write alone. `Inv` says why each
of them is entitled to its write:
- `RunSound` is what the store asks, with what it does not ask and every writer relies on (`Tracked`):
  the task of an active attempt is at work or was cancelled, evidence exists only behind the worker, a
  failed integration fails the run, a cancelled run has nothing active.
- `Monitors` and `Launching` are what a monitor and a launch know of their attempt: it is as they left
  it, or a cancellation ended it and all the rest of the run (`Revoked`, `Ended`), though the run may be
  stored as failed by now.
- `AtIntegration`: the task being integrated is the next one and stays succeeded, since nobody else touches it;
  from the pick to its record the branch is exactly one commit ahead.
- `Recovering`: from the load of the run on, every attempt with a recorded commit and no monitor
  is among those the recovery found, and no other attempt and no integration depends on what it found; once the workers
  are stopped, none is live.
- `BranchKnown`: the branch is the recorded head, or `Ahead` of it by the next task, which succeeded and either
  still counts as succeeded or failed to integrate, so that a recovery or a retry will take it.

A step of a monitor, a question or a cancellation leaves alone all that the loop knows; `Beside` states
what such a step may change, and `BesideKept` concludes the parts of the loop from it at once. `LoopMoves`
and `LoopWrites` do the same for the steps of the loop between its awaits. `RecordedNext` counts:
because the integrated tasks are a prefix of the plan, recording the next one makes the recorded head what the
branch is. `BranchFollowsRecord`, `NoWorkerOutlives` and `StoreAccepts` follow from `Inv`, `CommittedWorkKept` from what
each of its steps spares (`Spared`).

**What the proofs taught.** Three statements were false as first written, and TLC shows the
counterexample of each. `NeverStopsWithWorkWaiting` had claimed that the loop stops only when no step
waits: a resume that relaunches interrupted steps (`change-run.ts:339`) reopens a run with another
change failed, and a change behind it then succeeds but is never integrated. The reader of
that change waits until the loop gives up, which the engine records as a failure with a message of its own
(`engine.ts:704`). The property now names those steps (`HeldUp`). And the limit on the steps of a plan
is asked only of a plan that grows (`admission.ts:143`), so `RecordsAccepted` states it only of one that grew.
In `LegacyReview` the rule of a repaired finding had read a repair that the finding need not name;
`RepairsSound` now asks for one that exists, as `run-store.ts:915` does. `CommittedWorkKept` had claimed that no
attempt with a recorded commit is ever interrupted, and its run, of one task, agrees. With two tasks and a question it
is false, as section 4 tells under `commit_interrupted.cfg`: the property now speaks of attempts without a
monitor, and `CommitNeverInterrupted` keeps the first statement. `LegacyRun` was also rewritten where it
could not be reasoned about: what blocks behind a failure and what a retry resets are least fixed points,
and its type invariant no longer bounds the attempts by `MaxAttempts`, which is true of the instances only.

**Passes and loops.** The model gives what the code computes by a loop as a set: `Stranded` and `Behind` are
what waits for a failure, `Resets` what a retry resets, `FirstFit` what the scheduler picks. Each is proved
to be what the loop computes, for every plan. `OnePassReconciles` of `WorkflowEngineProofs` takes the pass of
`reconcileWorkflowSteps`, which decides a step from what it has just made of its dependencies
(`ReconcilePass`), and shows that its only result is `reconcileWorkflowSteps` of the model; the theorem of the same name in
`LegacyRunProofs` says so of `reconcileTaskStates` (`TaskPass`). The argument is the first step in plan
order at which the two would differ: its dependencies come before it, so they agree, and so does it.
`FirstFitIsThePick` says the same of the greedy loop of `launchableStepIds`, and `LoopFindsResets` that the loop of
`stepRetryWork` starts inside `Resets`, stays there, and ends only with all of it. That these loops
terminate is plain in the code and not stated: each handles a step once, or adds one to a finite set.

**Model-checked only.** `ExecutionSettles`, `CommandsEnd`, `WorkerIsStopped`, `LoopEnds`, `LifecycleEnds`
and `FlushEnds`, because liveness and ENABLED are beyond the prover.

## 6. Plan

Done: the scheduler, the engine with its recovery and lifecycle, the change run around it, the
worker session of a step, the abstract specification that joins the first two; the legacy
orchestrator in its two halves, the attempt journal, the artifact store, and the review of a plan by
several sessions. Proved: every safety and action property that a passing run checks, and that the
engine implements its abstract specification, and that the sets of its rules are what the loops of the code
compute. Next: algorithms against reference definitions, which are cycle detection and path lock overlap.

## 7. Not modelled

- `validation/`: one child process with a timeout and a bounded output; its result is an
  outcome in every module.
- `workflows/{runner,plan-only,investigate,change}.ts`: they build plans and hand them to the engine.
- `inspection/` but for its rules of control, `review/prompts.ts`, `planning/plan-presentation.ts`: formatting.
- `planning/planning-worker.ts` and `repository-discovery.ts`: a prompt, a parser and a walk over files.
- The parsing halves of `run-store.ts`, `security/envelope.ts`, `security/capabilities.ts` and `domain/steps.ts`: field
  by field checks of documents, where each check is its own specification.
- `engine/events.ts`: a counter and a bounded window.
- `configuration.ts`, `storage-migration.ts`, exports and the package.
