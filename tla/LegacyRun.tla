----------------------------- MODULE LegacyRun ------------------------------
(***************************************************************************)
(* The execution of a legacy run, from its approval to its integrated      *)
(* tasks: the scheduling loop of src/orchestrator.ts and the executions it *)
(* monitors, its recovery, its retry and its cancellation, over the run    *)
(* that storage/run-store.ts keeps and the branches git keeps.             *)
(*                                                                         *)
(* run is the stored run.  A write of it is refused when validateStoredRun *)
(* refuses it: the questions workers asked are the only reason a write of  *)
(* this module has to be refused, and StoreAccepts says so.                *)
(***************************************************************************)
EXTENDS Integers, Sequences, FiniteSets

CONSTANTS Tasks, Plans,  \* the tasks, and the plans: what each task depends on
          Position,      \* topologicalTaskIds, as the place of each task
          MaxWorkers,    \* maxConcurrentWorkers
          MaxTroubles,   \* bound on the crashes, retries and questions of a run
          Asking,        \* the tasks whose workers ask questions
          MaxAsks,       \* bound on the questions among these troubles
          MaxAttempts,   \* the attempts these bounds allow, for the fairness of their monitors
          NoTask

ASSUME LegacyAssumption ==
  /\ IsFiniteSet(Tasks) /\ NoTask \notin Tasks
  /\ Plans \subseteq [Tasks -> SUBSET Tasks]
  /\ Position \in [Tasks -> 1..Cardinality(Tasks)]
  /\ \A s, t \in Tasks : s # t => Position[s] # Position[t]
  /\ \A deps \in Plans, t \in Tasks : \A s \in deps[t] : Position[s] < Position[t]
  /\ MaxWorkers \in Nat \ {0}
  /\ Asking \subseteq Tasks /\ {MaxTroubles, MaxAsks, MaxAttempts} \subseteq Nat

VARIABLES
  run,      \* the stored run: state, tasks, attempts and blocked workers
  branch,   \* the tasks whose commits are on the integration branch, in order
  advanced, \* the attempts whose task branch has a commit
  live,     \* the attempts whose worker is on the server, until it is asked to stop
  loop,     \* the process that holds the lifecycle lease, and the await it is at
  exec,     \* the await each attempt's monitor is at
  ask,      \* the await the UI handler of each attempt is at
  cancel,   \* the command that cancels the run
  starting, \* the commands that have yet to take the lease and start the loop
  count     \* crashes, retries and questions so far, and the questions alone

durable == <<run, branch, advanced, live>>
vars == <<run, branch, advanced, live, loop, exec, ask, cancel, starting, count>>

ActiveStates == {"prepared", "launched", "running", "validating"}
TerminalRun == {"completed", "failed", "cancelled"}

RunStates == {"awaiting_approval", "running", "integrating", "failed", "cancelled"}
TaskStates == {"planned", "ready", "blocked", "running", "validating", "succeeded",
               "failed", "cancelled"}
Attempt == [task : Tasks, state : ActiveStates \cup {"succeeded", "failed", "cancelled", "interrupted"},
            evidence : BOOLEAN, commit : BOOLEAN]

LoopPc == {"idle", "dispatch", "launch", "spawn", "launched", "prompt",
           "unspawn", "unlaunch", "wait", "integrate", "record", "disintegrate",
           "stop", "unblock", "commits", "reconcile", "interrupt", "resume"}
ExecPc == {"none", "working", "ended", "broken", "validating", "committing",
           "committed", "recorded", "failing", "done", "rejected"}

Task == [state : TaskStates, integrated : BOOLEAN, error : BOOLEAN]

TypeOK ==
  /\ run \in [state : RunStates, deps : Plans, tasks : [Tasks -> Task], attempts : Seq(Attempt),
              blocked : SUBSET (DOMAIN run.attempts)]
  /\ branch \in Seq(Tasks)
  /\ advanced \subseteq DOMAIN run.attempts /\ live \subseteq DOMAIN run.attempts
  /\ loop \in [pc : LoopPc, todo : SUBSET Tasks, task : Tasks \cup {NoTask}, at : Nat,
               active : SUBSET (DOMAIN run.attempts), first : BOOLEAN,
               found : SUBSET (DOMAIN run.attempts), recovering : BOOLEAN]
  /\ exec \in [DOMAIN run.attempts -> ExecPc]
  /\ ask \in [DOMAIN run.attempts -> {"none", "asking", "asked"}]
  /\ cancel \in [pc : {"idle", "waiting"}, on : SUBSET (DOMAIN run.attempts),
                 task : Tasks \cup {NoTask}]
  /\ starting \in SUBSET {"branch", "lease"}
  /\ count \in [troubles : 0..MaxTroubles, asks : 0..MaxAsks]

-----------------------------------------------------------------------------
(* domain/scheduler.ts                                                     *)

\* topologicalTaskIds of some tasks: the first of them, and the first n of them.
FirstOf(s) == CHOOSE t \in s : \A u \in s : Position[t] <= Position[u]
Earlier(s, t) == {u \in s : Position[u] < Position[t]}
FirstTasks(s, n) == {t \in s : Cardinality(Earlier(s, t)) < n}

Movable(task) == task.state \in {"planned", "ready", "blocked"}

\* The tasks that have not started and wait for a failure, through others of them:
\* what one pass in plan order finds is the least set that a failure reaches.
HoldsBehind(deps, tasks, B) ==
  \A t \in Tasks :
    Movable(tasks[t]) /\ (\E d \in deps[t] : tasks[d].state \in {"failed", "cancelled"} \/ d \in B)
      => t \in B

Behind(deps, tasks) == {t \in Tasks : \A B \in SUBSET Tasks : HoldsBehind(deps, tasks, B) => t \in B}

nextState(deps, tasks, t) ==
  IF ~Movable(tasks[t]) THEN tasks[t].state
  ELSE IF t \in Behind(deps, tasks) THEN "blocked"
  ELSE IF \A d \in deps[t] : tasks[d].integrated THEN "ready" ELSE "planned"

reconcileTaskStates(r) ==
  [r EXCEPT !.tasks = [t \in Tasks |-> [r.tasks[t] EXCEPT !.state = nextState(r.deps, r.tasks, t)]]]

Active(r) == {a \in DOMAIN r.attempts : r.attempts[a].state \in ActiveStates}
ActiveTasks(r) == {r.attempts[a].task : a \in Active(r)}

Untracked(r) == {t \in Tasks \ ActiveTasks(r) : r.tasks[t].state \in {"running", "validating"}}

getLaunchableTaskIds(r) ==
  LET now == reconcileTaskStates(r)
      free == MaxWorkers - Cardinality(Active(r)) - Cardinality(Untracked(r))
      ready == {t \in Tasks \ ActiveTasks(r) : now.tasks[t].state = "ready"}
  IN IF r.state # "running" THEN {} ELSE FirstTasks(ready, free)

-----------------------------------------------------------------------------
(* The stored run, and what validateStoredRun refuses.                     *)

Integrated(r) == {t \in Tasks : r.tasks[t].integrated}

\* The history that integrationHead stands for: the integrated tasks, a prefix of the plan.
Recorded(r) == [n \in 1..Cardinality(Integrated(r)) |-> CHOOSE t \in Tasks : Position[t] = n]

HasSucceeded(r, t) ==
  \E a \in DOMAIN r.attempts :
     r.attempts[a].task = t /\ r.attempts[a].state = "succeeded" /\ r.attempts[a].commit

TasksSound(r) ==
  \A t \in Tasks :
     /\ r.tasks[t].integrated => r.tasks[t].state = "succeeded" /\ ~r.tasks[t].error
     /\ r.tasks[t].error => r.tasks[t].state = "failed"
     /\ r.tasks[t].state \in {"running", "validating"} => t \in ActiveTasks(r)
     /\ r.tasks[t].state = "succeeded" => HasSucceeded(r, t)
     /\ r.tasks[t].integrated => \A s \in Tasks : Position[s] < Position[t] => r.tasks[s].integrated

AttemptsSound(r) ==
  /\ Cardinality(Active(r)) <= MaxWorkers
  /\ \A a, b \in Active(r) : r.attempts[a].task = r.attempts[b].task => a = b
  /\ \A a \in DOMAIN r.attempts :
        /\ r.attempts[a].commit => r.attempts[a].evidence
        /\ r.attempts[a].state = "succeeded" => r.attempts[a].commit

ApprovalSound(r) == r.state = "awaiting_approval" => r.attempts = <<>> /\ Integrated(r) = {}

QuestionsSound(r) == r.blocked \subseteq Active(r)

Store(r) == QuestionsSound(r) /\ run' = r
Refuses(r) == ~QuestionsSound(r)

SetAttempt(r, a, state) == [r EXCEPT !.attempts[a].state = state]
SetTask(r, t, state) == [r EXCEPT !.tasks[t].state = state]
SetRun(r, state) == [r EXCEPT !.state = state]
WithoutBlocked(r, a) == [r EXCEPT !.blocked = @ \ {a}]

FailAttempt(r, a) ==
  reconcileTaskStates(SetRun(SetTask(SetAttempt(r, a, "failed"), r.attempts[a].task, "failed"), "failed"))

At(pc) == loop.pc = pc
Reach(a, pc) == exec' = [exec EXCEPT ![a] = pc]
GoTo(pc) == loop' = [loop EXCEPT !.pc = pc]
Idle == [pc |-> "idle", todo |-> {}, task |-> NoTask, at |-> 0, active |-> {},
         first |-> TRUE, found |-> {}, recovering |-> FALSE]

Init ==
  /\ run \in {reconcileTaskStates(
                [state |-> "awaiting_approval", deps |-> deps, attempts |-> <<>>, blocked |-> {},
                 tasks |-> [t \in Tasks |-> [state |-> "planned", integrated |-> FALSE, error |-> FALSE]]]) :
              deps \in Plans}
  /\ branch = <<>> /\ advanced = {} /\ live = {}
  /\ loop = Idle /\ exec = <<>> /\ ask = <<>>
  /\ cancel = [pc |-> "idle", on |-> {}, task |-> NoTask] /\ starting = {}
  /\ count = [troubles |-> 0, asks |-> 0]

-----------------------------------------------------------------------------
(* Approval, and the loop: integrate what is next, then dispatch.          *)

\* Nobody holds the lease while the integration branch of an approved run is prepared.
Approve ==
  /\ run.state = "awaiting_approval"
  /\ run' = SetRun(run, "running") /\ starting' = starting \cup {"branch"}
  /\ UNCHANGED <<branch, advanced, live, loop, exec, ask, cancel, count>>

PrepareIntegrationBranch ==
  /\ "branch" \in starting /\ starting' = {"lease"}
  /\ UNCHANGED <<durable, loop, exec, ask, cancel, count>>

\* The failure is recorded whatever the run is by then.
PrepareIntegrationBranchFails ==
  /\ "branch" \in starting /\ starting' = starting \ {"branch"}
  /\ run' = SetRun(run, "failed")
  /\ UNCHANGED <<branch, advanced, live, loop, exec, ask, cancel, count>>

\* startScheduling: it gives up when the lease is not free in time.
StartScheduling ==
  /\ "lease" \in starting /\ starting' = starting \ {"lease"}
  /\ loop' = IF At("idle") THEN [Idle EXCEPT !.pc = "dispatch"] ELSE loop
  /\ UNCHANGED <<durable, exec, ask, cancel, count>>

Dispatch ==
  /\ At("dispatch")
  /\ loop' = [loop EXCEPT !.pc = "launch", !.todo = getLaunchableTaskIds(run)]
  /\ UNCHANGED <<durable, exec, ask, cancel, starting, count>>

Dispatched ==
  /\ At("launch") /\ loop.todo = {}
  /\ loop' = IF loop.active # {} THEN [loop EXCEPT !.pc = "wait", !.first = FALSE]
             ELSE IF loop.first THEN [loop EXCEPT !.pc = "integrate", !.first = FALSE]
             ELSE Idle
  /\ UNCHANGED <<durable, exec, ask, cancel, starting, count>>

LaunchEnds(r) == \* dispatchAvailableTasks after launchTask threw
  loop' = IF r.state = "cancelled" THEN Idle ELSE [loop EXCEPT !.pc = "launch", !.todo = {}]

\* The head of the integration branch is looked at and the worktree prepared, and
\* then the attempt is reserved, by a transaction that looks at the run again.
Reserve ==
  /\ At("launch") /\ loop.todo # {} /\ branch = Recorded(run)
  /\ IF FirstOf(loop.todo) \in getLaunchableTaskIds(run)
     THEN /\ run' = [SetTask(run, FirstOf(loop.todo), "running") EXCEPT !.attempts =
                       Append(@, [task |-> FirstOf(loop.todo), state |-> "prepared",
                                  evidence |-> FALSE, commit |-> FALSE])]
          /\ exec' = Append(exec, "none") /\ ask' = Append(ask, "none")
          /\ loop' = [loop EXCEPT !.pc = "spawn", !.at = Len(run.attempts) + 1]
     ELSE LaunchEnds(run) /\ UNCHANGED <<run, exec, ask>>
  /\ UNCHANGED <<branch, advanced, live, cancel, starting, count>>

PrepareLaunchFails ==
  /\ At("launch") /\ loop.todo # {}
  /\ loop' = [loop EXCEPT !.pc = "unlaunch", !.at = 0]
  /\ UNCHANGED <<durable, exec, ask, cancel, starting, count>>

Spawn ==
  /\ At("spawn") /\ GoTo("launched") /\ live' = live \cup {loop.at}
  /\ UNCHANGED <<run, branch, advanced, exec, ask, cancel, starting, count>>

RecordLaunched ==
  /\ At("launched")
  /\ IF run.state = "cancelled" THEN GoTo("unlaunch") /\ UNCHANGED run
     ELSE run' = SetAttempt(run, loop.at, "launched") /\ GoTo("prompt")
  /\ UNCHANGED <<branch, advanced, live, exec, ask, cancel, starting, count>>

\* startPrompt resolves, and the attempt is recorded as running.
RecordRunning ==
  /\ At("prompt")
  /\ IF run.state = "cancelled" THEN GoTo("unlaunch") /\ UNCHANGED <<run, exec>>
     ELSE /\ run' = SetAttempt(run, loop.at, "running")
          /\ exec' = [exec EXCEPT ![loop.at] = "working"]
          /\ loop' = [loop EXCEPT !.pc = "launch", !.todo = @ \ {FirstOf(@)}, !.active = @ \cup {loop.at}]
  /\ UNCHANGED <<branch, advanced, live, ask, cancel, starting, count>>

LaunchFails ==
  /\ At("prompt") /\ GoTo("unlaunch")
  /\ UNCHANGED <<durable, exec, ask, cancel, starting, count>>

\* A spawn fails, with a worker that nobody knows the id of or without.
SpawnFails ==
  /\ At("spawn") /\ GoTo("unspawn") /\ live' \in {live, live \cup {loop.at}}
  /\ UNCHANGED <<run, branch, advanced, exec, ask, cancel, starting, count>>

\* The catch of launchTask, with the stop of the worker whose id it has.
Unlaunch ==
  /\ loop.pc \in {"unlaunch", "unspawn"}
  /\ live' = IF At("unlaunch") THEN live \ {loop.at} ELSE live
  /\ run' = IF run.state = "cancelled" THEN run
            ELSE IF loop.at = 0 THEN SetRun(run, "failed")
            ELSE WithoutBlocked(FailAttempt(run, loop.at), loop.at)
  /\ LaunchEnds(run')
  /\ UNCHANGED <<branch, advanced, exec, ask, cancel, starting, count>>

\* Faulty variant of Collect: an execution that threw is never collected.
CollectSettledOnly(a) ==
  /\ At("wait") /\ a \in loop.active /\ exec[a] = "done"
  /\ loop' = [loop EXCEPT !.pc = "integrate", !.active = @ \ {a}]
  /\ Reach(a, "none")
  /\ UNCHANGED <<durable, ask, cancel, starting, count>>

\* Promise.race: one execution that settled; one that threw ends the loop.
Collect(a) ==
  /\ At("wait") /\ a \in loop.active /\ exec[a] \in {"done", "rejected"}
  /\ loop' = IF exec[a] = "rejected" THEN Idle
             ELSE [loop EXCEPT !.pc = "integrate", !.active = @ \ {a}]
  /\ Reach(a, "none")
  /\ UNCHANGED <<durable, ask, cancel, starting, count>>

NextTask == FirstOf(Tasks \ Integrated(run))

Left(r) == \* integrateAvailableTasks returned r
  loop' = IF loop.recovering THEN [loop EXCEPT !.pc = "resume"]
          ELSE IF r.state = "running" THEN [loop EXCEPT !.pc = "dispatch"]
          ELSE IF loop.active = {} THEN Idle
          ELSE [loop EXCEPT !.pc = "wait"]

\* Faulty variant of GitIntegrates: whatever the branch has moved to.
GitIntegratesAnywhere(t) == branch' = Append(branch, t)

GitIntegrates(t) == branch = Recorded(run) /\ branch' = Append(branch, t)

PickIntegration ==
  /\ At("integrate")
  /\ IF run.state # "running" THEN Left(run) /\ UNCHANGED <<run, branch>>
     ELSE IF Integrated(run) = Tasks
     THEN run' = SetRun(run, "integrating") /\ Left(run') /\ UNCHANGED branch
     ELSE IF run.tasks[NextTask].state # "succeeded" THEN Left(run) /\ UNCHANGED <<run, branch>>
     ELSE /\ UNCHANGED run
          /\ \/ GitIntegrates(NextTask)
                /\ loop' = [loop EXCEPT !.pc = "record", !.task = NextTask]
             \/ UNCHANGED branch /\ loop' = [loop EXCEPT !.pc = "disintegrate", !.task = NextTask]
  /\ UNCHANGED <<advanced, live, exec, ask, cancel, starting, count>>

RecordIntegration ==
  /\ At("record")
  /\ IF run.state = "running" /\ run.tasks[loop.task].state = "succeeded" /\ ~run.tasks[loop.task].integrated
     THEN run' = [run EXCEPT !.tasks[loop.task].integrated = TRUE, !.tasks[loop.task].error = FALSE]
          /\ GoTo("integrate")
     ELSE GoTo("disintegrate") /\ UNCHANGED run
  /\ UNCHANGED <<branch, advanced, live, exec, ask, cancel, starting, count>>

FailIntegration ==
  /\ At("disintegrate")
  /\ run' = IF run.state = "cancelled" THEN run
            ELSE reconcileTaskStates(
                   [SetTask(SetRun(run, "failed"), loop.task, "failed") EXCEPT !.tasks[loop.task].error = TRUE])
  /\ Left(run')
  /\ UNCHANGED <<branch, advanced, live, exec, ask, cancel, starting, count>>

-----------------------------------------------------------------------------
(* monitorExecution and finalizeTaskAttempt, one per attempt.              *)

Validating(a) == run.attempts[a].state = "validating"

\* The execution completes, times out or is aborted, and its worker is stopped,
\* which may fail and then counts as a failure of the execution.
WorkerSettles(a) ==
  /\ exec[a] = "working"
  /\ Reach(a, "ended") \/ Reach(a, "broken")
  /\ live' = live \ {a}
  /\ UNCHANGED <<run, branch, advanced, loop, ask, cancel, starting, count>>

PersistResult(a) ==
  /\ exec[a] \in {"ended", "broken"}
  /\ IF run.attempts[a].state \notin {"launched", "running"}
     THEN Reach(a, IF Validating(a) THEN "validating" ELSE "done") /\ UNCHANGED run
     ELSE IF exec[a] = "broken"
     THEN run' = FailAttempt(WithoutBlocked(run, a), a) /\ Reach(a, "done")
     ELSE /\ run' = reconcileTaskStates(
                      SetTask(SetAttempt(WithoutBlocked(run, a), a, "validating"),
                              run.attempts[a].task, "validating"))
          /\ Reach(a, "validating")
  /\ UNCHANGED <<branch, advanced, live, loop, ask, cancel, starting, count>>

\* The checks of the validator pass, and the evidence is recorded.
RecordEvidence(a) ==
  /\ exec[a] = "validating"
  /\ IF run.state = "running" /\ Validating(a)
     THEN run' = [run EXCEPT !.attempts[a].evidence = TRUE] /\ Reach(a, "committing")
     ELSE Reach(a, "done") /\ UNCHANGED run
  /\ UNCHANGED <<branch, advanced, live, loop, ask, cancel, starting, count>>

\* The validation fails, or the removal of the worktree does after the commit.
FinalizationThrows(a) ==
  /\ exec[a] \in {"validating", "recorded"} /\ Reach(a, "failing")
  /\ UNCHANGED <<durable, loop, ask, cancel, starting, count>>

\* git may fail before it has a commit, and after it.
CommitTaskWork(a) ==
  /\ exec[a] = "committing"
  /\ \/ Reach(a, "committed") /\ advanced' = advanced \cup {a}
     \/ Reach(a, "failing") /\ advanced' \in {advanced, advanced \cup {a}}
  /\ UNCHANGED <<run, branch, live, loop, ask, cancel, starting, count>>

RecordCommit(a) ==
  /\ exec[a] = "committed"
  /\ IF Validating(a)
     THEN run' = [run EXCEPT !.attempts[a].commit = TRUE] /\ Reach(a, "recorded")
     ELSE Reach(a, "failing") /\ UNCHANGED run
  /\ UNCHANGED <<branch, advanced, live, loop, ask, cancel, starting, count>>

Succeeds(r, a) ==
  reconcileTaskStates(SetTask(SetAttempt(r, a, "succeeded"), r.attempts[a].task, "succeeded"))

RecordSucceeded(a) ==
  /\ exec[a] = "recorded"
  /\ IF ~Validating(a) THEN Reach(a, "done") /\ UNCHANGED run
     ELSE \/ Store(Succeeds(run, a)) /\ Reach(a, "done")
          \/ Refuses(Succeeds(run, a)) /\ Reach(a, "failing") /\ UNCHANGED run
  /\ UNCHANGED <<branch, advanced, live, loop, ask, cancel, starting, count>>

\* The commit of an attempt that failed after it: what the store or git has of it.
Durable(a) == run.attempts[a].commit \/ (run.attempts[a].evidence /\ a \in advanced)

KeepCommit(a) == SetRun([run EXCEPT !.attempts[a].commit = TRUE], "failed")

\* The catch of finalizeTaskAttempt; the check of the task branch may itself fail.
FailFinalization(a) ==
  /\ exec[a] = "failing"
  /\ IF ~Validating(a) THEN Reach(a, "done") /\ UNCHANGED run
     ELSE \/ Durable(a) /\ run' = KeepCommit(a) /\ Reach(a, "done")
          \/ ~run.attempts[a].commit /\ Store(FailAttempt(run, a)) /\ Reach(a, "done")
          \/ ~run.attempts[a].commit /\ Refuses(FailAttempt(run, a)) /\ Reach(a, "rejected") /\ UNCHANGED run
  /\ UNCHANGED <<branch, advanced, live, loop, ask, cancel, starting, count>>

-----------------------------------------------------------------------------
(* handleWorkerUiRequest: block, and once it answered clear it again.       *)

Ask(a) ==
  /\ exec[a] = "working" \/ (loop.at = a /\ At("prompt"))
  /\ a \in live /\ ask[a] = "none" /\ run.attempts[a].task \in Asking
  /\ count.asks < MaxAsks /\ count.troubles < MaxTroubles
  /\ ask' = [ask EXCEPT ![a] = "asking"] /\ count' = [troubles |-> count.troubles + 1, asks |-> count.asks + 1]
  /\ UNCHANGED <<durable, loop, exec, cancel, starting>>

Block(a) ==
  /\ ask[a] = "asking"
  /\ IF a \in Active(run)
     THEN run' = [run EXCEPT !.blocked = @ \cup {a}] /\ ask' = [ask EXCEPT ![a] = "asked"]
     ELSE ask' = [ask EXCEPT ![a] = "none"] /\ UNCHANGED run
  /\ UNCHANGED <<branch, advanced, live, loop, exec, cancel, starting, count>>

ClearBlockedRequest(a) ==
  /\ ask[a] = "asked"
  /\ run' = WithoutBlocked(run, a) /\ ask' = [ask EXCEPT ![a] = "none"]
  /\ UNCHANGED <<branch, advanced, live, loop, exec, cancel, starting, count>>

-----------------------------------------------------------------------------
(* cancelRun, in this process or in another one that sees no boundary.     *)

Committing == {a \in DOMAIN exec : exec[a] \in {"committing", "committed", "recorded", "failing"}
                                    /\ run.attempts[a].evidence}

Integrating == IF loop.pc \in {"record", "disintegrate"} THEN loop.task ELSE NoTask

\* cancelRun waits for the boundaries open when it was called.
Cancel ==
  /\ cancel.pc = "idle" /\ run.state \notin TerminalRun
  /\ Committing # {} \/ Integrating # NoTask
  /\ cancel' = [pc |-> "waiting", on |-> Committing, task |-> Integrating]
  /\ UNCHANGED <<durable, loop, exec, ask, starting, count>>

Passed == cancel.on \cap Committing = {} /\ (cancel.task = NoTask \/ cancel.task # Integrating)

Cancelled(r) ==
  [r EXCEPT !.state = "cancelled", !.blocked = {},
            !.tasks = [t \in Tasks |-> IF r.tasks[t].state = "succeeded" THEN r.tasks[t]
                                       ELSE [r.tasks[t] EXCEPT !.state = "cancelled"]],
            !.attempts = [a \in DOMAIN r.attempts |->
                            IF a \in Active(r) THEN [r.attempts[a] EXCEPT !.state = "cancelled"]
                            ELSE r.attempts[a]]]

\* Another process sees no boundary, and neither does a cancellation that came first.
CancelRun ==
  /\ \/ cancel.pc = "idle" /\ run.state \notin TerminalRun
     \/ cancel.pc = "waiting" /\ Passed
  /\ IF run.state \in TerminalRun
     THEN cancel' = [pc |-> "idle", on |-> {}, task |-> NoTask] /\ UNCHANGED <<run, live>>
     ELSE /\ run' = Cancelled(run) /\ live' = live \ {a \in Active(run) : run.attempts[a].state # "prepared"}
          /\ cancel' = [pc |-> "idle", on |-> {}, task |-> NoTask]
  /\ UNCHANGED <<branch, advanced, loop, exec, ask, starting, count>>

-----------------------------------------------------------------------------
(* recoverRun and resumeAndLaunch, retryAndLaunch, and the crash.          *)

\* Faulty variant of Recoverable: an attempt that has its commit is not looked at.
RecoverableUncommitted ==
  {a \in DOMAIN run.attempts : Validating(a) /\ run.attempts[a].evidence /\ ~run.attempts[a].commit}

Recoverable == {a \in DOMAIN run.attempts : Validating(a) /\ run.attempts[a].evidence}

\* recoverRun takes the lease and loads the run.  A run with blocked workers is written,
\* and so read again, once its workers are stopped.
Resume ==
  /\ At("idle") /\ run.state # "awaiting_approval"
  /\ loop' = [Idle EXCEPT !.pc = IF run.blocked = {} THEN "stop" ELSE "unblock", !.found = Recoverable]
  /\ UNCHANGED <<durable, exec, ask, cancel, starting, count>>

WorkersStopped ==
  IF At("stop") THEN UNCHANGED run /\ GoTo("commits")
  ELSE run' = [run EXCEPT !.blocked = {}] /\ loop' = [loop EXCEPT !.pc = "commits", !.found = Recoverable]

\* Faulty variant of StopOwnedWorkers: a worker whose id was not recorded stays.
StopRecordedWorkers ==
  /\ loop.pc \in {"stop", "unblock"}
  /\ live' = {a \in live : run.attempts[a].state = "prepared"} /\ WorkersStopped
  /\ UNCHANGED <<branch, advanced, exec, ask, cancel, starting, count>>

\* All of them are asked to stop; one that does not ends the recovery.
StopOwnedWorkers ==
  /\ loop.pc \in {"stop", "unblock"}
  /\ \/ live' = {} /\ WorkersStopped
     \/ live # {} /\ loop' = Idle /\ UNCHANGED <<run, live>>
  /\ UNCHANGED <<branch, advanced, exec, ask, cancel, starting, count>>

NextFound == CHOOSE a \in loop.found : \A b \in loop.found : a <= b

HasOtherFailedTask(t) == \E s \in Tasks \ {t} : run.tasks[s].state \in {"failed", "cancelled"}

Recovered(a) ==
  IF ~Validating(a) THEN run
  ELSE Succeeds(IF run.state = "failed" /\ ~HasOtherFailedTask(run.attempts[a].task)
                THEN SetRun(run, "running") ELSE run, a)

Uncommitted(a) == ~run.attempts[a].commit /\ a \notin advanced

\* The commit of an attempt is recorded before its worktree is removed.
RecoverCommit ==
  /\ At("commits") /\ loop.found # {}
  /\ LET a == NextFound IN
     IF Uncommitted(a)
     THEN loop' = [loop EXCEPT !.found = @ \ {a}] /\ UNCHANGED run
     ELSE IF ~run.attempts[a].commit
     THEN run' = [run EXCEPT !.attempts[a].commit = TRUE] /\ UNCHANGED loop
     ELSE Store(Recovered(a)) /\ loop' = [loop EXCEPT !.found = @ \ {a}]
  /\ UNCHANGED <<branch, advanced, live, exec, ask, cancel, starting, count>>

\* What is recorded of the failure of a recovery, whatever the run is by now.
RecoverCommitFails ==
  /\ At("commits") /\ loop.found # {} /\ ~Uncommitted(NextFound)
  /\ Store(FailAttempt(run, NextFound)) \/ (Refuses(FailAttempt(run, NextFound)) /\ UNCHANGED run)
  /\ loop' = Idle
  /\ UNCHANGED <<branch, advanced, live, exec, ask, cancel, starting, count>>

CommitsRecovered ==
  /\ At("commits") /\ loop.found = {} /\ GoTo("reconcile")
  /\ UNCHANGED <<durable, exec, ask, cancel, starting, count>>

Reconcile ==
  /\ At("reconcile")
  /\ IF Integrated(run) = Tasks \/ branch = Recorded(run) THEN GoTo("interrupt") /\ UNCHANGED run
     ELSE IF run.tasks[NextTask].state # "succeeded" THEN GoTo("interrupt") /\ UNCHANGED run
     ELSE IF branch = Append(Recorded(run), NextTask)
     THEN run' = [run EXCEPT !.tasks[NextTask].integrated = TRUE] /\ UNCHANGED loop
     ELSE loop' = Idle /\ UNCHANGED run
  /\ UNCHANGED <<branch, advanced, live, exec, ask, cancel, starting, count>>

\* Faulty variant of recoverInterruptedRun: the tasks of the attempts are left alone.
InterruptAttemptsOnly(r) ==
  [r EXCEPT !.blocked = {},
            !.attempts = [a \in DOMAIN r.attempts |->
                            IF a \in Active(r) THEN [r.attempts[a] EXCEPT !.state = "interrupted"]
                            ELSE r.attempts[a]]]

recoverInterruptedRun(r) ==
  LET running == \E t \in Tasks : r.tasks[t].state \in {"running", "validating"}
      kept == [t \in Tasks |-> IF r.tasks[t].state \in {"running", "validating"}
                               THEN [r.tasks[t] EXCEPT !.state = "planned"] ELSE r.tasks[t]]
      over == [a \in DOMAIN r.attempts |-> IF a \in Active(r)
                                           THEN [r.attempts[a] EXCEPT !.state = "interrupted"]
                                           ELSE r.attempts[a]]
  IN IF r.blocked = {} /\ Active(r) = {} /\ ~running THEN r
     ELSE reconcileTaskStates([r EXCEPT !.tasks = kept, !.attempts = over, !.blocked = {}])

Interrupt ==
  /\ At("interrupt") /\ run' = recoverInterruptedRun(run)
  /\ loop' = IF run'.state = "integrating" /\ branch # Recorded(run') THEN Idle
             ELSE IF run'.state = "running" THEN [loop EXCEPT !.pc = "integrate", !.recovering = TRUE]
             ELSE [loop EXCEPT !.pc = "resume"]
  /\ UNCHANGED <<branch, advanced, live, exec, ask, cancel, starting, count>>

\* The lease is given back, and asked for again unless the checkout has changed.
ResumeAndLaunch ==
  /\ At("resume") /\ loop' = Idle
  /\ \/ run.state = "running" /\ starting' = starting \cup {"lease"}
     \/ UNCHANGED starting
  /\ UNCHANGED <<durable, exec, ask, cancel, count>>

Interrupted(t) ==
  LET of == {a \in DOMAIN run.attempts : run.attempts[a].task = t}
  IN of # {} /\ run.attempts[CHOOSE a \in of : \A b \in of : b <= a].state = "interrupted"

Retryable ==
  /\ run.state = "failed" /\ Active(run) = {}
  /\ \A t \in Tasks : ~Interrupted(t)
  /\ \E t \in Tasks : run.tasks[t].state = "failed"

\* The failed tasks and the ones blocked behind them; a failed integration is tried again.
HoldsReset(B) ==
  \A t \in Tasks :
    run.tasks[t].state = "failed" \/ (run.tasks[t].state = "blocked" /\ run.deps[t] \cap B # {})
      => t \in B

Resets == {t \in Tasks : \A B \in SUBSET Tasks : HoldsReset(B) => t \in B}

prepareFailedRunRetry ==
  LET Again(t) == [run.tasks[t] EXCEPT !.error = FALSE, !.state =
                     IF @ = "failed" /\ run.tasks[t].error /\ HasSucceeded(run, t) THEN "succeeded" ELSE "planned"]
  IN reconcileTaskStates([SetRun(run, "running") EXCEPT !.tasks =
       [t \in Tasks |-> IF t \in Resets THEN Again(t) ELSE run.tasks[t]]])

\* The retry is stored before the lease is asked for, which a live loop may hold.
Retry ==
  /\ Retryable /\ count.troubles < MaxTroubles
  /\ run' = prepareFailedRunRetry /\ count' = [count EXCEPT !.troubles = @ + 1]
  /\ starting' = starting \cup {"lease"}
  /\ UNCHANGED <<branch, advanced, live, loop, exec, ask, cancel>>

\* pruneRunResources; what it removes from git is not looked at by a run any more.
Prune ==
  /\ At("idle") /\ run.state \in TerminalRun /\ Active(run) = {} /\ live # {}
  /\ live' = {}
  /\ UNCHANGED <<run, branch, advanced, loop, exec, ask, cancel, starting, count>>

Crash ==
  /\ count.troubles < MaxTroubles /\ count' = [count EXCEPT !.troubles = @ + 1]
  /\ loop' = Idle /\ starting' = {}
  /\ exec' = [a \in DOMAIN exec |-> "none"] /\ ask' = [a \in DOMAIN ask |-> "none"]
  /\ cancel' = [pc |-> "idle", on |-> {}, task |-> NoTask]
  /\ UNCHANGED durable

StartStep == PrepareIntegrationBranch \/ PrepareIntegrationBranchFails \/ StartScheduling

LoopStep == \/ Dispatch \/ Dispatched \/ Reserve \/ PrepareLaunchFails
            \/ Spawn \/ SpawnFails \/ RecordLaunched \/ RecordRunning \/ LaunchFails
            \/ Unlaunch \/ (\E a \in DOMAIN exec : Collect(a))
            \/ PickIntegration \/ RecordIntegration \/ FailIntegration

RecoveryStep == \/ StopOwnedWorkers \/ RecoverCommit \/ RecoverCommitFails \/ CommitsRecovered
                \/ Reconcile \/ Interrupt \/ ResumeAndLaunch

MonitorStep(a) == \/ WorkerSettles(a) \/ PersistResult(a) \/ RecordEvidence(a)
                  \/ CommitTaskWork(a) \/ RecordCommit(a) \/ FinalizationThrows(a)
                  \/ RecordSucceeded(a) \/ FailFinalization(a)

AskStep(a) == Block(a) \/ ClearBlockedRequest(a)

Next == \/ StartStep \/ LoopStep \/ RecoveryStep \/ CancelRun
        \/ Approve \/ Cancel \/ Resume \/ Retry \/ Prune \/ Crash
        \/ \E a \in DOMAIN exec : MonitorStep(a) \/ AskStep(a) \/ Ask(a)

Spec == Init /\ [][Next]_vars

\* The program goes on; nobody has to give a command, ask a question or crash.
FairSpec ==
  /\ Spec
  /\ WF_vars(StartStep) /\ WF_vars(LoopStep) /\ WF_vars(RecoveryStep) /\ WF_vars(CancelRun)
  /\ \A a \in 1..MaxAttempts : WF_vars(a \in DOMAIN exec /\ MonitorStep(a))
                               /\ WF_vars(a \in DOMAIN exec /\ AskStep(a))

-----------------------------------------------------------------------------
(* Properties.                                                             *)

\* Every write of the orchestrator is one validateStoredRun takes: integrated tasks
\* are a succeeded prefix of the plan, running ones have one active attempt each,
\* attempts stay within the worker limit, and a commit has passing evidence.
StoreAccepts == TypeOK /\ TasksSound(run) /\ AttemptsSound(run) /\ ApprovalSound(run) /\ QuestionsSound(run)

\* The integration branch is what the run records, or one commit further: the commit
\* of a task that succeeded, which a recovery or a retry finds there.
BranchFollowsRecord ==
  \/ branch = Recorded(run)
  \/ \E t \in Tasks \ Integrated(run) : branch = Append(Recorded(run), t) /\ HasSucceeded(run, t)

\* An attempt that a recovery declares interrupted has no worker left that could still
\* write to its worktree, even one whose spawn was never recorded.
NoWorkerOutlives == \A a \in live : run.attempts[a].state # "interrupted"

\* An attempt with a recorded commit is never interrupted away once its monitor is gone:
\* neither a crash, a refused write nor a recovery makes the run do the task again.
CommittedWorkKept ==
  [][\A a \in Active(run) :
       run.attempts[a].commit /\ exec[a] = "none" => run'.attempts[a].state # "interrupted"]_vars

\* A committed attempt is never interrupted, whatever runs beside the recovery.  It does
\* not hold: a loop that ends on an execution that threw leaves the other monitors at
\* work, and one of them may commit behind the back of a recovery.
CommitNeverInterrupted ==
  [][\A a \in Active(run) : run.attempts[a].commit => run'.attempts[a].state # "interrupted"]_vars

\* Whoever holds the lifecycle lease gives it back.
LoopEnds == ~At("idle") ~> At("idle")
=============================================================================
