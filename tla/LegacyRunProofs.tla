--------------------------- MODULE LegacyRunProofs ---------------------------
(***************************************************************************)
(* The safety properties of LegacyRun, for every set of tasks and plans,   *)
(* any number of workers, attempts, questions, crashes and retries.        *)
(*                                                                         *)
(* The store sees single writes; why each of them is sound is known to     *)
(* whoever makes it: the loop of the attempt it launches or the task it    *)
(* integrates, a monitor of its attempt, a recovery of the attempts it     *)
(* found.  Each of them works beside the others and beside a cancellation. *)
(***************************************************************************)
EXTENDS LegacyRun, FiniteSetTheorems, SequenceTheorems, WellFoundedInduction, TLAPS

\* What a stored run says of its tasks and attempts beyond what the store asks: the task of
\* an active attempt is at work, unless a launch went on after a cancellation whose record a
\* failure to prepare the branch replaced; evidence is only of an attempt past its worker, a
\* task that failed to integrate fails the run, and a cancelled run has nothing active.
AtWork == {"running", "validating", "cancelled"}

Tracked(r) ==
  /\ \A a \in Active(r) : r.tasks[r.attempts[a].task].state \in AtWork
  /\ \A a \in DOMAIN r.attempts :
       r.attempts[a].evidence => r.attempts[a].state \notin {"prepared", "launched", "running"}
  /\ \A t \in Tasks : r.tasks[t].error => r.state = "failed"
  /\ r.state = "cancelled" => Active(r) = {}

\* What a monitor knows of its attempt.
Monitors ==
  \A a \in DOMAIN run.attempts :
    /\ exec[a] \in {"committing", "committed", "recorded"} => run.attempts[a].evidence
    /\ exec[a] = "recorded" => run.attempts[a].commit

\* A cancellation has ended all there was to end, though the run may be a failed one by now.
Ended(r) ==
  /\ r.state \in {"cancelled", "failed"} /\ Active(r) = {}
  /\ \A t \in Tasks : r.tasks[t].state \in {"succeeded", "cancelled"}

Revoked(r, a) ==
  /\ Ended(r) /\ r.attempts[a].state = "cancelled"
  /\ r.tasks[r.attempts[a].task].state = "cancelled"

\* What the loop knows of the attempt it launches: it is as the loop left it, unless
\* a cancellation ended it.
LaunchPc == {"spawn", "launched", "prompt", "unspawn"}

AtLaunchPc == loop.pc \in LaunchPc \/ (loop.pc = "unlaunch" /\ loop.at # 0)

Launching ==
  /\ loop.pc # "idle" \/ starting # {} => run.state # "awaiting_approval"
  /\ AtLaunchPc =>
       /\ loop.at \in DOMAIN run.attempts /\ exec[loop.at] = "none"
       /\ ~run.attempts[loop.at].evidence
       /\ Revoked(run, loop.at) \/ run.attempts[loop.at].state \in {"prepared", "launched"}

\* What it knows of the task it integrates: that is the next one, and stays so.
AtIntegration ==
  /\ loop.pc \in {"record", "disintegrate"} =>
       /\ Integrated(run) # Tasks /\ loop.task = NextTask
       /\ run.tasks[loop.task].state = "succeeded"
  /\ loop.pc = "record" => branch = Append(Recorded(run), loop.task)

\* What a recovery knows from the load of the run on, or from its write when it clears
\* blocked workers: which attempts have a commit to recover, and that no other attempt and
\* no integration depends on theirs.
RecoveryPc == {"stop", "commits", "reconcile", "interrupt"}

Found(a) ==
  /\ run.attempts[a].evidence /\ run.attempts[a].state # "interrupted"
  /\ run.attempts[a].task \notin Integrated(run)
  /\ branch = Recorded(run) \/ run.attempts[a].task # NextTask
  /\ \A b \in Active(run) : run.attempts[b].task = run.attempts[a].task => b = a

Recovering ==
  loop.pc \in RecoveryPc =>
    /\ loop.pc # "stop" => live = {}
    /\ loop.pc \notin {"stop", "commits"} => loop.found = {}
    /\ \A a \in Active(run) : run.attempts[a].commit /\ exec[a] = "none" => a \in loop.found
    /\ \A a \in loop.found : Found(a)

\* The branch is the recorded head, or ahead of it by the next task, which has succeeded
\* or failed to integrate.
Ahead ==
  /\ Integrated(run) # Tasks /\ branch = Append(Recorded(run), NextTask)
  /\ HasSucceeded(run, NextTask)
  /\ \/ run.tasks[NextTask].state = "succeeded"
     \/ run.tasks[NextTask].state = "failed" /\ run.tasks[NextTask].error

BranchKnown == branch = Recorded(run) \/ Ahead

RunSound(r) ==
  TasksSound(r) /\ AttemptsSound(r) /\ ApprovalSound(r) /\ QuestionsSound(r) /\ Tracked(r)

Inv ==
  /\ TypeOK
  /\ RunSound(run)
  /\ Monitors
  /\ Launching
  /\ AtIntegration
  /\ Recovering
  /\ BranchKnown
  /\ NoWorkerOutlives

-----------------------------------------------------------------------------
(* Types, and what the writes of a run do to its fields.                   *)

LEMMA Constants ==
  /\ IsFiniteSet(Tasks) /\ NoTask \notin Tasks /\ MaxWorkers \in Nat
  /\ MaxTroubles \in Nat /\ MaxAsks \in Nat
  /\ Position \in [Tasks -> 1..Cardinality(Tasks)] /\ Cardinality(Tasks) \in Nat
  /\ \A t \in Tasks : Position[t] \in Nat /\ Position[t] >= 1
  /\ \A s, t \in Tasks : s # t => Position[s] # Position[t]
BY LegacyAssumption, FS_CardinalityType

RunRecord == [state : RunStates, deps : Plans, tasks : [Tasks -> Task], attempts : Seq(Attempt),
              blocked : SUBSET Nat]
LoopRecord == [pc : LoopPc, todo : SUBSET Tasks, task : Tasks \cup {NoTask}, at : Nat,
               active : SUBSET (DOMAIN run.attempts), first : BOOLEAN,
               found : SUBSET (DOMAIN run.attempts), recovering : BOOLEAN]
CancelRecord == [pc : {"idle", "waiting"}, on : SUBSET (DOMAIN run.attempts), task : Tasks \cup {NoTask}]

LEMMA TypeParts ==
  TypeOK <=> /\ run \in RunRecord /\ run.blocked \subseteq DOMAIN run.attempts
             /\ branch \in Seq(Tasks)
             /\ advanced \subseteq DOMAIN run.attempts /\ live \subseteq DOMAIN run.attempts
             /\ loop \in LoopRecord
             /\ exec \in [DOMAIN run.attempts -> ExecPc]
             /\ ask \in [DOMAIN run.attempts -> {"none", "asking", "asked"}]
             /\ cancel \in CancelRecord /\ starting \in SUBSET {"branch", "lease"}
             /\ count \in [troubles : 0..MaxTroubles, asks : 0..MaxAsks]
<1>1. ASSUME run \in RunRecord
      PROVE  run.attempts \in Seq(Attempt) /\ DOMAIN run.attempts \subseteq Nat
  <2>1. run.attempts \in Seq(Attempt)
    BY <1>1 DEF RunRecord
  <2> QED
    BY <2>1
<1>2. run \in [state : RunStates, deps : Plans, tasks : [Tasks -> Task], attempts : Seq(Attempt),
               blocked : SUBSET (DOMAIN run.attempts)]
      <=> run \in RunRecord /\ run.blocked \subseteq DOMAIN run.attempts
  <2>1. ASSUME run \in [state : RunStates, deps : Plans, tasks : [Tasks -> Task],
                        attempts : Seq(Attempt), blocked : SUBSET (DOMAIN run.attempts)]
        PROVE  run \in RunRecord /\ run.blocked \subseteq DOMAIN run.attempts
    <3>1. run.attempts \in Seq(Attempt) /\ run.blocked \subseteq DOMAIN run.attempts
      BY <2>1
    <3>2. DOMAIN run.attempts \subseteq Nat
      BY <3>1
    <3> QED
      BY <2>1, <3>1, <3>2 DEF RunRecord
  <2>2. ASSUME run \in RunRecord, run.blocked \subseteq DOMAIN run.attempts
        PROVE  run \in [state : RunStates, deps : Plans, tasks : [Tasks -> Task],
                        attempts : Seq(Attempt), blocked : SUBSET (DOMAIN run.attempts)]
    BY <2>2 DEF RunRecord
  <2> QED
    BY <2>1, <2>2
<1> QED
  BY <1>2 DEF TypeOK, LoopRecord, CancelRecord

LEMMA RunFields ==
  ASSUME NEW r \in RunRecord
  PROVE  /\ r.state \in RunStates /\ r.deps \in Plans /\ r.blocked \subseteq Nat
         /\ r.tasks \in [Tasks -> Task]
         /\ \A t \in Tasks : /\ r.tasks[t] \in Task /\ r.tasks[t].state \in TaskStates
                             /\ r.tasks[t].integrated \in BOOLEAN /\ r.tasks[t].error \in BOOLEAN
         /\ r.attempts \in Seq(Attempt) /\ Len(r.attempts) \in Nat
         /\ DOMAIN r.attempts = 1..Len(r.attempts)
         /\ \A a \in DOMAIN r.attempts :
              /\ a \in Nat /\ a # 0 /\ r.attempts[a] \in Attempt /\ r.attempts[a].task \in Tasks
              /\ r.attempts[a].state \in
                   ActiveStates \cup {"succeeded", "failed", "cancelled", "interrupted"}
              /\ r.attempts[a].evidence \in BOOLEAN /\ r.attempts[a].commit \in BOOLEAN
         /\ IsFiniteSet(Active(r)) /\ Active(r) \subseteq DOMAIN r.attempts
<1>1. /\ r.state \in RunStates /\ r.deps \in Plans /\ r.blocked \subseteq Nat
      /\ r.tasks \in [Tasks -> Task] /\ r.attempts \in Seq(Attempt)
  BY DEF RunRecord
<1>2. \A t \in Tasks : /\ r.tasks[t] \in Task /\ r.tasks[t].state \in TaskStates
                       /\ r.tasks[t].integrated \in BOOLEAN /\ r.tasks[t].error \in BOOLEAN
  BY <1>1 DEF Task
<1>3. Len(r.attempts) \in Nat /\ DOMAIN r.attempts = 1..Len(r.attempts)
      /\ \A a \in DOMAIN r.attempts : r.attempts[a] \in Attempt
  BY <1>1
<1>4. \A a \in DOMAIN r.attempts :
              /\ a \in Nat /\ a # 0 /\ r.attempts[a].task \in Tasks
              /\ r.attempts[a].state \in
                   ActiveStates \cup {"succeeded", "failed", "cancelled", "interrupted"}
              /\ r.attempts[a].evidence \in BOOLEAN /\ r.attempts[a].commit \in BOOLEAN
  BY <1>3 DEF Attempt
<1>5. IsFiniteSet(DOMAIN r.attempts)
  BY <1>3, FS_Interval
<1>6. Active(r) \subseteq DOMAIN r.attempts
  BY DEF Active
<1>7. IsFiniteSet(Active(r))
  BY <1>5, <1>6, FS_Subset
<1> QED
  BY <1>1, <1>2, <1>3, <1>4, <1>6, <1>7

\* A run with some of its fields written is a run.
LEMMA Written ==
  ASSUME NEW r \in RunRecord, NEW state \in RunStates, NEW tasks \in [Tasks -> Task],
         NEW attempts \in Seq(Attempt), NEW blocked \in SUBSET Nat
  PROVE  /\ SetRun(r, state) \in RunRecord /\ [r EXCEPT !.tasks = tasks] \in RunRecord
         /\ [r EXCEPT !.attempts = attempts] \in RunRecord
         /\ [r EXCEPT !.blocked = blocked] \in RunRecord
BY DEF RunRecord, SetRun

\* An attempt is rewritten in place.
LEMMA AttemptWritten ==
  ASSUME NEW r \in RunRecord, NEW a \in DOMAIN r.attempts, NEW v \in Attempt,
         NEW q, q = [r EXCEPT !.attempts[a] = v]
  PROVE  /\ q \in RunRecord
         /\ q.state = r.state /\ q.deps = r.deps /\ q.tasks = r.tasks /\ q.blocked = r.blocked
         /\ DOMAIN q.attempts = DOMAIN r.attempts /\ Len(q.attempts) = Len(r.attempts)
         /\ \A b \in DOMAIN r.attempts : q.attempts[b] = IF b = a THEN v ELSE r.attempts[b]
<1>1. r.attempts \in Seq(Attempt) /\ a \in 1..Len(r.attempts)
  BY RunFields
<1>2. [r.attempts EXCEPT ![a] = v] \in Seq(Attempt)
      /\ Len([r.attempts EXCEPT ![a] = v]) = Len(r.attempts)
  BY <1>1, ExceptSeq
<1>3. q \in RunRecord /\ q.attempts = [r.attempts EXCEPT ![a] = v]
  BY <1>2 DEF RunRecord
<1>4. q.state = r.state /\ q.deps = r.deps /\ q.tasks = r.tasks /\ q.blocked = r.blocked
  BY DEF RunRecord
<1> QED
  BY <1>1, <1>2, <1>3, <1>4

\* The state of a task is rewritten.
LEMMA TaskWritten ==
  ASSUME NEW r \in RunRecord, NEW t \in Tasks, NEW v \in TaskStates
  PROVE  LET q == SetTask(r, t, v) IN
         /\ q \in RunRecord
         /\ q.state = r.state /\ q.deps = r.deps /\ q.attempts = r.attempts /\ q.blocked = r.blocked
         /\ q.tasks[t].state = v
         /\ \A s \in Tasks : /\ q.tasks[s].integrated = r.tasks[s].integrated
                             /\ q.tasks[s].error = r.tasks[s].error
                             /\ s # t => q.tasks[s].state = r.tasks[s].state
<1> DEFINE q == SetTask(r, t, v)
<1>1. r.tasks \in [Tasks -> Task] /\ r.tasks[t] \in Task
  BY RunFields
<1>2. [r.tasks[t] EXCEPT !.state = v] \in Task
      /\ [r.tasks[t] EXCEPT !.state = v].state = v
      /\ [r.tasks[t] EXCEPT !.state = v].integrated = r.tasks[t].integrated
      /\ [r.tasks[t] EXCEPT !.state = v].error = r.tasks[t].error
  BY <1>1 DEF Task
<1>3. q = [r EXCEPT !.tasks = [r.tasks EXCEPT ![t] = [r.tasks[t] EXCEPT !.state = v]]]
  BY <1>1 DEF SetTask, RunRecord
<1>4. [r.tasks EXCEPT ![t] = [r.tasks[t] EXCEPT !.state = v]] \in [Tasks -> Task]
  BY <1>1, <1>2
<1>5. q \in RunRecord /\ q.tasks = [r.tasks EXCEPT ![t] = [r.tasks[t] EXCEPT !.state = v]]
  BY <1>3, <1>4 DEF RunRecord
<1>6. q.state = r.state /\ q.deps = r.deps /\ q.attempts = r.attempts /\ q.blocked = r.blocked
  BY <1>3 DEF RunRecord
<1>7. \A s \in Tasks : q.tasks[s] = IF s = t THEN [r.tasks[t] EXCEPT !.state = v] ELSE r.tasks[s]
  BY <1>1, <1>5
<1> QED
  BY <1>2, <1>5, <1>6, <1>7

Movables == {"planned", "ready", "blocked"}

\* A reconciliation moves the tasks that have not started, and nothing else.
LEMMA Reconciled ==
  ASSUME NEW r \in RunRecord
  PROVE  LET q == reconcileTaskStates(r) IN
         /\ q \in RunRecord
         /\ q.state = r.state /\ q.deps = r.deps /\ q.attempts = r.attempts /\ q.blocked = r.blocked
         /\ \A t \in Tasks : /\ q.tasks[t].integrated = r.tasks[t].integrated
                             /\ q.tasks[t].error = r.tasks[t].error
                             /\ IF r.tasks[t].state \in Movables THEN q.tasks[t].state \in Movables
                                ELSE q.tasks[t].state = r.tasks[t].state
<1> DEFINE q == reconcileTaskStates(r)
           new(t) == [r.tasks[t] EXCEPT !.state = nextState(r.deps, r.tasks, t)]
<1>1. r.tasks \in [Tasks -> Task]
  BY RunFields
<1>2. ASSUME NEW t \in Tasks
      PROVE  IF r.tasks[t].state \in Movables THEN nextState(r.deps, r.tasks, t) \in Movables
             ELSE nextState(r.deps, r.tasks, t) = r.tasks[t].state
  BY DEF nextState, Movable, Movables
<1>3. ASSUME NEW t \in Tasks
      PROVE  /\ new(t) \in Task /\ new(t).integrated = r.tasks[t].integrated
             /\ new(t).error = r.tasks[t].error /\ new(t).state = nextState(r.deps, r.tasks, t)
  <2>1. r.tasks[t] \in Task /\ r.tasks[t].state \in TaskStates
    BY RunFields
  <2>2. nextState(r.deps, r.tasks, t) \in TaskStates
    BY <1>2, <2>1 DEF Movables, TaskStates
  <2> QED
    BY <2>1, <2>2 DEF Task
<1>4. [t \in Tasks |-> new(t)] \in [Tasks -> Task]
  BY <1>3
<1>5. q = [r EXCEPT !.tasks = [t \in Tasks |-> new(t)]]
  BY DEF reconcileTaskStates
<1> HIDE DEF new
<1>6. q \in RunRecord /\ q.tasks = [t \in Tasks |-> new(t)]
  BY <1>4, <1>5 DEF RunRecord
<1>7. q.state = r.state /\ q.deps = r.deps /\ q.attempts = r.attempts /\ q.blocked = r.blocked
  BY <1>5 DEF RunRecord
<1>8. \A t \in Tasks : q.tasks[t] = new(t)
  BY <1>6
<1> HIDE DEF q
<1>9. \A t \in Tasks : /\ q.tasks[t].integrated = r.tasks[t].integrated
                       /\ q.tasks[t].error = r.tasks[t].error
                       /\ q.tasks[t].state = nextState(r.deps, r.tasks, t)
  BY <1>3, <1>8
<1>10. \A t \in Tasks : IF r.tasks[t].state \in Movables THEN q.tasks[t].state \in Movables
                        ELSE q.tasks[t].state = r.tasks[t].state
  BY <1>2, <1>9
<1> QED
  BY <1>6, <1>7, <1>9, <1>10 DEF q

\* q is r with attempt a and its task in a new state v, and the other tasks reconciled.
Ends(r, q, a, v) ==
  /\ DOMAIN q.attempts = DOMAIN r.attempts
  /\ \A b \in DOMAIN r.attempts :
       /\ q.attempts[b].task = r.attempts[b].task
       /\ q.attempts[b].evidence = r.attempts[b].evidence
       /\ q.attempts[b].commit = r.attempts[b].commit
       /\ q.attempts[b].state = IF b = a THEN v ELSE r.attempts[b].state
  /\ \A t \in Tasks :
       /\ q.tasks[t].integrated = r.tasks[t].integrated
       /\ q.tasks[t].error = r.tasks[t].error
       /\ IF t = r.attempts[a].task THEN q.tasks[t].state = v
          ELSE IF r.tasks[t].state \in Movables THEN q.tasks[t].state \in Movables
          ELSE q.tasks[t].state = r.tasks[t].state

LEMMA StateWritten ==
  ASSUME NEW r \in RunRecord, NEW a \in DOMAIN r.attempts,
         NEW v \in ActiveStates \cup {"succeeded", "failed", "cancelled", "interrupted"}
  PROVE  LET q == SetAttempt(r, a, v) IN
         /\ q \in RunRecord
         /\ q.state = r.state /\ q.deps = r.deps /\ q.tasks = r.tasks /\ q.blocked = r.blocked
         /\ DOMAIN q.attempts = DOMAIN r.attempts
         /\ \A b \in DOMAIN r.attempts :
              /\ q.attempts[b].task = r.attempts[b].task
              /\ q.attempts[b].evidence = r.attempts[b].evidence
              /\ q.attempts[b].commit = r.attempts[b].commit
              /\ q.attempts[b].state = IF b = a THEN v ELSE r.attempts[b].state
<1> DEFINE w == [r.attempts[a] EXCEPT !.state = v]
           q == SetAttempt(r, a, v)
<1>1. r.attempts[a] \in Attempt
  BY RunFields
<1>2. /\ w \in Attempt /\ w.state = v /\ w.task = r.attempts[a].task
      /\ w.evidence = r.attempts[a].evidence /\ w.commit = r.attempts[a].commit
  BY <1>1 DEF Attempt
<1>3. q = [r EXCEPT !.attempts[a] = w]
  BY DEF SetAttempt, RunRecord
<1> HIDE DEF w, q
<1>4. /\ q \in RunRecord
      /\ q.state = r.state /\ q.deps = r.deps /\ q.tasks = r.tasks /\ q.blocked = r.blocked
      /\ DOMAIN q.attempts = DOMAIN r.attempts
      /\ \A b \in DOMAIN r.attempts : q.attempts[b] = IF b = a THEN w ELSE r.attempts[b]
  BY <1>2, <1>3, AttemptWritten
<1> QED
  BY <1>2, <1>4 DEF q

LEMMA EndReconciled ==
  ASSUME NEW r \in RunRecord, NEW a \in DOMAIN r.attempts, NEW st \in RunStates,
         NEW v \in {"failed", "succeeded", "validating"}
  PROVE  LET q == reconcileTaskStates(SetRun(SetTask(SetAttempt(r, a, v), r.attempts[a].task, v), st))
         IN q \in RunRecord /\ q.state = st /\ q.deps = r.deps /\ q.blocked = r.blocked /\ Ends(r, q, a, v)
<1> DEFINE x == SetAttempt(r, a, v)
           t == r.attempts[a].task
           y == SetTask(x, t, v)
           z == SetRun(y, st)
           q == reconcileTaskStates(z)
<1>0. t \in Tasks /\ v \in TaskStates /\ v \notin Movables
      /\ v \in ActiveStates \cup {"succeeded", "failed", "cancelled", "interrupted"}
  BY RunFields DEF TaskStates, Movables, ActiveStates
<1>1. /\ x \in RunRecord
      /\ x.state = r.state /\ x.deps = r.deps /\ x.tasks = r.tasks /\ x.blocked = r.blocked
      /\ DOMAIN x.attempts = DOMAIN r.attempts
      /\ \A b \in DOMAIN r.attempts :
              /\ x.attempts[b].task = r.attempts[b].task
              /\ x.attempts[b].evidence = r.attempts[b].evidence
              /\ x.attempts[b].commit = r.attempts[b].commit
              /\ x.attempts[b].state = IF b = a THEN v ELSE r.attempts[b].state
  BY <1>0, StateWritten
<1> HIDE DEF x, t
<1>2. /\ y \in RunRecord
      /\ y.deps = x.deps /\ y.attempts = x.attempts /\ y.blocked = x.blocked
      /\ y.tasks[t].state = v
      /\ \A s \in Tasks : /\ y.tasks[s].integrated = x.tasks[s].integrated
                          /\ y.tasks[s].error = x.tasks[s].error
                          /\ s # t => y.tasks[s].state = x.tasks[s].state
  BY <1>0, <1>1, TaskWritten
<1> HIDE DEF y
<1>3. /\ z \in RunRecord /\ z.state = st
      /\ z.deps = y.deps /\ z.attempts = y.attempts /\ z.blocked = y.blocked /\ z.tasks = y.tasks
  BY <1>2 DEF SetRun, RunRecord
<1> HIDE DEF z
<1>4. /\ q \in RunRecord
      /\ q.state = z.state /\ q.deps = z.deps /\ q.attempts = z.attempts /\ q.blocked = z.blocked
      /\ \A s \in Tasks : /\ q.tasks[s].integrated = z.tasks[s].integrated
                          /\ q.tasks[s].error = z.tasks[s].error
                          /\ IF z.tasks[s].state \in Movables THEN q.tasks[s].state \in Movables
                             ELSE q.tasks[s].state = z.tasks[s].state
  BY <1>3, Reconciled
<1> HIDE DEF q
<1>5. q.state = st /\ q.deps = r.deps /\ q.blocked = r.blocked
  BY <1>1, <1>2, <1>3, <1>4
<1>6. /\ DOMAIN q.attempts = DOMAIN r.attempts
      /\ \A b \in DOMAIN r.attempts :
              /\ q.attempts[b].task = r.attempts[b].task
              /\ q.attempts[b].evidence = r.attempts[b].evidence
              /\ q.attempts[b].commit = r.attempts[b].commit
              /\ q.attempts[b].state = IF b = a THEN v ELSE r.attempts[b].state
  BY <1>1, <1>2, <1>3, <1>4
<1>7. \A s \in Tasks :
         /\ q.tasks[s].integrated = r.tasks[s].integrated
         /\ q.tasks[s].error = r.tasks[s].error
         /\ IF s = t THEN q.tasks[s].state = v
            ELSE IF r.tasks[s].state \in Movables THEN q.tasks[s].state \in Movables
            ELSE q.tasks[s].state = r.tasks[s].state
  BY <1>0, <1>1, <1>2, <1>3, <1>4
<1>8. Ends(r, q, a, v)
  BY <1>6, <1>7 DEF Ends, t
<1> QED
  BY <1>4, <1>5, <1>8 DEF q, z, y, x, t

LEMMA FailWritten ==
  ASSUME NEW r \in RunRecord, NEW a \in DOMAIN r.attempts
  PROVE  LET q == FailAttempt(r, a) IN
         q \in RunRecord /\ q.state = "failed" /\ q.blocked = r.blocked /\ Ends(r, q, a, "failed")
BY EndReconciled DEF FailAttempt, RunStates

LEMMA SameState ==
  ASSUME NEW r \in RunRecord
  PROVE  SetRun(r, r.state) = r
BY DEF SetRun, RunRecord

LEMMA EndWritten ==
  ASSUME NEW r \in RunRecord, NEW a \in DOMAIN r.attempts, NEW v \in {"succeeded", "validating"}
  PROVE  LET q == reconcileTaskStates(SetTask(SetAttempt(r, a, v), r.attempts[a].task, v)) IN
         q \in RunRecord /\ q.state = r.state /\ q.blocked = r.blocked /\ Ends(r, q, a, v)
<1> DEFINE y == SetTask(SetAttempt(r, a, v), r.attempts[a].task, v)
<1>1. r.state \in RunStates /\ r.attempts[a].task \in Tasks /\ v \in TaskStates
      /\ v \in ActiveStates \cup {"succeeded", "failed", "cancelled", "interrupted"}
  BY RunFields DEF TaskStates, ActiveStates
<1>2. SetAttempt(r, a, v) \in RunRecord /\ SetAttempt(r, a, v).state = r.state
  BY <1>1, StateWritten
<1>3. y \in RunRecord /\ y.state = r.state
  BY <1>1, <1>2, TaskWritten
<1>4. SetRun(y, r.state) = y
  BY <1>3, SameState
<1> QED
  BY <1>1, <1>4, EndReconciled

\* Fewer active attempts of no other task keep the worker limit.
LEMMA FewerActive ==
  ASSUME NEW r \in RunRecord, NEW q, Active(q) \subseteq Active(r), Cardinality(Active(r)) <= MaxWorkers
  PROVE  Cardinality(Active(q)) <= MaxWorkers
<1>1. IsFiniteSet(Active(r))
  BY RunFields
<1>2. /\ IsFiniteSet(Active(q)) /\ Cardinality(Active(q)) <= Cardinality(Active(r))
  BY <1>1, FS_Subset
<1>3. Cardinality(Active(q)) \in Nat /\ Cardinality(Active(r)) \in Nat
  BY <1>1, <1>2, FS_CardinalityType
<1> QED
  BY <1>2, <1>3, Constants

\* The end of an attempt keeps the run sound, when no other attempt of its task is active,
\* the task is not integrated, and a success has its commit.
LEMMA EndSound ==
  ASSUME NEW r \in RunRecord, RunSound(r), NEW q \in RunRecord, NEW a \in DOMAIN r.attempts,
         NEW v \in {"failed", "succeeded", "validating"}, Ends(r, q, a, v),
         \A b \in Active(r) : r.attempts[b].task = r.attempts[a].task => b = a,
         ~r.tasks[r.attempts[a].task].integrated,
         v = "succeeded" => r.attempts[a].commit,
         v # "failed" => a \in Active(r),
         v = "failed" => q.state = "failed",
         q.blocked \subseteq Active(q),
         q.state # "awaiting_approval",
         q.state = "cancelled" => Active(q) = {},
         q.state = "failed" \/ q.state = r.state
           \/ \A t \in Tasks : r.tasks[t].error => t = r.attempts[a].task
  PROVE  RunSound(q)
<1> DEFINE own == r.attempts[a].task
<1>0. /\ own \in Tasks
      /\ \A b \in DOMAIN r.attempts : r.attempts[b].task \in Tasks
      /\ \A t \in Tasks : r.tasks[t].integrated \in BOOLEAN /\ r.tasks[t].error \in BOOLEAN
      /\ \A t \in Tasks : q.tasks[t].integrated \in BOOLEAN /\ q.tasks[t].error \in BOOLEAN
      /\ Active(r) \subseteq DOMAIN r.attempts
  BY RunFields
<1>1. /\ DOMAIN q.attempts = DOMAIN r.attempts
      /\ \A b \in DOMAIN r.attempts :
       /\ q.attempts[b].task = r.attempts[b].task
       /\ q.attempts[b].evidence = r.attempts[b].evidence
       /\ q.attempts[b].commit = r.attempts[b].commit
       /\ q.attempts[b].state = IF b = a THEN v ELSE r.attempts[b].state
  BY DEF Ends
<1>2. \A t \in Tasks :
       /\ q.tasks[t].integrated = r.tasks[t].integrated
       /\ q.tasks[t].error = r.tasks[t].error
       /\ IF t = own THEN q.tasks[t].state = v
          ELSE IF r.tasks[t].state \in Movables THEN q.tasks[t].state \in Movables
          ELSE q.tasks[t].state = r.tasks[t].state
  BY DEF Ends
<1>3. Active(q) \subseteq Active(r) /\ Active(q) \subseteq DOMAIN r.attempts
  BY <1>1 DEF Active, ActiveStates
<1>4. \A b \in Active(r) : b # a => b \in Active(q) /\ r.attempts[b].task # own
  BY <1>1 DEF Active
<1>5. v = "validating" => a \in Active(q)
  BY <1>1 DEF Active, ActiveStates
<1>6. ASSUME v # "failed" PROVE ~r.tasks[own].error
  <2>1. r.tasks[own].state \in AtWork
    BY <1>6 DEF RunSound, Tracked
  <2> QED
    BY <2>1, <1>0 DEF RunSound, TasksSound, AtWork
<1> HIDE DEF own
<1>7. TasksSound(q)
  <2>1. ASSUME NEW t \in Tasks, q.tasks[t].integrated
        PROVE  /\ q.tasks[t].state = "succeeded" /\ ~q.tasks[t].error
               /\ \A s \in Tasks : Position[s] < Position[t] => q.tasks[s].integrated
    BY <2>1, <1>0, <1>2 DEF RunSound, TasksSound, own, Movables
  <2>2. ASSUME NEW t \in Tasks, q.tasks[t].error
        PROVE  q.tasks[t].state = "failed"
    BY <2>2, <1>0, <1>2, <1>6 DEF RunSound, TasksSound, Movables
  <2>3. ASSUME NEW t \in Tasks, q.tasks[t].state \in {"running", "validating"}
        PROVE  t \in ActiveTasks(q)
    <3>1. CASE t = own
      <4>1. a \in Active(q)
        BY <1>2, <1>5, <2>3, <3>1
      <4> QED
        BY <1>1, <3>1, <4>1 DEF ActiveTasks, own
    <3>2. CASE t # own
      <4>1. r.tasks[t].state \in {"running", "validating"}
        BY <1>2, <2>3, <3>2 DEF Movables
      <4>2. PICK b \in Active(r) : r.attempts[b].task = t
        BY <4>1 DEF RunSound, TasksSound, ActiveTasks
      <4>3. b \in Active(q) /\ q.attempts[b].task = t
        BY <1>0, <1>1, <1>4, <3>2, <4>2 DEF own
      <4> QED
        BY <4>3 DEF ActiveTasks
    <3> QED
      BY <3>1, <3>2
  <2>4. ASSUME NEW t \in Tasks, q.tasks[t].state = "succeeded"
        PROVE  HasSucceeded(q, t)
    <3>1. CASE t = own
      BY <1>1, <1>2, <2>4, <3>1 DEF HasSucceeded, own
    <3>2. CASE t # own
      <4>1. r.tasks[t].state = "succeeded"
        BY <1>2, <2>4, <3>2 DEF Movables
      <4>2. PICK b \in DOMAIN r.attempts :
              r.attempts[b].task = t /\ r.attempts[b].state = "succeeded" /\ r.attempts[b].commit
        BY <4>1 DEF RunSound, TasksSound, HasSucceeded
      <4> QED
        BY <1>1, <3>2, <4>2 DEF HasSucceeded, own
    <3> QED
      BY <3>1, <3>2
  <2> QED
    BY <2>1, <2>2, <2>3, <2>4 DEF TasksSound
<1>8. AttemptsSound(q)
  <2>1. Cardinality(Active(q)) <= MaxWorkers
    BY <1>3, FewerActive DEF RunSound, AttemptsSound
  <2>2. \A b, c \in Active(q) : q.attempts[b].task = q.attempts[c].task => b = c
    BY <1>1, <1>3 DEF RunSound, AttemptsSound
  <2>3. \A b \in DOMAIN q.attempts :
        /\ q.attempts[b].commit => q.attempts[b].evidence
        /\ q.attempts[b].state = "succeeded" => q.attempts[b].commit
    BY <1>1 DEF RunSound, AttemptsSound
  <2> QED
    BY <2>1, <2>2, <2>3 DEF AttemptsSound
<1>9. ApprovalSound(q) /\ QuestionsSound(q)
  BY DEF ApprovalSound, QuestionsSound
<1>10. Tracked(q)
  <2>1. ASSUME NEW b \in Active(q)
        PROVE  q.tasks[q.attempts[b].task].state \in AtWork
    <3>1. CASE b = a
      <4>1. v = "validating"
        BY <1>1, <1>3, <2>1, <3>1 DEF Active, ActiveStates
      <4> QED
        BY <1>0, <1>1, <1>2, <3>1, <4>1 DEF own, AtWork
    <3>2. CASE b # a
      <4>1. /\ b \in Active(r) /\ q.attempts[b].task = r.attempts[b].task
            /\ r.attempts[b].task # own /\ r.attempts[b].task \in Tasks
        BY <1>0, <1>1, <1>3, <1>4, <2>1, <3>2
      <4>2. r.tasks[r.attempts[b].task].state \in AtWork
        BY <4>1 DEF RunSound, Tracked
      <4> QED
        BY <1>2, <4>1, <4>2 DEF Movables, AtWork
    <3> QED
      BY <3>1, <3>2
  <2>2. \A b \in DOMAIN q.attempts :
       q.attempts[b].evidence => q.attempts[b].state \notin {"prepared", "launched", "running"}
    BY <1>1 DEF RunSound, Tracked
  <2>3. \A t \in Tasks : q.tasks[t].error => q.state = "failed"
    <3>1. SUFFICES ASSUME NEW t \in Tasks, q.tasks[t].error, q.state # "failed"
                   PROVE  FALSE
      OBVIOUS
    <3>2. r.tasks[t].error /\ r.state = "failed"
      BY <1>0, <1>2, <3>1 DEF RunSound, Tracked
    <3>3. v # "failed" /\ q.state # r.state
      BY <3>1, <3>2
    <3>4. t = own
      BY <3>1, <3>2, <3>3 DEF own
    <3> QED
      BY <1>6, <3>2, <3>3, <3>4
  <2> QED
    BY <2>1, <2>2, <2>3 DEF Tracked
<1> QED
  BY <1>7, <1>8, <1>9, <1>10 DEF RunSound


\* One attempt is marked: it stays active or what it was, and has evidence only once it is
\* past its worker, and a commit only with evidence.
LEMMA MarkSound ==
  ASSUME NEW r \in RunRecord, RunSound(r), NEW q \in RunRecord, NEW a \in DOMAIN r.attempts,
         q.tasks = r.tasks, DOMAIN q.attempts = DOMAIN r.attempts,
         \A b \in DOMAIN r.attempts : b # a => q.attempts[b] = r.attempts[b],
         q.attempts[a].task = r.attempts[a].task,
         \/ q.attempts[a].state = r.attempts[a].state
         \/ r.attempts[a].state \in ActiveStates /\ q.attempts[a].state \in ActiveStates,
         r.attempts[a].commit => q.attempts[a].commit,
         q.attempts[a].commit => q.attempts[a].evidence,
         q.attempts[a].evidence => q.attempts[a].state \notin {"prepared", "launched", "running"},
         q.blocked \subseteq Active(q),
         q.state = r.state \/ q.state = "failed"
  PROVE  RunSound(q)
<1>0. r.attempts[a].task \in Tasks /\ Active(r) \subseteq DOMAIN r.attempts
      /\ \A b \in DOMAIN r.attempts : r.attempts[b].task \in Tasks
  BY RunFields
<1>1. Active(q) = Active(r)
  BY DEF Active
<1>2. \A b \in DOMAIN r.attempts : q.attempts[b].task = r.attempts[b].task
  OBVIOUS
<1>3. ActiveTasks(q) = ActiveTasks(r) /\ Integrated(q) = Integrated(r)
  BY <1>0, <1>1, <1>2 DEF ActiveTasks, Integrated
<1>4. \A t \in Tasks : HasSucceeded(r, t) => HasSucceeded(q, t)
  BY DEF HasSucceeded, ActiveStates
<1>5. TasksSound(q)
  BY <1>3, <1>4 DEF RunSound, TasksSound
<1>6. AttemptsSound(q)
  <2>1. Cardinality(Active(q)) <= MaxWorkers
    BY <1>1 DEF RunSound, AttemptsSound
  <2>2. \A b, c \in Active(q) : q.attempts[b].task = q.attempts[c].task => b = c
    BY <1>0, <1>1, <1>2 DEF RunSound, AttemptsSound
  <2>3. \A b \in DOMAIN q.attempts :
          /\ q.attempts[b].commit => q.attempts[b].evidence
          /\ q.attempts[b].state = "succeeded" => q.attempts[b].commit
    BY DEF RunSound, AttemptsSound, ActiveStates
  <2> QED
    BY <2>1, <2>2, <2>3 DEF AttemptsSound
<1>7. ApprovalSound(q) /\ QuestionsSound(q)
  <2>1. r.state # "awaiting_approval"
    BY RunFields DEF RunSound, ApprovalSound
  <2> QED
    BY <2>1 DEF ApprovalSound, QuestionsSound
<1>8. Tracked(q)
  <2>1. \A b \in Active(q) : q.tasks[q.attempts[b].task].state \in AtWork
    BY <1>0, <1>1, <1>2 DEF RunSound, Tracked
  <2>2. \A b \in DOMAIN q.attempts :
          q.attempts[b].evidence => q.attempts[b].state \notin {"prepared", "launched", "running"}
    BY DEF RunSound, Tracked
  <2>3. \A t \in Tasks : q.tasks[t].error => q.state = "failed"
    BY DEF RunSound, Tracked
  <2>4. q.state = "cancelled" => Active(q) = {}
    BY <1>1 DEF RunSound, Tracked
  <2> QED
    BY <2>1, <2>2, <2>3, <2>4 DEF Tracked
<1> QED
  BY <1>5, <1>6, <1>7, <1>8 DEF RunSound

\* Only the state of the run and the blocked workers are written.
LEMMA StateSound ==
  ASSUME NEW r \in RunRecord, RunSound(r), NEW q \in RunRecord,
         q.tasks = r.tasks, q.attempts = r.attempts, q.blocked \subseteq Active(q),
         \/ q.state \in {r.state, "failed"}
         \/ r.state # "failed" /\ q.state \in {"running", "integrating"}
  PROVE  RunSound(q)
<1>1. Active(q) = Active(r) /\ ActiveTasks(q) = ActiveTasks(r) /\ Integrated(q) = Integrated(r)
  BY DEF Active, ActiveTasks, Integrated
<1>2. \A t \in Tasks : HasSucceeded(q, t) <=> HasSucceeded(r, t)
  BY DEF HasSucceeded
<1>3. TasksSound(q)
  BY <1>1, <1>2 DEF RunSound, TasksSound
<1>4. AttemptsSound(q)
  BY <1>1 DEF RunSound, AttemptsSound
<1>5. ApprovalSound(q) /\ QuestionsSound(q)
  BY <1>1 DEF RunSound, ApprovalSound, QuestionsSound
<1>6. Tracked(q)
  BY <1>1 DEF RunSound, Tracked
<1> QED
  BY <1>3, <1>4, <1>5, <1>6 DEF RunSound

\* A reconciliation keeps a run sound.
LEMMA ReconcileSound ==
  ASSUME NEW r \in RunRecord, RunSound(r)
  PROVE  reconcileTaskStates(r) \in RunRecord /\ RunSound(reconcileTaskStates(r))
<1> DEFINE q == reconcileTaskStates(r)
<1>1. /\ q \in RunRecord
      /\ q.state = r.state /\ q.attempts = r.attempts /\ q.blocked = r.blocked
      /\ \A t \in Tasks : /\ q.tasks[t].integrated = r.tasks[t].integrated
                          /\ q.tasks[t].error = r.tasks[t].error
                          /\ IF r.tasks[t].state \in Movables THEN q.tasks[t].state \in Movables
                             ELSE q.tasks[t].state = r.tasks[t].state
  BY Reconciled
<1> HIDE DEF q
<1>2. Active(q) = Active(r) /\ ActiveTasks(q) = ActiveTasks(r) /\ Integrated(q) = Integrated(r)
  BY <1>1 DEF Active, ActiveTasks, Integrated
<1>3. \A t \in Tasks : HasSucceeded(q, t) <=> HasSucceeded(r, t)
  BY <1>1 DEF HasSucceeded
<1>4. TasksSound(q)
  BY <1>1, <1>2, <1>3 DEF RunSound, TasksSound, Movables
<1>5. AttemptsSound(q)
  BY <1>1, <1>2 DEF RunSound, AttemptsSound
<1>6. ApprovalSound(q) /\ QuestionsSound(q)
  BY <1>1, <1>2 DEF RunSound, ApprovalSound, QuestionsSound
<1>7. Tracked(q)
  <2>1. \A a \in Active(r) : r.attempts[a].task \in Tasks
    BY RunFields
  <2> QED
    BY <1>1, <1>2, <2>1 DEF RunSound, Tracked, Movables, AtWork
<1> QED
  BY <1>1, <1>4, <1>5, <1>6, <1>7 DEF RunSound, q

\* The active attempts are all ended.
Over(r, v) == [a \in DOMAIN r.attempts |->
                 IF a \in Active(r) THEN [r.attempts[a] EXCEPT !.state = v] ELSE r.attempts[a]]

LEMMA AttemptsOver ==
  ASSUME NEW r \in RunRecord, NEW v \in {"cancelled", "interrupted"}
  PROVE  /\ Over(r, v) \in Seq(Attempt) /\ DOMAIN Over(r, v) = DOMAIN r.attempts
         /\ \A a \in DOMAIN r.attempts :
              /\ Over(r, v)[a].task = r.attempts[a].task
              /\ Over(r, v)[a].evidence = r.attempts[a].evidence
              /\ Over(r, v)[a].commit = r.attempts[a].commit
              /\ Over(r, v)[a].state = IF a \in Active(r) THEN v ELSE r.attempts[a].state
<1> DEFINE w(a) == IF a \in Active(r) THEN [r.attempts[a] EXCEPT !.state = v] ELSE r.attempts[a]
<1>1. /\ Len(r.attempts) \in Nat /\ DOMAIN r.attempts = 1..Len(r.attempts)
      /\ \A a \in DOMAIN r.attempts : r.attempts[a] \in Attempt
  BY RunFields
<1>2. \A a \in DOMAIN r.attempts :
        /\ w(a) \in Attempt /\ w(a).task = r.attempts[a].task
        /\ w(a).evidence = r.attempts[a].evidence /\ w(a).commit = r.attempts[a].commit
        /\ w(a).state = IF a \in Active(r) THEN v ELSE r.attempts[a].state
  BY <1>1 DEF Attempt
<1>3. Over(r, v) = [a \in DOMAIN r.attempts |-> w(a)]
  BY DEF Over
<1> HIDE DEF w
<1>4. [a \in 1..Len(r.attempts) |-> w(a)] \in Seq(Attempt)
  BY <1>1, <1>2, IsASeq
<1> QED
  BY <1>1, <1>2, <1>3, <1>4

\* A sound run of which nothing is active any more, and nothing is at work.
LEMMA OverSound ==
  ASSUME NEW r \in RunRecord, RunSound(r), NEW q \in RunRecord, NEW v \in {"cancelled", "interrupted"},
         q.attempts = Over(r, v), q.blocked = {}, q.state \in {r.state, "cancelled"},
         \A t \in Tasks :
           /\ q.tasks[t].integrated = r.tasks[t].integrated /\ q.tasks[t].error = r.tasks[t].error
           /\ r.tasks[t].state = "succeeded" => q.tasks[t].state = "succeeded"
           /\ q.tasks[t].state = "succeeded" => r.tasks[t].state = "succeeded"
           /\ q.tasks[t].state \notin {"running", "validating"}
           /\ r.tasks[t].error => q.tasks[t].state = "failed" /\ q.state = r.state
  PROVE  RunSound(q) /\ Active(q) = {}
<1>1. /\ DOMAIN q.attempts = DOMAIN r.attempts
      /\ \A a \in DOMAIN r.attempts :
              /\ q.attempts[a].task = r.attempts[a].task
              /\ q.attempts[a].evidence = r.attempts[a].evidence
              /\ q.attempts[a].commit = r.attempts[a].commit
              /\ q.attempts[a].state = IF a \in Active(r) THEN v ELSE r.attempts[a].state
  BY AttemptsOver
<1>2. Active(q) = {} /\ ActiveTasks(q) = {} /\ Integrated(q) = Integrated(r)
  BY <1>1 DEF Active, ActiveTasks, ActiveStates, Integrated
<1>3. \A t \in Tasks : HasSucceeded(r, t) => HasSucceeded(q, t)
  BY <1>1 DEF HasSucceeded, Active, ActiveStates
<1>4. \A t \in Tasks : r.tasks[t].integrated \in BOOLEAN /\ r.tasks[t].error \in BOOLEAN
  BY RunFields
<1>5. TasksSound(q)
  BY <1>2, <1>3, <1>4 DEF RunSound, TasksSound
<1>6. AttemptsSound(q)
  BY <1>1, <1>2, FS_EmptySet, Constants DEF RunSound, AttemptsSound
<1>7. ApprovalSound(q) /\ QuestionsSound(q)
  <2>1. ASSUME q.state = "awaiting_approval" PROVE q.attempts = <<>> /\ Integrated(q) = {}
    <3>1. r.attempts = <<>> /\ Integrated(r) = {}
      BY <2>1 DEF RunSound, ApprovalSound
    <3>2. q.attempts \in Seq(Attempt) /\ DOMAIN q.attempts = {}
      BY <1>1, <3>1, RunFields
    <3> QED
      BY <1>2, <3>1, <3>2
  <2> QED
    BY <2>1, <1>2 DEF ApprovalSound, QuestionsSound
<1>8. Tracked(q)
  BY <1>1, <1>2 DEF RunSound, Tracked
<1> QED
  BY <1>2, <1>5, <1>6, <1>7, <1>8 DEF RunSound

\* What a cancellation writes.
LEMMA CancelWritten ==
  ASSUME NEW r \in RunRecord, RunSound(r), r.state \notin TerminalRun
  PROVE  LET q == Cancelled(r) IN
         /\ q \in RunRecord /\ RunSound(q) /\ Active(q) = {}
         /\ q.state = "cancelled" /\ q.attempts = Over(r, "cancelled")
         /\ \A t \in Tasks :
              /\ q.tasks[t].integrated = r.tasks[t].integrated
              /\ q.tasks[t].state = IF r.tasks[t].state = "succeeded" THEN "succeeded" ELSE "cancelled"
<1> DEFINE new(t) == IF r.tasks[t].state = "succeeded" THEN r.tasks[t]
                     ELSE [r.tasks[t] EXCEPT !.state = "cancelled"]
           q == Cancelled(r)
<1>1. \A t \in Tasks : r.tasks[t] \in Task
  BY RunFields
<1>2. \A t \in Tasks :
        /\ new(t) \in Task /\ new(t).integrated = r.tasks[t].integrated
        /\ new(t).error = r.tasks[t].error
        /\ new(t).state = IF r.tasks[t].state = "succeeded" THEN "succeeded" ELSE "cancelled"
  BY <1>1 DEF Task, TaskStates
<1>3. q = [r EXCEPT !.state = "cancelled", !.blocked = {}, !.tasks = [t \in Tasks |-> new(t)],
                    !.attempts = Over(r, "cancelled")]
  BY DEF Cancelled, Over
<1> HIDE DEF new, q
<1>4. Over(r, "cancelled") \in Seq(Attempt)
  BY AttemptsOver
<1>5. /\ q \in RunRecord /\ q.state = "cancelled" /\ q.blocked = {}
      /\ q.attempts = Over(r, "cancelled") /\ q.tasks = [t \in Tasks |-> new(t)]
  BY <1>2, <1>3, <1>4 DEF RunRecord, RunStates
<1>6. \A t \in Tasks : ~r.tasks[t].error
  BY RunFields DEF RunSound, Tracked, TerminalRun
<1>7. \A t \in Tasks :
           /\ q.tasks[t].integrated = r.tasks[t].integrated /\ q.tasks[t].error = r.tasks[t].error
           /\ q.tasks[t].state = IF r.tasks[t].state = "succeeded" THEN "succeeded" ELSE "cancelled"
  BY <1>2, <1>5
<1>8. RunSound(q) /\ Active(q) = {}
  BY <1>5, <1>6, <1>7, OverSound
<1> QED
  BY <1>5, <1>7, <1>8 DEF q

\* What the interruption of a recovery writes.
LEMMA InterruptWritten ==
  ASSUME NEW r \in RunRecord, RunSound(r)
  PROVE  LET q == recoverInterruptedRun(r) IN
         /\ q \in RunRecord /\ RunSound(q) /\ Active(q) = {}
         /\ q.state = r.state /\ q.attempts = Over(r, "interrupted")
         /\ \A t \in Tasks :
              /\ q.tasks[t].integrated = r.tasks[t].integrated
              /\ q.tasks[t].error = r.tasks[t].error
              /\ r.tasks[t].state \in {"succeeded", "failed"} => q.tasks[t].state = r.tasks[t].state
<1> DEFINE new(t) == IF r.tasks[t].state \in {"running", "validating"}
                     THEN [r.tasks[t] EXCEPT !.state = "planned"] ELSE r.tasks[t]
           p == [r EXCEPT !.tasks = [t \in Tasks |-> new(t)], !.attempts = Over(r, "interrupted"),
                          !.blocked = {}]
           q == recoverInterruptedRun(r)
<1>1. CASE r.blocked = {} /\ Active(r) = {} /\ ~\E t \in Tasks : r.tasks[t].state \in {"running", "validating"}
  <2>1. q = r
    BY <1>1 DEF recoverInterruptedRun
  <2>2. Over(r, "interrupted") = r.attempts
    <3>1. r.attempts \in Seq(Attempt)
      BY RunFields
    <3> QED
      BY <1>1, <3>1 DEF Over
  <2> QED
    BY <1>1, <2>1, <2>2
<1>2. CASE ~(r.blocked = {} /\ Active(r) = {} /\ ~\E t \in Tasks : r.tasks[t].state \in {"running", "validating"})
  <2>1. q = reconcileTaskStates(p)
    BY <1>2 DEF recoverInterruptedRun, Over
  <2>2. \A t \in Tasks : r.tasks[t] \in Task
    BY RunFields
  <2>3. \A t \in Tasks :
          /\ new(t) \in Task /\ new(t).integrated = r.tasks[t].integrated
          /\ new(t).error = r.tasks[t].error
          /\ new(t).state = IF r.tasks[t].state \in {"running", "validating"} THEN "planned"
                            ELSE r.tasks[t].state
    BY <2>2 DEF Task, TaskStates
  <2> HIDE DEF new
  <2>4. Over(r, "interrupted") \in Seq(Attempt)
    BY AttemptsOver
  <2>5. /\ p \in RunRecord /\ p.state = r.state /\ p.blocked = {}
        /\ p.attempts = Over(r, "interrupted") /\ p.tasks = [t \in Tasks |-> new(t)]
    BY <2>3, <2>4 DEF RunRecord
  <2> HIDE DEF p, q
  <2>6. \A t \in Tasks :
           /\ p.tasks[t].integrated = r.tasks[t].integrated /\ p.tasks[t].error = r.tasks[t].error
           /\ p.tasks[t].state = IF r.tasks[t].state \in {"running", "validating"} THEN "planned"
                                 ELSE r.tasks[t].state
    BY <2>3, <2>5
  <2>7. \A t \in Tasks : r.tasks[t].error => r.tasks[t].state = "failed"
    BY DEF RunSound, TasksSound
  <2>8. RunSound(p) /\ Active(p) = {}
    BY <2>5, <2>6, <2>7, OverSound
  <2>9. /\ q \in RunRecord /\ RunSound(q) /\ q.state = p.state /\ q.attempts = p.attempts
        /\ \A t \in Tasks : /\ q.tasks[t].integrated = p.tasks[t].integrated
                            /\ q.tasks[t].error = p.tasks[t].error
                            /\ IF p.tasks[t].state \in Movables THEN q.tasks[t].state \in Movables
                               ELSE q.tasks[t].state = p.tasks[t].state
    BY <2>1, <2>5, <2>8, Reconciled, ReconcileSound
  <2>10. Active(q) = {}
    BY <2>8, <2>9 DEF Active
  <2>11. \A t \in Tasks :
           r.tasks[t].state \in {"succeeded", "failed"} => q.tasks[t].state = r.tasks[t].state
    BY <2>6, <2>9 DEF Movables
  <2> QED
    BY <2>5, <2>6, <2>9, <2>10, <2>11 DEF q
<1> QED
  BY <1>1, <1>2

\* What the reservation of an attempt writes.
Reserved(r, t) ==
  [SetTask(r, t, "running") EXCEPT !.attempts =
     Append(@, [task |-> t, state |-> "prepared", evidence |-> FALSE, commit |-> FALSE])]

LEMMA ReserveWritten ==
  ASSUME NEW r \in RunRecord, RunSound(r), NEW t \in getLaunchableTaskIds(r),
         NEW q, q = Reserved(r, t)
  PROVE  /\ q \in RunRecord /\ RunSound(q) /\ r.state = "running" /\ q.state = "running"
         /\ q.blocked = r.blocked
         /\ t \in Tasks /\ r.tasks[t].state \in Movables
         /\ Len(q.attempts) = Len(r.attempts) + 1
         /\ \A a \in DOMAIN r.attempts : q.attempts[a] = r.attempts[a]
         /\ q.attempts[Len(r.attempts) + 1] =
              [task |-> t, state |-> "prepared", evidence |-> FALSE, commit |-> FALSE]
         /\ \A s \in Tasks : /\ q.tasks[s].integrated = r.tasks[s].integrated
                             /\ q.tasks[s].error = r.tasks[s].error
                             /\ s # t => q.tasks[s].state = r.tasks[s].state
         /\ Active(q) = Active(r) \cup {Len(r.attempts) + 1}
<1> DEFINE x == SetTask(r, t, "running")
           w == [task |-> t, state |-> "prepared", evidence |-> FALSE, commit |-> FALSE]
           now == reconcileTaskStates(r)
           ready == {s \in Tasks \ ActiveTasks(r) : now.tasks[s].state = "ready"}
           free == MaxWorkers - Cardinality(Active(r)) - Cardinality(Untracked(r))
           n == Len(r.attempts) + 1
<1>1. r.state = "running" /\ t \in FirstTasks(ready, free)
  BY DEF getLaunchableTaskIds
<1>2. t \in Tasks \ ActiveTasks(r) /\ now.tasks[t].state = "ready" /\ Cardinality(Earlier(ready, t)) < free
  BY <1>1 DEF FirstTasks
<1>3. r.tasks[t].state \in Movables
  <2>1. IF r.tasks[t].state \in Movables THEN now.tasks[t].state \in Movables
        ELSE now.tasks[t].state = r.tasks[t].state
    BY <1>2, Reconciled
  <2> QED
    BY <1>2, <2>1 DEF Movables
<1>4. Cardinality(Active(r)) + 1 <= MaxWorkers
  <2>1. IsFiniteSet(Tasks)
    BY Constants
  <2>2. Earlier(ready, t) \subseteq Tasks /\ Untracked(r) \subseteq Tasks
    BY DEF Earlier, Untracked
  <2>3. IsFiniteSet(Earlier(ready, t)) /\ IsFiniteSet(Untracked(r)) /\ IsFiniteSet(Active(r))
    BY <2>1, <2>2, FS_Subset, RunFields
  <2>4. Cardinality(Earlier(ready, t)) \in Nat /\ Cardinality(Untracked(r)) \in Nat
        /\ Cardinality(Active(r)) \in Nat
    BY <2>3, FS_CardinalityType
  <2> QED
    BY <1>2, <2>4, Constants
<1> HIDE DEF ready, free, now
<1>5. /\ x \in RunRecord
      /\ x.state = r.state /\ x.attempts = r.attempts /\ x.blocked = r.blocked
      /\ x.tasks[t].state = "running"
      /\ \A s \in Tasks : /\ x.tasks[s].integrated = r.tasks[s].integrated
                          /\ x.tasks[s].error = r.tasks[s].error
                          /\ s # t => x.tasks[s].state = r.tasks[s].state
  <2>1. t \in Tasks /\ "running" \in TaskStates
    BY <1>2 DEF TaskStates
  <2> QED
    BY <2>1, TaskWritten
<1> HIDE DEF x
<1>6. r.attempts \in Seq(Attempt) /\ DOMAIN r.attempts = 1..Len(r.attempts) /\ Len(r.attempts) \in Nat
  BY RunFields
<1>7. w \in Attempt
  BY <1>2 DEF Attempt, ActiveStates
<1> HIDE DEF w
<1>8. /\ Append(r.attempts, w) \in Seq(Attempt) /\ Len(Append(r.attempts, w)) = n
      /\ DOMAIN Append(r.attempts, w) = 1..n
      /\ Append(r.attempts, w)[n] = w
      /\ \A a \in DOMAIN r.attempts : Append(r.attempts, w)[a] = r.attempts[a]
  BY <1>6, <1>7
<1>9. q = [x EXCEPT !.attempts = Append(r.attempts, w)]
  BY <1>5 DEF x, w, RunRecord, Reserved
<1>10. /\ q \in RunRecord /\ q.state = r.state /\ q.attempts = Append(r.attempts, w)
       /\ q.blocked = r.blocked /\ q.tasks = x.tasks
  BY <1>5, <1>8, <1>9 DEF RunRecord
<1>11. DOMAIN q.attempts = DOMAIN r.attempts \cup {n} /\ n \notin DOMAIN r.attempts
  BY <1>6, <1>8, <1>10
<1>12. Active(q) = Active(r) \cup {n}
  BY <1>8, <1>10, <1>11 DEF Active, ActiveStates, w
<1>13. \A s \in Tasks : HasSucceeded(r, s) => HasSucceeded(q, s)
  BY <1>8, <1>10, <1>11 DEF HasSucceeded
<1>14. ActiveTasks(q) = ActiveTasks(r) \cup {t} /\ Active(r) \subseteq DOMAIN r.attempts
  BY <1>8, <1>10, <1>12 DEF ActiveTasks, w, Active
<1>15. r.tasks[t].integrated \in BOOLEAN /\ r.tasks[t].error \in BOOLEAN
  BY <1>2, RunFields
<1>16. ~r.tasks[t].integrated /\ ~r.tasks[t].error
  BY <1>2, <1>3, <1>15 DEF RunSound, TasksSound, Movables
<1>17. TasksSound(q)
  <2>1. ASSUME NEW s \in Tasks
        PROVE  /\ q.tasks[s].integrated => q.tasks[s].state = "succeeded" /\ ~q.tasks[s].error
               /\ q.tasks[s].error => q.tasks[s].state = "failed"
               /\ q.tasks[s].state \in {"running", "validating"} => s \in ActiveTasks(q)
               /\ q.tasks[s].state = "succeeded" => HasSucceeded(q, s)
    <3>1. CASE s = t
      BY <1>5, <1>10, <1>14, <1>16, <3>1
    <3>2. CASE s # t
      <4>1. q.tasks[s].state = r.tasks[s].state /\ q.tasks[s].integrated = r.tasks[s].integrated
            /\ q.tasks[s].error = r.tasks[s].error
        BY <1>5, <1>10, <3>2
      <4>2. (HasSucceeded(r, s) => HasSucceeded(q, s)) /\ (s \in ActiveTasks(r) => s \in ActiveTasks(q))
        BY <1>13, <1>14
      <4> QED
        BY <4>1, <4>2 DEF RunSound, TasksSound
    <3> QED
      BY <3>1, <3>2
  <2>2. \A s \in Tasks : q.tasks[s].integrated =>
          \A u \in Tasks : Position[u] < Position[s] => q.tasks[u].integrated
    BY <1>5, <1>10 DEF RunSound, TasksSound
  <2> QED
    BY <2>1, <2>2 DEF TasksSound
<1>18. AttemptsSound(q)
  <2>1. Cardinality(Active(q)) <= MaxWorkers
    <3>1. IsFiniteSet(Active(r)) /\ n \notin Active(r)
      BY <1>11, RunFields
    <3>2. Cardinality(Active(q)) = Cardinality(Active(r)) + 1
      BY <1>12, <3>1, FS_AddElement
    <3> QED
      BY <1>4, <3>2
  <2>2. \A a, b \in Active(q) : q.attempts[a].task = q.attempts[b].task => a = b
    <3>1. \A a \in Active(r) : q.attempts[a] = r.attempts[a] /\ r.attempts[a].task # t
      BY <1>2, <1>8, <1>10, <1>14 DEF ActiveTasks
    <3>2. q.attempts[n].task = t
      BY <1>8, <1>10 DEF w
    <3>3. \A a, b \in Active(r) : r.attempts[a].task = r.attempts[b].task => a = b
      BY DEF RunSound, AttemptsSound
    <3>4. \A a \in Active(q) : a = n \/ a \in Active(r)
      BY <1>12
    <3> HIDE DEF n
    <3>5. SUFFICES ASSUME NEW a \in Active(q), NEW b \in Active(q), q.attempts[a].task = q.attempts[b].task
                   PROVE  a = b
      OBVIOUS
    <3>6. CASE a \in Active(r) /\ b \in Active(r)
      BY <3>1, <3>3, <3>5, <3>6
    <3>7. CASE a = n \/ b = n
      BY <3>1, <3>2, <3>4, <3>5, <3>7
    <3> QED
      BY <3>4, <3>6, <3>7
  <2>3. \A a \in DOMAIN q.attempts :
          /\ q.attempts[a].commit => q.attempts[a].evidence
          /\ q.attempts[a].state = "succeeded" => q.attempts[a].commit
    BY <1>8, <1>10, <1>11 DEF RunSound, AttemptsSound, w
  <2> QED
    BY <2>1, <2>2, <2>3 DEF AttemptsSound
<1>19. ApprovalSound(q) /\ QuestionsSound(q)
  BY <1>1, <1>10, <1>12 DEF RunSound, ApprovalSound, QuestionsSound
<1>20. Tracked(q)
  <2>1. \A a \in Active(r) : r.attempts[a].task \in Tasks /\ r.attempts[a].task # t
    BY <1>2, <1>14, RunFields DEF ActiveTasks
  <2>2. \A a \in Active(q) : q.tasks[q.attempts[a].task].state \in AtWork
    <3>1. ASSUME NEW a \in Active(r)
          PROVE  q.tasks[q.attempts[a].task].state \in AtWork
      <4>1. r.tasks[r.attempts[a].task].state \in AtWork
        BY DEF RunSound, Tracked
      <4>2. q.attempts[a] = r.attempts[a]
        BY <1>8, <1>10, <1>14
      <4> QED
        BY <1>5, <1>10, <2>1, <4>1, <4>2
    <3>2. q.attempts[n].task = t /\ q.tasks[t].state = "running"
      BY <1>5, <1>8, <1>10 DEF w
    <3> QED
      BY <1>12, <3>1, <3>2 DEF AtWork
  <2>3. \A a \in DOMAIN q.attempts :
          q.attempts[a].evidence => q.attempts[a].state \notin {"prepared", "launched", "running"}
    BY <1>8, <1>10, <1>11 DEF RunSound, Tracked, w
  <2>4. \A s \in Tasks : q.tasks[s].error => q.state = "failed"
    BY <1>5, <1>10 DEF RunSound, Tracked
  <2> QED
    BY <1>1, <1>10, <2>2, <2>3, <2>4 DEF Tracked
<1> QED
  BY <1>1, <1>2, <1>3, <1>5, <1>6, <1>8, <1>10, <1>12, <1>17, <1>18, <1>19, <1>20 DEF RunSound, w

\* What the integration of a task writes: the first task that is not integrated yet.
Integrates(r, q, t) ==
  \/ q = [r EXCEPT !.tasks[t].integrated = TRUE]
  \/ q = [r EXCEPT !.tasks[t].integrated = TRUE, !.tasks[t].error = FALSE]

LEMMA IntegratedWritten ==
  ASSUME NEW r \in RunRecord, RunSound(r), NEW t \in Tasks, ~r.tasks[t].integrated,
         r.tasks[t].state = "succeeded",
         \A s \in Tasks : Position[s] < Position[t] => r.tasks[s].integrated,
         NEW q, Integrates(r, q, t)
  PROVE  /\ q \in RunRecord /\ RunSound(q)
         /\ q.state = r.state /\ q.attempts = r.attempts /\ q.blocked = r.blocked
         /\ Integrated(q) = Integrated(r) \cup {t}
         /\ \A s \in Tasks : q.tasks[s].state = r.tasks[s].state /\ q.tasks[s].error = r.tasks[s].error
<1> DEFINE w == [r.tasks[t] EXCEPT !.integrated = TRUE]
<1>1. r.tasks \in [Tasks -> Task] /\ r.tasks[t] \in Task
  BY RunFields
<1>2. r.tasks[t].error = FALSE
  BY <1>1 DEF RunSound, TasksSound, Task
<1>3. q = [r EXCEPT !.tasks = [r.tasks EXCEPT ![t] = w]]
  <2> DEFINE once == [r EXCEPT !.tasks[t].integrated = TRUE]
  <2>0. [w EXCEPT !.error = FALSE] = w
    BY <1>1, <1>2 DEF Task
  <2>1. once = [r EXCEPT !.tasks = [r.tasks EXCEPT ![t] = w]]
    OBVIOUS
  <2> HIDE DEF w, once
  <2>2. [once EXCEPT !.tasks[t].error = FALSE] = [once EXCEPT !.tasks = [once.tasks EXCEPT ![t] = w]]
    <3>1. once.tasks = [r.tasks EXCEPT ![t] = w]
      BY <2>1 DEF RunRecord
    <3>2. once.tasks[t] = w
      BY <1>1, <3>1
    <3> QED
      BY <2>0, <3>2
  <2>3. [once EXCEPT !.tasks = [once.tasks EXCEPT ![t] = w]] = [r EXCEPT !.tasks = [r.tasks EXCEPT ![t] = w]]
    BY <1>1, <2>1 DEF RunRecord
  <2>4. q = once \/ q = [once EXCEPT !.tasks[t].error = FALSE]
    BY DEF once, Integrates
  <2> QED
    BY <2>1, <2>2, <2>3, <2>4
<1>4. w \in Task /\ w.state = r.tasks[t].state /\ w.integrated = TRUE /\ w.error = r.tasks[t].error
  BY <1>1 DEF Task
<1> HIDE DEF w
<1>5. /\ q \in RunRecord /\ q.state = r.state /\ q.attempts = r.attempts /\ q.blocked = r.blocked
      /\ q.tasks = [r.tasks EXCEPT ![t] = w]
  BY <1>1, <1>3, <1>4 DEF RunRecord
<1>6. \A s \in Tasks : q.tasks[s] = IF s = t THEN w ELSE r.tasks[s]
  BY <1>1, <1>5
<1>7. /\ \A s \in Tasks : q.tasks[s].integrated <=> (s = t \/ r.tasks[s].integrated)
      /\ \A s \in Tasks : q.tasks[s].state = r.tasks[s].state
      /\ \A s \in Tasks : q.tasks[s].error = r.tasks[s].error
  <2>2. \A s \in Tasks : q.tasks[s].integrated <=> (s = t \/ r.tasks[s].integrated)
    BY <1>4, <1>6
  <2> QED
    BY <1>4, <1>6, <2>2
<1>8. Integrated(q) = Integrated(r) \cup {t}
  BY <1>7 DEF Integrated
<1>9. Active(q) = Active(r) /\ ActiveTasks(q) = ActiveTasks(r)
  BY <1>5 DEF Active, ActiveTasks
<1>10. \A s \in Tasks : HasSucceeded(r, s) <=> HasSucceeded(q, s)
  BY <1>5 DEF HasSucceeded
<1>11. TasksSound(q)
  <2>1. ASSUME NEW s \in Tasks
        PROVE  /\ q.tasks[s].integrated => q.tasks[s].state = "succeeded" /\ ~q.tasks[s].error
               /\ q.tasks[s].error => q.tasks[s].state = "failed"
               /\ q.tasks[s].state \in {"running", "validating"} => s \in ActiveTasks(q)
               /\ q.tasks[s].state = "succeeded" => HasSucceeded(q, s)
    BY <1>2, <1>7, <1>9, <1>10 DEF RunSound, TasksSound
  <2>2. ASSUME NEW s \in Tasks, q.tasks[s].integrated, NEW u \in Tasks, Position[u] < Position[s]
        PROVE  q.tasks[u].integrated
    BY <1>7, <2>2 DEF RunSound, TasksSound
  <2> QED
    BY <2>1, <2>2 DEF TasksSound
<1>12. AttemptsSound(q)
  BY <1>5, <1>9 DEF RunSound, AttemptsSound
<1>13. ApprovalSound(q) /\ QuestionsSound(q)
  <2>1. HasSucceeded(r, t)
    BY DEF RunSound, TasksSound
  <2>2. r.attempts # <<>>
    BY <2>1 DEF HasSucceeded
  <2> QED
    BY <1>5, <1>9, <2>2 DEF RunSound, ApprovalSound, QuestionsSound
<1>14. Tracked(q)
  <2>1. \A a \in Active(r) : r.attempts[a].task \in Tasks
    BY RunFields
  <2> QED
    BY <1>5, <1>7, <1>9, <2>1 DEF RunSound, Tracked
<1> QED
  BY <1>5, <1>7, <1>8, <1>11, <1>12, <1>13, <1>14 DEF RunSound

\* What a failed integration writes.
FailsIntegration(r, t) ==
  reconcileTaskStates([SetTask(SetRun(r, "failed"), t, "failed") EXCEPT !.tasks[t].error = TRUE])

LEMMA FailIntegrationWritten ==
  ASSUME NEW r \in RunRecord, RunSound(r), NEW t \in Tasks, ~r.tasks[t].integrated,
         r.tasks[t].state = "succeeded",
         NEW q, q = FailsIntegration(r, t)
  PROVE  /\ q \in RunRecord /\ RunSound(q)
         /\ q.state = "failed" /\ q.attempts = r.attempts /\ q.blocked = r.blocked
         /\ q.tasks[t].state = "failed" /\ q.tasks[t].error
         /\ \A s \in Tasks :
              /\ q.tasks[s].integrated = r.tasks[s].integrated
              /\ s # t => q.tasks[s].error = r.tasks[s].error
              /\ s # t /\ r.tasks[s].state \in {"succeeded", "failed"} => q.tasks[s].state = r.tasks[s].state
<1> DEFINE x == SetRun(r, "failed")
           y == SetTask(x, t, "failed")
           w == [y.tasks[t] EXCEPT !.error = TRUE]
           z == [y EXCEPT !.tasks[t].error = TRUE]
<1>1. /\ x \in RunRecord /\ x.state = "failed" /\ x.tasks = r.tasks /\ x.attempts = r.attempts
      /\ x.blocked = r.blocked
  BY DEF SetRun, RunRecord, RunStates
<1> HIDE DEF x
<1>2. /\ y \in RunRecord /\ y.state = "failed" /\ y.attempts = r.attempts /\ y.blocked = r.blocked
      /\ y.tasks[t].state = "failed"
      /\ \A s \in Tasks : /\ y.tasks[s].integrated = r.tasks[s].integrated
                          /\ y.tasks[s].error = r.tasks[s].error
                          /\ s # t => y.tasks[s].state = r.tasks[s].state
  <2>1. "failed" \in TaskStates
    BY DEF TaskStates
  <2> QED
    BY <1>1, <2>1, TaskWritten
<1> HIDE DEF y
<1>3. y.tasks \in [Tasks -> Task] /\ y.tasks[t] \in Task
  BY <1>2, RunFields
<1>4. /\ w \in Task /\ w.state = "failed" /\ w.error /\ w.integrated = r.tasks[t].integrated
  BY <1>2, <1>3 DEF Task
<1>5. z = [y EXCEPT !.tasks = [y.tasks EXCEPT ![t] = w]]
  BY <1>2, <1>3 DEF RunRecord
<1> HIDE DEF w, z
<1>6. /\ z \in RunRecord /\ z.state = "failed" /\ z.attempts = r.attempts /\ z.blocked = r.blocked
      /\ z.tasks = [y.tasks EXCEPT ![t] = w]
  BY <1>2, <1>3, <1>4, <1>5 DEF RunRecord
<1>7. /\ z.tasks[t].state = "failed" /\ z.tasks[t].error
      /\ \A s \in Tasks :
              /\ z.tasks[s].integrated = r.tasks[s].integrated
              /\ s # t => z.tasks[s].error = r.tasks[s].error /\ z.tasks[s].state = r.tasks[s].state
  BY <1>2, <1>3, <1>4, <1>6
<1>8. Active(z) = Active(r) /\ ActiveTasks(z) = ActiveTasks(r)
  BY <1>6 DEF Active, ActiveTasks
<1>9. \A s \in Tasks : HasSucceeded(r, s) <=> HasSucceeded(z, s)
  BY <1>6 DEF HasSucceeded
<1>10. TasksSound(z)
  <2>1. ASSUME NEW s \in Tasks
        PROVE  /\ z.tasks[s].integrated => z.tasks[s].state = "succeeded" /\ ~z.tasks[s].error
               /\ z.tasks[s].error => z.tasks[s].state = "failed"
               /\ z.tasks[s].state \in {"running", "validating"} => s \in ActiveTasks(z)
               /\ z.tasks[s].state = "succeeded" => HasSucceeded(z, s)
    <3>1. CASE s = t
      BY <1>7, <3>1
    <3>2. CASE s # t
      BY <1>7, <1>8, <1>9, <3>2 DEF RunSound, TasksSound
    <3> QED
      BY <3>1, <3>2
  <2>2. \A s \in Tasks : z.tasks[s].integrated =>
          \A u \in Tasks : Position[u] < Position[s] => z.tasks[u].integrated
    BY <1>7 DEF RunSound, TasksSound
  <2> QED
    BY <2>1, <2>2 DEF TasksSound
<1>11. AttemptsSound(z)
  BY <1>6, <1>8 DEF RunSound, AttemptsSound
<1>12. ApprovalSound(z) /\ QuestionsSound(z)
  BY <1>6, <1>8 DEF RunSound, ApprovalSound, QuestionsSound
<1>13. Tracked(z)
  <2>1. ASSUME NEW a \in Active(z)
        PROVE  z.tasks[z.attempts[a].task].state \in AtWork
    <3>1. r.attempts[a].task \in Tasks /\ r.tasks[r.attempts[a].task].state \in AtWork
      BY <1>8, RunFields DEF RunSound, Tracked
    <3> QED
      BY <1>6, <1>7, <3>1 DEF AtWork
  <2> QED
    BY <1>6, <1>8, <2>1 DEF RunSound, Tracked
<1>14. RunSound(z)
  BY <1>10, <1>11, <1>12, <1>13 DEF RunSound
<1>15. q = reconcileTaskStates(z)
  BY DEF z, y, x, FailsIntegration
<1>16. /\ q \in RunRecord /\ RunSound(q)
       /\ q.state = z.state /\ q.attempts = z.attempts /\ q.blocked = z.blocked
       /\ \A s \in Tasks : /\ q.tasks[s].integrated = z.tasks[s].integrated
                           /\ q.tasks[s].error = z.tasks[s].error
                           /\ IF z.tasks[s].state \in Movables THEN q.tasks[s].state \in Movables
                              ELSE q.tasks[s].state = z.tasks[s].state
  <2>1. reconcileTaskStates(z) \in RunRecord /\ RunSound(reconcileTaskStates(z))
    BY <1>6, <1>14, ReconcileSound
  <2>2. /\ reconcileTaskStates(z).state = z.state /\ reconcileTaskStates(z).attempts = z.attempts
        /\ reconcileTaskStates(z).blocked = z.blocked
        /\ \A s \in Tasks :
             /\ reconcileTaskStates(z).tasks[s].integrated = z.tasks[s].integrated
             /\ reconcileTaskStates(z).tasks[s].error = z.tasks[s].error
             /\ IF z.tasks[s].state \in Movables THEN reconcileTaskStates(z).tasks[s].state \in Movables
                ELSE reconcileTaskStates(z).tasks[s].state = z.tasks[s].state
    BY <1>6, Reconciled
  <2> QED
    BY <1>15, <2>1, <2>2
<1> QED
  BY <1>6, <1>7, <1>16 DEF Movables

\* The tasks of a retry are the failed ones, and blocked ones.
LEMMA ResetTasks ==
  /\ \A t \in Tasks : run.tasks[t].state = "failed" => t \in Resets
  /\ \A t \in Resets : t \in Tasks /\ run.tasks[t].state \in {"failed", "blocked"}
<1> DEFINE B == {t \in Tasks : run.tasks[t].state \in {"failed", "blocked"}}
<1>1. B \in SUBSET Tasks /\ HoldsReset(B)
  BY DEF HoldsReset
<1>2. \A t \in Resets : t \in Tasks /\ t \in B
  BY <1>1 DEF Resets
<1>3. ASSUME NEW t \in Tasks, run.tasks[t].state = "failed"
      PROVE  t \in Resets
  BY <1>3 DEF Resets, HoldsReset
<1> QED
  BY <1>2, <1>3

\* What a retry writes.
LEMMA RetryWritten ==
  ASSUME run \in RunRecord, RunSound(run), Retryable
  PROVE  LET q == prepareFailedRunRetry IN
         /\ q \in RunRecord /\ RunSound(q)
         /\ q.state = "running" /\ q.attempts = run.attempts
         /\ \A t \in Tasks :
              /\ q.tasks[t].integrated = run.tasks[t].integrated
              /\ run.tasks[t].state = "succeeded" => q.tasks[t].state = "succeeded"
              /\ run.tasks[t].state = "failed" /\ run.tasks[t].error /\ HasSucceeded(run, t)
                   => q.tasks[t].state = "succeeded"
<1> DEFINE again(t) == [run.tasks[t] EXCEPT !.error = FALSE, !.state =
                     IF @ = "failed" /\ run.tasks[t].error /\ HasSucceeded(run, t) THEN "succeeded" ELSE "planned"]
           new(t) == IF t \in Resets THEN again(t) ELSE run.tasks[t]
           x == SetRun(run, "running")
           z == [x EXCEPT !.tasks = [t \in Tasks |-> new(t)]]
           q == prepareFailedRunRetry
<1>0. run.state = "failed" /\ Active(run) = {}
  BY DEF Retryable
<1>1. \A t \in Tasks : run.tasks[t] \in Task
  BY RunFields
<1>2. ASSUME NEW t \in Tasks
      PROVE  /\ again(t) \in Task /\ again(t).integrated = run.tasks[t].integrated /\ again(t).error = FALSE
             /\ again(t).state =
                  IF run.tasks[t].state = "failed" /\ run.tasks[t].error /\ HasSucceeded(run, t)
                  THEN "succeeded" ELSE "planned"
  BY <1>1 DEF Task, TaskStates
<1>3. q = reconcileTaskStates(z)
  BY DEF prepareFailedRunRetry
<1> HIDE DEF again
<1>4. \A t \in Tasks : new(t) \in Task
  BY <1>1, <1>2
<1>5. /\ x \in RunRecord /\ x.state = "running" /\ x.attempts = run.attempts /\ x.blocked = run.blocked
  BY DEF SetRun, RunRecord, RunStates
<1> HIDE DEF new, x, q
<1>6. /\ z \in RunRecord /\ z.state = "running" /\ z.attempts = run.attempts /\ z.blocked = run.blocked
      /\ z.tasks = [t \in Tasks |-> new(t)]
  BY <1>4, <1>5 DEF RunRecord
<1> HIDE DEF z
<1>7. \A t \in Tasks : z.tasks[t] = IF t \in Resets THEN again(t) ELSE run.tasks[t]
  BY <1>6 DEF new
<1>8. ASSUME NEW t \in Tasks
      PROVE  /\ z.tasks[t].integrated = run.tasks[t].integrated
             /\ z.tasks[t].error = FALSE
             /\ z.tasks[t].state =
                  IF t \in Resets
                  THEN IF run.tasks[t].state = "failed" /\ run.tasks[t].error /\ HasSucceeded(run, t)
                       THEN "succeeded" ELSE "planned"
                  ELSE run.tasks[t].state
  <2>1. CASE t \in Resets
    BY <1>2, <1>7, <2>1
  <2>2. CASE t \notin Resets
    <3>1. run.tasks[t].error = FALSE
      BY <1>1, <2>2, ResetTasks DEF RunSound, TasksSound, Task
    <3> QED
      BY <1>7, <2>2, <3>1
  <2> QED
    BY <2>1, <2>2
<1>9. Active(z) = {} /\ Integrated(z) = Integrated(run)
  BY <1>0, <1>6, <1>8 DEF Active, Integrated
<1>10. \A t \in Tasks : HasSucceeded(run, t) <=> HasSucceeded(z, t)
  BY <1>6 DEF HasSucceeded
<1>11. \A t \in Tasks : run.tasks[t].state \notin {"running", "validating"}
  BY <1>0 DEF RunSound, TasksSound, ActiveTasks
<1>12. TasksSound(z)
  <2>1. ASSUME NEW t \in Tasks
        PROVE  /\ z.tasks[t].integrated => z.tasks[t].state = "succeeded" /\ ~z.tasks[t].error
               /\ z.tasks[t].error => z.tasks[t].state = "failed"
               /\ z.tasks[t].state \in {"running", "validating"} => t \in ActiveTasks(z)
               /\ z.tasks[t].state = "succeeded" => HasSucceeded(z, t)
    <3>1. run.tasks[t].integrated => t \notin Resets /\ run.tasks[t].state = "succeeded"
      BY ResetTasks DEF RunSound, TasksSound
    <3>2. run.tasks[t].state = "succeeded" => HasSucceeded(run, t)
      BY DEF RunSound, TasksSound
    <3> QED
      BY <1>8, <1>10, <1>11, <3>1, <3>2
  <2>2. \A t \in Tasks : z.tasks[t].integrated =>
          \A u \in Tasks : Position[u] < Position[t] => z.tasks[u].integrated
    BY <1>8 DEF RunSound, TasksSound
  <2> QED
    BY <2>1, <2>2 DEF TasksSound
<1>13. AttemptsSound(z)
  BY <1>0, <1>6, <1>9 DEF RunSound, AttemptsSound
<1>14. ApprovalSound(z) /\ QuestionsSound(z)
  BY <1>0, <1>6, <1>9 DEF RunSound, ApprovalSound, QuestionsSound
<1>15. Tracked(z)
  BY <1>6, <1>8, <1>9 DEF RunSound, Tracked
<1>16. RunSound(z)
  BY <1>12, <1>13, <1>14, <1>15 DEF RunSound
<1>17. /\ q \in RunRecord /\ RunSound(q)
       /\ q.state = z.state /\ q.attempts = z.attempts
       /\ \A t \in Tasks : q.tasks[t].integrated = z.tasks[t].integrated
                           /\ (z.tasks[t].state = "succeeded" => q.tasks[t].state = "succeeded")
  <2>1. q \in RunRecord /\ RunSound(q)
    BY <1>3, <1>6, <1>16, ReconcileSound
  <2>2. \A t \in Tasks : z.tasks[t].state = "succeeded" => z.tasks[t].state \notin Movables
    BY DEF Movables
  <2>3. /\ q.state = z.state /\ q.attempts = z.attempts
        /\ \A t \in Tasks : q.tasks[t].integrated = z.tasks[t].integrated
              /\ (z.tasks[t].state \notin Movables => q.tasks[t].state = z.tasks[t].state)
    BY <1>3, <1>6, Reconciled
  <2> QED
    BY <2>1, <2>2, <2>3
<1>18. \A t \in Tasks :
         /\ run.tasks[t].state = "succeeded" => z.tasks[t].state = "succeeded"
         /\ run.tasks[t].state = "failed" /\ run.tasks[t].error /\ HasSucceeded(run, t)
              => z.tasks[t].state = "succeeded"
  BY <1>8, ResetTasks
<1> QED
  BY <1>6, <1>8, <1>17, <1>18 DEF q

-----------------------------------------------------------------------------
(* The history that the run records: the integrated tasks in plan order.   *)

\* Every place of the plan has its task.
LEMMA Places == \A n \in 1..Cardinality(Tasks) : \E t \in Tasks : Position[t] = n
<1>1. IsFiniteSet(Tasks) /\ IsFiniteSet(1..Cardinality(Tasks)) /\ Cardinality(1..Cardinality(Tasks)) = Cardinality(Tasks)
  BY Constants, FS_Interval
<1>2. Position \in Injection(Tasks, 1..Cardinality(Tasks))
  BY Constants DEF Injection, IsInjective
<1>3. Position \in Surjection(Tasks, 1..Cardinality(Tasks))
  BY <1>1, <1>2, FS_Injection
<1> QED
  BY <1>3 DEF Surjection

\* A nonempty set of numbers has a least one.
LEMMA Smallest ==
  ASSUME NEW S \in SUBSET Nat, S # {}
  PROVE  \E n \in S : \A m \in S : n <= m
<1>1. PICK n \in S : \A m \in S : ~(<<m, n>> \in OpToRel(<, Nat))
  BY NatLessThanWellFounded, WFMin
<1>2. \A m \in S : ~(m < n)
  BY <1>1 DEF OpToRel
<1> QED
  BY <1>2

\* The first of some tasks.
LEMMA FirstTask ==
  ASSUME NEW S \in SUBSET Tasks, S # {}
  PROVE  FirstOf(S) \in S /\ \A u \in S : Position[FirstOf(S)] <= Position[u]
<1> DEFINE P == {Position[t] : t \in S}
<1>1. P \in SUBSET Nat /\ P # {}
  BY Constants
<1>2. PICK n \in P : \A m \in P : n <= m
  BY <1>1, Smallest
<1>3. PICK t \in S : Position[t] = n
  BY <1>2
<1>4. \A u \in S : Position[t] <= Position[u]
  BY <1>2, <1>3
<1> QED
  BY <1>3, <1>4 DEF FirstOf

\* The task that is integrated next, and the tasks before it.
NextOf(r) == FirstOf(Tasks \ Integrated(r))

LEMMA NextFirst ==
  ASSUME NEW r, Integrated(r) # Tasks
  PROVE  /\ NextOf(r) \in Tasks /\ NextOf(r) \notin Integrated(r) /\ ~r.tasks[NextOf(r)].integrated
         /\ \A s \in Tasks : Position[s] < Position[NextOf(r)] => s \in Integrated(r)
<1>1. Tasks \ Integrated(r) \in SUBSET Tasks /\ Tasks \ Integrated(r) # {}
  BY DEF Integrated
<1>2. /\ NextOf(r) \in Tasks \ Integrated(r)
      /\ \A u \in Tasks \ Integrated(r) : Position[NextOf(r)] <= Position[u]
  BY <1>1, FirstTask DEF NextOf
<1>3. \A s \in Tasks : Position[s] < Position[NextOf(r)] => s \in Integrated(r)
  BY <1>2, Constants
<1> QED
  BY <1>2, <1>3 DEF Integrated

LEMMA FunctionSeq ==
  ASSUME NEW S, NEW n \in Nat, NEW f \in [1..n -> S]
  PROVE  f \in Seq(S) /\ Len(f) = n
BY SeqDef, LenProperties

LEMMA RecordedSeq ==
  ASSUME NEW r
  PROVE  /\ Cardinality(Integrated(r)) \in Nat
         /\ Recorded(r) \in Seq(Tasks) /\ Len(Recorded(r)) = Cardinality(Integrated(r))
<1>1. Integrated(r) \subseteq Tasks /\ IsFiniteSet(Tasks)
  BY Constants DEF Integrated
<1>2. Cardinality(Integrated(r)) \in Nat /\ Cardinality(Integrated(r)) <= Cardinality(Tasks)
  BY <1>1, FS_Subset, FS_CardinalityType
<1>3. \A n \in 1..Cardinality(Integrated(r)) : n \in 1..Cardinality(Tasks)
  BY <1>2, Constants
<1>4. \A n \in 1..Cardinality(Integrated(r)) : (CHOOSE t \in Tasks : Position[t] = n) \in Tasks
  BY <1>3, Places
<1>5. Recorded(r) \in [1..Cardinality(Integrated(r)) -> Tasks]
  BY <1>4 DEF Recorded
<1> QED
  BY <1>2, <1>5, SeqDef, LenProperties

LEMMA RecordedSame ==
  ASSUME NEW r, NEW q, Integrated(q) = Integrated(r)
  PROVE  Recorded(q) = Recorded(r) /\ NextOf(q) = NextOf(r)
BY DEF Recorded, NextOf

\* The integrated tasks are those before the next one, so that one more makes the history longer by it.
LEMMA BeforeNext ==
  ASSUME NEW r, TasksSound(r), Integrated(r) # Tasks
  PROVE  Cardinality(Integrated(r)) = Position[NextOf(r)] - 1
<1> DEFINE t == NextOf(r)
           I == Integrated(r)
           k == Position[t] - 1
           f == [s \in I |-> Position[s]]
<1>1. t \in Tasks /\ t \notin I /\ (\A s \in Tasks : Position[s] < Position[t] => s \in I)
  BY NextFirst
<1>2. I \subseteq Tasks
  BY DEF Integrated
<1>3. k \in Nat /\ k < Cardinality(Tasks)
  BY <1>1, Constants
<1>4. ASSUME NEW s \in I
      PROVE  Position[s] \in 1..k
  <2>1. s \in Tasks /\ s # t /\ r.tasks[s].integrated
    BY <1>1, <1>2, <1>4 DEF Integrated
  <2>2. ~(Position[t] < Position[s])
    <3>1. Position[t] < Position[s] => r.tasks[t].integrated
      BY <1>1, <2>1 DEF TasksSound
    <3> QED
      BY <1>1, <3>1 DEF Integrated
  <2>3. Position[s] # Position[t]
    BY <1>1, <2>1, Constants
  <2> QED
    BY <1>1, <2>1, <2>2, <2>3, Constants
<1> HIDE DEF t, I, k
<1>5. f \in Injection(I, 1..k)
  BY <1>2, <1>4, Constants DEF Injection, IsInjective
<1>6. ASSUME NEW n \in 1..k
      PROVE  \E s \in I : f[s] = n
  <2>1. PICK s \in Tasks : Position[s] = n
    BY <1>3, Places, Constants
  <2>2. n < Position[t]
    BY <1>1, <1>3, Constants DEF k
  <2> QED
    BY <1>1, <2>1, <2>2
<1>7. f \in Surjection(I, 1..k)
  BY <1>5, <1>6 DEF Injection, Surjection
<1>8. IsFiniteSet(1..k) /\ Cardinality(1..k) = k
  BY <1>3, FS_Interval
<1>9. Cardinality(I) = Cardinality(1..k)
  BY <1>5, <1>7, <1>8, FS_Injection
<1> QED
  BY <1>8, <1>9 DEF I, k, t

LEMMA RecordedNext ==
  ASSUME NEW r, TasksSound(r), Integrated(r) # Tasks, NEW q,
         Integrated(q) = Integrated(r) \cup {NextOf(r)}
  PROVE  Recorded(q) = Append(Recorded(r), NextOf(r))
<1> DEFINE t == NextOf(r)
           n == Cardinality(Integrated(r))
           R == Recorded(r)
           Q == Recorded(q)
<1>1. t \in Tasks /\ t \notin Integrated(r) /\ n = Position[t] - 1
  BY NextFirst, BeforeNext
<1>2. IsFiniteSet(Integrated(r))
  BY Constants, FS_Subset DEF Integrated
<1>3. Cardinality(Integrated(q)) = n + 1
  BY <1>1, <1>2, FS_AddElement
<1>4. n \in Nat /\ R \in Seq(Tasks) /\ Len(R) = n /\ Q \in Seq(Tasks) /\ Len(Q) = n + 1
  BY <1>3, RecordedSeq
<1>5. \A i \in 1..n : Q[i] = R[i]
  BY <1>3, <1>4 DEF Recorded
<1>6. Q[n + 1] = t
  <2>1. Q[n + 1] = CHOOSE u \in Tasks : Position[u] = n + 1
    BY <1>3, <1>4 DEF Recorded
  <2>2. Position[t] = n + 1 /\ \A u \in Tasks : Position[u] = n + 1 => u = t
    BY <1>1, Constants
  <2> QED
    BY <1>1, <2>1, <2>2
<1> HIDE DEF n, R, Q, t
<1>7. /\ Append(R, t) \in Seq(Tasks) /\ Len(Append(R, t)) = n + 1
      /\ \A i \in 1..n : Append(R, t)[i] = R[i]
  BY <1>1, <1>4
<1>8. Append(R, t)[n + 1] = t
  BY <1>4
<1>9. \A i \in 1..Len(Q) : Q[i] = Append(R, t)[i]
  BY <1>4, <1>5, <1>6, <1>7, <1>8
<1>10. Q = Append(R, t)
  BY <1>4, <1>7, <1>9, SeqEqual
<1> QED
  BY <1>10 DEF R, Q, t

\* A history is not that history and one more task, and tells its last task.
LEMMA Longer ==
  ASSUME NEW r, NEW t \in Tasks
  PROVE  /\ Append(Recorded(r), t) # Recorded(r) /\ Append(Recorded(r), t) \in Seq(Tasks)
         /\ \A u \in Tasks : Append(Recorded(r), t) = Append(Recorded(r), u) => t = u
<1>1. Recorded(r) \in Seq(Tasks) /\ Len(Recorded(r)) \in Nat
  BY RecordedSeq
<1>2. \A u \in Tasks : /\ Append(Recorded(r), u) \in Seq(Tasks)
                       /\ Len(Append(Recorded(r), u)) = Len(Recorded(r)) + 1
                       /\ Append(Recorded(r), u)[Len(Recorded(r)) + 1] = u
  BY <1>1
<1> QED
  BY <1>1, <1>2

-----------------------------------------------------------------------------
(* The steps beside the loop: monitors, questions, cancellations, retries. *)

\* What such a step does to the run: r becomes q, and the attempts of mine are those
\* that have a monitor.
Beside(r, q, mine) ==
  /\ DOMAIN q.attempts = DOMAIN r.attempts /\ Active(q) \subseteq Active(r)
  /\ \A a \in DOMAIN r.attempts :
       /\ q.attempts[a].task = r.attempts[a].task
       /\ r.attempts[a].evidence => q.attempts[a].evidence
       /\ r.attempts[a].commit => q.attempts[a].commit
       /\ q.attempts[a].state = "interrupted" => r.attempts[a].state = "interrupted"
       /\ a \notin Active(r) => q.attempts[a].state = r.attempts[a].state
       /\ a \notin mine => /\ q.attempts[a].commit = r.attempts[a].commit
                           /\ q.attempts[a].evidence = r.attempts[a].evidence
                           /\ q.attempts[a].state = r.attempts[a].state \/ Revoked(q, a)
  /\ \A t \in Tasks :
       /\ q.tasks[t].integrated = r.tasks[t].integrated
       /\ r.tasks[t].state = "succeeded" => q.tasks[t].state = "succeeded"
       /\ r.tasks[t].state = "failed" /\ r.tasks[t].error /\ HasSucceeded(r, t) =>
            q.tasks[t].state = "succeeded" \/ (q.tasks[t].state = "failed" /\ q.tasks[t].error)
  /\ q.state = "awaiting_approval" => r.state = "awaiting_approval"
  /\ Ended(r) => Ended(q) /\ \A t \in Tasks : q.tasks[t].state = r.tasks[t].state

Monitored == {a \in DOMAIN run.attempts : exec[a] # "none"}

LEMMA TypeFacts ==
  ASSUME TypeOK
  PROVE  /\ run \in RunRecord /\ run.attempts \in Seq(Attempt)
         /\ DOMAIN exec = DOMAIN run.attempts /\ DOMAIN ask = DOMAIN run.attempts
         /\ DOMAIN run.attempts = 1..Len(run.attempts) /\ Len(run.attempts) \in Nat
         /\ branch \in Seq(Tasks) /\ live \subseteq DOMAIN run.attempts
         /\ \A a \in DOMAIN run.attempts : exec[a] \in ExecPc
         /\ loop.pc \in LoopPc /\ loop.todo \subseteq Tasks /\ loop.task \in Tasks \cup {NoTask}
         /\ loop.at \in Nat /\ loop.active \subseteq DOMAIN run.attempts
         /\ loop.found \subseteq DOMAIN run.attempts
         /\ loop.first \in BOOLEAN /\ loop.recovering \in BOOLEAN
         /\ starting \subseteq {"branch", "lease"}
<1>1. run \in RunRecord /\ loop \in LoopRecord /\ branch \in Seq(Tasks) /\ live \subseteq DOMAIN run.attempts
      /\ DOMAIN exec = DOMAIN run.attempts /\ DOMAIN ask = DOMAIN run.attempts
      /\ (\A a \in DOMAIN run.attempts : exec[a] \in ExecPc) /\ starting \subseteq {"branch", "lease"}
  BY TypeParts
<1> QED
  BY <1>1, RunFields DEF LoopRecord

\* Whoever succeeded once has.
LEMMA SucceededStays ==
  ASSUME NEW r, NEW q, NEW mine, Beside(r, q, mine), NEW t \in Tasks, HasSucceeded(r, t)
  PROVE  HasSucceeded(q, t)
<1>1. PICK a \in DOMAIN r.attempts :
        r.attempts[a].task = t /\ r.attempts[a].state = "succeeded" /\ r.attempts[a].commit
  BY DEF HasSucceeded
<1>2. a \notin Active(r)
  BY <1>1 DEF Active, ActiveStates
<1> QED
  BY <1>1, <1>2 DEF Beside, HasSucceeded

\* The branch stays what it was to the run.
LEMMA BranchStays ==
  ASSUME BranchKnown, branch' = branch,
         \A t \in Tasks :
           /\ run'.tasks[t].integrated = run.tasks[t].integrated
           /\ HasSucceeded(run, t) => HasSucceeded(run', t)
           /\ HasSucceeded(run, t) /\ run.tasks[t].state = "succeeded" => run'.tasks[t].state = "succeeded"
           /\ HasSucceeded(run, t) /\ run.tasks[t].state = "failed" /\ run.tasks[t].error =>
                run'.tasks[t].state = "succeeded" \/ (run'.tasks[t].state = "failed" /\ run'.tasks[t].error)
  PROVE  BranchKnown'
<1>1. Integrated(run') = Integrated(run)
  BY DEF Integrated
<1>2. Recorded(run') = Recorded(run) /\ NextTask' = NextTask
  BY <1>1, RecordedSame DEF NextTask, NextOf
<1>3. CASE branch = Recorded(run)
  BY <1>2, <1>3 DEF BranchKnown
<1>4. CASE Ahead
  <2>1. NextTask \in Tasks
    BY <1>4, NextFirst DEF Ahead, NextTask, NextOf
  <2>2. Ahead'
    BY <1>1, <1>2, <1>4, <2>1 DEF Ahead
  <2> QED
    BY <2>2 DEF BranchKnown
<1> QED
  BY <1>3, <1>4 DEF BranchKnown

\* A step beside the loop keeps what the loop knows.
LEMMA BesideKept ==
  ASSUME Inv, Beside(run, run', Monitored), live' \subseteq live,
         DOMAIN exec' = DOMAIN exec,
         \A a \in DOMAIN run.attempts : (exec'[a] = "none") <=> (exec[a] = "none"),
         loop' = loop, branch' = branch,
         starting' = starting \/ run'.state # "awaiting_approval"
  PROVE  Launching' /\ AtIntegration' /\ Recovering' /\ BranchKnown' /\ NoWorkerOutlives'
<1>1. TypeOK /\ Launching /\ AtIntegration /\ Recovering /\ BranchKnown /\ NoWorkerOutlives
  BY DEF Inv
<1>2. /\ run \in RunRecord /\ DOMAIN exec = DOMAIN run.attempts /\ live \subseteq DOMAIN run.attempts
      /\ loop.task \in Tasks \cup {NoTask} /\ loop.found \subseteq DOMAIN run.attempts
  BY <1>1, TypeFacts
<1>3. /\ DOMAIN run'.attempts = DOMAIN run.attempts /\ Active(run') \subseteq Active(run)
      /\ \A a \in DOMAIN run.attempts :
           /\ run'.attempts[a].task = run.attempts[a].task
           /\ run.attempts[a].evidence => run'.attempts[a].evidence
           /\ run'.attempts[a].state = "interrupted" => run.attempts[a].state = "interrupted"
           /\ exec[a] = "none" => /\ run'.attempts[a].commit = run.attempts[a].commit
                                  /\ run'.attempts[a].evidence = run.attempts[a].evidence
                                  /\ \/ run'.attempts[a].state = run.attempts[a].state
                                     \/ Revoked(run', a)
  BY DEF Beside, Monitored
<1>4. \A t \in Tasks : HasSucceeded(run, t) => HasSucceeded(run', t)
  BY SucceededStays
<1>5. Integrated(run') = Integrated(run)
  BY DEF Beside, Integrated
<1>6. Recorded(run') = Recorded(run) /\ NextTask' = NextTask
  BY <1>5, RecordedSame DEF NextTask, NextOf
<1>7. Launching'
  <2>1. loop'.pc # "idle" \/ starting' # {} => run'.state # "awaiting_approval"
    BY <1>1 DEF Beside, Launching
  <2>2. ASSUME AtLaunchPc
        PROVE  /\ loop.at \in DOMAIN run'.attempts /\ exec'[loop.at] = "none"
               /\ ~run'.attempts[loop.at].evidence
               /\ Revoked(run', loop.at) \/ run'.attempts[loop.at].state \in {"prepared", "launched"}
    <3>1. /\ loop.at \in DOMAIN run.attempts /\ exec[loop.at] = "none"
          /\ ~run.attempts[loop.at].evidence
          /\ Revoked(run, loop.at) \/ run.attempts[loop.at].state \in {"prepared", "launched"}
      BY <1>1, <2>2 DEF Launching
    <3>2. ASSUME Revoked(run, loop.at), run'.attempts[loop.at].state = run.attempts[loop.at].state
          PROVE  Revoked(run', loop.at)
      <4>1. run.attempts[loop.at].task \in Tasks
        BY <1>2, <3>1, RunFields
      <4> QED
        BY <1>3, <3>1, <3>2, <4>1 DEF Revoked, Beside
    <3> QED
      BY <1>3, <3>1, <3>2
  <2>3. AtLaunchPc' <=> AtLaunchPc
    BY DEF AtLaunchPc
  <2> QED
    BY <2>1, <2>2, <2>3 DEF Launching
<1>8. AtIntegration'
  <2>1. ASSUME loop.pc \in {"record", "disintegrate"}
        PROVE  /\ Integrated(run') # Tasks /\ loop'.task = NextTask'
               /\ run'.tasks[loop'.task].state = "succeeded"
    <3>1. Integrated(run) # Tasks /\ loop.task = NextTask /\ run.tasks[loop.task].state = "succeeded"
      BY <1>1, <2>1 DEF AtIntegration
    <3>2. NextTask \in Tasks
      BY <3>1, NextFirst DEF NextTask, NextOf
    <3>3. run'.tasks[loop.task].state = "succeeded"
      BY <3>1, <3>2 DEF Beside
    <3> QED
      BY <1>5, <1>6, <3>1, <3>3
  <2>2. loop.pc = "record" => branch' = Append(Recorded(run'), loop'.task)
    BY <1>1, <1>6 DEF AtIntegration
  <2> QED
    BY <2>1, <2>2 DEF AtIntegration
<1>9. Recovering'
  <2>1. SUFFICES ASSUME loop.pc \in RecoveryPc
                 PROVE  /\ loop.pc # "stop" => live' = {}
                        /\ loop.pc \notin {"stop", "commits"} => loop.found = {}
                        /\ \A a \in Active(run') :
                             run'.attempts[a].commit /\ exec'[a] = "none" => a \in loop.found
                        /\ \A a \in loop.found : Found(a)'
    BY DEF Recovering
  <2>2. /\ loop.pc # "stop" => live = {}
        /\ loop.pc \notin {"stop", "commits"} => loop.found = {}
        /\ \A a \in Active(run) : run.attempts[a].commit /\ exec[a] = "none" => a \in loop.found
        /\ \A a \in loop.found : Found(a)
    BY <1>1, <2>1 DEF Recovering
  <2>3. \A a \in Active(run') : run'.attempts[a].commit /\ exec'[a] = "none" => a \in loop.found
    <3>1. Active(run') \subseteq DOMAIN run.attempts
      BY <1>3 DEF Active
    <3> QED
      BY <1>3, <2>2, <3>1
  <2>4. ASSUME NEW a \in loop.found
        PROVE  Found(a)'
    <3>1. Found(a) /\ a \in DOMAIN run.attempts /\ Active(run) \subseteq DOMAIN run.attempts
      BY <1>2, <2>2 DEF Active
    <3> QED
      BY <1>3, <1>5, <1>6, <3>1 DEF Found
  <2> QED
    BY <2>2, <2>3, <2>4
<1>10. BranchKnown'
  BY <1>1, <1>4, BranchStays DEF Beside
<1>11. NoWorkerOutlives'
  BY <1>1, <1>2, <1>3 DEF NoWorkerOutlives
<1> QED
  BY <1>7, <1>8, <1>9, <1>10, <1>11

\* The parts of the type of the next state.
LEMMA TypeNext ==
  ASSUME run' \in RunRecord, run'.blocked \subseteq DOMAIN run'.attempts,
         branch' \in Seq(Tasks),
         advanced' \subseteq DOMAIN run'.attempts, live' \subseteq DOMAIN run'.attempts,
         loop' \in LoopRecord',
         exec' \in [DOMAIN run'.attempts -> ExecPc],
         ask' \in [DOMAIN run'.attempts -> {"none", "asking", "asked"}],
         cancel' \in CancelRecord', starting' \in SUBSET {"branch", "lease"},
         count' \in [troubles : 0..MaxTroubles, asks : 0..MaxAsks]
  PROVE  TypeOK'
<1>1. TypeOK' <=> (/\ run \in RunRecord /\ run.blocked \subseteq DOMAIN run.attempts
             /\ branch \in Seq(Tasks)
             /\ advanced \subseteq DOMAIN run.attempts /\ live \subseteq DOMAIN run.attempts
             /\ loop \in LoopRecord
             /\ exec \in [DOMAIN run.attempts -> ExecPc]
             /\ ask \in [DOMAIN run.attempts -> {"none", "asking", "asked"}]
             /\ cancel \in CancelRecord /\ starting \in SUBSET {"branch", "lease"}
             /\ count \in [troubles : 0..MaxTroubles, asks : 0..MaxAsks])'
  BY TypeParts, PTL
<1>2. RunRecord' = RunRecord
  BY DEF RunRecord
<1> QED
  BY <1>1, <1>2

\* The end of an active attempt is a step beside the loop.
LEMMA BesideEnds ==
  ASSUME NEW r \in RunRecord, RunSound(r), NEW q, NEW a \in Active(r),
         NEW v \in {"failed", "succeeded", "validating"}, Ends(r, q, a, v),
         q.state \in {r.state, "failed"}, NEW mine, a \in mine
  PROVE  Beside(r, q, mine)
<1> DEFINE own == r.attempts[a].task
<1>1. Active(r) \subseteq DOMAIN r.attempts /\ own \in Tasks /\ r.tasks[own].state \in AtWork
  BY RunFields DEF RunSound, Tracked
<1>2. Active(q) \subseteq Active(r)
  BY DEF Ends, Active
<1>3. \A b \in DOMAIN r.attempts :
       /\ q.attempts[b].task = r.attempts[b].task
       /\ q.attempts[b].evidence = r.attempts[b].evidence
       /\ q.attempts[b].commit = r.attempts[b].commit
       /\ q.attempts[b].state = IF b = a THEN v ELSE r.attempts[b].state
  BY DEF Ends
<1>4. \A b \in DOMAIN r.attempts : b \notin mine \/ b \notin Active(r) => b # a
  OBVIOUS
<1>5. \A t \in Tasks :
        /\ q.tasks[t].integrated = r.tasks[t].integrated
        /\ q.tasks[t].error = r.tasks[t].error
        /\ r.tasks[t].state \in {"succeeded", "failed"} => q.tasks[t].state = r.tasks[t].state
  BY <1>1 DEF Ends, Movables, AtWork
<1>6. ~Ended(r)
  BY DEF Ended
<1>7. DOMAIN q.attempts = DOMAIN r.attempts
  BY DEF Ends
<1> QED
  BY <1>2, <1>3, <1>4, <1>5, <1>6, <1>7 DEF Beside

\* And so is the mark of one.
LEMMA BesideMark ==
  ASSUME NEW r \in RunRecord, RunSound(r), NEW q, NEW a \in Active(r),
         q.tasks = r.tasks, DOMAIN q.attempts = DOMAIN r.attempts,
         \A b \in DOMAIN r.attempts : b # a => q.attempts[b] = r.attempts[b],
         q.attempts[a].task = r.attempts[a].task, q.attempts[a].state \in ActiveStates,
         r.attempts[a].evidence => q.attempts[a].evidence,
         r.attempts[a].commit => q.attempts[a].commit,
         q.state \in {r.state, "failed"}, NEW mine, a \in mine
  PROVE  Beside(r, q, mine)
<1>1. Active(q) \subseteq Active(r) /\ ~Ended(r) /\ q.attempts[a].state # "interrupted"
  BY DEF Active, Ended, ActiveStates
<1>2. \A b \in DOMAIN r.attempts : b \notin mine \/ b \notin Active(r) => b # a
  OBVIOUS
<1> QED
  BY <1>1, <1>2 DEF Beside

\* Questions are beside everything.
LEMMA BesideSame ==
  ASSUME NEW r, NEW q, q.state = r.state, q.tasks = r.tasks, q.attempts = r.attempts, NEW mine
  PROVE  Beside(r, q, mine)
BY DEF Beside, Active, Ended

\* What no step may do: interrupt a committed attempt that has no monitor.
Spared ==
  \A a \in Active(run) :
    run.attempts[a].commit /\ exec[a] = "none" => run'.attempts[a].state # "interrupted"

LEMMA BesideSpared ==
  ASSUME NEW mine, Beside(run, run', mine)
  PROVE  Spared
BY DEF Spared, Beside, Active, ActiveStates

\* A monitor moves on.
LEMMA MonitorKept ==
  ASSUME Inv, NEW a \in DOMAIN run.attempts, NEW pc \in ExecPc, exec[a] # "none", pc # "none",
         exec' = [exec EXCEPT ![a] = pc],
         run' \in RunRecord, RunSound(run'), Beside(run, run', Monitored),
         live' \subseteq live, advanced' \subseteq DOMAIN run.attempts,
         UNCHANGED <<branch, loop, ask, cancel, starting, count>>,
         pc \in {"committing", "committed", "recorded"} => run'.attempts[a].evidence,
         pc = "recorded" => run'.attempts[a].commit
  PROVE  Inv' /\ Spared
<1>1. TypeOK /\ Monitors
  BY DEF Inv
<1>2. /\ run \in RunRecord /\ branch \in Seq(Tasks) /\ live \subseteq DOMAIN run.attempts
      /\ loop \in LoopRecord /\ exec \in [DOMAIN run.attempts -> ExecPc]
      /\ ask \in [DOMAIN run.attempts -> {"none", "asking", "asked"}] /\ cancel \in CancelRecord
      /\ starting \in SUBSET {"branch", "lease"} /\ count \in [troubles : 0..MaxTroubles, asks : 0..MaxAsks]
  BY <1>1, TypeParts
<1>3. DOMAIN run'.attempts = DOMAIN run.attempts
      /\ \A b \in DOMAIN run.attempts : /\ run.attempts[b].evidence => run'.attempts[b].evidence
                                        /\ run.attempts[b].commit => run'.attempts[b].commit
  BY DEF Beside
<1>4. /\ exec' \in [DOMAIN run.attempts -> ExecPc] /\ DOMAIN exec' = DOMAIN exec
      /\ \A b \in DOMAIN run.attempts : exec'[b] = IF b = a THEN pc ELSE exec[b]
  BY <1>2
<1>5. run'.blocked \subseteq DOMAIN run'.attempts
  BY DEF RunSound, QuestionsSound, Active
<1>6. LoopRecord' = LoopRecord /\ CancelRecord' = CancelRecord
  BY <1>3 DEF LoopRecord, CancelRecord
<1>7. TypeOK'
  BY <1>2, <1>3, <1>4, <1>5, <1>6, TypeNext
<1>8. Monitors'
  BY <1>1, <1>3, <1>4 DEF Monitors
<1>9. \A b \in DOMAIN run.attempts : (exec'[b] = "none") <=> (exec[b] = "none")
  BY <1>4
<1>10. Launching' /\ AtIntegration' /\ Recovering' /\ BranchKnown' /\ NoWorkerOutlives'
  BY <1>4, <1>9, BesideKept
<1> QED
  BY <1>7, <1>8, <1>10, BesideSpared DEF Inv

\* The end of an active attempt, by whoever watches it.
LEMMA EndActive ==
  ASSUME NEW r \in RunRecord, RunSound(r), NEW q \in RunRecord, NEW a \in Active(r),
         NEW v \in {"failed", "succeeded", "validating"}, Ends(r, q, a, v),
         v = "succeeded" => r.attempts[a].commit,
         v = "failed" => q.state = "failed",
         q.state \in {r.state, "failed"}, q.blocked \subseteq Active(q), NEW mine, a \in mine
  PROVE  RunSound(q) /\ Beside(r, q, mine)
<1>1. /\ a \in DOMAIN r.attempts /\ r.attempts[a].task \in Tasks
      /\ r.tasks[r.attempts[a].task].integrated \in BOOLEAN
  BY RunFields
<1>2. r.tasks[r.attempts[a].task].state \in AtWork
  BY DEF RunSound, Tracked
<1>3. ~r.tasks[r.attempts[a].task].integrated
  BY <1>1, <1>2 DEF RunSound, TasksSound, AtWork
<1>4. \A b \in Active(r) : r.attempts[b].task = r.attempts[a].task => b = a
  BY DEF RunSound, AttemptsSound
<1>5. r.state # "awaiting_approval" /\ r.state # "cancelled"
  BY <1>1 DEF RunSound, ApprovalSound, Tracked
<1>6. RunSound(q)
  BY <1>1, <1>3, <1>4, <1>5, EndSound
<1> QED
  BY <1>6, BesideEnds

LEMMA Unblocked ==
  ASSUME NEW r \in RunRecord, RunSound(r), NEW a
  PROVE  LET q == WithoutBlocked(r, a) IN
         /\ q \in RunRecord /\ RunSound(q)
         /\ q.state = r.state /\ q.deps = r.deps /\ q.tasks = r.tasks /\ q.attempts = r.attempts
         /\ q.blocked = r.blocked \ {a}
<1> DEFINE q == WithoutBlocked(r, a)
<1>1. /\ q \in RunRecord /\ q.state = r.state /\ q.deps = r.deps /\ q.tasks = r.tasks
      /\ q.attempts = r.attempts /\ q.blocked = r.blocked \ {a}
  BY RunFields DEF WithoutBlocked, RunRecord
<1>2. q.blocked \subseteq Active(q)
  BY <1>1 DEF RunSound, QuestionsSound, Active
<1> HIDE DEF q
<1>3. RunSound(q)
  BY <1>1, <1>2, StateSound
<1> QED
  BY <1>1, <1>3 DEF q

LEMMA SettleInv ==
  ASSUME Inv, NEW a \in DOMAIN exec, WorkerSettles(a) \/ FinalizationThrows(a) \/ CommitTaskWork(a)
  PROVE  Inv' /\ Spared
<1>1. /\ run \in RunRecord /\ a \in DOMAIN run.attempts /\ RunSound(run) /\ Monitors
      /\ advanced \subseteq DOMAIN run.attempts
  BY TypeFacts, TypeParts DEF Inv
<1>2. run' = run /\ Beside(run, run', Monitored)
  BY BesideSame DEF WorkerSettles, FinalizationThrows, CommitTaskWork, durable
<1>3. /\ exec[a] # "none" /\ live' \subseteq live /\ advanced' \subseteq DOMAIN run.attempts
      /\ UNCHANGED <<branch, loop, ask, cancel, starting, count>>
  BY <1>1 DEF WorkerSettles, FinalizationThrows, CommitTaskWork, durable
<1>4. PICK pc \in {"ended", "broken", "failing", "committed"} :
        exec' = [exec EXCEPT ![a] = pc] /\ (pc = "committed" => run'.attempts[a].evidence)
  BY <1>1, <1>2 DEF WorkerSettles, FinalizationThrows, CommitTaskWork, Reach, Monitors
<1>5. pc \in ExecPc /\ pc # "none" /\ pc # "recorded" /\ pc # "committing"
  BY DEF ExecPc
<1> QED
  BY <1>1, <1>2, <1>3, <1>4, <1>5, MonitorKept

\* A monitor that only moves on, as when it finds its attempt ended by somebody else.
LEMMA MovesOn ==
  ASSUME Inv, NEW a \in DOMAIN exec, exec[a] # "none",
         NEW pc \in {"validating", "failing", "done", "rejected"}, Reach(a, pc),
         UNCHANGED <<run, live, advanced, branch, loop, ask, cancel, starting, count>>
  PROVE  Inv' /\ Spared
<1>1. /\ run \in RunRecord /\ a \in DOMAIN run.attempts /\ RunSound(run)
      /\ advanced \subseteq DOMAIN run.attempts
  BY TypeFacts, TypeParts DEF Inv
<1>2. run' = run /\ Beside(run, run', Monitored)
  BY BesideSame
<1>3. pc \in ExecPc /\ pc # "none" /\ pc \notin {"recorded", "committing", "committed"}
  BY DEF ExecPc
<1>4. exec' = [exec EXCEPT ![a] = pc]
  BY DEF Reach
<1> QED
  BY <1>1, <1>2, <1>3, <1>4, MonitorKept

\* A monitor that writes the end of its attempt.
LEMMA MonitorEnds ==
  ASSUME Inv, NEW a \in DOMAIN exec, exec[a] # "none",
         NEW pc \in {"validating", "done"}, Reach(a, pc),
         NEW v \in {"failed", "succeeded", "validating"}, a \in Active(run),
         run' \in RunRecord, Ends(run, run', a, v),
         v = "succeeded" => run.attempts[a].commit,
         v = "failed" => run'.state = "failed",
         run'.state \in {run.state, "failed"}, run'.blocked \subseteq Active(run'),
         UNCHANGED <<live, advanced, branch, loop, ask, cancel, starting, count>>
  PROVE  Inv' /\ Spared
<1>1. /\ run \in RunRecord /\ a \in DOMAIN run.attempts /\ RunSound(run)
      /\ advanced \subseteq DOMAIN run.attempts
  BY TypeFacts, TypeParts DEF Inv
<1>2. a \in Monitored
  BY <1>1 DEF Monitored
<1>3. RunSound(run') /\ Beside(run, run', Monitored)
  BY <1>1, <1>2, EndActive
<1>4. pc \in ExecPc /\ pc # "none" /\ pc \notin {"recorded", "committing", "committed"}
  BY DEF ExecPc
<1>5. exec' = [exec EXCEPT ![a] = pc]
  BY DEF Reach
<1> QED
  BY <1>1, <1>3, <1>4, <1>5, MonitorKept

LEMMA PersistInv ==
  ASSUME Inv, NEW a \in DOMAIN exec, PersistResult(a)
  PROVE  Inv' /\ Spared
<1> DEFINE r == WithoutBlocked(run, a)
<1>1. run \in RunRecord /\ a \in DOMAIN run.attempts /\ RunSound(run)
  BY TypeFacts DEF Inv
<1>2. exec[a] # "none" /\ UNCHANGED <<branch, advanced, live, loop, ask, cancel, starting, count>>
  BY DEF PersistResult
<1>3. CASE run.attempts[a].state \notin {"launched", "running"}
  <2>1. UNCHANGED run /\ \E pc \in {"validating", "done"} : Reach(a, pc)
    BY <1>3 DEF PersistResult
  <2> QED
    BY <1>2, <2>1, MovesOn
<1>4. CASE run.attempts[a].state \in {"launched", "running"}
  <2>1. /\ r \in RunRecord /\ RunSound(r) /\ r.state = run.state /\ r.tasks = run.tasks
        /\ r.attempts = run.attempts /\ r.blocked = run.blocked \ {a}
    BY <1>1, Unblocked
  <2>2. a \in Active(run) /\ run.blocked \subseteq Active(run)
    BY <1>1, <1>4 DEF Active, ActiveStates, RunSound, QuestionsSound
  <2>3. PICK v \in {"failed", "validating"} :
          /\ run' = IF v = "failed" THEN FailAttempt(r, a)
                    ELSE reconcileTaskStates(SetTask(SetAttempt(r, a, v), r.attempts[a].task, v))
          /\ \E pc \in {"validating", "done"} : Reach(a, pc)
    BY <1>4, <2>1 DEF PersistResult
  <2> HIDE DEF r
  <2>4. /\ run' \in RunRecord /\ run'.blocked = r.blocked /\ Ends(r, run', a, v)
        /\ run'.state = IF v = "failed" THEN "failed" ELSE r.state
    <3>1. CASE v = "failed"
      BY <1>1, <2>1, <2>3, <3>1, FailWritten
    <3>2. CASE v = "validating"
      BY <1>1, <2>1, <2>3, <3>2, EndWritten
    <3> QED
      BY <3>1, <3>2
  <2>5. Ends(run, run', a, v)
    BY <2>1, <2>4 DEF Ends
  <2>6. \A b \in Active(run) : b # a => b \in Active(run')
    BY <2>5 DEF Ends, Active
  <2>7. run'.blocked \subseteq Active(run')
    BY <2>1, <2>2, <2>4, <2>6
  <2> QED
    BY <1>2, <2>1, <2>2, <2>3, <2>4, <2>5, <2>7, MonitorEnds
<1> QED
  BY <1>3, <1>4

\* An attempt gets its evidence or its commit.
Marks(r, q, a) ==
  \/ q = [r EXCEPT !.attempts[a].evidence = TRUE]
  \/ q = [r EXCEPT !.attempts[a].commit = TRUE] /\ r.attempts[a].evidence

LEMMA Marked ==
  ASSUME NEW r \in RunRecord, NEW a \in DOMAIN r.attempts,
         NEW q, Marks(r, q, a)
  PROVE  /\ q \in RunRecord
         /\ q.state = r.state /\ q.deps = r.deps /\ q.tasks = r.tasks /\ q.blocked = r.blocked
         /\ DOMAIN q.attempts = DOMAIN r.attempts
         /\ \A b \in DOMAIN r.attempts : b # a => q.attempts[b] = r.attempts[b]
         /\ q.attempts[a].task = r.attempts[a].task /\ q.attempts[a].state = r.attempts[a].state
         /\ q.attempts[a].evidence
         /\ r.attempts[a].commit => q.attempts[a].commit
         /\ q = [r EXCEPT !.attempts[a].commit = TRUE] => q.attempts[a].commit
         /\ q.attempts[a].commit => q.attempts[a].evidence
<1>1. r.attempts[a] \in Attempt /\ r.attempts \in Seq(Attempt)
  BY RunFields
<1>2. CASE q = [r EXCEPT !.attempts[a].evidence = TRUE]
  <2> DEFINE w == [r.attempts[a] EXCEPT !.evidence = TRUE]
  <2>1. /\ w \in Attempt /\ w.task = r.attempts[a].task /\ w.state = r.attempts[a].state
        /\ w.evidence = TRUE /\ w.commit = r.attempts[a].commit
    BY <1>1 DEF Attempt
  <2>2. q = [r EXCEPT !.attempts[a] = w]
    BY <1>2
  <2> HIDE DEF w
  <2>3. /\ q \in RunRecord
        /\ q.state = r.state /\ q.deps = r.deps /\ q.tasks = r.tasks /\ q.blocked = r.blocked
        /\ DOMAIN q.attempts = DOMAIN r.attempts
        /\ \A b \in DOMAIN r.attempts : q.attempts[b] = IF b = a THEN w ELSE r.attempts[b]
    BY <2>1, <2>2, AttemptWritten
  <2>4. q = [r EXCEPT !.attempts[a].commit = TRUE] => q.attempts[a].commit
    <3>1. ASSUME q = [r EXCEPT !.attempts[a].commit = TRUE] PROVE q.attempts[a].commit
      <4>1. q.attempts = [r.attempts EXCEPT ![a] = [r.attempts[a] EXCEPT !.commit = TRUE]]
        BY <1>1, <3>1 DEF RunRecord
      <4>2. q.attempts[a] = [r.attempts[a] EXCEPT !.commit = TRUE]
        BY <1>1, <4>1
      <4> QED
        BY <1>1, <4>2 DEF Attempt
    <3> QED
      BY <3>1
  <2> QED
    BY <2>1, <2>3, <2>4
<1>3. CASE q = [r EXCEPT !.attempts[a].commit = TRUE] /\ r.attempts[a].evidence
  <2> DEFINE w == [r.attempts[a] EXCEPT !.commit = TRUE]
  <2>1. /\ w \in Attempt /\ w.task = r.attempts[a].task /\ w.state = r.attempts[a].state
        /\ w.evidence = r.attempts[a].evidence /\ w.commit = TRUE
    BY <1>1 DEF Attempt
  <2>2. q = [r EXCEPT !.attempts[a] = w]
    BY <1>3
  <2> HIDE DEF w
  <2>3. /\ q \in RunRecord
        /\ q.state = r.state /\ q.deps = r.deps /\ q.tasks = r.tasks /\ q.blocked = r.blocked
        /\ DOMAIN q.attempts = DOMAIN r.attempts
        /\ \A b \in DOMAIN r.attempts : q.attempts[b] = IF b = a THEN w ELSE r.attempts[b]
    BY <2>1, <2>2, AttemptWritten
  <2> QED
    BY <1>3, <2>1, <2>3
<1> QED
  BY <1>2, <1>3 DEF Marks

LEMMA MonitorMarks ==
  ASSUME Inv, NEW a \in DOMAIN exec, exec[a] # "none", NEW pc \in ExecPc, pc # "none", Reach(a, pc),
         Validating(a), NEW q, Marks(run, q, a),
         run' = q \/ run' = SetRun(q, "failed"),
         pc = "recorded" => q = [run EXCEPT !.attempts[a].commit = TRUE],
         UNCHANGED <<live, advanced, branch, loop, ask, cancel, starting, count>>
  PROVE  Inv' /\ Spared
<1>1. /\ run \in RunRecord /\ a \in DOMAIN run.attempts /\ RunSound(run)
      /\ advanced \subseteq DOMAIN run.attempts
  BY TypeFacts, TypeParts DEF Inv
<1>2. /\ q \in RunRecord
      /\ q.state = run.state /\ q.deps = run.deps /\ q.tasks = run.tasks /\ q.blocked = run.blocked
      /\ DOMAIN q.attempts = DOMAIN run.attempts
      /\ \A b \in DOMAIN run.attempts : b # a => q.attempts[b] = run.attempts[b]
      /\ q.attempts[a].task = run.attempts[a].task /\ q.attempts[a].state = "validating"
      /\ q.attempts[a].evidence
      /\ run.attempts[a].commit => q.attempts[a].commit
      /\ q = [run EXCEPT !.attempts[a].commit = TRUE] => q.attempts[a].commit
      /\ q.attempts[a].commit => q.attempts[a].evidence
  BY <1>1, Marked DEF Validating
<1>3. /\ run' \in RunRecord /\ run'.state \in {run.state, "failed"} /\ run'.tasks = q.tasks
      /\ run'.attempts = q.attempts /\ run'.blocked = q.blocked
  BY <1>2 DEF SetRun, RunRecord, RunStates
<1>4. a \in Active(run) /\ Active(run') = Active(run) /\ run.blocked \subseteq Active(run)
  BY <1>1, <1>2, <1>3 DEF Active, ActiveStates, Validating, RunSound, QuestionsSound
<1>5. RunSound(run')
  BY <1>1, <1>2, <1>3, <1>4, MarkSound DEF Validating
<1>6. a \in Monitored /\ "validating" \in ActiveStates
  BY <1>1 DEF Monitored, ActiveStates
<1>7. Beside(run, run', Monitored)
  BY <1>1, <1>2, <1>3, <1>4, <1>6, BesideMark
<1>8. exec' = [exec EXCEPT ![a] = pc]
  BY DEF Reach
<1> QED
  BY <1>1, <1>2, <1>3, <1>5, <1>7, <1>8, MonitorKept

LEMMA RecordsInv ==
  ASSUME Inv, NEW a \in DOMAIN exec, RecordEvidence(a) \/ RecordCommit(a)
  PROVE  Inv' /\ Spared
<1>1. /\ a \in DOMAIN run.attempts /\ exec[a] # "none"
      /\ UNCHANGED <<live, advanced, branch, loop, ask, cancel, starting, count>>
  BY TypeFacts DEF Inv, RecordEvidence, RecordCommit
<1>2. CASE RecordEvidence(a) /\ run.state = "running" /\ Validating(a)
  <2>1. run' = [run EXCEPT !.attempts[a].evidence = TRUE] /\ Reach(a, "committing")
    BY <1>2 DEF RecordEvidence
  <2>2. "committing" \in ExecPc /\ "committing" # "none" /\ "committing" # "recorded"
    BY DEF ExecPc
  <2> QED
    BY <1>1, <1>2, <2>1, <2>2, MonitorMarks DEF Marks
<1>3. CASE RecordCommit(a) /\ Validating(a)
  <2>1. run' = [run EXCEPT !.attempts[a].commit = TRUE] /\ Reach(a, "recorded")
    BY <1>3 DEF RecordCommit
  <2>2. "recorded" \in ExecPc /\ "recorded" # "none"
    BY DEF ExecPc
  <2>3. run.attempts[a].evidence
    BY <1>1, <1>3 DEF RecordCommit, Inv, Monitors
  <2> QED
    BY <1>1, <1>3, <2>1, <2>2, <2>3, MonitorMarks DEF Marks
<1>4. CASE \/ RecordEvidence(a) /\ ~(run.state = "running" /\ Validating(a))
           \/ RecordCommit(a) /\ ~Validating(a)
  <2>1. UNCHANGED run /\ \E pc \in {"done", "failing"} : Reach(a, pc)
    BY <1>4 DEF RecordEvidence, RecordCommit
  <2> QED
    BY <1>1, <2>1, MovesOn
<1> QED
  BY <1>2, <1>3, <1>4

LEMMA SucceedInv ==
  ASSUME Inv, NEW a \in DOMAIN exec, RecordSucceeded(a)
  PROVE  Inv' /\ Spared
<1>1. /\ a \in DOMAIN run.attempts /\ exec[a] # "none" /\ run \in RunRecord
      /\ UNCHANGED <<live, advanced, branch, loop, ask, cancel, starting, count>>
  BY TypeFacts DEF Inv, RecordSucceeded
<1>2. CASE UNCHANGED run
  <2>1. \E pc \in {"done", "failing"} : Reach(a, pc)
    BY DEF RecordSucceeded
  <2> QED
    BY <1>1, <1>2, <2>1, MovesOn
<1>3. CASE Validating(a) /\ Store(Succeeds(run, a)) /\ Reach(a, "done")
  <2>1. a \in Active(run) /\ run.attempts[a].commit
    BY <1>1, <1>3 DEF RecordSucceeded, Inv, Monitors, Active, ActiveStates, Validating
  <2>2. /\ run' \in RunRecord /\ run'.state = run.state /\ run'.blocked = run.blocked
        /\ Ends(run, run', a, "succeeded")
    BY <1>1, <1>3, EndWritten DEF Store, Succeeds
  <2>3. run'.blocked \subseteq Active(run')
    BY <1>3 DEF Store, QuestionsSound
  <2> QED
    BY <1>1, <1>3, <2>1, <2>2, <2>3, MonitorEnds
<1> QED
  BY <1>2, <1>3 DEF RecordSucceeded

LEMMA FinalizeFailInv ==
  ASSUME Inv, NEW a \in DOMAIN exec, FailFinalization(a)
  PROVE  Inv' /\ Spared
<1>1. /\ a \in DOMAIN run.attempts /\ exec[a] # "none" /\ run \in RunRecord /\ RunSound(run)
      /\ UNCHANGED <<live, advanced, branch, loop, ask, cancel, starting, count>>
  BY TypeFacts DEF Inv, FailFinalization
<1>2. CASE UNCHANGED run /\ \E pc \in {"done", "rejected"} : Reach(a, pc)
  BY <1>1, <1>2, MovesOn
<1>3. CASE Validating(a) /\ Store(FailAttempt(run, a)) /\ Reach(a, "done")
  <2>1. a \in Active(run)
    BY <1>1, <1>3 DEF Active, ActiveStates, Validating
  <2>2. /\ run' \in RunRecord /\ run'.state = "failed" /\ Ends(run, run', a, "failed")
    BY <1>1, <1>3, FailWritten DEF Store
  <2>3. run'.blocked \subseteq Active(run')
    BY <1>3 DEF Store, QuestionsSound
  <2> QED
    BY <1>1, <1>3, <2>1, <2>2, <2>3, MonitorEnds
<1>4. CASE Validating(a) /\ Durable(a) /\ run' = KeepCommit(a) /\ Reach(a, "done")
  <2>1. run.attempts[a].evidence
    BY <1>1, <1>4 DEF Durable, RunSound, AttemptsSound
  <2>2. "done" \in ExecPc /\ "done" # "none" /\ "done" # "recorded"
    BY DEF ExecPc
  <2> QED
    BY <1>1, <1>4, <2>1, <2>2, MonitorMarks DEF KeepCommit, Marks
<1> QED
  BY <1>2, <1>3, <1>4 DEF FailFinalization

LEMMA MonitorInv ==
  ASSUME Inv, NEW a \in DOMAIN exec, MonitorStep(a)
  PROVE  Inv' /\ Spared
BY SettleInv, PersistInv, RecordsInv, SucceedInv, FinalizeFailInv DEF MonitorStep

\* A step beside the loop and the monitors.
LEMMA BesideInv ==
  ASSUME Inv, run' \in RunRecord, RunSound(run'), Beside(run, run', Monitored),
         live' \subseteq live,
         ask' \in [DOMAIN run.attempts -> {"none", "asking", "asked"}],
         starting' \in SUBSET {"branch", "lease"},
         starting' = starting \/ run'.state # "awaiting_approval",
         cancel' \in CancelRecord, count' \in [troubles : 0..MaxTroubles, asks : 0..MaxAsks],
         UNCHANGED <<branch, advanced, loop, exec>>
  PROVE  Inv' /\ Spared
<1>1. TypeOK /\ Monitors
  BY DEF Inv
<1>2. /\ run \in RunRecord /\ branch \in Seq(Tasks) /\ live \subseteq DOMAIN run.attempts
      /\ advanced \subseteq DOMAIN run.attempts
      /\ loop \in LoopRecord /\ exec \in [DOMAIN run.attempts -> ExecPc]
  BY <1>1, TypeParts
<1>3. DOMAIN run'.attempts = DOMAIN run.attempts
      /\ \A b \in DOMAIN run.attempts : /\ run.attempts[b].evidence => run'.attempts[b].evidence
                                        /\ run.attempts[b].commit => run'.attempts[b].commit
  BY DEF Beside
<1>4. run'.blocked \subseteq DOMAIN run'.attempts
  BY DEF RunSound, QuestionsSound, Active
<1>5. LoopRecord' = LoopRecord /\ CancelRecord' = CancelRecord
  BY <1>3 DEF LoopRecord, CancelRecord
<1>6. TypeOK'
  BY <1>2, <1>3, <1>4, <1>5, TypeNext
<1>7. Monitors'
  BY <1>1, <1>3 DEF Monitors
<1>8. Launching' /\ AtIntegration' /\ Recovering' /\ BranchKnown' /\ NoWorkerOutlives'
  BY BesideKept
<1> QED
  BY <1>6, <1>7, <1>8, BesideSpared DEF Inv

LEMMA AskInv ==
  ASSUME Inv, NEW a \in DOMAIN exec, Ask(a) \/ AskStep(a)
  PROVE  Inv' /\ Spared
<1>1. /\ run \in RunRecord /\ RunSound(run) /\ a \in DOMAIN run.attempts
      /\ ask \in [DOMAIN run.attempts -> {"none", "asking", "asked"}] /\ cancel \in CancelRecord
      /\ count \in [troubles : 0..MaxTroubles, asks : 0..MaxAsks]
      /\ run.blocked \subseteq Active(run) /\ starting \in SUBSET {"branch", "lease"}
  BY TypeFacts, TypeParts DEF Inv, RunSound, QuestionsSound
<1>2. /\ UNCHANGED <<live, branch, advanced, loop, exec, cancel, starting>>
      /\ ask' \in [DOMAIN run.attempts -> {"none", "asking", "asked"}]
  BY <1>1 DEF Ask, AskStep, Block, ClearBlockedRequest, durable
<1>3. count' \in [troubles : 0..MaxTroubles, asks : 0..MaxAsks]
  <2>1. CASE Ask(a)
    BY <1>1, <2>1, Constants DEF Ask
  <2>2. CASE AskStep(a)
    BY <1>1, <2>2 DEF AskStep, Block, ClearBlockedRequest
  <2> QED
    BY <2>1, <2>2
<1>4. PICK b \in SUBSET Active(run) : run' = run \/ run' = [run EXCEPT !.blocked = b]
  <2>1. CASE Ask(a)
    BY <2>1 DEF Ask, durable
  <2>2. CASE Block(a)
    <3>1. run' = run \/ (a \in Active(run) /\ run' = [run EXCEPT !.blocked = @ \cup {a}])
      BY <2>2 DEF Block
    <3> QED
      BY <1>1, <3>1
  <2>3. CASE ClearBlockedRequest(a)
    <3>1. run' = [run EXCEPT !.blocked = @ \ {a}]
      BY <2>3 DEF ClearBlockedRequest, WithoutBlocked
    <3> QED
      BY <1>1, <3>1
  <2> QED
    BY <2>1, <2>2, <2>3 DEF AskStep
<1>5. /\ run' \in RunRecord /\ run'.state = run.state /\ run'.tasks = run.tasks
      /\ run'.attempts = run.attempts /\ run'.blocked \subseteq Active(run)
  <2>1. b \subseteq Nat
    BY <1>1 DEF Active, RunRecord
  <2> QED
    BY <1>1, <1>4, <2>1 DEF RunRecord
<1>6. RunSound(run')
  <2>1. Active(run') = Active(run)
    BY <1>5 DEF Active
  <2> QED
    BY <1>1, <1>5, <2>1, StateSound
<1> QED
  BY <1>1, <1>2, <1>3, <1>5, <1>6, BesideSame, BesideInv

LEMMA CancelInv ==
  ASSUME Inv, Cancel
  PROVE  Inv' /\ Spared
<1>1. /\ run \in RunRecord /\ RunSound(run)
      /\ ask \in [DOMAIN run.attempts -> {"none", "asking", "asked"}]
      /\ count \in [troubles : 0..MaxTroubles, asks : 0..MaxAsks]
      /\ loop.task \in Tasks \cup {NoTask} /\ DOMAIN exec = DOMAIN run.attempts
      /\ starting \in SUBSET {"branch", "lease"}
  BY TypeFacts, TypeParts DEF Inv
<1>2. Committing \subseteq DOMAIN run.attempts /\ Integrating \in Tasks \cup {NoTask}
  BY <1>1 DEF Committing, Integrating
<1>3. cancel' \in CancelRecord
  BY <1>2 DEF Cancel, CancelRecord
<1>4. UNCHANGED <<run, live, ask, starting, count, branch, advanced, loop, exec>>
  BY DEF Cancel, durable
<1> QED
  BY <1>1, <1>3, <1>4, BesideSame, BesideInv

\* A cancellation is a step beside the loop.
LEMMA CancelRunInv ==
  ASSUME Inv, CancelRun
  PROVE  Inv' /\ Spared
<1>1. /\ run \in RunRecord /\ RunSound(run) /\ starting \in SUBSET {"branch", "lease"}
      /\ ask \in [DOMAIN run.attempts -> {"none", "asking", "asked"}]
      /\ count \in [troubles : 0..MaxTroubles, asks : 0..MaxAsks]
  BY TypeFacts, TypeParts DEF Inv
<1>2. cancel' \in CancelRecord
  BY DEF CancelRun, CancelRecord
<1>3. UNCHANGED <<ask, starting, count, branch, advanced, loop, exec>>
  BY DEF CancelRun
<1>4. CASE run.state \in TerminalRun
  <2>1. UNCHANGED <<run, live>>
    BY <1>4 DEF CancelRun
  <2> QED
    BY <1>1, <1>2, <1>3, <2>1, BesideSame, BesideInv
<1>5. CASE run.state \notin TerminalRun
  <2>1. run' = Cancelled(run) /\ live' \subseteq live
    BY <1>5 DEF CancelRun
  <2>2. /\ run' \in RunRecord /\ RunSound(run') /\ Active(run') = {}
        /\ run'.state = "cancelled" /\ run'.attempts = Over(run, "cancelled")
        /\ \A t \in Tasks :
             /\ run'.tasks[t].integrated = run.tasks[t].integrated
             /\ run'.tasks[t].state = IF run.tasks[t].state = "succeeded" THEN "succeeded" ELSE "cancelled"
    BY <1>1, <1>5, <2>1, CancelWritten
  <2>3. /\ DOMAIN run'.attempts = DOMAIN run.attempts
        /\ \A a \in DOMAIN run.attempts :
             /\ run'.attempts[a].task = run.attempts[a].task
             /\ run'.attempts[a].evidence = run.attempts[a].evidence
             /\ run'.attempts[a].commit = run.attempts[a].commit
             /\ run'.attempts[a].state = IF a \in Active(run) THEN "cancelled" ELSE run.attempts[a].state
    BY <1>1, <2>2, AttemptsOver
  <2>4. \A t \in Tasks : ~run.tasks[t].error
    BY <1>1, <1>5, RunFields DEF RunSound, Tracked, TerminalRun
  <2>5. Ended(run') /\ ~Ended(run)
    BY <1>5, <2>2 DEF Ended, TerminalRun
  <2>6. ASSUME NEW a \in Active(run)
        PROVE  Revoked(run', a)
    <3>1. a \in DOMAIN run.attempts /\ run.attempts[a].task \in Tasks
      BY <1>1, RunFields
    <3>2. run.tasks[run.attempts[a].task].state # "succeeded"
      BY <1>1 DEF RunSound, Tracked, AtWork
    <3> QED
      BY <2>2, <2>3, <2>5, <3>1, <3>2 DEF Revoked
  <2>7. Beside(run, run', Monitored)
    BY <2>2, <2>3, <2>4, <2>5, <2>6 DEF Beside
  <2> QED
    BY <1>1, <1>2, <1>3, <2>1, <2>2, <2>7, BesideInv
<1> QED
  BY <1>4, <1>5

LEMMA PruneInv ==
  ASSUME Inv, Prune
  PROVE  Inv' /\ Spared
<1>1. /\ run \in RunRecord /\ RunSound(run) /\ cancel \in CancelRecord
      /\ starting \in SUBSET {"branch", "lease"}
      /\ ask \in [DOMAIN run.attempts -> {"none", "asking", "asked"}]
      /\ count \in [troubles : 0..MaxTroubles, asks : 0..MaxAsks]
  BY TypeFacts, TypeParts DEF Inv
<1>2. live' \subseteq live /\ UNCHANGED <<run, branch, advanced, loop, exec, ask, cancel, starting, count>>
  BY DEF Prune
<1> QED
  BY <1>1, <1>2, BesideSame, BesideInv

\* What a retry does to the run is beside the loop too.
LEMMA RetryBeside ==
  ASSUME Inv, Retryable, run' = prepareFailedRunRetry
  PROVE  /\ run' \in RunRecord /\ RunSound(run') /\ Beside(run, run', Monitored)
         /\ run'.state = "running" /\ run'.attempts = run.attempts
<1>1. run \in RunRecord /\ RunSound(run)
  BY TypeFacts DEF Inv
<1>2. /\ run' \in RunRecord /\ RunSound(run')
         /\ run'.state = "running" /\ run'.attempts = run.attempts
         /\ \A t \in Tasks :
              /\ run'.tasks[t].integrated = run.tasks[t].integrated
              /\ run.tasks[t].state = "succeeded" => run'.tasks[t].state = "succeeded"
              /\ run.tasks[t].state = "failed" /\ run.tasks[t].error /\ HasSucceeded(run, t)
                   => run'.tasks[t].state = "succeeded"
  BY <1>1, RetryWritten
<1>3. Active(run') = Active(run) /\ ~Ended(run)
  BY <1>2 DEF Retryable, Active, Ended
<1> QED
  BY <1>2, <1>3 DEF Beside

-----------------------------------------------------------------------------
(* The steps of the loop.                                                  *)

\* The parts that do not depend on where the loop is.
LEMMA Base ==
  ASSUME Inv, run' \in RunRecord, RunSound(run'), DOMAIN run'.attempts = DOMAIN run.attempts,
         \A a \in DOMAIN run.attempts :
           /\ run.attempts[a].evidence => run'.attempts[a].evidence
           /\ run.attempts[a].commit => run'.attempts[a].commit
           /\ exec'[a] \in {exec[a], "none", "working"},
         exec' \in [DOMAIN run.attempts -> ExecPc],
         ask' \in [DOMAIN run.attempts -> {"none", "asking", "asked"}],
         cancel' \in CancelRecord, count' \in [troubles : 0..MaxTroubles, asks : 0..MaxAsks],
         starting' = starting \/ starting' \in SUBSET {"branch", "lease"},
         advanced' = advanced, live' \subseteq DOMAIN run.attempts,
         branch' \in Seq(Tasks), loop' \in LoopRecord
  PROVE  TypeOK' /\ RunSound(run') /\ Monitors'
<1>1. /\ advanced \subseteq DOMAIN run.attempts /\ Monitors
      /\ starting' \in SUBSET {"branch", "lease"}
  BY TypeParts DEF Inv
<1>2. run'.blocked \subseteq DOMAIN run'.attempts
  BY DEF RunSound, QuestionsSound, Active
<1>3. LoopRecord' = LoopRecord /\ CancelRecord' = CancelRecord
  BY DEF LoopRecord, CancelRecord
<1>4. TypeOK'
  BY <1>1, <1>2, <1>3, TypeNext
<1>5. Monitors'
  BY <1>1 DEF Monitors
<1> QED
  BY <1>4, <1>5

\* Where the loop knows nothing but that the run was approved.
FreePc == {"idle", "dispatch", "launch", "wait", "integrate", "unblock", "resume"}

LEMMA FreeKept ==
  ASSUME TypeOK' /\ RunSound(run') /\ Monitors', BranchKnown', NoWorkerOutlives',
         loop'.pc \in FreePc \/ (loop'.pc = "unlaunch" /\ loop'.at = 0),
         loop'.pc # "idle" \/ starting' # {} => run'.state # "awaiting_approval"
  PROVE  Inv'
<1>1. Launching'
  BY DEF Launching, AtLaunchPc, LaunchPc, FreePc
<1>2. AtIntegration'
  BY DEF AtIntegration, FreePc
<1>3. Recovering'
  BY DEF Recovering, RecoveryPc, FreePc
<1> QED
  BY <1>1, <1>2, <1>3 DEF Inv

\* No step of these but the one of a recovery interrupts an attempt.
LEMMA NotInterrupted ==
  ASSUME Inv, \A a \in DOMAIN run.attempts :
                run'.attempts[a].state = "interrupted" => run.attempts[a].state = "interrupted"
  PROVE  Spared /\ (live' \subseteq live => NoWorkerOutlives')
<1>1. live \subseteq DOMAIN run.attempts /\ NoWorkerOutlives
  BY TypeFacts DEF Inv
<1> QED
  BY <1>1 DEF Spared, NoWorkerOutlives, Active, ActiveStates

LEMMA Kept ==
  ASSUME Inv
  PROVE  /\ run \in RunRecord /\ RunSound(run)
         /\ exec \in [DOMAIN run.attempts -> ExecPc]
         /\ ask \in [DOMAIN run.attempts -> {"none", "asking", "asked"}] /\ cancel \in CancelRecord
         /\ count \in [troubles : 0..MaxTroubles, asks : 0..MaxAsks]
         /\ advanced \subseteq DOMAIN run.attempts /\ live \subseteq DOMAIN run.attempts
         /\ branch \in Seq(Tasks) /\ loop \in LoopRecord /\ starting \in SUBSET {"branch", "lease"}
         /\ Idle \in LoopRecord
<1>1. Idle \in LoopRecord
  BY DEF Idle, LoopRecord, LoopPc
<1> QED
  BY <1>1, TypeParts DEF Inv

\* A step of the loop that leaves the run alone.
LEMMA LoopMoves ==
  ASSUME Inv, UNCHANGED <<run, branch, advanced, ask, cancel, count>>, live' \subseteq live,
         exec' \in [DOMAIN run.attempts -> ExecPc],
         \A a \in DOMAIN run.attempts : exec'[a] \in {exec[a], "none"},
         loop' \in LoopRecord, loop'.pc \in FreePc \/ (loop'.pc = "unlaunch" /\ loop'.at = 0),
         starting' = starting \/ starting' \in SUBSET {"branch", "lease"},
         run.state # "awaiting_approval"
  PROVE  Inv' /\ Spared
<1>1. TypeOK' /\ RunSound(run') /\ Monitors'
  BY Kept, Base
<1>2. BranchKnown'
  BY BranchStays DEF Inv
<1>3. Spared /\ NoWorkerOutlives'
  BY NotInterrupted
<1> QED
  BY <1>1, <1>2, <1>3, FreeKept

\* A step of the loop that writes the state of the run, or an attempt it is launching.
LEMMA LoopWrites ==
  ASSUME Inv, UNCHANGED <<branch, advanced, ask, cancel, starting, count>>, live' \subseteq live,
         run' \in RunRecord, RunSound(run'), DOMAIN run'.attempts = DOMAIN run.attempts,
         \A a \in DOMAIN run.attempts :
           /\ run'.attempts[a].task = run.attempts[a].task
           /\ run.attempts[a].evidence => run'.attempts[a].evidence
           /\ run.attempts[a].commit => run'.attempts[a].commit
           /\ run'.attempts[a].state = "interrupted" => run.attempts[a].state = "interrupted"
           /\ run.attempts[a].state = "succeeded" => run'.attempts[a].state = "succeeded"
           /\ exec'[a] \in {exec[a], "working"},
         exec' \in [DOMAIN run.attempts -> ExecPc],
         \A t \in Tasks :
           /\ run'.tasks[t].integrated = run.tasks[t].integrated
           /\ run.tasks[t].error => run'.tasks[t].error
           /\ run.tasks[t].state \in {"succeeded", "failed"} => run'.tasks[t].state = run.tasks[t].state,
         loop' \in LoopRecord, loop'.pc \in FreePc, run'.state # "awaiting_approval"
  PROVE  Inv' /\ Spared
<1>1. TypeOK' /\ RunSound(run') /\ Monitors'
  BY Kept, Base
<1>2. \A t \in Tasks : HasSucceeded(run, t) => HasSucceeded(run', t)
  BY DEF HasSucceeded
<1>3. BranchKnown'
  BY <1>2, BranchStays DEF Inv
<1>4. Spared /\ NoWorkerOutlives'
  BY NotInterrupted
<1> QED
  BY <1>1, <1>3, <1>4, FreeKept

LEMMA ApproveInv ==
  ASSUME Inv, Approve \/ PrepareIntegrationBranchFails
  PROVE  Inv' /\ Spared
<1>1. PICK state \in {"running", "failed"} :
        run' = SetRun(run, state) /\ (state = "running" => run.state = "awaiting_approval")
  BY DEF Approve, PrepareIntegrationBranchFails
<1>2. /\ UNCHANGED <<branch, advanced, live, loop, exec, ask, cancel, count>>
      /\ starting' \in SUBSET {"branch", "lease"}
  BY Kept DEF Approve, PrepareIntegrationBranchFails
<1>3. /\ run' \in RunRecord /\ run'.state = state /\ run'.tasks = run.tasks
      /\ run'.attempts = run.attempts /\ run'.blocked = run.blocked
  BY <1>1, Kept DEF SetRun, RunRecord, RunStates
<1>4. RunSound(run')
  <2>1. run'.blocked \subseteq Active(run')
    BY <1>3 DEF Inv, RunSound, QuestionsSound, Active
  <2> QED
    BY <1>1, <1>3, <2>1, Kept, StateSound
<1>5. Active(run') = Active(run) /\ (Ended(run) => Ended(run'))
  BY <1>1, <1>3 DEF Active, Ended
<1>6. Beside(run, run', Monitored)
  BY <1>3, <1>5 DEF Beside
<1>7. run'.state # "awaiting_approval"
  BY <1>3
<1> QED
  BY <1>2, <1>3, <1>4, <1>6, <1>7, Kept, BesideInv

LEMMA BranchInv ==
  ASSUME Inv, PrepareIntegrationBranch
  PROVE  Inv' /\ Spared
<1>1. /\ UNCHANGED <<run, branch, advanced, live, loop, exec, ask, cancel, count>>
      /\ starting' \in SUBSET {"branch", "lease"} /\ run.state # "awaiting_approval"
  BY DEF PrepareIntegrationBranch, durable, Inv, Launching
<1> QED
  BY <1>1, Kept, BesideSame, BesideInv

\* The lease is free, or the command gives up.
LEMMA StartInv ==
  ASSUME Inv, StartScheduling
  PROVE  Inv' /\ Spared
<1>1. /\ UNCHANGED <<run, branch, advanced, live, exec, ask, cancel, count>>
      /\ starting' \in SUBSET {"branch", "lease"} /\ run.state # "awaiting_approval"
  BY Kept DEF StartScheduling, durable, Inv, Launching
<1>2. CASE loop' = loop
  BY <1>1, <1>2, Kept, BesideSame, BesideInv
<1>3. CASE loop' = [Idle EXCEPT !.pc = "dispatch"]
  <2>1. loop' \in LoopRecord /\ loop'.pc \in FreePc
    BY <1>3 DEF Idle, LoopRecord, LoopPc, FreePc
  <2> QED
    BY <1>1, <2>1, Kept, LoopMoves
<1> QED
  BY <1>2, <1>3 DEF StartScheduling

\* The steps that only move the loop.
LEMMA MovesInv ==
  ASSUME Inv, Dispatch \/ Dispatched \/ PrepareLaunchFails \/ ResumeAndLaunch
  PROVE  Inv' /\ Spared
<1>1. /\ loop \in LoopRecord /\ Idle \in LoopRecord /\ exec \in [DOMAIN run.attempts -> ExecPc]
      /\ starting \in SUBSET {"branch", "lease"}
  BY Kept
<1>2. /\ UNCHANGED <<run, branch, advanced, live, exec, ask, cancel, count>>
      /\ starting' \in SUBSET {"branch", "lease"}
  BY <1>1 DEF Dispatch, Dispatched, PrepareLaunchFails, ResumeAndLaunch, durable
<1>3. run.state # "awaiting_approval"
  BY DEF Dispatch, Dispatched, PrepareLaunchFails, ResumeAndLaunch, At, Inv, Launching
<1>4. getLaunchableTaskIds(run) \subseteq Tasks
  BY DEF getLaunchableTaskIds, FirstTasks
<1>5. loop' \in LoopRecord /\ (loop'.pc \in FreePc \/ (loop'.pc = "unlaunch" /\ loop'.at = 0))
  <2>1. CASE Dispatch
    BY <1>1, <1>4, <2>1 DEF Dispatch, LoopRecord, LoopPc, FreePc
  <2>2. CASE Dispatched
    BY <1>1, <2>2 DEF Dispatched, LoopRecord, LoopPc, FreePc, Idle
  <2>3. CASE PrepareLaunchFails
    BY <1>1, <2>3 DEF PrepareLaunchFails, LoopRecord, LoopPc
  <2>4. CASE ResumeAndLaunch
    BY <1>1, <2>4 DEF ResumeAndLaunch, Idle, FreePc
  <2> QED
    BY <2>1, <2>2, <2>3, <2>4
<1> QED
  BY <1>1, <1>2, <1>3, <1>5, LoopMoves

LEMMA CollectInv ==
  ASSUME Inv, NEW a \in DOMAIN exec, Collect(a)
  PROVE  Inv' /\ Spared
<1>1. /\ loop \in LoopRecord /\ Idle \in LoopRecord /\ exec \in [DOMAIN run.attempts -> ExecPc]
      /\ "none" \in ExecPc
  BY Kept DEF ExecPc
<1>2. UNCHANGED <<run, branch, advanced, live, ask, cancel, starting, count>>
      /\ exec' = [exec EXCEPT ![a] = "none"]
  BY DEF Collect, Reach, durable
<1>3. exec' \in [DOMAIN run.attempts -> ExecPc] /\ \A b \in DOMAIN run.attempts : exec'[b] \in {exec[b], "none"}
  BY <1>1, <1>2
<1>4. run.state # "awaiting_approval"
  BY DEF Collect, At, Inv, Launching
<1>5. loop' \in LoopRecord /\ loop'.pc \in FreePc
  BY <1>1 DEF Collect, LoopRecord, LoopPc, FreePc, Idle
<1> QED
  BY <1>2, <1>3, <1>4, <1>5, LoopMoves

\* A crash: nothing of the process is left, and all that is stored.
LEMMA CrashInv ==
  ASSUME Inv, Crash
  PROVE  Inv' /\ Spared
<1>1. /\ exec \in [DOMAIN run.attempts -> ExecPc] /\ "none" \in ExecPc
      /\ ask \in [DOMAIN run.attempts -> {"none", "asking", "asked"}]
      /\ count \in [troubles : 0..MaxTroubles, asks : 0..MaxAsks]
  BY Kept DEF ExecPc
<1>2. /\ UNCHANGED <<run, branch, advanced, live>> /\ loop' = Idle
      /\ exec' = [a \in DOMAIN exec |-> "none"] /\ ask' = [a \in DOMAIN ask |-> "none"]
      /\ starting' = {}
  BY DEF Crash, durable
<1>3. count' \in [troubles : 0..MaxTroubles, asks : 0..MaxAsks]
  BY <1>1, Constants DEF Crash
<1>4. cancel' \in CancelRecord
  BY DEF Crash, CancelRecord
<1>5. /\ exec' \in [DOMAIN run.attempts -> ExecPc]
      /\ \A b \in DOMAIN run.attempts : exec'[b] \in {exec[b], "none", "working"}
      /\ ask' \in [DOMAIN run.attempts -> {"none", "asking", "asked"}]
  BY <1>1, <1>2
<1>6. loop' \in LoopRecord /\ loop'.pc = "idle" /\ "idle" \in FreePc
  BY <1>2, Kept DEF Idle, FreePc
<1>7. TypeOK' /\ RunSound(run') /\ Monitors'
  BY <1>2, <1>3, <1>4, <1>5, <1>6, Kept, Base
<1>8. BranchKnown'
  BY <1>2, BranchStays DEF Inv
<1>9. Spared /\ NoWorkerOutlives'
  BY <1>2, NotInterrupted
<1> QED
  BY <1>2, <1>6, <1>7, <1>8, <1>9, FreeKept

\* A retry, whose loop has yet to start.
LEMMA RetryInv ==
  ASSUME Inv, Retry
  PROVE  Inv' /\ Spared
<1>1. /\ run' \in RunRecord /\ RunSound(run') /\ Beside(run, run', Monitored)
      /\ run'.state = "running" /\ run'.attempts = run.attempts
  BY RetryBeside DEF Retry
<1>2. /\ cancel \in CancelRecord /\ starting \in SUBSET {"branch", "lease"}
      /\ ask \in [DOMAIN run.attempts -> {"none", "asking", "asked"}]
      /\ count \in [troubles : 0..MaxTroubles, asks : 0..MaxAsks]
  BY Kept
<1>3. count' \in [troubles : 0..MaxTroubles, asks : 0..MaxAsks]
  BY <1>2, Constants DEF Retry
<1>4. /\ UNCHANGED <<branch, advanced, live, loop, exec, ask, cancel>>
      /\ starting' \in SUBSET {"branch", "lease"}
  BY <1>2 DEF Retry
<1> QED
  BY <1>1, <1>2, <1>3, <1>4, BesideInv

LEMMA Domains ==
  ASSUME Inv
  PROVE  /\ DOMAIN run.attempts = 1..Len(run.attempts) /\ Len(run.attempts) \in Nat
         /\ \A a \in DOMAIN run.attempts : a \in Nat /\ a # 0
BY TypeFacts DEF Inv

\* The loop reserves an attempt, the branch being as recorded.
LEMMA ReserveInv ==
  ASSUME Inv, Reserve
  PROVE  Inv' /\ Spared
<1> DEFINE t == FirstOf(loop.todo)
           n == Len(run.attempts) + 1
<1>1. /\ run \in RunRecord /\ RunSound(run) /\ exec \in [DOMAIN run.attempts -> ExecPc]
      /\ ask \in [DOMAIN run.attempts -> {"none", "asking", "asked"}] /\ cancel \in CancelRecord
      /\ count \in [troubles : 0..MaxTroubles, asks : 0..MaxAsks]
      /\ advanced \subseteq DOMAIN run.attempts /\ live \subseteq DOMAIN run.attempts
      /\ starting \in SUBSET {"branch", "lease"}
      /\ branch \in Seq(Tasks) /\ loop \in LoopRecord /\ Idle \in LoopRecord
      /\ DOMAIN run.attempts = 1..Len(run.attempts) /\ Len(run.attempts) \in Nat
  BY Kept, Domains
<1>2. UNCHANGED <<branch, advanced, live, cancel, starting, count>> /\ branch = Recorded(run) /\ loop.pc = "launch"
  BY DEF Reserve, At
<1>3. run.state # "awaiting_approval"
  BY <1>2 DEF Inv, Launching
<1>4. CASE t \notin getLaunchableTaskIds(run)
  <2>1. UNCHANGED <<run, exec, ask>> /\ LaunchEnds(run)
    BY <1>4 DEF Reserve
  <2>2. loop' \in LoopRecord /\ loop'.pc \in FreePc
    BY <1>1, <2>1 DEF LaunchEnds, LoopRecord, LoopPc, FreePc, Idle
  <2> QED
    BY <1>1, <1>2, <1>3, <2>1, <2>2, LoopMoves
<1>5. CASE t \in getLaunchableTaskIds(run)
  <2>1. /\ run' = Reserved(run, t)
        /\ exec' = Append(exec, "none") /\ ask' = Append(ask, "none")
        /\ loop' = [loop EXCEPT !.pc = "spawn", !.at = n]
    BY <1>5 DEF Reserve, Reserved
  <2> HIDE DEF t
  <2>2. /\ run' \in RunRecord /\ RunSound(run')
        /\ Len(run'.attempts) = n
        /\ \A a \in DOMAIN run.attempts : run'.attempts[a] = run.attempts[a]
        /\ run'.attempts[n] = [task |-> t, state |-> "prepared", evidence |-> FALSE, commit |-> FALSE]
        /\ \A s \in Tasks : run'.tasks[s].integrated = run.tasks[s].integrated
        /\ run'.state = "running"
    <3> DEFINE q == Reserved(run, t)
    <3>1. run \in RunRecord /\ RunSound(run) /\ t \in getLaunchableTaskIds(run)
      BY <1>1, <1>5 DEF t
    <3>2. /\ q \in RunRecord /\ RunSound(q) /\ q.state = "running"
          /\ Len(q.attempts) = Len(run.attempts) + 1
          /\ \A a \in DOMAIN run.attempts : q.attempts[a] = run.attempts[a]
          /\ q.attempts[Len(run.attempts) + 1] =
               [task |-> t, state |-> "prepared", evidence |-> FALSE, commit |-> FALSE]
          /\ \A s \in Tasks : q.tasks[s].integrated = run.tasks[s].integrated
      <4> HIDE DEF t
      <4> QED
        BY <3>1, ReserveWritten
    <3>3. run' = q
      BY <2>1 DEF t, Reserved
    <3> HIDE DEF q, t
    <3> QED
      BY <3>2, <3>3
  <2> HIDE DEF n
  <2>3. DOMAIN run'.attempts = 1..n /\ n = Len(run.attempts) + 1 /\ n \in Nat /\ n # 0
    BY <1>1, <2>2, RunFields DEF n
  <2>4. exec \in Seq(ExecPc) /\ Len(exec) = Len(run.attempts)
        /\ ask \in Seq({"none", "asking", "asked"}) /\ Len(ask) = Len(run.attempts)
    <3>1. exec \in [1..Len(run.attempts) -> ExecPc]
          /\ ask \in [1..Len(run.attempts) -> {"none", "asking", "asked"}]
      BY <1>1
    <3>2. exec \in Seq(ExecPc) /\ ask \in Seq({"none", "asking", "asked"})
      BY <1>1, <3>1, FunctionSeq
    <3> QED
      BY <1>1, <3>1, <3>2, LenProperties
  <2>5. /\ exec' \in [1..n -> ExecPc] /\ ask' \in [1..n -> {"none", "asking", "asked"}]
        /\ exec'[n] = "none" /\ \A a \in DOMAIN run.attempts : exec'[a] = exec[a]
    <3>1. "none" \in ExecPc
      BY DEF ExecPc
    <3>2. Append(exec, "none") \in Seq(ExecPc) /\ Len(Append(exec, "none")) = n
          /\ Append(exec, "none")[n] = "none"
          /\ \A a \in DOMAIN run.attempts : Append(exec, "none")[a] = exec[a]
      BY <1>1, <2>3, <2>4, <3>1
    <3>3. Append(ask, "none") \in Seq({"none", "asking", "asked"}) /\ Len(Append(ask, "none")) = n
      BY <2>3, <2>4
    <3> QED
      BY <2>1, <3>2, <3>3, LenProperties
  <2>6. DOMAIN run.attempts \subseteq DOMAIN run'.attempts
        /\ \A a \in DOMAIN run'.attempts : a = n \/ a \in DOMAIN run.attempts
    BY <1>1, <2>3
  <2>7. loop' \in LoopRecord' /\ cancel' \in CancelRecord' /\ loop'.pc = "spawn" /\ loop'.at = n
    <3>1. loop' \in LoopRecord'
      BY <1>1, <2>1, <2>3, <2>6 DEF LoopRecord, LoopPc
    <3>2. cancel' \in CancelRecord'
      BY <1>1, <1>2, <2>6 DEF CancelRecord
    <3>3. loop'.pc = "spawn" /\ loop'.at = n
      BY <1>1, <2>1 DEF LoopRecord
    <3> QED
      BY <3>1, <3>2, <3>3
  <2>8. TypeOK'
    <3>1. run'.blocked \subseteq DOMAIN run'.attempts
      BY <2>2 DEF RunSound, QuestionsSound, Active
    <3> QED
      BY <1>1, <1>2, <2>2, <2>3, <2>5, <2>6, <2>7, <3>1, TypeNext
  <2>9. Monitors'
    BY <2>2, <2>5, <2>6 DEF Inv, Monitors
  <2>10. Launching'
    BY <2>2, <2>3, <2>5, <2>7 DEF Launching, AtLaunchPc, LaunchPc
  <2>11. AtIntegration' /\ Recovering'
    BY <2>7 DEF AtIntegration, Recovering, RecoveryPc
  <2>12. BranchKnown'
    <3>1. Integrated(run') = Integrated(run)
      BY <2>2 DEF Integrated
    <3> QED
      BY <1>2, <3>1, RecordedSame DEF BranchKnown
  <2>13. NoWorkerOutlives' /\ Spared
    BY <1>1, <1>2, <2>2 DEF Inv, NoWorkerOutlives, Spared, Active, ActiveStates
  <2> QED
    BY <2>2, <2>8, <2>9, <2>10, <2>11, <2>12, <2>13 DEF Inv
<1> QED
  BY <1>4, <1>5

\* What the loop knows of the attempt it launches.
LEMMA AtLaunch ==
  ASSUME Inv, AtLaunchPc
  PROVE  /\ loop.at \in DOMAIN run.attempts /\ loop.at # 0 /\ exec[loop.at] = "none"
         /\ run.state # "awaiting_approval" /\ ~run.attempts[loop.at].evidence
         /\ ~run.attempts[loop.at].commit
         /\ \/ Revoked(run, loop.at) /\ loop.at \notin Active(run)
            \/ run.attempts[loop.at].state \in {"prepared", "launched"} /\ loop.at \in Active(run)
<1>1. /\ loop.at \in DOMAIN run.attempts /\ exec[loop.at] = "none"
      /\ ~run.attempts[loop.at].evidence
      /\ Revoked(run, loop.at) \/ run.attempts[loop.at].state \in {"prepared", "launched"}
  BY DEF Inv, Launching
<1>2. run.state # "awaiting_approval"
  BY DEF Inv, Launching, AtLaunchPc, LaunchPc
<1>3. ~run.attempts[loop.at].commit
  BY <1>1 DEF Inv, RunSound, AttemptsSound
<1>4. Revoked(run, loop.at) => loop.at \notin Active(run)
  BY DEF Revoked, Ended
<1> QED
  BY <1>1, <1>2, <1>3, <1>4, Domains DEF Active, ActiveStates

\* A launch is recorded: of the attempt as it was left, or of one a cancellation had ended
\* when the run is a failed one since.
LEMMA LaunchSound ==
  ASSUME NEW r \in RunRecord, RunSound(r), NEW a \in DOMAIN r.attempts,
         ~r.attempts[a].evidence, ~r.attempts[a].commit, r.state # "cancelled",
         Revoked(r, a) \/ r.attempts[a].state \in {"prepared", "launched"},
         NEW v \in {"launched", "running"}, NEW q, q = SetAttempt(r, a, v)
  PROVE  /\ q \in RunRecord /\ RunSound(q) /\ q.state = r.state /\ q.tasks = r.tasks
         /\ DOMAIN q.attempts = DOMAIN r.attempts
         /\ \A b \in DOMAIN r.attempts :
              /\ q.attempts[b].task = r.attempts[b].task
              /\ q.attempts[b].evidence = r.attempts[b].evidence
              /\ q.attempts[b].commit = r.attempts[b].commit
              /\ q.attempts[b].state = IF b = a THEN v ELSE r.attempts[b].state
<1>0. v \in ActiveStates
  BY DEF ActiveStates
<1>1. /\ q \in RunRecord
      /\ q.state = r.state /\ q.tasks = r.tasks /\ q.blocked = r.blocked
      /\ DOMAIN q.attempts = DOMAIN r.attempts
      /\ \A b \in DOMAIN r.attempts :
              /\ q.attempts[b].task = r.attempts[b].task
              /\ q.attempts[b].evidence = r.attempts[b].evidence
              /\ q.attempts[b].commit = r.attempts[b].commit
              /\ q.attempts[b].state = IF b = a THEN v ELSE r.attempts[b].state
  BY <1>0, StateWritten
<1>2. \A b \in DOMAIN r.attempts : b # a => q.attempts[b] = r.attempts[b]
  <2>1. \A b \in DOMAIN r.attempts : q.attempts[b] \in Attempt /\ r.attempts[b] \in Attempt
    BY <1>1, RunFields
  <2> QED
    BY <1>1, <2>1 DEF Attempt
<1>3. CASE r.attempts[a].state \in {"prepared", "launched"}
  <2>1. Active(q) = Active(r) /\ q.blocked \subseteq Active(q) /\ r.attempts[a].state \in ActiveStates
    BY <1>1, <1>3 DEF Active, ActiveStates, RunSound, QuestionsSound
  <2>2. RunSound(q)
    BY <1>0, <1>1, <1>2, <2>1, MarkSound
  <2> QED
    BY <1>1, <2>2
<1>4. CASE Revoked(r, a)
  <2>1. /\ r.state = "failed" /\ Active(r) = {} /\ r.attempts[a].state = "cancelled"
        /\ r.tasks[r.attempts[a].task].state = "cancelled"
        /\ \A t \in Tasks : r.tasks[t].state \in {"succeeded", "cancelled"}
    BY <1>4 DEF Revoked, Ended
  <2>2. Active(q) = {a}
    BY <1>0, <1>1, <2>1 DEF Active
  <2>3. TasksSound(q)
    <3>1. \A t \in Tasks : HasSucceeded(r, t) => HasSucceeded(q, t)
      BY <1>1, <2>1 DEF HasSucceeded
    <3> QED
      BY <1>1, <2>1, <3>1 DEF RunSound, TasksSound
  <2>4. AttemptsSound(q)
    <3>1. Cardinality({a}) = 1
      BY FS_Singleton
    <3>2. MaxWorkers \in Nat /\ MaxWorkers >= 1
      BY LegacyAssumption
    <3> QED
      BY <1>1, <2>2, <3>1, <3>2 DEF RunSound, AttemptsSound
  <2>5. ApprovalSound(q) /\ QuestionsSound(q)
    BY <1>1, <2>1 DEF RunSound, ApprovalSound, QuestionsSound
  <2>6. Tracked(q)
    BY <1>1, <2>1, <2>2 DEF RunSound, Tracked, AtWork
  <2> QED
    BY <1>1, <2>3, <2>4, <2>5, <2>6 DEF RunSound
<1> QED
  BY <1>3, <1>4

\* The loop goes on with the launch of an attempt, or gives it up.
LEMMA LaunchKept ==
  ASSUME Inv, loop.pc \in LaunchPc,
         UNCHANGED <<branch, advanced, exec, ask, cancel, starting, count>>,
         live' \subseteq live \cup {loop.at},
         run' = run \/ (run.state # "cancelled" /\ run' = SetAttempt(run, loop.at, "launched")),
         NEW pc \in {"launched", "prompt", "unlaunch", "unspawn"}, GoTo(pc)
  PROVE  Inv' /\ Spared
<1> DEFINE a == loop.at
<1>1. /\ a \in DOMAIN run.attempts /\ a # 0 /\ exec[a] = "none"
      /\ run.state # "awaiting_approval" /\ ~run.attempts[a].evidence /\ ~run.attempts[a].commit
      /\ Revoked(run, a) \/ run.attempts[a].state \in {"prepared", "launched"}
  BY AtLaunch DEF AtLaunchPc
<1>2. /\ run \in RunRecord /\ RunSound(run) /\ live \subseteq DOMAIN run.attempts /\ loop \in LoopRecord
      /\ branch \in Seq(Tasks) /\ exec \in [DOMAIN run.attempts -> ExecPc]
  BY Kept
<1>3. loop' \in LoopRecord /\ loop'.pc = pc /\ loop'.at = a
  BY <1>2 DEF GoTo, LoopRecord, LoopPc
<1> HIDE DEF a
<1>4. /\ run' \in RunRecord /\ RunSound(run') /\ run'.state = run.state /\ run'.tasks = run.tasks
      /\ DOMAIN run'.attempts = DOMAIN run.attempts
      /\ \A b \in DOMAIN run.attempts :
           /\ run'.attempts[b].task = run.attempts[b].task
           /\ run'.attempts[b].evidence = run.attempts[b].evidence
           /\ run'.attempts[b].commit = run.attempts[b].commit
           /\ \/ run'.attempts[b].state = run.attempts[b].state
              \/ b = a /\ run'.attempts[b].state = "launched"
  <2>1. CASE run' = run
    BY <1>2, <2>1
  <2>2. CASE run.state # "cancelled" /\ run' = SetAttempt(run, a, "launched")
    BY <1>1, <1>2, <2>2, LaunchSound
  <2> QED
    BY <2>1, <2>2 DEF a
<1>5. TypeOK' /\ RunSound(run') /\ Monitors'
  BY <1>1, <1>2, <1>3, <1>4, Kept, Base DEF a
<1>6. Launching'
  <2>1. Revoked(run', a) \/ run'.attempts[a].state \in {"prepared", "launched"}
    <3>1. CASE run' = run
      BY <1>1, <3>1
    <3>2. CASE run' = SetAttempt(run, a, "launched")
      <4>1. run'.attempts[a].state = "launched"
        BY <1>1, <1>2, <3>2, StateWritten DEF ActiveStates
      <4> QED
        BY <4>1
    <3> QED
      BY <3>1, <3>2 DEF a
  <2> QED
    BY <1>1, <1>3, <1>4, <2>1 DEF Launching
<1>7. AtIntegration' /\ Recovering'
  BY <1>3 DEF AtIntegration, Recovering, RecoveryPc
<1>8. BranchKnown'
  <2>1. \A t \in Tasks : HasSucceeded(run, t) => HasSucceeded(run', t)
    <3>1. run.attempts[a].state # "succeeded"
      BY <1>1 DEF Revoked
    <3> QED
      BY <1>1, <1>4, <3>1 DEF HasSucceeded
  <2> QED
    BY <1>4, <2>1, BranchStays DEF Inv
<1>9. NoWorkerOutlives' /\ Spared
  <2>1. \A b \in DOMAIN run.attempts :
          run'.attempts[b].state = "interrupted" => run.attempts[b].state = "interrupted"
    BY <1>4
  <2>2. run'.attempts[a].state # "interrupted"
    BY <1>1, <1>4 DEF Revoked
  <2> QED
    BY <1>2, <2>1, <2>2 DEF Inv, NoWorkerOutlives, Spared, Active, ActiveStates, a
<1> QED
  BY <1>5, <1>6, <1>7, <1>8, <1>9 DEF Inv

LEMMA LaunchInv ==
  ASSUME Inv, \/ Spawn \/ SpawnFails \/ RecordLaunched \/ LaunchFails
              \/ RecordRunning /\ run.state = "cancelled"
  PROVE  Inv' /\ Spared
<1>1. loop.pc \in LaunchPc /\ UNCHANGED <<branch, advanced, exec, ask, cancel, starting, count>>
  BY DEF Spawn, SpawnFails, RecordLaunched, LaunchFails, RecordRunning, At, LaunchPc, durable
<1>2. live' \subseteq live \cup {loop.at}
  BY DEF Spawn, SpawnFails, RecordLaunched, LaunchFails, RecordRunning, durable
<1>3. /\ run' = run \/ (run.state # "cancelled" /\ run' = SetAttempt(run, loop.at, "launched"))
      /\ \E pc \in {"launched", "prompt", "unlaunch", "unspawn"} : GoTo(pc)
  BY DEF Spawn, SpawnFails, RecordLaunched, LaunchFails, RecordRunning, durable
<1> QED
  BY <1>1, <1>2, <1>3, LaunchKept

\* The worker is prompted, and its monitor starts.
LEMMA RunningInv ==
  ASSUME Inv, RecordRunning, run.state # "cancelled"
  PROVE  Inv' /\ Spared
<1> DEFINE a == loop.at
<1>1. /\ a \in DOMAIN run.attempts /\ run.state # "awaiting_approval"
      /\ ~run.attempts[a].evidence /\ ~run.attempts[a].commit
      /\ Revoked(run, a) \/ run.attempts[a].state \in {"prepared", "launched"}
  BY AtLaunch DEF RecordRunning, At, AtLaunchPc, LaunchPc
<1>2. /\ run \in RunRecord /\ RunSound(run) /\ live \subseteq DOMAIN run.attempts /\ loop \in LoopRecord
      /\ exec \in [DOMAIN run.attempts -> ExecPc]
  BY Kept
<1>3. /\ run' = SetAttempt(run, a, "running") /\ exec' = [exec EXCEPT ![a] = "working"]
      /\ loop' = [loop EXCEPT !.pc = "launch", !.todo = @ \ {FirstOf(@)}, !.active = @ \cup {a}]
      /\ UNCHANGED <<branch, advanced, live, ask, cancel, starting, count>>
  BY DEF RecordRunning
<1> HIDE DEF a
<1>4. loop' \in LoopRecord /\ loop'.pc = "launch" /\ "launch" \in FreePc
  BY <1>1, <1>2, <1>3 DEF LoopRecord, LoopPc, FreePc
<1>5. "working" \in ExecPc
  BY DEF ExecPc
<1>6. /\ run' \in RunRecord /\ RunSound(run')
      /\ run'.state = run.state /\ run'.tasks = run.tasks
      /\ DOMAIN run'.attempts = DOMAIN run.attempts
      /\ \A b \in DOMAIN run.attempts :
              /\ run'.attempts[b].task = run.attempts[b].task
              /\ run'.attempts[b].evidence = run.attempts[b].evidence
              /\ run'.attempts[b].commit = run.attempts[b].commit
              /\ run'.attempts[b].state = IF b = a THEN "running" ELSE run.attempts[b].state
  BY <1>1, <1>2, <1>3, LaunchSound
<1>7. exec' \in [DOMAIN run.attempts -> ExecPc]
      /\ \A b \in DOMAIN run.attempts : exec'[b] \in {exec[b], "working"}
  BY <1>2, <1>3, <1>5
<1>8. \A b \in DOMAIN run.attempts :
         /\ run'.attempts[b].state = "interrupted" => run.attempts[b].state = "interrupted"
         /\ run.attempts[b].state = "succeeded" => run'.attempts[b].state = "succeeded"
  BY <1>1, <1>6 DEF Revoked
<1> QED
  BY <1>1, <1>3, <1>4, <1>6, <1>7, <1>8, LoopWrites

LEMMA WithoutWritten ==
  ASSUME NEW r \in RunRecord, NEW a
  PROVE  LET q == WithoutBlocked(r, a) IN
         /\ q \in RunRecord /\ q.state = r.state /\ q.deps = r.deps /\ q.tasks = r.tasks
         /\ q.attempts = r.attempts /\ q.blocked = r.blocked \ {a}
BY RunFields DEF WithoutBlocked, RunRecord

\* A launch that failed ends its attempt and stops its worker.
LEMMA UnlaunchInv ==
  ASSUME Inv, Unlaunch
  PROVE  Inv' /\ Spared
<1> DEFINE a == loop.at
           x == FailAttempt(run, a)
<1>1. /\ run \in RunRecord /\ RunSound(run) /\ loop \in LoopRecord /\ Idle \in LoopRecord
      /\ exec \in [DOMAIN run.attempts -> ExecPc] /\ Active(run) \subseteq DOMAIN run.attempts
  BY Kept, RunFields
<1>2. /\ live' \subseteq live /\ LaunchEnds(run') /\ loop.pc \in {"unlaunch", "unspawn"}
      /\ UNCHANGED <<branch, advanced, exec, ask, cancel, starting, count>>
      /\ run' = IF run.state = "cancelled" THEN run
                ELSE IF a = 0 THEN SetRun(run, "failed") ELSE WithoutBlocked(x, a)
  BY DEF Unlaunch, At
<1>3. run.state # "awaiting_approval"
  BY <1>2 DEF Inv, Launching
<1>4. loop' \in LoopRecord /\ loop'.pc \in FreePc
  BY <1>1, <1>2 DEF LaunchEnds, LoopRecord, LoopPc, FreePc, Idle
<1>5. CASE run.state = "cancelled"
  BY <1>1, <1>2, <1>3, <1>4, <1>5, LoopMoves
<1>6. CASE run.state # "cancelled" /\ a = 0
  <2>1. /\ run' \in RunRecord /\ run'.state = "failed" /\ run'.tasks = run.tasks
        /\ run'.attempts = run.attempts /\ run'.blocked = run.blocked
    BY <1>1, <1>2, <1>6 DEF SetRun, RunRecord, RunStates
  <2>2. RunSound(run')
    <3>1. run'.blocked \subseteq Active(run')
      BY <1>1, <2>1 DEF RunSound, QuestionsSound, Active
    <3> QED
      BY <1>1, <2>1, <3>1, StateSound
  <2> QED
    BY <1>1, <1>2, <1>4, <2>1, <2>2, LoopWrites
<1>7. CASE run.state # "cancelled" /\ a # 0
  <2>1. /\ a \in DOMAIN run.attempts
        /\ Revoked(run, a) \/ a \in Active(run)
        /\ run.attempts[a].state # "succeeded"
    BY <1>2, <1>7, AtLaunch DEF AtLaunchPc, LaunchPc, Revoked
  <2>2. x \in RunRecord /\ x.state = "failed" /\ x.blocked = run.blocked /\ Ends(run, x, a, "failed")
    BY <1>1, <2>1, FailWritten
  <2> HIDE DEF x, a
  <2>3. /\ run' \in RunRecord /\ run'.state = "failed" /\ run'.blocked = run.blocked \ {a}
        /\ run'.tasks = x.tasks /\ run'.attempts = x.attempts
    BY <1>2, <1>7, <2>2, WithoutWritten
  <2>4. Ends(run, run', a, "failed")
    BY <2>2, <2>3 DEF Ends
  <2>5. \A b \in Active(run) : b # a => b \in Active(run')
    BY <2>4 DEF Ends, Active
  <2>6. run'.blocked \subseteq Active(run')
    BY <1>1, <2>3, <2>5 DEF RunSound, QuestionsSound
  <2>7. /\ run.attempts[a].task \in Tasks
        /\ run.tasks[run.attempts[a].task].state \in AtWork
        /\ \A b \in Active(run) : run.attempts[b].task = run.attempts[a].task => b = a
    <3>1. run.attempts[a].task \in Tasks
      BY <1>1, <2>1, RunFields
    <3>2. CASE Revoked(run, a)
      BY <3>1, <3>2 DEF Revoked, Ended, AtWork
    <3>3. CASE a \in Active(run)
      BY <1>1, <3>1, <3>3 DEF RunSound, Tracked, AttemptsSound
    <3> QED
      BY <2>1, <3>2, <3>3
  <2>8. RunSound(run')
    <3>1. ~run.tasks[run.attempts[a].task].integrated
      <4>1. run.tasks[run.attempts[a].task].integrated \in BOOLEAN
        BY <1>1, <2>7, RunFields
      <4> QED
        BY <1>1, <2>7, <4>1 DEF RunSound, TasksSound, AtWork
    <3> QED
      BY <1>1, <2>1, <2>3, <2>4, <2>6, <2>7, <3>1, EndSound
  <2>9. /\ DOMAIN run'.attempts = DOMAIN run.attempts
        /\ \A b \in DOMAIN run.attempts :
             /\ run'.attempts[b].task = run.attempts[b].task
             /\ run'.attempts[b].evidence = run.attempts[b].evidence
             /\ run'.attempts[b].commit = run.attempts[b].commit
             /\ run'.attempts[b].state = "interrupted" => run.attempts[b].state = "interrupted"
             /\ run.attempts[b].state = "succeeded" => run'.attempts[b].state = "succeeded"
    BY <2>1, <2>4 DEF Ends
  <2>10. \A t \in Tasks :
           /\ run'.tasks[t].integrated = run.tasks[t].integrated
           /\ run.tasks[t].error => run'.tasks[t].error
           /\ run.tasks[t].state \in {"succeeded", "failed"} => run'.tasks[t].state = run.tasks[t].state
    BY <2>4, <2>7 DEF Ends, Movables, AtWork
  <2> QED
    BY <1>1, <1>2, <1>4, <2>3, <2>8, <2>9, <2>10, LoopWrites
<1> QED
  BY <1>5, <1>6, <1>7

LEMMA LeftFree ==
  ASSUME NEW r, loop \in LoopRecord, Left(r)
  PROVE  loop' \in LoopRecord /\ loop'.pc \in FreePc
BY DEF Left, LoopRecord, LoopPc, FreePc, Idle

\* The next task, as the loop sees it when it has one to integrate.
LEMMA NextFacts ==
  ASSUME Integrated(run) # Tasks
  PROVE  /\ NextTask \in Tasks /\ ~run.tasks[NextTask].integrated /\ NextTask = NextOf(run)
         /\ \A s \in Tasks : Position[s] < Position[NextTask] => run.tasks[s].integrated
<1>1. NextTask = NextOf(run)
  BY DEF NextTask, NextOf
<1> QED
  BY <1>1, NextFirst DEF Integrated

LEMMA PickInv ==
  ASSUME Inv, PickIntegration
  PROVE  Inv' /\ Spared
<1>1. /\ run \in RunRecord /\ RunSound(run) /\ loop \in LoopRecord /\ branch \in Seq(Tasks)
      /\ exec \in [DOMAIN run.attempts -> ExecPc]
  BY Kept
<1>2. /\ loop.pc = "integrate" /\ run.state # "awaiting_approval"
      /\ UNCHANGED <<advanced, live, exec, ask, cancel, starting, count>>
  BY DEF PickIntegration, At, Inv, Launching
<1>3. CASE Left(run) /\ UNCHANGED <<run, branch>>
  BY <1>1, <1>2, <1>3, LeftFree, LoopMoves
<1>4. CASE run.state = "running" /\ run' = SetRun(run, "integrating") /\ Left(run') /\ UNCHANGED branch
  <2>1. /\ run' \in RunRecord /\ run'.state = "integrating" /\ run'.tasks = run.tasks
        /\ run'.attempts = run.attempts /\ run'.blocked = run.blocked
    BY <1>1, <1>4 DEF SetRun, RunRecord, RunStates
  <2>2. RunSound(run')
    <3>1. run'.blocked \subseteq Active(run')
      BY <1>1, <2>1 DEF RunSound, QuestionsSound, Active
    <3> QED
      BY <1>1, <1>4, <2>1, <3>1, StateSound
  <2> QED
    BY <1>1, <1>2, <1>4, <2>1, <2>2, LeftFree, LoopWrites
<1>5. CASE /\ Integrated(run) # Tasks /\ run.tasks[NextTask].state = "succeeded" /\ UNCHANGED run
           /\ \/ GitIntegrates(NextTask) /\ loop' = [loop EXCEPT !.pc = "record", !.task = NextTask]
              \/ UNCHANGED branch /\ loop' = [loop EXCEPT !.pc = "disintegrate", !.task = NextTask]
  <2>1. NextTask \in Tasks /\ NextTask' = NextTask /\ Recorded(run') = Recorded(run)
    BY <1>5, NextFacts DEF NextTask
  <2> DEFINE t == NextTask
  <2>2. /\ loop' \in LoopRecord /\ loop'.pc \in {"record", "disintegrate"} /\ loop'.task = t
        /\ loop'.pc = "record" => GitIntegrates(t)
        /\ loop'.pc = "disintegrate" => UNCHANGED branch
    BY <1>1, <1>5, <2>1 DEF LoopRecord, LoopPc
  <2>3. branch' \in Seq(Tasks)
    BY <1>1, <2>1, <2>2 DEF GitIntegrates
  <2>4. TypeOK' /\ RunSound(run') /\ Monitors'
    BY <1>1, <1>2, <1>5, <2>2, <2>3, Kept, Base
  <2>5. Launching' /\ Recovering'
    BY <1>2, <1>5, <2>2 DEF Launching, AtLaunchPc, LaunchPc, Recovering, RecoveryPc
  <2>6. AtIntegration'
    BY <1>5, <2>1, <2>2 DEF AtIntegration, GitIntegrates
  <2>7. BranchKnown'
    <3>1. CASE loop'.pc = "record"
      <4>1. HasSucceeded(run, t)
        BY <1>1, <1>5, <2>1 DEF RunSound, TasksSound
      <4>2. Ahead'
        BY <1>5, <2>1, <2>2, <3>1, <4>1 DEF Ahead, GitIntegrates
      <4> QED
        BY <4>2 DEF BranchKnown
    <3>2. CASE loop'.pc = "disintegrate"
      BY <1>5, <2>2, <3>2, BranchStays DEF Inv
    <3> QED
      BY <2>2, <3>1, <3>2
  <2>8. Spared /\ NoWorkerOutlives'
    BY <1>2, <1>5, NotInterrupted
  <2> QED
    BY <2>4, <2>5, <2>6, <2>7, <2>8 DEF Inv
<1> QED
  BY <1>3, <1>4, <1>5 DEF PickIntegration

LEMMA RecordIntegrationInv ==
  ASSUME Inv, RecordIntegration
  PROVE  Inv' /\ Spared
<1> DEFINE t == loop.task
<1>1. /\ run \in RunRecord /\ RunSound(run) /\ loop \in LoopRecord /\ branch \in Seq(Tasks)
      /\ exec \in [DOMAIN run.attempts -> ExecPc]
  BY Kept
<1>2. /\ loop.pc = "record" /\ run.state # "awaiting_approval"
      /\ UNCHANGED <<branch, advanced, live, exec, ask, cancel, starting, count>>
  BY DEF RecordIntegration, At, Inv, Launching
<1>3. /\ Integrated(run) # Tasks /\ t = NextTask /\ run.tasks[t].state = "succeeded"
      /\ branch = Append(Recorded(run), t)
  BY <1>2 DEF Inv, AtIntegration
<1>4. /\ t \in Tasks /\ ~run.tasks[t].integrated /\ t = NextOf(run)
      /\ \A s \in Tasks : Position[s] < Position[t] => run.tasks[s].integrated
  BY <1>3, NextFacts
<1> HIDE DEF t
<1>5. CASE run' = [run EXCEPT !.tasks[t].integrated = TRUE, !.tasks[t].error = FALSE] /\ GoTo("integrate")
  <2>1. /\ run' \in RunRecord /\ RunSound(run')
        /\ run'.state = run.state /\ run'.attempts = run.attempts
        /\ Integrated(run') = Integrated(run) \cup {t}
    <3>1. Integrates(run, run', t)
      BY <1>5 DEF Integrates
    <3> QED
      BY <1>1, <1>3, <1>4, <3>1, IntegratedWritten
  <2>2. loop' \in LoopRecord /\ loop'.pc = "integrate" /\ "integrate" \in FreePc
    BY <1>1, <1>5 DEF GoTo, LoopRecord, LoopPc, FreePc
  <2>3. TypeOK' /\ RunSound(run') /\ Monitors'
    BY <1>1, <1>2, <2>1, <2>2, Kept, Base
  <2>4. Recorded(run') = branch
    BY <1>1, <1>3, <1>4, <2>1, RecordedNext DEF RunSound
  <2>5. BranchKnown'
    BY <1>2, <2>4 DEF BranchKnown
  <2>6. Spared /\ NoWorkerOutlives'
    BY <1>2, <2>1, NotInterrupted
  <2> QED
    BY <1>2, <2>1, <2>2, <2>3, <2>5, <2>6, FreeKept
<1>6. CASE GoTo("disintegrate") /\ UNCHANGED run
  <2>1. loop' \in LoopRecord /\ loop'.pc = "disintegrate" /\ loop'.task = t
    BY <1>1, <1>6 DEF GoTo, LoopRecord, LoopPc, t
  <2>2. TypeOK' /\ RunSound(run') /\ Monitors'
    BY <1>1, <1>2, <1>6, <2>1, Kept, Base
  <2>3. Launching' /\ Recovering'
    BY <1>2, <1>6, <2>1 DEF Launching, AtLaunchPc, LaunchPc, Recovering, RecoveryPc
  <2>4. NextTask' = NextTask
    BY <1>6 DEF NextTask
  <2>5. AtIntegration'
    BY <1>3, <1>6, <2>1, <2>4 DEF AtIntegration
  <2>6. BranchKnown'
    BY <1>2, <1>6, BranchStays DEF Inv
  <2>7. Spared /\ NoWorkerOutlives'
    BY <1>2, <1>6, NotInterrupted
  <2> QED
    BY <2>2, <2>3, <2>5, <2>6, <2>7 DEF Inv
<1> QED
  BY <1>5, <1>6 DEF RecordIntegration, t

\* An integration that failed: the branch may be ahead of the record by its commit.
LEMMA FailIntegrationInv ==
  ASSUME Inv, FailIntegration
  PROVE  Inv' /\ Spared
<1> DEFINE t == loop.task
<1>1. /\ run \in RunRecord /\ RunSound(run) /\ loop \in LoopRecord /\ branch \in Seq(Tasks)
      /\ exec \in [DOMAIN run.attempts -> ExecPc]
  BY Kept
<1>2. /\ loop.pc = "disintegrate" /\ run.state # "awaiting_approval" /\ Left(run')
      /\ UNCHANGED <<branch, advanced, live, exec, ask, cancel, starting, count>>
  BY DEF FailIntegration, At, Inv, Launching
<1>3. Integrated(run) # Tasks /\ t = NextTask /\ run.tasks[t].state = "succeeded"
  BY <1>2 DEF Inv, AtIntegration
<1>4. t \in Tasks /\ ~run.tasks[t].integrated /\ t = NextOf(run)
  BY <1>3, NextFacts
<1> HIDE DEF t
<1>5. CASE run.state = "cancelled"
  <2>1. UNCHANGED run /\ Left(run)
    BY <1>2, <1>5 DEF FailIntegration
  <2> QED
    BY <1>1, <1>2, <2>1, LeftFree, LoopMoves
<1>6. CASE run.state # "cancelled"
  <2>1. run' = FailsIntegration(run, t)
    BY <1>6 DEF FailIntegration, FailsIntegration, t
  <2>2. /\ run' \in RunRecord /\ RunSound(run')
        /\ run'.state = "failed" /\ run'.attempts = run.attempts
        /\ run'.tasks[t].state = "failed" /\ run'.tasks[t].error
        /\ \A s \in Tasks : run'.tasks[s].integrated = run.tasks[s].integrated
    BY <1>1, <1>3, <1>4, <2>1, FailIntegrationWritten
  <2>3. loop' \in LoopRecord /\ loop'.pc \in FreePc
    BY <1>1, <1>2, LeftFree
  <2>4. TypeOK' /\ RunSound(run') /\ Monitors'
    BY <1>1, <1>2, <2>2, <2>3, Kept, Base
  <2>5. Integrated(run') = Integrated(run) /\ (HasSucceeded(run, t) <=> HasSucceeded(run', t))
    BY <2>2 DEF Integrated, HasSucceeded
  <2>6. Recorded(run') = Recorded(run) /\ NextTask' = t
    BY <1>3, <2>5, RecordedSame DEF NextTask, NextOf
  <2>7. BranchKnown'
    <3>1. CASE branch = Recorded(run)
      BY <1>2, <2>6, <3>1 DEF BranchKnown
    <3>2. CASE Ahead
      <4>1. Ahead'
        BY <1>2, <1>3, <2>2, <2>5, <2>6, <3>2 DEF Ahead
      <4> QED
        BY <4>1 DEF BranchKnown
    <3> QED
      BY <3>1, <3>2 DEF Inv, BranchKnown
  <2>8. Spared /\ NoWorkerOutlives'
    BY <1>2, <2>2, NotInterrupted
  <2> QED
    BY <2>2, <2>3, <2>4, <2>7, <2>8, FreeKept
<1> QED
  BY <1>5, <1>6

-----------------------------------------------------------------------------
(* The steps of a recovery.                                                *)

LEMMA RecoveryFacts ==
  ASSUME Inv, loop.pc \in RecoveryPc
  PROVE  /\ loop.pc # "stop" => live = {}
         /\ loop.pc \notin {"stop", "commits"} => loop.found = {}
         /\ \A a \in Active(run) : run.attempts[a].commit /\ exec[a] = "none" => a \in loop.found
         /\ \A a \in loop.found : Found(a)
         /\ loop.found \subseteq DOMAIN run.attempts /\ run.state # "awaiting_approval"
BY TypeFacts DEF Inv, Recovering, Launching, RecoveryPc

LEMMA FirstFound ==
  ASSUME Inv, loop.found # {}
  PROVE  NextFound \in loop.found
<1>1. loop.found \in SUBSET Nat
  BY TypeFacts, Domains DEF Inv
<1> QED
  BY <1>1, Smallest DEF NextFound

\* An attempt with evidence that is still active is in validation, and its task is at work.
LEMMA Validated ==
  ASSUME Inv, NEW a \in Active(run), run.attempts[a].evidence
  PROVE  /\ Validating(a) /\ a \in DOMAIN run.attempts /\ run.attempts[a].task \in Tasks
         /\ run.tasks[run.attempts[a].task].state \in AtWork
         /\ run.attempts[a].task \notin Integrated(run)
         /\ branch = Recorded(run) \/ run.attempts[a].task # NextTask
         /\ \A b \in Active(run) : run.attempts[b].task = run.attempts[a].task => b = a
<1>1. /\ a \in DOMAIN run.attempts /\ run.attempts[a].task \in Tasks
      /\ run.tasks[run.attempts[a].task].integrated \in BOOLEAN
  BY Kept, RunFields
<1>2. Validating(a)
  BY <1>1 DEF Inv, RunSound, Tracked, Active, ActiveStates, Validating
<1>3. run.tasks[run.attempts[a].task].state \in AtWork
  BY DEF Inv, RunSound, Tracked
<1>4. run.attempts[a].task \notin Integrated(run)
  BY <1>1, <1>3 DEF Inv, RunSound, TasksSound, Integrated, AtWork
<1>5. branch = Recorded(run) \/ run.attempts[a].task # NextTask
  BY <1>3 DEF Inv, BranchKnown, Ahead, AtWork
<1>6. \A b \in Active(run) : run.attempts[b].task = run.attempts[a].task => b = a
  BY DEF Inv, RunSound, AttemptsSound
<1> QED
  BY <1>1, <1>2, <1>3, <1>4, <1>5, <1>6

\* The attempts that a recovery finds, when it loads the run or writes it.
LEMMA FoundAll ==
  ASSUME Inv
  PROVE  /\ Recoverable \subseteq DOMAIN run.attempts
         /\ \A a \in Active(run) : run.attempts[a].commit => a \in Recoverable
         /\ \A a \in Recoverable : Found(a)
<1>1. RunSound(run)
  BY Kept
<1>2. ASSUME NEW a \in Active(run), run.attempts[a].commit PROVE a \in Recoverable
  <2>1. run.attempts[a].evidence /\ a \in DOMAIN run.attempts
    BY <1>1, <1>2 DEF RunSound, AttemptsSound, Active
  <2> QED
    BY <2>1, Validated DEF Recoverable
<1>3. ASSUME NEW a \in Recoverable PROVE Found(a)
  <2>1. a \in Active(run) /\ run.attempts[a].evidence /\ run.attempts[a].state # "interrupted"
    BY DEF Recoverable, Validating, Active, ActiveStates
  <2>2. /\ run.attempts[a].task \notin Integrated(run)
        /\ branch = Recorded(run) \/ run.attempts[a].task # NextTask
        /\ \A b \in Active(run) : run.attempts[b].task = run.attempts[a].task => b = a
    BY <2>1, Validated
  <2> QED
    BY <2>1, <2>2 DEF Found
<1> QED
  BY <1>2, <1>3 DEF Recoverable

\* A recovery that leaves the run alone and goes on.
LEMMA RecoveryMoves ==
  ASSUME Inv, loop.pc \in RecoveryPc, UNCHANGED <<run, branch, advanced, exec, ask, cancel, starting, count>>,
         live' \subseteq live, loop'.pc # "stop" => live' = {},
         loop' \in LoopRecord, loop'.pc \in RecoveryPc, loop'.found \subseteq loop.found,
         loop'.pc \notin {"stop", "commits"} => loop'.found = {},
         \A a \in loop.found \ loop'.found : a \notin Active(run) \/ ~run.attempts[a].commit
  PROVE  Inv' /\ Spared
<1>0. live' \subseteq DOMAIN run.attempts
  BY Kept
<1>1. TypeOK' /\ RunSound(run') /\ Monitors'
  BY <1>0, Kept, Base
<1>2. Launching' /\ AtIntegration'
  BY RecoveryFacts DEF Launching, AtLaunchPc, LaunchPc, AtIntegration, RecoveryPc
<1>3. NextTask' = NextTask
  BY DEF NextTask
<1>4. Recovering'
  BY <1>3, RecoveryFacts DEF Recovering, Found
<1>5. BranchKnown'
  BY BranchStays DEF Inv
<1>6. Spared /\ NoWorkerOutlives'
  BY NotInterrupted
<1> QED
  BY <1>1, <1>2, <1>4, <1>5, <1>6 DEF Inv

\* The run is loaded, with blocked workers or without.
LEMMA ResumeInv ==
  ASSUME Inv, Resume
  PROVE  Inv' /\ Spared
<1>1. /\ UNCHANGED <<run, branch, advanced, live, exec, ask, cancel, starting, count>>
      /\ run.state # "awaiting_approval"
  BY DEF Resume, durable
<1>2. PICK pc \in {"stop", "unblock"} : loop' = [Idle EXCEPT !.pc = pc, !.found = Recoverable]
  BY DEF Resume
<1>3. loop' \in LoopRecord /\ loop'.pc = pc /\ loop'.found = Recoverable
  BY <1>2, FoundAll DEF Idle, LoopRecord, LoopPc
<1>4. CASE pc = "unblock"
  BY <1>1, <1>3, <1>4, Kept, LoopMoves DEF FreePc
<1>5. CASE pc = "stop"
  <2>1. TypeOK' /\ RunSound(run') /\ Monitors'
    BY <1>1, <1>3, Kept, Base
  <2>2. Launching' /\ AtIntegration'
    BY <1>1, <1>3, <1>5 DEF Launching, AtLaunchPc, LaunchPc, AtIntegration
  <2>3. NextTask' = NextTask
    BY <1>1 DEF NextTask
  <2>4. Recovering'
    BY <1>1, <1>3, <1>5, <2>3, FoundAll DEF Recovering, Found
  <2>5. BranchKnown'
    BY <1>1, BranchStays DEF Inv
  <2>6. Spared /\ NoWorkerOutlives'
    BY <1>1, NotInterrupted
  <2> QED
    BY <2>1, <2>2, <2>4, <2>5, <2>6 DEF Inv
<1> QED
  BY <1>4, <1>5

\* The workers are stopped; a recovery that clears blocked workers looks again.
LEMMA StopInv ==
  ASSUME Inv, StopOwnedWorkers
  PROVE  Inv' /\ Spared
<1>1. /\ run \in RunRecord /\ RunSound(run) /\ loop \in LoopRecord /\ Idle \in LoopRecord
      /\ exec \in [DOMAIN run.attempts -> ExecPc] /\ branch \in Seq(Tasks)
      /\ Active(run) \subseteq DOMAIN run.attempts
  BY Kept, RunFields
<1>2. UNCHANGED <<branch, advanced, exec, ask, cancel, starting, count>> /\ run.state # "awaiting_approval"
      /\ loop.pc \in {"stop", "unblock"}
  BY DEF StopOwnedWorkers, Inv, Launching
<1>3. CASE loop' = Idle /\ UNCHANGED <<run, live>>
  <2>1. loop'.pc = "idle" /\ "idle" \in FreePc
    BY <1>3 DEF Idle, FreePc
  <2> QED
    BY <1>1, <1>2, <1>3, <2>1, LoopMoves
<1>4. CASE live' = {} /\ loop.pc = "stop" /\ UNCHANGED run /\ GoTo("commits")
  <2>1. loop' \in LoopRecord /\ loop'.pc = "commits" /\ loop'.found = loop.found
    BY <1>1, <1>4 DEF GoTo, LoopRecord, LoopPc
  <2> QED
    BY <1>2, <1>4, <2>1, RecoveryMoves DEF RecoveryPc
<1>5. CASE /\ live' = {} /\ loop.pc = "unblock" /\ run' = [run EXCEPT !.blocked = {}]
           /\ loop' = [loop EXCEPT !.pc = "commits", !.found = Recoverable]
  <2>1. /\ run' \in RunRecord /\ run'.state = run.state /\ run'.tasks = run.tasks
        /\ run'.attempts = run.attempts /\ run'.blocked = {}
    BY <1>1, <1>5 DEF RunRecord
  <2>2. RunSound(run')
    BY <1>1, <2>1, StateSound
  <2>3. loop' \in LoopRecord /\ loop'.pc = "commits" /\ loop'.found = Recoverable
    BY <1>1, <1>5, FoundAll DEF LoopRecord, LoopPc
  <2>4. TypeOK' /\ RunSound(run') /\ Monitors'
    BY <1>1, <1>2, <1>5, <2>1, <2>2, <2>3, Kept, Base
  <2>5. Launching' /\ AtIntegration'
    BY <1>2, <2>1, <2>3 DEF Launching, AtLaunchPc, LaunchPc, AtIntegration
  <2>6. Integrated(run') = Integrated(run) /\ Active(run') = Active(run)
        /\ Recorded(run') = Recorded(run) /\ NextTask' = NextTask
    BY <2>1 DEF Integrated, Active, Recorded, NextTask
  <2>7. Recovering'
    <3>1. ASSUME NEW a \in Recoverable PROVE Found(a)'
      BY <1>2, <2>1, <2>6, FoundAll DEF Found
    <3> QED
      BY <1>5, <2>1, <2>3, <2>6, <3>1, FoundAll DEF Recovering
  <2>8. BranchKnown'
    BY <1>2, <2>1, BranchStays DEF Inv, HasSucceeded
  <2>9. Spared /\ NoWorkerOutlives'
    BY <1>5, <2>1, NotInterrupted
  <2> QED
    BY <2>4, <2>5, <2>7, <2>8, <2>9 DEF Inv
<1> QED
  BY <1>2, <1>3, <1>4, <1>5 DEF StopOwnedWorkers, WorkersStopped, At

LEMMA CommitsRecoveredInv ==
  ASSUME Inv, CommitsRecovered
  PROVE  Inv' /\ Spared
<1>1. /\ loop.pc \in RecoveryPc /\ loop.pc # "stop" /\ loop.found = {}
      /\ UNCHANGED <<run, branch, advanced, live, exec, ask, cancel, starting, count>>
  BY DEF CommitsRecovered, At, RecoveryPc, durable
<1>2. loop' \in LoopRecord /\ loop'.pc \in RecoveryPc /\ loop'.found = loop.found
  BY Kept DEF CommitsRecovered, GoTo, LoopRecord, LoopPc, RecoveryPc
<1>3. live = {}
  BY <1>1, RecoveryFacts
<1> QED
  BY <1>1, <1>2, <1>3, RecoveryMoves

\* The commit of an attempt that a recovery found, in git or in the record, is recorded.
LEMMA RecoverMarks ==
  ASSUME Inv, RecoverCommit, NEW a, a = NextFound,
         run' = [run EXCEPT !.attempts[a].commit = TRUE], UNCHANGED loop
  PROVE  Inv' /\ Spared
<1>1. /\ run \in RunRecord /\ RunSound(run) /\ loop \in LoopRecord /\ live \subseteq DOMAIN run.attempts
      /\ exec \in [DOMAIN run.attempts -> ExecPc] /\ branch \in Seq(Tasks)
      /\ Active(run) \subseteq DOMAIN run.attempts
  BY Kept, RunFields
<1>2. loop.pc = "commits" /\ loop.found # {} /\ loop.pc \in RecoveryPc
      /\ UNCHANGED <<branch, advanced, live, exec, ask, cancel, starting, count>>
  BY DEF RecoverCommit, At, RecoveryPc
<1>3. a \in loop.found /\ a \in DOMAIN run.attempts /\ Found(a)
  BY <1>2, FirstFound, RecoveryFacts
<1>4. /\ run' \in RunRecord
      /\ run'.state = run.state /\ run'.tasks = run.tasks /\ run'.blocked = run.blocked
      /\ DOMAIN run'.attempts = DOMAIN run.attempts
      /\ \A b \in DOMAIN run.attempts : b # a => run'.attempts[b] = run.attempts[b]
      /\ run'.attempts[a].task = run.attempts[a].task
      /\ run'.attempts[a].state = run.attempts[a].state
      /\ run'.attempts[a].evidence /\ run'.attempts[a].commit
  <2>1. Marks(run, run', a)
    BY <1>3 DEF Marks, Found
  <2>2. run' = [run EXCEPT !.attempts[a].commit = TRUE] => run'.attempts[a].commit
    BY <1>1, <1>3, <2>1, Marked
  <2>3. run'.attempts[a].commit
    BY <2>2
  <2>4. /\ run' \in RunRecord
        /\ run'.state = run.state /\ run'.tasks = run.tasks /\ run'.blocked = run.blocked
        /\ DOMAIN run'.attempts = DOMAIN run.attempts
    BY <1>1, <1>3, <2>1, Marked
  <2>5. \A b \in DOMAIN run.attempts : b # a => run'.attempts[b] = run.attempts[b]
    BY <1>1, <1>3, <2>1, Marked
  <2>6. /\ run'.attempts[a].task = run.attempts[a].task
        /\ run'.attempts[a].state = run.attempts[a].state
    BY <1>1, <1>3, <2>1, Marked
  <2>7. run'.attempts[a].evidence
    BY <1>1, <1>3, <2>1, <2>3, Marked
  <2> QED
    BY <2>3, <2>4, <2>5, <2>6, <2>7
<1>5. \A b \in DOMAIN run.attempts :
        /\ run'.attempts[b].task = run.attempts[b].task
        /\ run'.attempts[b].state = run.attempts[b].state
        /\ run.attempts[b].evidence => run'.attempts[b].evidence
        /\ run.attempts[b].commit => run'.attempts[b].commit
        /\ run'.attempts[b].commit => run.attempts[b].commit \/ b = a
  BY <1>4
<1>6. Active(run') = Active(run)
  BY <1>4, <1>5 DEF Active
<1>7. RunSound(run')
  <2>1. run.attempts[a].evidence /\ run'.blocked \subseteq Active(run')
    BY <1>1, <1>3, <1>4, <1>6 DEF Found, RunSound, QuestionsSound
  <2>2. run'.attempts[a].state \notin {"prepared", "launched", "running"}
    BY <1>1, <1>3, <1>4, <2>1 DEF RunSound, Tracked
  <2> QED
    BY <1>1, <1>3, <1>4, <2>1, <2>2, MarkSound
<1>8. TypeOK' /\ RunSound(run') /\ Monitors'
  BY <1>1, <1>2, <1>4, <1>5, <1>7, Kept, Base
<1>9. Launching' /\ AtIntegration'
  BY <1>2, <1>4, RecoveryFacts DEF Launching, AtLaunchPc, LaunchPc, AtIntegration, RecoveryPc
<1>10. Integrated(run') = Integrated(run) /\ Recorded(run') = Recorded(run) /\ NextTask' = NextTask
  BY <1>4 DEF Integrated, Recorded, NextTask
<1>11. Recovering'
  <2>1. \A b \in Active(run') : run'.attempts[b].commit /\ exec'[b] = "none" => b \in loop'.found
    BY <1>1, <1>2, <1>3, <1>5, <1>6, RecoveryFacts
  <2>2. ASSUME NEW b \in loop'.found PROVE Found(b)'
    <3>1. Found(b) /\ b \in DOMAIN run.attempts
      BY <1>2, RecoveryFacts
    <3> QED
      BY <1>1, <1>2, <1>5, <1>6, <1>10, <3>1 DEF Found
  <2> QED
    BY <1>2, <2>1, <2>2, RecoveryFacts DEF Recovering
<1>12. BranchKnown'
  <2>1. \A t \in Tasks : HasSucceeded(run, t) => HasSucceeded(run', t)
    BY <1>4, <1>5 DEF HasSucceeded
  <2> QED
    BY <1>2, <1>4, <2>1, BranchStays DEF Inv
<1>13. Spared /\ NoWorkerOutlives'
  BY <1>2, <1>5, NotInterrupted
<1> QED
  BY <1>8, <1>9, <1>11, <1>12, <1>13 DEF Inv

\* The success of an attempt that a recovery found is recorded.
LEMMA RecoveredWritten ==
  ASSUME Inv, loop.pc = "commits", NEW a \in loop.found, Validating(a), Store(Recovered(a))
  PROVE  /\ run' \in RunRecord /\ Ends(run, run', a, "succeeded")
         /\ run'.blocked \subseteq Active(run')
         /\ run'.state = run.state
              \/ (run'.state = "running" /\ ~HasOtherFailedTask(run.attempts[a].task))
<1>1. run \in RunRecord /\ a \in DOMAIN run.attempts
  BY Kept, RecoveryFacts DEF RecoveryPc
<1>2. run'.blocked \subseteq Active(run')
  BY DEF Store, QuestionsSound
<1>3. CASE run' = Succeeds(run, a)
  BY <1>1, <1>2, <1>3, EndWritten DEF Succeeds
<1>4. CASE ~HasOtherFailedTask(run.attempts[a].task) /\ run' = Succeeds(SetRun(run, "running"), a)
  <2> DEFINE x == SetRun(run, "running")
  <2>1. /\ x \in RunRecord /\ x.state = "running" /\ x.tasks = run.tasks /\ x.attempts = run.attempts
    BY <1>1 DEF SetRun, RunRecord, RunStates
  <2>2. run' = Succeeds(x, a)
    BY <1>4
  <2> HIDE DEF x
  <2>3. run' \in RunRecord /\ run'.state = x.state /\ Ends(x, run', a, "succeeded")
    BY <1>1, <2>1, <2>2, EndWritten DEF Succeeds
  <2>4. Ends(run, run', a, "succeeded")
    BY <2>1, <2>3 DEF Ends
  <2> QED
    BY <1>2, <1>4, <2>1, <2>3, <2>4
<1> QED
  BY <1>3, <1>4 DEF Recovered, Store

LEMMA RecoverSucceeds ==
  ASSUME Inv, RecoverCommit, NEW a, a = NextFound, Validating(a), run.attempts[a].commit,
         Store(Recovered(a)), loop' = [loop EXCEPT !.found = @ \ {a}]
  PROVE  Inv' /\ Spared
<1> DEFINE own == run.attempts[a].task
<1>1. /\ run \in RunRecord /\ RunSound(run) /\ loop \in LoopRecord /\ live \subseteq DOMAIN run.attempts
      /\ exec \in [DOMAIN run.attempts -> ExecPc] /\ branch \in Seq(Tasks)
      /\ Active(run) \subseteq DOMAIN run.attempts
  BY Kept, RunFields
<1>2. loop.pc = "commits" /\ loop.found # {} /\ loop.pc \in RecoveryPc
      /\ UNCHANGED <<branch, advanced, live, exec, ask, cancel, starting, count>>
  BY DEF RecoverCommit, At, RecoveryPc
<1>3. /\ a \in loop.found /\ a \in DOMAIN run.attempts /\ Found(a) /\ a \in Active(run)
      /\ run.attempts[a].evidence
  <2>1. a \in loop.found /\ a \in DOMAIN run.attempts /\ Found(a)
    BY <1>2, FirstFound, RecoveryFacts
  <2> QED
    BY <2>1 DEF Found, Active, ActiveStates, Validating
<1>4. /\ own \in Tasks /\ run.tasks[own].state \in AtWork
      /\ own \notin Integrated(run)
      /\ \A b \in Active(run) : run.attempts[b].task = own => b = a
  BY <1>3, Validated
<1>5. /\ run' \in RunRecord /\ Ends(run, run', a, "succeeded")
      /\ run'.blocked \subseteq Active(run')
      /\ run'.state = run.state \/ (run'.state = "running" /\ ~HasOtherFailedTask(own))
  BY <1>2, <1>3, RecoveredWritten
<1>6. run.state # "awaiting_approval" /\ run.state # "cancelled"
  BY <1>1, <1>2, <1>3, RecoveryFacts DEF RunSound, Tracked
<1>7. \A t \in Tasks : run.tasks[t].error => run.tasks[t].state = "failed"
  BY <1>1 DEF RunSound, TasksSound
<1>8. run'.state = run.state \/ \A t \in Tasks : run.tasks[t].error => t = own
  BY <1>5, <1>7 DEF HasOtherFailedTask
<1>9. RunSound(run')
  <2>1. ~run.tasks[own].integrated
    BY <1>4 DEF Integrated
  <2>2. run'.state # "awaiting_approval" /\ run'.state # "cancelled"
    BY <1>5, <1>6
  <2> QED
    BY <1>1, <1>3, <1>4, <1>5, <1>8, <2>1, <2>2, EndSound
<1> HIDE DEF own
<1>10. /\ DOMAIN run'.attempts = DOMAIN run.attempts
       /\ \A b \in DOMAIN run.attempts :
            /\ run'.attempts[b].task = run.attempts[b].task
            /\ run'.attempts[b].evidence = run.attempts[b].evidence
            /\ run'.attempts[b].commit = run.attempts[b].commit
            /\ run'.attempts[b].state = IF b = a THEN "succeeded" ELSE run.attempts[b].state
       /\ \A t \in Tasks :
            /\ run'.tasks[t].integrated = run.tasks[t].integrated
            /\ run'.tasks[t].error = run.tasks[t].error
            /\ run.tasks[t].state \in {"succeeded", "failed"} => run'.tasks[t].state = run.tasks[t].state
  <2>1. \A t \in Tasks : run.tasks[t].state \in {"succeeded", "failed"} =>
                           run'.tasks[t].state = run.tasks[t].state
    BY <1>4, <1>5 DEF Ends, Movables, AtWork, own
  <2> QED
    BY <1>5, <2>1 DEF Ends
<1>11. loop' \in LoopRecord /\ loop'.pc = "commits" /\ loop'.found = loop.found \ {a}
  BY <1>1, <1>2 DEF LoopRecord
<1>12. TypeOK' /\ RunSound(run') /\ Monitors'
  BY <1>1, <1>2, <1>5, <1>9, <1>10, <1>11, Kept, Base
<1>13. Launching' /\ AtIntegration'
  BY <1>5, <1>6, <1>11 DEF Launching, AtLaunchPc, LaunchPc, AtIntegration
<1>14. Integrated(run') = Integrated(run)
  BY <1>10 DEF Integrated
<1>15. Recorded(run') = Recorded(run) /\ NextTask' = NextTask
  BY <1>14, RecordedSame DEF NextTask, NextOf
<1>16. \A b \in Active(run') : b \in Active(run) /\ b # a
  BY <1>10 DEF Active, ActiveStates
<1>17. Recovering'
  <2>1. \A b \in Active(run') : run'.attempts[b].commit /\ exec'[b] = "none" => b \in loop'.found
    BY <1>1, <1>2, <1>10, <1>11, <1>16, RecoveryFacts
  <2>2. ASSUME NEW b \in loop'.found PROVE Found(b)'
    <3>1. Found(b) /\ b \in DOMAIN run.attempts /\ b # a
      BY <1>2, <1>11, RecoveryFacts
    <3> QED
      BY <1>1, <1>2, <1>10, <1>14, <1>15, <1>16, <3>1 DEF Found
  <2> QED
    BY <1>2, <1>11, <2>1, <2>2, RecoveryFacts DEF Recovering
<1>18. BranchKnown'
  <2>1. \A t \in Tasks : HasSucceeded(run, t) => HasSucceeded(run', t)
    BY <1>10 DEF HasSucceeded
  <2> QED
    BY <1>2, <1>10, <2>1, BranchStays DEF Inv
<1>19. Spared /\ NoWorkerOutlives'
  <2>1. \A b \in DOMAIN run.attempts :
          run'.attempts[b].state = "interrupted" => run.attempts[b].state = "interrupted"
    BY <1>10
  <2> QED
    BY <1>2, <2>1, NotInterrupted
<1> QED
  BY <1>12, <1>13, <1>17, <1>18, <1>19 DEF Inv

LEMMA RecoverCommitInv ==
  ASSUME Inv, RecoverCommit
  PROVE  Inv' /\ Spared
<1> DEFINE a == NextFound
<1>1. loop.pc = "commits" /\ loop.found # {} /\ loop.pc \in RecoveryPc
      /\ UNCHANGED <<branch, advanced, live, exec, ask, cancel, starting, count>>
  BY DEF RecoverCommit, At, RecoveryPc
<1>2. a \in loop.found /\ a \in DOMAIN run.attempts /\ Found(a)
  BY <1>1, FirstFound, RecoveryFacts
<1>3. \/ UNCHANGED run /\ ~run.attempts[a].commit /\ loop' = [loop EXCEPT !.found = @ \ {a}]
      \/ run' = [run EXCEPT !.attempts[a].commit = TRUE] /\ UNCHANGED loop
      \/ run.attempts[a].commit /\ Store(Recovered(a)) /\ loop' = [loop EXCEPT !.found = @ \ {a}]
  BY DEF RecoverCommit, Uncommitted
<1>4. CASE run' = [run EXCEPT !.attempts[a].commit = TRUE] /\ UNCHANGED loop
  BY <1>4, RecoverMarks
<1>5. CASE /\ run.attempts[a].commit /\ Store(Recovered(a)) /\ loop' = [loop EXCEPT !.found = @ \ {a}]
           /\ Validating(a)
  BY <1>5, RecoverSucceeds
<1>6. CASE /\ UNCHANGED run /\ loop' = [loop EXCEPT !.found = @ \ {a}]
           /\ ~run.attempts[a].commit \/ ~Validating(a)
  <2>1. loop' \in LoopRecord /\ loop'.pc = "commits" /\ loop'.found = loop.found \ {a}
    BY <1>1, <1>6, Kept DEF LoopRecord
  <2>2. ~run.attempts[a].commit \/ a \notin Active(run)
    BY <1>2, <1>6, Validated DEF Found
  <2> HIDE DEF a
  <2>3. \A b \in loop.found \ loop'.found : b \notin Active(run) \/ ~run.attempts[b].commit
    BY <2>1, <2>2
  <2>4. live = {}
    BY <1>1, RecoveryFacts
  <2> QED
    BY <1>1, <1>6, <2>1, <2>3, <2>4, RecoveryMoves
<1>7. ~Validating(a) => Recovered(a) = run
  BY DEF Recovered
<1> QED
  BY <1>3, <1>4, <1>5, <1>6, <1>7 DEF Store

\* The failure of a recovery is recorded: the task of the attempt is not the one the
\* branch is ahead by.
LEMMA RecoveryFails ==
  ASSUME Inv, loop.pc = "commits", NEW a \in loop.found, Store(FailAttempt(run, a)), loop' = Idle,
         UNCHANGED <<branch, advanced, live, exec, ask, cancel, starting, count>>
  PROVE  Inv' /\ Spared
<1> DEFINE own == run.attempts[a].task
<1>1. /\ run \in RunRecord /\ RunSound(run) /\ Idle \in LoopRecord /\ live \subseteq DOMAIN run.attempts
      /\ exec \in [DOMAIN run.attempts -> ExecPc] /\ branch \in Seq(Tasks) /\ loop.pc \in RecoveryPc
      /\ loop'.pc = "idle" /\ "idle" \in FreePc
  BY Kept DEF RecoveryPc, Idle, FreePc
<1>2. a \in DOMAIN run.attempts /\ Found(a) /\ own \in Tasks /\ run.tasks[own].integrated \in BOOLEAN
  BY <1>1, RecoveryFacts, RunFields
<1>3. /\ run' \in RunRecord /\ run'.state = "failed" /\ Ends(run, run', a, "failed")
      /\ run'.blocked \subseteq Active(run')
  BY <1>1, <1>2, FailWritten DEF Store, QuestionsSound
<1>4. RunSound(run')
  <2>1. /\ ~run.tasks[own].integrated
        /\ \A b \in Active(run) : run.attempts[b].task = own => b = a
    BY <1>2 DEF Found, Integrated
  <2> QED
    BY <1>1, <1>2, <1>3, <2>1, EndSound
<1>5. branch = Recorded(run) \/ own # NextTask
  BY <1>2 DEF Found
<1> HIDE DEF own
<1>6. /\ DOMAIN run'.attempts = DOMAIN run.attempts
      /\ \A b \in DOMAIN run.attempts :
           /\ run'.attempts[b].task = run.attempts[b].task
           /\ run'.attempts[b].evidence = run.attempts[b].evidence
           /\ run'.attempts[b].commit = run.attempts[b].commit
           /\ run'.attempts[b].state = IF b = a THEN "failed" ELSE run.attempts[b].state
      /\ \A t \in Tasks :
           /\ run'.tasks[t].integrated = run.tasks[t].integrated
           /\ run'.tasks[t].error = run.tasks[t].error
           /\ t # own /\ run.tasks[t].state \in {"succeeded", "failed"} =>
                run'.tasks[t].state = run.tasks[t].state
  <2>1. \A t \in Tasks : t # own /\ run.tasks[t].state \in {"succeeded", "failed"} =>
                           run'.tasks[t].state = run.tasks[t].state
    BY <1>3 DEF Ends, Movables, own
  <2> QED
    BY <1>3, <2>1 DEF Ends
<1>7. TypeOK' /\ RunSound(run') /\ Monitors'
  BY <1>1, <1>3, <1>4, <1>6, Kept, Base
<1>8. Integrated(run') = Integrated(run)
  BY <1>6 DEF Integrated
<1>9. Recorded(run') = Recorded(run) /\ NextTask' = NextTask
  BY <1>8, RecordedSame DEF NextTask, NextOf
<1>10. BranchKnown'
  <2>1. CASE branch = Recorded(run)
    BY <1>9, <2>1 DEF BranchKnown
  <2>2. CASE Ahead /\ own # NextTask
    <3>1. /\ Integrated(run) # Tasks /\ branch = Append(Recorded(run), NextTask)
          /\ HasSucceeded(run, NextTask)
          /\ \/ run.tasks[NextTask].state = "succeeded"
             \/ run.tasks[NextTask].state = "failed" /\ run.tasks[NextTask].error
      BY <2>2 DEF Ahead
    <3>2. NextTask \in Tasks
      BY <3>1, NextFacts
    <3>3. HasSucceeded(run', NextTask)
      <4>1. PICK b \in DOMAIN run.attempts :
              /\ run.attempts[b].task = NextTask /\ run.attempts[b].state = "succeeded"
              /\ run.attempts[b].commit
        BY <3>1 DEF HasSucceeded
      <4>2. b # a
        BY <2>2, <4>1 DEF own
      <4> QED
        BY <1>6, <4>1, <4>2 DEF HasSucceeded
    <3>4. \/ run'.tasks[NextTask].state = "succeeded"
          \/ run'.tasks[NextTask].state = "failed" /\ run'.tasks[NextTask].error
      BY <1>6, <2>2, <3>1, <3>2
    <3> QED
      BY <1>8, <1>9, <3>1, <3>3, <3>4 DEF BranchKnown, Ahead
  <2> QED
    BY <1>5, <2>1, <2>2 DEF Inv, BranchKnown
<1>11. Spared /\ NoWorkerOutlives'
  <2>1. \A b \in DOMAIN run.attempts :
          run'.attempts[b].state = "interrupted" => run.attempts[b].state = "interrupted"
    BY <1>6
  <2> QED
    BY <2>1, NotInterrupted
<1> QED
  BY <1>1, <1>3, <1>7, <1>10, <1>11, FreeKept

LEMMA RecoverCommitFailsInv ==
  ASSUME Inv, RecoverCommitFails
  PROVE  Inv' /\ Spared
<1>1. /\ loop.pc = "commits" /\ loop.found # {} /\ loop' = Idle
      /\ UNCHANGED <<branch, advanced, live, exec, ask, cancel, starting, count>>
  BY DEF RecoverCommitFails, At
<1>2. NextFound \in loop.found
  BY <1>1, FirstFound
<1>3. CASE Store(FailAttempt(run, NextFound))
  BY <1>1, <1>2, <1>3, RecoveryFails
<1>4. CASE UNCHANGED run
  <2>1. loop' \in LoopRecord /\ loop'.pc = "idle" /\ "idle" \in FreePc
    BY <1>1, Kept DEF Idle, FreePc
  <2>2. exec \in [DOMAIN run.attempts -> ExecPc] /\ run.state # "awaiting_approval"
    BY <1>1, Kept, RecoveryFacts DEF RecoveryPc
  <2> QED
    BY <1>1, <1>4, <2>1, <2>2, LoopMoves
<1> QED
  BY <1>3, <1>4 DEF RecoverCommitFails

\* The integration that git has and the run does not is recorded.
LEMMA ReconcileRecords ==
  ASSUME Inv, loop.pc = "reconcile", Integrated(run) # Tasks, NEW t, t = NextTask,
         branch = Append(Recorded(run), t), run.tasks[t].state = "succeeded",
         Integrates(run, run', t),
         UNCHANGED <<branch, advanced, live, loop, exec, ask, cancel, starting, count>>
  PROVE  Inv' /\ Spared
<1>1. /\ run \in RunRecord /\ RunSound(run) /\ loop \in LoopRecord /\ live \subseteq DOMAIN run.attempts
      /\ exec \in [DOMAIN run.attempts -> ExecPc] /\ branch \in Seq(Tasks) /\ loop.pc \in RecoveryPc
  BY Kept DEF RecoveryPc
<1>2. /\ t \in Tasks /\ ~run.tasks[t].integrated /\ t = NextOf(run)
      /\ \A s \in Tasks : Position[s] < Position[t] => run.tasks[s].integrated
  BY NextFacts
<1>3. /\ run' \in RunRecord /\ RunSound(run')
      /\ run'.state = run.state /\ run'.attempts = run.attempts /\ run'.blocked = run.blocked
      /\ Integrated(run') = Integrated(run) \cup {t}
  BY <1>1, <1>2, IntegratedWritten
<1>4. Recorded(run') = branch
  BY <1>1, <1>2, <1>3, RecordedNext DEF RunSound
<1>5. TypeOK' /\ RunSound(run') /\ Monitors'
  BY <1>1, <1>3, Kept, Base
<1>6. Launching' /\ AtIntegration'
  BY <1>1, <1>3, RecoveryFacts DEF Launching, AtLaunchPc, LaunchPc, AtIntegration
<1>7. Recovering'
  <2>1. Active(run') = Active(run) /\ loop.found = {}
    BY <1>1, <1>3, RecoveryFacts DEF Active
  <2> QED
    BY <1>1, <1>3, <2>1, RecoveryFacts DEF Recovering
<1>8. BranchKnown'
  BY <1>4 DEF BranchKnown
<1>9. Spared /\ NoWorkerOutlives'
  BY <1>3, NotInterrupted
<1> QED
  BY <1>5, <1>6, <1>7, <1>8, <1>9 DEF Inv

LEMMA ReconcileInv ==
  ASSUME Inv, Reconcile
  PROVE  Inv' /\ Spared
<1>1. /\ loop.pc = "reconcile" /\ loop.pc \in RecoveryPc /\ loop \in LoopRecord /\ Idle \in LoopRecord
      /\ UNCHANGED <<branch, advanced, live, exec, ask, cancel, starting, count>>
      /\ exec \in [DOMAIN run.attempts -> ExecPc]
  BY Kept DEF Reconcile, At, RecoveryPc
<1>2. CASE GoTo("interrupt") /\ UNCHANGED run
  <2>1. loop' \in LoopRecord /\ loop'.pc = "interrupt" /\ loop'.found = loop.found
    BY <1>1, <1>2 DEF GoTo, LoopRecord, LoopPc
  <2>2. loop.found = {} /\ live = {} /\ "interrupt" \in RecoveryPc
    BY <1>1, RecoveryFacts DEF RecoveryPc
  <2> QED
    BY <1>1, <1>2, <2>1, <2>2, RecoveryMoves
<1>3. CASE loop' = Idle /\ UNCHANGED run
  <2>1. loop'.pc = "idle" /\ "idle" \in FreePc /\ run.state # "awaiting_approval"
    BY <1>1, <1>3, RecoveryFacts DEF Idle, FreePc
  <2> QED
    BY <1>1, <1>3, <2>1, LoopMoves
<1>4. CASE /\ Integrated(run) # Tasks /\ branch = Append(Recorded(run), NextTask)
           /\ run.tasks[NextTask].state = "succeeded"
           /\ run' = [run EXCEPT !.tasks[NextTask].integrated = TRUE] /\ UNCHANGED loop
  BY <1>1, <1>4, ReconcileRecords DEF Integrates
<1> QED
  BY <1>2, <1>3, <1>4 DEF Reconcile

\* What is still active is interrupted: nothing of it has a worker, and nothing committed
\* of it is without its monitor.
LEMMA InterruptInv ==
  ASSUME Inv, Interrupt
  PROVE  Inv' /\ Spared
<1>1. /\ run \in RunRecord /\ RunSound(run) /\ loop \in LoopRecord /\ Idle \in LoopRecord
      /\ exec \in [DOMAIN run.attempts -> ExecPc] /\ branch \in Seq(Tasks)
      /\ Active(run) \subseteq DOMAIN run.attempts
  BY Kept, RunFields
<1>2. /\ loop.pc = "interrupt" /\ loop.pc \in RecoveryPc /\ run' = recoverInterruptedRun(run)
      /\ UNCHANGED <<branch, advanced, live, exec, ask, cancel, starting, count>>
  BY DEF Interrupt, At, RecoveryPc
<1>3. /\ live = {} /\ loop.found = {} /\ run.state # "awaiting_approval"
      /\ \A a \in Active(run) : ~(run.attempts[a].commit /\ exec[a] = "none")
  BY <1>2, RecoveryFacts
<1>4. /\ run' \in RunRecord /\ RunSound(run') /\ run'.state = run.state
      /\ run'.attempts = Over(run, "interrupted")
      /\ \A t \in Tasks :
           /\ run'.tasks[t].integrated = run.tasks[t].integrated
           /\ run'.tasks[t].error = run.tasks[t].error
           /\ run.tasks[t].state \in {"succeeded", "failed"} => run'.tasks[t].state = run.tasks[t].state
  BY <1>1, <1>2, InterruptWritten
<1>5. /\ DOMAIN run'.attempts = DOMAIN run.attempts
      /\ \A b \in DOMAIN run.attempts :
           /\ run'.attempts[b].task = run.attempts[b].task
           /\ run'.attempts[b].evidence = run.attempts[b].evidence
           /\ run'.attempts[b].commit = run.attempts[b].commit
           /\ run'.attempts[b].state = IF b \in Active(run) THEN "interrupted" ELSE run.attempts[b].state
  BY <1>1, <1>4, AttemptsOver
<1>6. loop' \in LoopRecord /\ loop'.pc \in {"idle", "integrate", "resume"}
  <2>1. \/ loop' = Idle
        \/ loop' = [loop EXCEPT !.pc = "integrate", !.recovering = TRUE]
        \/ loop' = [loop EXCEPT !.pc = "resume"]
    BY DEF Interrupt
  <2>2. Idle.pc = "idle"
    BY DEF Idle
  <2>3. /\ [loop EXCEPT !.pc = "integrate", !.recovering = TRUE] \in LoopRecord
        /\ [loop EXCEPT !.pc = "integrate", !.recovering = TRUE].pc = "integrate"
        /\ [loop EXCEPT !.pc = "resume"] \in LoopRecord /\ [loop EXCEPT !.pc = "resume"].pc = "resume"
    BY <1>1 DEF LoopRecord, LoopPc
  <2> QED
    BY <1>1, <2>1, <2>2, <2>3
<1>7. TypeOK' /\ RunSound(run') /\ Monitors'
  BY <1>1, <1>2, <1>3, <1>4, <1>5, <1>6, Kept, Base
<1>8. BranchKnown'
  <2>1. \A t \in Tasks : HasSucceeded(run, t) => HasSucceeded(run', t)
    <3>1. SUFFICES ASSUME NEW t \in Tasks, HasSucceeded(run, t) PROVE HasSucceeded(run', t)
      OBVIOUS
    <3>2. PICK b \in DOMAIN run.attempts :
            /\ run.attempts[b].task = t /\ run.attempts[b].state = "succeeded" /\ run.attempts[b].commit
      BY <3>1 DEF HasSucceeded
    <3>3. b \notin Active(run)
      BY <3>2 DEF Active, ActiveStates
    <3> QED
      BY <1>5, <3>2, <3>3 DEF HasSucceeded
  <2> QED
    BY <1>2, <1>4, <2>1, BranchStays DEF Inv
<1>9. NoWorkerOutlives'
  BY <1>2, <1>3 DEF NoWorkerOutlives
<1>10. Spared
  BY <1>3 DEF Spared
<1> QED
  BY <1>3, <1>4, <1>6, <1>7, <1>8, <1>9, <1>10, FreeKept DEF FreePc

-----------------------------------------------------------------------------
(* The invariant, and what follows from it.                                *)

\* An approved plan that has not started: nothing of it is active or integrated.
LEMMA InitInv == Init => Inv
<1>1. SUFFICES ASSUME Init PROVE Inv
  OBVIOUS
<1> DEFINE task == [state |-> "planned", integrated |-> FALSE, error |-> FALSE]
           r(deps) == [state |-> "awaiting_approval", deps |-> deps, attempts |-> <<>>, blocked |-> {},
                       tasks |-> [t \in Tasks |-> task]]
<1>2. PICK deps \in Plans : run = reconcileTaskStates(r(deps))
  BY <1>1 DEF Init
<1>3. /\ r(deps) \in RunRecord /\ r(deps).state = "awaiting_approval" /\ r(deps).attempts = <<>>
      /\ r(deps).blocked = {}
      /\ \A t \in Tasks : /\ r(deps).tasks[t].state = "planned" /\ ~r(deps).tasks[t].integrated
                          /\ ~r(deps).tasks[t].error
  <2>1. task \in Task
    BY DEF Task, TaskStates
  <2>2. <<>> \in Seq(Attempt) /\ {} \in SUBSET Nat
    OBVIOUS
  <2>3. "awaiting_approval" \in RunStates
    BY DEF RunStates
  <2>4. r(deps) \in RunRecord
    BY <2>1, <2>2, <2>3 DEF RunRecord
  <2> QED
    BY <2>4
<1> HIDE DEF r
<1>4. /\ run \in RunRecord /\ run.state = "awaiting_approval" /\ run.attempts = <<>> /\ run.blocked = {}
      /\ \A t \in Tasks : /\ ~run.tasks[t].integrated /\ ~run.tasks[t].error
                          /\ run.tasks[t].state \in Movables
  <2>1. /\ run \in RunRecord /\ run.state = r(deps).state /\ run.attempts = r(deps).attempts
        /\ run.blocked = r(deps).blocked
        /\ \A t \in Tasks : /\ run.tasks[t].integrated = r(deps).tasks[t].integrated
                            /\ run.tasks[t].error = r(deps).tasks[t].error
                            /\ IF r(deps).tasks[t].state \in Movables THEN run.tasks[t].state \in Movables
                               ELSE run.tasks[t].state = r(deps).tasks[t].state
    BY <1>2, <1>3, Reconciled
  <2>2. "planned" \in Movables
    BY DEF Movables
  <2> QED
    BY <1>3, <2>1, <2>2
<1>5. DOMAIN run.attempts = {} /\ Active(run) = {} /\ Integrated(run) = {}
  BY <1>4 DEF Active, Integrated
<1>6. RunSound(run)
  <2>1. TasksSound(run)
    BY <1>4 DEF TasksSound, Movables
  <2>2. Cardinality(Active(run)) = 0
    BY <1>5, FS_EmptySet
  <2>3. AttemptsSound(run)
    BY <1>5, <2>2, Constants DEF AttemptsSound
  <2>4. ApprovalSound(run) /\ QuestionsSound(run) /\ Tracked(run)
    BY <1>4, <1>5 DEF ApprovalSound, QuestionsSound, Tracked
  <2> QED
    BY <2>1, <2>3, <2>4 DEF RunSound
<1>7. /\ branch = <<>> /\ advanced = {} /\ live = {} /\ loop = Idle /\ exec = <<>> /\ ask = <<>>
      /\ cancel = [pc |-> "idle", on |-> {}, task |-> NoTask] /\ starting = {}
      /\ count = [troubles |-> 0, asks |-> 0]
  BY <1>1 DEF Init
<1>8. TypeOK
  <2>1. loop \in LoopRecord
    BY <1>7 DEF Idle, LoopRecord, LoopPc
  <2>2. cancel \in CancelRecord /\ branch \in Seq(Tasks)
    BY <1>7 DEF CancelRecord
  <2>3. exec \in [DOMAIN run.attempts -> ExecPc]
        /\ ask \in [DOMAIN run.attempts -> {"none", "asking", "asked"}]
    BY <1>5, <1>7
  <2>4. count \in [troubles : 0..MaxTroubles, asks : 0..MaxAsks]
    BY <1>7, Constants
  <2> QED
    BY <1>4, <1>5, <1>7, <2>1, <2>2, <2>3, <2>4, TypeParts
<1>9. branch = Recorded(run)
  <2>1. Cardinality(Integrated(run)) = 0
    BY <1>5, FS_EmptySet
  <2>2. Recorded(run) = <<>>
    BY <2>1, RecordedSeq
  <2> QED
    BY <1>7, <2>2
<1>10. loop.pc = "idle"
  BY <1>7 DEF Idle
<1> QED
  BY <1>5, <1>6, <1>7, <1>8, <1>9, <1>10
  DEF Inv, Monitors, Launching, AtLaunchPc, LaunchPc, AtIntegration, Recovering, RecoveryPc, BranchKnown, NoWorkerOutlives

LEMMA Stutters ==
  ASSUME Inv, UNCHANGED vars
  PROVE  Inv' /\ Spared
<1>1. UNCHANGED <<run, branch, advanced, live, loop, exec, ask, cancel, starting, count>>
  BY DEF vars
<1>2. TypeOK' /\ RunSound(run') /\ Monitors'
  BY <1>1, Kept, Base
<1>3. NextTask' = NextTask
  BY <1>1 DEF NextTask
<1>4. Launching' /\ AtIntegration' /\ Recovering'
  BY <1>1, <1>3 DEF Inv, Launching, AtLaunchPc, AtIntegration, Recovering, Found
<1>5. BranchKnown'
  BY <1>1, BranchStays DEF Inv
<1>6. Spared /\ NoWorkerOutlives'
  BY <1>1, NotInterrupted
<1> QED
  BY <1>2, <1>4, <1>5, <1>6 DEF Inv

LEMMA LoopInv ==
  ASSUME Inv, LoopStep
  PROVE  Inv' /\ Spared
<1>1. CASE Dispatch \/ Dispatched \/ PrepareLaunchFails
  BY <1>1, MovesInv
<1>2. CASE Reserve
  BY <1>2, ReserveInv
<1>3. CASE Spawn \/ SpawnFails \/ RecordLaunched \/ LaunchFails
  BY <1>3, LaunchInv
<1>4. CASE RecordRunning
  BY <1>4, LaunchInv, RunningInv
<1>5. CASE Unlaunch
  BY <1>5, UnlaunchInv
<1>6. CASE \E a \in DOMAIN exec : Collect(a)
  BY <1>6, CollectInv
<1>7. CASE PickIntegration
  BY <1>7, PickInv
<1>8. CASE RecordIntegration
  BY <1>8, RecordIntegrationInv
<1>9. CASE FailIntegration
  BY <1>9, FailIntegrationInv
<1> QED
  BY <1>1, <1>2, <1>3, <1>4, <1>5, <1>6, <1>7, <1>8, <1>9 DEF LoopStep

LEMMA RecoveryInv ==
  ASSUME Inv, RecoveryStep
  PROVE  Inv' /\ Spared
<1>1. CASE StopOwnedWorkers
  BY <1>1, StopInv
<1>2. CASE RecoverCommit
  BY <1>2, RecoverCommitInv
<1>3. CASE RecoverCommitFails
  BY <1>3, RecoverCommitFailsInv
<1>4. CASE CommitsRecovered
  BY <1>4, CommitsRecoveredInv
<1>5. CASE Reconcile
  BY <1>5, ReconcileInv
<1>6. CASE Interrupt
  BY <1>6, InterruptInv
<1>7. CASE ResumeAndLaunch
  BY <1>7, MovesInv
<1> QED
  BY <1>1, <1>2, <1>3, <1>4, <1>5, <1>6, <1>7 DEF RecoveryStep

LEMMA NextInv ==
  ASSUME Inv, [Next]_vars
  PROVE  Inv' /\ Spared
<1>1. CASE LoopStep
  BY <1>1, LoopInv
<1>2. CASE RecoveryStep
  BY <1>2, RecoveryInv
<1>3. CASE CancelRun
  BY <1>3, CancelRunInv
<1>4. CASE Approve \/ StartStep
  BY <1>4, ApproveInv, BranchInv, StartInv DEF StartStep
<1>5. CASE Cancel
  BY <1>5, CancelInv
<1>6. CASE Resume
  BY <1>6, ResumeInv
<1>7. CASE Retry
  BY <1>7, RetryInv
<1>8. CASE Prune
  BY <1>8, PruneInv
<1>9. CASE Crash
  BY <1>9, CrashInv
<1>10. ASSUME NEW a \in DOMAIN exec, MonitorStep(a) \/ AskStep(a) \/ Ask(a) PROVE Inv' /\ Spared
  BY <1>10, MonitorInv, AskInv
<1>11. CASE UNCHANGED vars
  BY <1>11, Stutters
<1> QED
  BY <1>1, <1>2, <1>3, <1>4, <1>5, <1>6, <1>7, <1>8, <1>9, <1>10, <1>11 DEF Next

\* The inductive invariant: what the store holds, what each process that writes to it knows
\* at the await it is at, and how far the integration branch may be ahead of the record.
THEOREM Invariance == Spec => []Inv
<1>1. Init => Inv
  BY InitInv
<1>2. Inv /\ [Next]_vars => Inv'
  BY NextInv
<1> QED
  BY <1>1, <1>2, PTL DEF Spec

\* No write of the orchestrator is one that validateStoredRun refuses, however its loop, its
\* monitors, a recovery, a retry, a cancellation and the questions of workers interleave.
THEOREM Accepted == Spec => []StoreAccepts
<1>1. Inv => StoreAccepts
  BY DEF Inv, RunSound, StoreAccepts
<1> QED
  BY <1>1, Invariance, PTL

\* The integration branch is the recorded history or one commit of a task that succeeded
\* ahead of it, whenever the process stops, fails or is retried.
THEOREM BranchFollows == Spec => []BranchFollowsRecord
<1>1. Inv => BranchFollowsRecord
  <2>1. SUFFICES ASSUME Ahead PROVE BranchFollowsRecord
    BY DEF Inv, BranchKnown, BranchFollowsRecord
  <2>2. NextTask \in Tasks \ Integrated(run)
    BY <2>1, NextFacts DEF Ahead, Integrated
  <2> QED
    BY <2>1, <2>2 DEF Ahead, BranchFollowsRecord
<1> QED
  BY <1>1, Invariance, PTL

\* No attempt that a recovery declares interrupted has a worker left on the server.
THEOREM NoneOutlives == Spec => []NoWorkerOutlives
<1>1. Inv => NoWorkerOutlives
  BY DEF Inv
<1> QED
  BY <1>1, Invariance, PTL

\* A recorded commit without a monitor is never interrupted away: a recovery that interrupts
\* has found every such attempt before, and has recorded its success or its failure.
THEOREM WorkKept == Spec => CommittedWorkKept
<1>1. Inv /\ [Next]_vars => [Spared]_vars
  BY NextInv
<1>2. [Spared]_vars <=> [\A a \in Active(run) :
         run.attempts[a].commit /\ exec[a] = "none" => run'.attempts[a].state # "interrupted"]_vars
  BY DEF Spared
<1> QED
  BY <1>1, <1>2, Invariance, PTL DEF Spec, CommittedWorkKept

-----------------------------------------------------------------------------
(* The loops of the code over the tasks.                                   *)

\* What the pass of reconcileTaskStates makes of tasks: each task is decided from the states
\* the pass has already given its dependencies, which come before it.
TaskPass(deps, tasks, now) ==
  \A t \in Tasks :
    now[t] = IF ~Movable(tasks[t]) THEN tasks[t].state
             ELSE IF \E d \in deps[t] : now[d] \in {"failed", "blocked", "cancelled"} THEN "blocked"
             ELSE IF \A d \in deps[t] : tasks[d].integrated THEN "ready"
             ELSE "planned"

\* Behind is closed: a task that waits for a failure, or for a task behind one, is in it.
LEMMA BehindClosed ==
  ASSUME NEW deps, NEW tasks
  PROVE  HoldsBehind(deps, tasks, Behind(deps, tasks))
<1> SUFFICES ASSUME NEW t \in Tasks, Movable(tasks[t]), NEW d \in deps[t],
                    tasks[d].state \in {"failed", "cancelled"} \/ d \in Behind(deps, tasks)
             PROVE  t \in Behind(deps, tasks)
  BY DEF HoldsBehind
<1>1. ASSUME NEW B \in SUBSET Tasks, HoldsBehind(deps, tasks, B)
      PROVE  t \in B
  <2>1. d \in Behind(deps, tasks) => d \in B
    BY <1>1 DEF Behind
  <2> QED
    BY <1>1, <2>1 DEF HoldsBehind
<1> QED
  BY <1>1 DEF Behind

\* A task behind a failure can move, and has a dependency that failed or is behind one itself.
LEMMA BehindGrounded ==
  ASSUME NEW deps, NEW tasks, NEW t \in Behind(deps, tasks)
  PROVE  /\ t \in Tasks /\ Movable(tasks[t])
         /\ \E d \in deps[t] : tasks[d].state \in {"failed", "cancelled"} \/ d \in Behind(deps, tasks)
<1> DEFINE F == Behind(deps, tasks)
           B == {u \in F : /\ Movable(tasks[u])
                           /\ \E d \in deps[u] : tasks[d].state \in {"failed", "cancelled"} \/ d \in F}
<1>1. B \in SUBSET Tasks
  BY DEF Behind
<1>2. HoldsBehind(deps, tasks, B)
  BY BehindClosed DEF HoldsBehind
<1>3. t \in B
  <2> HIDE DEF B
  <2> QED
    BY <1>1, <1>2 DEF Behind
<1> QED
  BY <1>1, <1>3

\* The pass of reconcileTaskStates, which decides each task from what it has just made of
\* its dependencies, gives the states of nextState here and no others.
THEOREM OnePassReconciles ==
  ASSUME NEW deps \in Plans, NEW tasks \in [Tasks -> Task], NEW now \in [Tasks -> TaskStates]
  PROVE  TaskPass(deps, tasks, now) <=> \A t \in Tasks : now[t] = nextState(deps, tasks, t)
<1> DEFINE F == Behind(deps, tasks)
           M == {t \in Tasks : Movable(tasks[t])}
<1>1. \A t \in Tasks : \A d \in deps[t] : d \in Tasks /\ Position[d] < Position[t]
  BY LegacyAssumption
<1>2. \A t \in M : t \in Tasks /\ tasks[t].state \in {"planned", "ready", "blocked"}
  BY DEF Movable
<1>3. F \subseteq M
  BY BehindGrounded
<1>4. \A t \in M : t \in F <=> \E d \in deps[t] : tasks[d].state \in {"failed", "cancelled"} \/ d \in F
  BY BehindClosed, BehindGrounded DEF HoldsBehind
<1>5. \A t \in Tasks \ M : tasks[t].state # "blocked" /\ tasks[t].state \in TaskStates
  BY DEF Movable, Task
<1> HIDE DEF F
<1>6. ASSUME TaskPass(deps, tasks, now), NEW t \in Tasks
      PROVE  now[t] = nextState(deps, tasks, t)
  <2> DEFINE B == {u \in M : now[u] = "blocked"}
             S == (B \ F) \cup (F \ B)
  <2>1. /\ \A u \in Tasks \ M : now[u] = tasks[u].state
        /\ \A u \in M : now[u] \in {"blocked", "ready", "planned"}
    BY <1>6 DEF TaskPass
  <2>2. \A d \in Tasks :
          now[d] \in {"failed", "blocked", "cancelled"}
            <=> tasks[d].state \in {"failed", "cancelled"} \/ d \in B
    <3>1. \A d \in Tasks \ M : now[d] \in {"failed", "blocked", "cancelled"}
                                 <=> tasks[d].state \in {"failed", "cancelled"}
      BY <1>5, <2>1
    <3>2. \A d \in M : /\ now[d] \in {"failed", "blocked", "cancelled"} <=> now[d] = "blocked"
                       /\ tasks[d].state \notin {"failed", "cancelled"}
      BY <1>2, <2>1
    <3> HIDE DEF M
    <3> QED
      BY <3>1, <3>2
  <2>3. \A u \in M : now[u] = "blocked" <=> \E d \in deps[u] : now[d] \in {"failed", "blocked", "cancelled"}
    BY <1>6 DEF TaskPass
  <2>4. \A u \in M :
          u \in B <=> \E d \in deps[u] : tasks[d].state \in {"failed", "cancelled"} \/ d \in B
    <3>1. \A u \in M : u \in B <=> now[u] = "blocked"
      OBVIOUS
    <3> HIDE DEF B, M
    <3> QED
      BY <1>1, <1>2, <2>2, <2>3, <3>1
  <2>5. B \subseteq M /\ M \subseteq Tasks
    OBVIOUS
  <2> HIDE DEF B, M
  <2>6. S = {}
    <3> SUFFICES ASSUME S # {} PROVE FALSE
      OBVIOUS
    <3>1. S \in SUBSET Tasks /\ \A u \in S : u \in M
      BY <1>3, <2>5
    <3>2. PICK s \in S : \A u \in S : Position[s] <= Position[u]
      BY <3>1, FirstTask
    <3>3. \A d \in deps[s] : d \notin S
      <4>1. \A u \in Tasks : Position[u] \in Nat
        BY Constants
      <4> QED
        BY <1>1, <3>1, <3>2, <4>1
    <3>4. \A d \in deps[s] : d \in B <=> d \in F
      BY <3>3
    <3>5. s \in B <=> s \in F
      BY <1>4, <2>4, <3>1, <3>4
    <3> QED
      BY <3>5
  <2>7. B = F
    BY <2>6
  <2>8. CASE t \notin M
    BY <2>1, <2>8 DEF nextState, M
  <2>9. CASE t \in M
    <3>1. t \in F <=> \E d \in deps[t] : now[d] \in {"failed", "blocked", "cancelled"}
      BY <1>4, <1>1, <2>2, <2>7, <2>9
    <3> QED
      BY <1>6, <2>9, <3>1 DEF TaskPass, nextState, M, F
  <2> QED
    BY <2>8, <2>9
<1>7. ASSUME \A t \in Tasks : now[t] = nextState(deps, tasks, t)
      PROVE  TaskPass(deps, tasks, now)
  <2>1. \A d \in Tasks :
          now[d] \in {"failed", "blocked", "cancelled"}
            <=> tasks[d].state \in {"failed", "cancelled"} \/ d \in F
    <3>1. \A d \in Tasks \ M : now[d] = tasks[d].state
      BY <1>7 DEF nextState
    <3>2. \A d \in M : now[d] \in {"failed", "blocked", "cancelled"} <=> d \in F
      BY <1>7 DEF nextState, F
    <3>3. \A d \in M : tasks[d].state \notin {"failed", "cancelled"}
      BY <1>2
    <3> HIDE DEF M
    <3> QED
      BY <1>3, <1>5, <3>1, <3>2, <3>3
  <2>2. ASSUME NEW t \in Tasks
        PROVE  Movable(tasks[t]) =>
                 (t \in F <=> \E d \in deps[t] : now[d] \in {"failed", "blocked", "cancelled"})
    BY <1>1, <1>4, <2>1
  <2> QED
    BY <1>7, <2>2 DEF TaskPass, nextState, F
<1> QED
  BY <1>6, <1>7

FailedTasks == {t \in Tasks : run.tasks[t].state = "failed"}

\* One step of the loop of stepRetryWork, which has found the tasks S: it takes a task that
\* is blocked behind one of them, and the loop ends when there is none left.
TakesReset(S, t) == t \in Tasks \ S /\ run.tasks[t].state = "blocked" /\ run.deps[t] \cap S # {}

\* The loop of stepRetryWork, in whatever order it visits the tasks, starts inside Resets,
\* never leaves it, and ends with all of it.
THEOREM LoopFindsResets ==
  /\ FailedTasks \subseteq Resets
  /\ \A S \in SUBSET Resets : \A t \in Tasks : TakesReset(S, t) => S \cup {t} \subseteq Resets
  /\ \A S \in SUBSET Resets :
       FailedTasks \subseteq S /\ (\A t \in Tasks : ~TakesReset(S, t)) => S = Resets
<1>1. FailedTasks \subseteq Resets
  BY ResetTasks DEF FailedTasks
<1>2. ASSUME NEW S \in SUBSET Resets, NEW t \in Tasks, TakesReset(S, t)
      PROVE  S \cup {t} \subseteq Resets
  <2>1. ASSUME NEW B \in SUBSET Tasks, HoldsReset(B)
        PROVE  t \in B
    <3>1. S \subseteq B
      BY <2>1 DEF Resets
    <3> QED
      BY <1>2, <2>1, <3>1 DEF HoldsReset, TakesReset
  <2> QED
    BY <2>1 DEF Resets
<1>3. ASSUME NEW S \in SUBSET Resets, FailedTasks \subseteq S, \A t \in Tasks : ~TakesReset(S, t)
      PROVE  S = Resets
  <2>1. S \in SUBSET Tasks
    BY DEF Resets
  <2>2. HoldsReset(S)
    BY <1>3 DEF HoldsReset, TakesReset, FailedTasks
  <2> QED
    BY <2>1, <2>2 DEF Resets
<1> QED
  BY <1>1, <1>2, <1>3
=============================================================================
