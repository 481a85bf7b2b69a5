--------------------------- MODULE StepScheduler ---------------------------
(***************************************************************************)
(* The pure scheduling rules of engine/scheduler.ts: which steps of an     *)
(* approved plan are blocked, waiting or ready, which of the ready ones    *)
(* may start now, and which finished one is integrated next.               *)
(*                                                                         *)
(* A step is an element of Steps.  What the plan declares of it is a       *)
(* constant: its dependencies, its index in topologicalStepIds, whether    *)
(* its workspace is mutable, whether it occupies a workspace at all, and   *)
(* the pairs of steps whose path or resource locks conflict.               *)
(***************************************************************************)
EXTENDS Integers, FiniteSets

CONSTANTS
  Steps,       \* the step ids of the plan
  Deps,        \* Deps[s]: the dependencies step s declares
  Position,    \* Position[s]: the index of s in topologicalStepIds
  Mutating,    \* steps with a mutable workspace (stepRequiresIntegration)
  UsesSlot,    \* steps with a workspace (stepConsumesWorkerSlot)
  Conflicts,   \* pairs of steps whose path or resource locks conflict
  MaxWorkers   \* maxConcurrentWorkers

ASSUME PlanAssumption ==
  /\ IsFiniteSet(Steps)
  /\ Deps \in [Steps -> SUBSET Steps]
  /\ Position \in [Steps -> Nat]
  /\ \A s, t \in Steps : Position[s] = Position[t] => s = t
  /\ \A s \in Steps : \A d \in Deps[s] : Position[d] < Position[s]
  /\ Mutating \subseteq UsesSlot
  /\ UsesSlot \subseteq Steps

ASSUME LocksAssumption ==
  /\ Conflicts \subseteq Steps \X Steps
  /\ \A s, t \in Steps : <<s, t>> \in Conflicts => <<t, s>> \in Conflicts

ASSUME WorkersAssumption == MaxWorkers \in Nat \ {0}

-----------------------------------------------------------------------------
(* The states of a step.                                                   *)

StepRunState ==
  {"planned", "ready", "running", "succeeded", "failed", "blocked", "cancelled"}
TerminalStepStates == {"succeeded", "failed", "blocked", "cancelled"}
FailureStepStates == {"failed", "blocked", "cancelled"}

\* Faulty variants of SatisfiesDependents: a commit that is not integrated yet
\* counts; every dependency has to be integrated.
SatisfiedBySuccess(st, integrated, d) == st[d] = "succeeded"
SatisfiedByBoth(st, integrated, d) == st[d] = "succeeded" /\ d \in integrated

\* A dependency unblocks its dependents once its result is in the repository
\* state they start from: a mutating step must also be integrated.
SatisfiesDependents(st, integrated, d) ==
  st[d] = "succeeded" /\ (d \in Mutating => d \in integrated)

-----------------------------------------------------------------------------
(* reconcileWorkflowSteps.                                                 *)

\* The steps a reconciliation may move: neither running nor terminal.
Movable(st) == {s \in Steps : st[s] \notin TerminalStepStates \cup {"running"}}

\* B holds every movable step with a dependency that failed or is in B.
HoldsStranded(st, B) ==
  \A s \in Movable(st) :
    (\E d \in Deps[s] : st[d] \in FailureStepStates \/ d \in B) => s \in B

\* The steps the pass blocks: the least such set.  The code reaches it in one
\* pass because it visits the dependencies of a step before the step.
Stranded(st) ==
  {s \in Movable(st) :
     \A B \in SUBSET Movable(st) : HoldsStranded(st, B) => s \in B}

nextStepState(st, integrated, s) ==
  IF s \notin Movable(st) THEN st[s]
  ELSE IF s \in Stranded(st) THEN "blocked"
  ELSE IF \A d \in Deps[s] : SatisfiesDependents(st, integrated, d) THEN "ready"
  ELSE "planned"

reconcileWorkflowSteps(st, integrated) ==
  [s \in Steps |-> nextStepState(st, integrated, s)]

-----------------------------------------------------------------------------
(* launchableStepIds.                                                      *)

\* Faulty variant of conflictsWithHeldLocks: locks are not compared.
ignoresHeldLocks(s, held) == FALSE

\* Some step of held has a lock that conflicts with one of s.
conflictsWithHeldLocks(s, held) == \E t \in held : <<s, t>> \in Conflicts

Running(st) == {s \in Steps : st[s] = "running"}

\* A slot is held by an active attempt, and by a step left running without one.
occupiedSlots(st, active) == Cardinality((active \cup Running(st)) \cap UsesSlot)

\* s may start beside the running steps and the steps of started.
Fits(st, active, started, s) ==
  /\ ~conflictsWithHeldLocks(s, Running(st) \cup started)
  /\ s \in UsesSlot =>
       occupiedSlots(st, active) + Cardinality(started \cap UsesSlot) < MaxWorkers

\* A ready step without an active attempt that fits beside what runs already.
Startable(st, active) ==
  {s \in Steps : /\ st[s] = "ready"
                 /\ s \notin active
                 /\ Fits(st, active, {}, s)}

Before(S, s) == {t \in S : Position[t] < Position[s]}

\* The set the loop over the plan order picks: it takes each startable step
\* that still fits beside the ones taken before it.
FirstFit(st, active) ==
  CHOOSE P \in SUBSET Startable(st, active) :
    \A s \in Startable(st, active) :
      s \in P <=> Fits(st, active, Before(P, s), s)

\* active is the set of steps with an active attempt.
launchableStepIds(runState, steps, integrated, active) ==
  LET st == reconcileWorkflowSteps(steps, integrated)
  IN  {s \in Startable(st, active) : runState = "running" /\ s \in FirstFit(st, active)}

-----------------------------------------------------------------------------
(* nextIntegrableStepId: the first mutating step that is not integrated,   *)
(* if it has succeeded.                                                    *)

\* Faulty variant of isNextIntegrable: steps integrate as they finish.
isFinished(st, integrated, s) == s \in Mutating \ integrated /\ st[s] = "succeeded"

isNextIntegrable(st, integrated, s) ==
  /\ s \in Mutating \ integrated
  /\ Before(Mutating, s) \subseteq integrated
  /\ st[s] = "succeeded"

=============================================================================
