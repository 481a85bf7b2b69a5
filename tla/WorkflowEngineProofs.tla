------------------------ MODULE WorkflowEngineProofs ------------------------
(***************************************************************************)
(* The inductive invariants of WorkflowEngine and its safety properties,   *)
(* for every plan, every number of workers and every bound on crashes and  *)
(* retries: first those of its loop, then those of the durable state, and  *)
(* that it implements EngineLifecycle.                                     *)
(*                                                                         *)
(* TypeOK is not inductive: which attempt a commit comes from is known     *)
(* only because a succeeded step succeeded in its newest attempt, which    *)
(* holds because only a step with an active attempt settles.  Control      *)
(* states what the loop knows of the steps it holds in queue and hand, and *)
(* Attempting relates the states of the steps to those of their attempts.  *)
(***************************************************************************)
EXTENDS WorkflowEngine, FiniteSetTheorems, SequenceTheorems, TLAPS

-----------------------------------------------------------------------------
(* What the scheduling rules of StepScheduler preserve and grant, for any plan. *)

\* A reconciliation gives every step a state.
LEMMA ReconcileType ==
  ASSUME NEW st \in [Steps -> StepRunState], NEW merged
  PROVE  reconcileWorkflowSteps(st, merged) \in [Steps -> StepRunState]
  BY DEF reconcileWorkflowSteps, nextStepState, Movable, StepRunState

\* A reconciliation never moves a running or terminal step.
LEMMA ReconcileKeeps ==
  ASSUME NEW st, NEW merged, NEW s \in Steps,
         st[s] \in TerminalStepStates \cup {"running"}
  PROVE  reconcileWorkflowSteps(st, merged)[s] = st[s]
  BY DEF reconcileWorkflowSteps, nextStepState, Movable

\* A reconciliation never starts, ends or fails a step.
LEMMA ReconcileMoves ==
  ASSUME NEW st, NEW merged, NEW s \in Steps,
         st[s] \notin TerminalStepStates \cup {"running"}
  PROVE  reconcileWorkflowSteps(st, merged)[s] \in {"planned", "ready", "blocked"}
  BY DEF reconcileWorkflowSteps, nextStepState, Movable

\* A reconciliation gives every step a state, and no step enters or leaves a
\* state that only an attempt or the end of the run gives it.
LEMMA ReconcilePreserves ==
  ASSUME NEW st \in [Steps -> StepRunState], NEW merged
  PROVE  /\ reconcileWorkflowSteps(st, merged) \in [Steps -> StepRunState]
         /\ \A s \in Steps : \A v \in {"running", "succeeded", "failed", "cancelled"} :
              reconcileWorkflowSteps(st, merged)[s] = v <=> st[s] = v
  BY ReconcileType, ReconcileKeeps, ReconcileMoves DEF StepRunState, TerminalStepStates

\* The steps that run are the same before and after a reconciliation.
LEMMA ReconcileRunning ==
  ASSUME NEW st, NEW merged
  PROVE  Running(reconcileWorkflowSteps(st, merged)) = Running(st)
  BY ReconcileKeeps, ReconcileMoves DEF Running, TerminalStepStates

\* What being launchable grants: the run is running; the step is neither
\* running nor terminal, has no active attempt, and conflicts with no running
\* step; and a worker slot is free if it needs one.
LEMMA LaunchableGrants ==
  ASSUME NEW runState, NEW st \in [Steps -> StepRunState], NEW merged,
         NEW active \in SUBSET Steps,
         NEW s \in launchableStepIds(runState, st, merged, active)
  PROVE  /\ runState = "running"
         /\ s \in Steps
         /\ st[s] \in {"planned", "ready"}
         /\ s \notin active
         /\ \A t \in Running(st) : <<s, t>> \notin Conflicts
         /\ s \in UsesSlot => occupiedSlots(st, active) < MaxWorkers
<1> DEFINE rec == reconcileWorkflowSteps(st, merged)
<1>1. s \in Startable(rec, active) /\ runState = "running"
  BY DEF launchableStepIds
<1>2. /\ s \in Steps
      /\ rec[s] = "ready"
      /\ s \notin active
      /\ Fits(rec, active, {}, s)
  BY <1>1 DEF Startable
<1>3. st[s] \in {"planned", "ready"}
  <2>1. st[s] \in StepRunState
    BY <1>2
  <2>2. st[s] \notin TerminalStepStates \cup {"running"} \/ rec[s] = st[s]
    BY <1>2, ReconcileKeeps
  <2> QED
    BY <1>2, <2>1, <2>2 DEF StepRunState, TerminalStepStates
<1>4. Running(rec) = Running(st)
  BY ReconcileRunning
<1>5. \A t \in Running(st) : <<s, t>> \notin Conflicts
  BY <1>2, <1>4 DEF Fits, conflictsWithHeldLocks
<1>6. s \in UsesSlot => occupiedSlots(st, active) < MaxWorkers
  <2>1. occupiedSlots(rec, active) = occupiedSlots(st, active)
    BY <1>4 DEF occupiedSlots
  <2>2. IsFiniteSet((active \cup Running(st)) \cap UsesSlot)
    BY PlanAssumption, FS_Subset DEF Running
  <2>3. occupiedSlots(st, active) \in Nat
    BY <2>2, FS_CardinalityType DEF occupiedSlots
  <2>4. Cardinality({} \cap UsesSlot) = 0
    <3>1. {} \cap UsesSlot = {}
      OBVIOUS
    <3> QED
      BY <3>1, FS_EmptySet
  <2> QED
    BY <1>2, <2>1, <2>3, <2>4 DEF Fits
<1> QED
  BY <1>1, <1>2, <1>3, <1>5, <1>6

-----------------------------------------------------------------------------
(* A reconciliation, once more.                                            *)

\* What the pass blocks is closed: a movable step behind a failure or behind a
\* blocked step is blocked as well.
LEMMA StrandedClosed ==
  ASSUME NEW st
  PROVE  HoldsStranded(st, Stranded(st))
<1> SUFFICES ASSUME NEW s \in Movable(st), NEW d \in Deps[s],
                    st[d] \in FailureStepStates \/ d \in Stranded(st),
                    NEW B \in SUBSET Movable(st), HoldsStranded(st, B)
             PROVE  s \in B
  BY DEF HoldsStranded, Stranded
<1>1. d \in Stranded(st) => d \in B
  BY DEF Stranded
<1> QED
  BY <1>1 DEF HoldsStranded

\* A state that needs no reconciliation: nothing in it is behind a failure, and
\* a step is ready exactly when all its dependencies are satisfied.
IsReconciled(st, merged) ==
  \A s \in Movable(st) :
    /\ \A d \in Deps[s] : st[d] \notin FailureStepStates
    /\ st[s] = IF \A d \in Deps[s] : SatisfiesDependents(st, merged, d)
               THEN "ready" ELSE "planned"

\* Such a state is its own reconciliation.
LEMMA FixpointFromRules ==
  ASSUME NEW st \in [Steps -> StepRunState], NEW merged, IsReconciled(st, merged)
  PROVE  st = reconcileWorkflowSteps(st, merged)
<1>1. HoldsStranded(st, {})
  BY DEF HoldsStranded, IsReconciled
<1>2. Stranded(st) = {}
  BY <1>1 DEF Stranded
<1> QED
  BY <1>2 DEF reconcileWorkflowSteps, nextStepState, IsReconciled

\* A state that is its own reconciliation is such a state.
LEMMA RulesFromFixpoint ==
  ASSUME NEW st \in [Steps -> StepRunState], NEW merged,
         st = reconcileWorkflowSteps(st, merged)
  PROVE  IsReconciled(st, merged)
<1> SUFFICES ASSUME NEW s \in Movable(st)
             PROVE  /\ \A d \in Deps[s] : st[d] \notin FailureStepStates
                    /\ st[s] = IF \A d \in Deps[s] : SatisfiesDependents(st, merged, d)
                               THEN "ready" ELSE "planned"
  BY DEF IsReconciled
<1>1. s \in Steps /\ st[s] = nextStepState(st, merged, s)
  BY DEF reconcileWorkflowSteps, Movable
<1>2. s \notin Stranded(st)
  BY <1>1 DEF nextStepState, Movable, TerminalStepStates
<1>3. \A d \in Deps[s] : st[d] \notin FailureStepStates
  BY <1>2, StrandedClosed DEF HoldsStranded
<1> QED
  BY <1>1, <1>2, <1>3 DEF nextStepState

\* One pass is enough: what a reconciliation returns needs no other one.
LEMMA ReconcileIsEnough ==
  ASSUME NEW st \in [Steps -> StepRunState], NEW merged
  PROVE  IsReconciled(reconcileWorkflowSteps(st, merged), merged)
<1> DEFINE rec == reconcileWorkflowSteps(st, merged)
<1>1. /\ rec \in [Steps -> StepRunState]
      /\ \A s \in Steps : \A v \in {"running", "succeeded", "failed", "cancelled"} :
           rec[s] = v <=> st[s] = v
  BY ReconcilePreserves
<1>2. \A s \in Steps : rec[s] = nextStepState(st, merged, s)
  BY DEF reconcileWorkflowSteps
<1> SUFFICES ASSUME NEW s \in Movable(rec)
             PROVE  /\ \A d \in Deps[s] : rec[d] \notin FailureStepStates
                    /\ rec[s] = IF \A d \in Deps[s] : SatisfiesDependents(rec, merged, d)
                                THEN "ready" ELSE "planned"
  BY DEF IsReconciled
<1> HIDE DEF rec
<1>3. s \in Steps /\ s \in Movable(st) /\ s \notin Stranded(st)
  BY <1>1, <1>2 DEF Movable, nextStepState, TerminalStepStates
<1>4. Deps[s] \subseteq Steps
  BY <1>3, PlanAssumption
<1>5. ASSUME NEW d \in Deps[s]
      PROVE  rec[d] \notin FailureStepStates
  <2>1. st[d] \notin FailureStepStates /\ d \notin Stranded(st)
    BY <1>3, StrandedClosed DEF HoldsStranded
  <2> QED
    BY <1>2, <1>4, <2>1 DEF nextStepState, FailureStepStates
<1>6. \A d \in Deps[s] : SatisfiesDependents(rec, merged, d)
                           <=> SatisfiesDependents(st, merged, d)
  BY <1>1, <1>4 DEF SatisfiesDependents
<1> QED
  BY <1>2, <1>3, <1>5, <1>6 DEF nextStepState

-----------------------------------------------------------------------------
(* The plan order.                                                         *)

\* A collection of sets of steps has a member that holds no other one.
LEMMA SmallestSet ==
  ASSUME NEW C, C \subseteq SUBSET Steps, C # {}
  PROVE  \E A \in C : \A B \in C : B \subseteq A => B = A
<1>1. IsWellFoundedOn(StrictSubsetOrdering(Steps), SUBSET Steps)
  BY PlanAssumption, FS_StrictSubsetOrderingWellFounded, FS_FiniteSubsetsOfFinite
<1>2. PICK A \in C : \A B \in C : <<B, A>> \notin StrictSubsetOrdering(Steps)
  BY <1>1, WFMin
<1>3. ASSUME NEW B \in C, B \subseteq A
      PROVE  B = A
  <2>1. A \in SUBSET Steps /\ B \in SUBSET Steps
    OBVIOUS
  <2> QED
    BY <1>2, <1>3, <2>1 DEF StrictSubsetOrdering
<1> QED
  BY <1>3

\* Some step of a set comes first in plan order.
LEMMA FirstInOrder ==
  ASSUME NEW S, S \subseteq Steps, S # {}
  PROVE  \E s \in S : Before(S, s) = {}
<1> DEFINE C == {Before(S, s) : s \in S}
<1>1. C \subseteq SUBSET Steps /\ C # {}
  BY DEF Before
<1>2. PICK A \in C : \A B \in C : B \subseteq A => B = A
  <2> HIDE DEF C
  <2> QED
    BY ONLY <1>1, SmallestSet
<1>3. PICK s \in S : A = Before(S, s)
  OBVIOUS
<1>4. ASSUME NEW t \in Before(S, s)
      PROVE  FALSE
  <2>1. t \in S /\ Position[t] < Position[s] /\ Position[t] \in Nat /\ Position[s] \in Nat
    BY PlanAssumption DEF Before
  <2>2. \A u \in S : Position[u] \in Nat
    BY PlanAssumption
  <2>3. Before(S, t) \subseteq Before(S, s) /\ t \notin Before(S, t)
    BY <2>1, <2>2 DEF Before
  <2> QED
    BY <1>2, <1>3, <2>1, <2>3
<1> QED
  BY <1>4

\* Some step of a set comes last in plan order.
LEMMA LastInOrder ==
  ASSUME NEW S, S \subseteq Steps, S # {}
  PROVE  \E s \in S : \A t \in S : t = s \/ Position[t] < Position[s]
<1> DEFINE After(s) == {t \in S : Position[s] < Position[t]}
           C == {After(s) : s \in S}
<1>1. C \subseteq SUBSET Steps /\ C # {}
  OBVIOUS
<1>2. PICK A \in C : \A B \in C : B \subseteq A => B = A
  <2> HIDE DEF C
  <2> QED
    BY ONLY <1>1, SmallestSet
<1>3. PICK s \in S : A = After(s)
  OBVIOUS
<1>4. ASSUME NEW t \in S, ~(t = s \/ Position[t] < Position[s])
      PROVE  FALSE
  <2>1. /\ Position[t] \in Nat /\ Position[s] \in Nat /\ Position[t] # Position[s]
        /\ \A u \in S : Position[u] \in Nat
    BY <1>4, PlanAssumption
  <2>2. t \in After(s) /\ t \notin After(t) /\ After(t) \subseteq After(s)
    BY <1>4, <2>1
  <2> QED
    BY <1>2, <1>3, <2>2
<1> QED
  BY <1>4

-----------------------------------------------------------------------------
(* What launchableStepIds finds.                                           *)

\* The loop over the plan order has a result: a set that takes each startable
\* step exactly when it fits beside the ones taken before it.
LEMMA FirstFitExists ==
  ASSUME NEW st, NEW active
  PROVE  /\ FirstFit(st, active) \subseteq Startable(st, active)
         /\ \A s \in Startable(st, active) :
              s \in FirstFit(st, active)
                <=> Fits(st, active, Before(FirstFit(st, active), s), s)
<1> DEFINE Picks(A, P) == \A s \in A : s \in P <=> Fits(st, active, Before(P, s), s)
           C == {A \in SUBSET Startable(st, active) : ~\E P \in SUBSET A : Picks(A, P)}
<1>1. C = {}
  <2> SUFFICES ASSUME C # {}
               PROVE  FALSE
    OBVIOUS
  <2>1. C \subseteq SUBSET Steps
    BY DEF Startable
  <2>2. PICK A \in C : \A B \in C : B \subseteq A => B = A
    <3> HIDE DEF C
    <3> QED
      BY <2>1, SmallestSet
  <2>3. A # {}
    OBVIOUS
  <2>4. PICK last \in A : \A t \in A : t = last \/ Position[t] < Position[last]
    BY ONLY <2>1, <2>3, A \in C, LastInOrder
  <2>5. A \ {last} \notin C /\ A \ {last} \in SUBSET Startable(st, active)
    BY <2>2
  <2>6. PICK P \in SUBSET (A \ {last}) : Picks(A \ {last}, P)
    BY <2>5
  <2> DEFINE Q == IF Fits(st, active, P, last) THEN P \cup {last} ELSE P
  <2>7. \A s \in A : Position[s] \in Nat
    BY <2>1, PlanAssumption
  <2>8. Before(Q, last) = P
    BY <2>4, <2>7 DEF Before
  <2>9. \A s \in A \ {last} : Before(Q, s) = Before(P, s)
    BY <2>4, <2>7 DEF Before
  <2>10. Q \in SUBSET A /\ \A s \in A \ {last} : s \in Q <=> s \in P
    OBVIOUS
  <2>11. last \in Q <=> Fits(st, active, P, last)
    OBVIOUS
  <2> HIDE DEF Q
  <2>12. Picks(A, Q)
    BY <2>6, <2>8, <2>9, <2>10, <2>11
  <2> QED
    BY <2>10, <2>12
<1>2. \E P \in SUBSET Startable(st, active) : Picks(Startable(st, active), P)
  BY <1>1
<1> QED
  BY <1>2 DEF FirstFit

\* A launchable step is ready for good reasons: every dependency is satisfied.
LEMMA LaunchableIsSatisfied ==
  ASSUME NEW runState, NEW st \in [Steps -> StepRunState], NEW merged,
         NEW active \in SUBSET Steps,
         NEW s \in launchableStepIds(runState, st, merged, active)
  PROVE  \A d \in Deps[s] : SatisfiesDependents(st, merged, d)
<1>1. s \in Steps /\ st[s] \in {"planned", "ready"}
  BY LaunchableGrants
<1>2. reconcileWorkflowSteps(st, merged)[s] = "ready"
  BY DEF launchableStepIds, Startable
<1> QED
  BY <1>1, <1>2 DEF reconcileWorkflowSteps, nextStepState, Movable, TerminalStepStates

\* Nothing is launchable in a running run with nothing active only when nothing
\* is ready.
LEMMA NothingReady ==
  ASSUME NEW st \in [Steps -> StepRunState], NEW merged,
         st = reconcileWorkflowSteps(st, merged),
         Running(st) = {},
         launchableStepIds("running", st, merged, {}) = {}
  PROVE  \A s \in Steps : st[s] # "ready"
<1> DEFINE ready == Startable(st, {})
<1>1. ASSUME NEW s \in Steps, st[s] = "ready"
      PROVE  s \in ready
  <2>1. Cardinality({}) = 0 /\ ({} \cup {}) \cap UsesSlot = {} /\ {} \cap UsesSlot = {}
    BY FS_EmptySet
  <2>2. occupiedSlots(st, {}) + Cardinality({} \cap UsesSlot) = 0
    BY <2>1 DEF occupiedSlots
  <2>3. occupiedSlots(st, {}) + Cardinality({} \cap UsesSlot) < MaxWorkers
    BY <2>2, WorkersAssumption
  <2> QED
    BY <1>1, <2>3 DEF Startable, Fits, conflictsWithHeldLocks
<1>2. ASSUME ready # {}
      PROVE  FALSE
  <2>1. ready \subseteq Steps
    BY DEF Startable
  <2>2. PICK s \in ready : Before(ready, s) = {}
    BY ONLY <1>2, <2>1, FirstInOrder
  <2>3. Before(FirstFit(st, {}), s) = {}
    BY <2>2, FirstFitExists DEF Before
  <2>4. Fits(st, {}, {}, s)
    BY DEF Startable
  <2>5. s \in FirstFit(st, {})
    BY <2>3, <2>4, FirstFitExists
  <2>6. s \in launchableStepIds("running", st, merged, {})
    BY <2>5 DEF launchableStepIds
  <2> QED
    BY <2>6
<1> QED
  BY <1>1, <1>2

-----------------------------------------------------------------------------
(* The passes of the code over the plan order.                             *)

\* What the pass of reconcileWorkflowSteps makes of the states st: each step is decided
\* from the states the pass has already given its dependencies, which come before it.
ReconcilePass(st, merged, now) ==
  \A s \in Steps :
    now[s] = IF s \notin Movable(st) THEN st[s]
             ELSE IF \E d \in Deps[s] : now[d] \in FailureStepStates THEN "blocked"
             ELSE IF \A d \in Deps[s] : SatisfiesDependents(now, merged, d) THEN "ready"
             ELSE "planned"

\* A blocked step has a reason: a dependency that failed or is blocked itself.
LEMMA StrandedGrounded ==
  ASSUME NEW st, NEW s \in Stranded(st)
  PROVE  \E d \in Deps[s] : st[d] \in FailureStepStates \/ d \in Stranded(st)
<1> SUFFICES ASSUME \A d \in Deps[s] : st[d] \notin FailureStepStates /\ d \notin Stranded(st)
             PROVE  FALSE
  OBVIOUS
<1> DEFINE B == Stranded(st) \ {s}
<1>1. B \in SUBSET Movable(st)
  BY DEF Stranded
<1>2. HoldsStranded(st, B)
  BY StrandedClosed DEF HoldsStranded
<1>3. s \in B
  <2> HIDE DEF B
  <2> QED
    BY <1>1, <1>2 DEF Stranded
<1> QED
  BY <1>3

\* The pass of reconcileWorkflowSteps, which decides each step from what it has just made of
\* its dependencies, gives the states of reconcileWorkflowSteps here and no others.
THEOREM OnePassReconciles ==
  ASSUME NEW st \in [Steps -> StepRunState], NEW merged, NEW now \in [Steps -> StepRunState]
  PROVE  ReconcilePass(st, merged, now) <=> now = reconcileWorkflowSteps(st, merged)
<1>1. \A s \in Steps : Deps[s] \subseteq Steps
  BY PlanAssumption
<1>2. \A s \in Movable(st) : s \in Steps /\ st[s] \in {"planned", "ready"}
  BY DEF Movable, StepRunState, TerminalStepStates
<1>3. ASSUME ReconcilePass(st, merged, now)
      PROVE  now = reconcileWorkflowSteps(st, merged)
  <2> DEFINE B == {s \in Movable(st) : now[s] = "blocked"}
             S == B \ Stranded(st)
  <2>1. \A s \in Steps :
          /\ s \notin Movable(st) => now[s] = st[s]
          /\ s \in Movable(st) => now[s] \in {"blocked", "ready", "planned"}
    BY <1>3 DEF ReconcilePass
  <2>2. \A d \in Steps : now[d] \in FailureStepStates <=> st[d] \in FailureStepStates \/ d \in B
    BY <1>2, <2>1 DEF FailureStepStates
  <2>3. \A s \in Movable(st) :
          s \in B <=> \E d \in Deps[s] : st[d] \in FailureStepStates \/ d \in B
    <3>1. \A s \in Movable(st) :
            now[s] = "blocked" <=> \E d \in Deps[s] : now[d] \in FailureStepStates
      BY <1>2, <1>3 DEF ReconcilePass
    <3> HIDE DEF B
    <3>2. \A s \in Movable(st) : s \in B <=> now[s] = "blocked"
      BY DEF B
    <3> QED
      BY <1>1, <1>2, <2>2, <3>1, <3>2
  <2>4. B \in SUBSET Movable(st)
    OBVIOUS
  <2> HIDE DEF B
  <2>5. Stranded(st) \subseteq B
    <3>1. HoldsStranded(st, B)
      BY <2>3 DEF HoldsStranded
    <3> QED
      BY <2>4, <3>1 DEF Stranded
  <2>6. S = {}
    <3> SUFFICES ASSUME S # {} PROVE FALSE
      OBVIOUS
    <3>1. S \subseteq Steps
      BY <1>2, <2>4
    <3>2. PICK s \in S : Before(S, s) = {}
      BY <3>1, FirstInOrder
    <3>3. s \in Movable(st) /\ s \in Steps /\ s \in B /\ s \notin Stranded(st)
      BY <1>2, <2>4
    <3>4. PICK d \in Deps[s] : st[d] \in FailureStepStates \/ d \in B
      BY <2>3, <3>3
    <3>5. d \in Steps /\ Position[d] < Position[s]
      BY <3>3, PlanAssumption
    <3>6. st[d] \in FailureStepStates \/ d \in Stranded(st)
      BY <3>2, <3>4, <3>5 DEF Before
    <3> QED
      BY <3>3, <3>6, StrandedClosed DEF HoldsStranded
  <2>7. B = Stranded(st)
    BY <2>5, <2>6
  <2>8. \A d \in Steps : SatisfiesDependents(now, merged, d) <=> SatisfiesDependents(st, merged, d)
    <3>1. \A d \in Steps : now[d] = "succeeded" <=> st[d] = "succeeded"
      BY <1>2, <2>1
    <3> QED
      BY <3>1 DEF SatisfiesDependents
  <2>9. ASSUME NEW s \in Steps
        PROVE  now[s] = nextStepState(st, merged, s)
    <3>1. CASE s \notin Movable(st)
      BY <2>1, <3>1 DEF nextStepState
    <3>2. CASE s \in Stranded(st)
      BY <2>4, <2>7, <3>2 DEF nextStepState, B
    <3>3. CASE s \in Movable(st) /\ s \notin Stranded(st)
      <4>1. ~\E d \in Deps[s] : now[d] \in FailureStepStates
        BY <1>1, <2>2, <2>3, <2>7, <3>3
      <4>2. now[s] = IF \A d \in Deps[s] : SatisfiesDependents(now, merged, d) THEN "ready" ELSE "planned"
        BY <1>3, <3>3, <4>1 DEF ReconcilePass
      <4> QED
        BY <1>1, <2>8, <3>3, <4>2 DEF nextStepState
    <3> QED
      BY <3>1, <3>2, <3>3
  <2> QED
    BY <2>9 DEF reconcileWorkflowSteps
<1>4. ASSUME now = reconcileWorkflowSteps(st, merged)
      PROVE  ReconcilePass(st, merged, now)
  <2>1. \A s \in Steps : now[s] = nextStepState(st, merged, s)
    BY <1>4 DEF reconcileWorkflowSteps
  <2>2. \A s \in Steps : \A v \in {"running", "succeeded", "failed", "cancelled"} :
          now[s] = v <=> st[s] = v
    BY <1>4, ReconcilePreserves
  <2>3. \A d \in Steps : SatisfiesDependents(now, merged, d) <=> SatisfiesDependents(st, merged, d)
    BY <2>2 DEF SatisfiesDependents
  <2>4. \A d \in Steps : now[d] \in FailureStepStates <=> st[d] \in FailureStepStates \/ d \in Stranded(st)
    <3>1. \A d \in Stranded(st) : d \in Movable(st)
      BY DEF Stranded
    <3>2. \A d \in Steps : d \notin Movable(st) => now[d] = st[d]
      BY <2>1 DEF nextStepState
    <3>3. \A d \in Movable(st) : now[d] \in FailureStepStates <=> d \in Stranded(st)
      BY <1>2, <2>1 DEF nextStepState, FailureStepStates
    <3>4. \A d \in Movable(st) : st[d] \notin FailureStepStates
      BY <1>2 DEF FailureStepStates
    <3> QED
      BY <3>1, <3>2, <3>3, <3>4
  <2>5. ASSUME NEW s \in Movable(st)
        PROVE  (\E d \in Deps[s] : now[d] \in FailureStepStates) <=> s \in Stranded(st)
    <3>1. \A d \in Deps[s] : d \in Steps
      BY <1>1, <1>2
    <3> QED
      BY <2>4, <3>1, StrandedClosed, StrandedGrounded DEF HoldsStranded
  <2>6. ASSUME NEW s \in Movable(st)
        PROVE  (\A d \in Deps[s] : SatisfiesDependents(now, merged, d))
                 <=> (\A d \in Deps[s] : SatisfiesDependents(st, merged, d))
    BY <1>1, <1>2, <2>3
  <2> QED
    BY <2>1, <2>5, <2>6 DEF ReconcilePass, nextStepState
<1> QED
  BY <1>3, <1>4

\* The loop of launchableStepIds, which takes a startable step when it fits beside those it
\* has taken before it, has one result for every plan, and that is FirstFit.
THEOREM FirstFitIsThePick ==
  ASSUME NEW st, NEW active, NEW P \in SUBSET Startable(st, active)
  PROVE  (\A s \in Startable(st, active) : s \in P <=> Fits(st, active, Before(P, s), s))
           <=> P = FirstFit(st, active)
<1> DEFINE F == FirstFit(st, active)
           S == (P \ F) \cup (F \ P)
<1>1. /\ F \subseteq Startable(st, active)
      /\ \A s \in Startable(st, active) : s \in F <=> Fits(st, active, Before(F, s), s)
  BY FirstFitExists
<1>2. ASSUME \A s \in Startable(st, active) : s \in P <=> Fits(st, active, Before(P, s), s)
      PROVE  P = F
  <2> HIDE DEF F
  <2>1. S = {}
    <3> SUFFICES ASSUME S # {} PROVE FALSE
      OBVIOUS
    <3>1. S \subseteq Steps
      BY <1>1 DEF Startable
    <3>2. PICK s \in S : Before(S, s) = {}
      BY <3>1, FirstInOrder
    <3>3. Before(P, s) = Before(F, s)
      BY <3>2 DEF Before
    <3> QED
      BY <1>1, <1>2, <3>3
  <2> QED
    BY <2>1
<1> QED
  BY <1>1, <1>2

-----------------------------------------------------------------------------
(* The loop and the attempts.                                              *)

\* Where the loop holds a step in hand.
HoldingPc == {"git", "record", "gitFailed", "reserve", "mark", "startFailed"}

BusyWorker == {"executing", "succeeded", "failed", "fatal", "cancelled"}

\* A step the loop has not started: it may still be cancelled or blocked.
NotStarted(s) == stepState[s] \notin {"running", "succeeded"} /\ ~HasActiveAttempt(s)

\* The next step to integrate: every mutating step before it is integrated.
NextInOrder(s) ==
  /\ stepState[s] = "succeeded"
  /\ s \in Mutating \ integrated
  /\ Before(Mutating, s) \subseteq integrated

\* What a reservation adds to the attempts of the step in hand.
NewAttempt == [state |-> "prepared", base |-> integrationHead, commit |-> FALSE]

LatestSucceeded(s) ==
  attempts[s] # <<>> /\ attempts[s][AttemptNumber(s)].state = "succeeded"

\* What the loop knows of the steps it holds.
Control ==
  /\ pc \notin HoldingPc => hand = NoStep
  /\ pc \notin {"launch", "reserve", "mark"} => queue = {}
  /\ \A s \in queue : NotStarted(s) /\ s # hand
  /\ pc \in {"reserve", "startFailed"} => NotStarted(hand)
  /\ pc = "mark" => HasActiveAttempt(hand) /\ worker[hand] \notin BusyWorker
  /\ pc \in {"git", "record", "gitFailed"} => NextInOrder(hand)
  /\ pc \in {"relaunch", "reset"} => ActiveSteps = {}
  /\ pc \notin EnginePc \ {"settling", "cancelling"} => \A s \in Steps : worker[s] = "idle"

\* How the states of the steps and of their attempts hang together.
Attempting ==
  \A s \in Steps :
    /\ stepState[s] = "succeeded" => LatestSucceeded(s)
    /\ worker[s] \in BusyWorker => HasActiveAttempt(s)
    /\ HasActiveAttempt(s) => stepState[s] = "running" \/ state # "running"
    /\ s \in integrated => stepState[s] = "succeeded"

TypeInv == TypeOK /\ Control /\ Attempting

USE DEF snapshot, repository, process, world

-----------------------------------------------------------------------------
(* Attempts.                                                               *)

\* A step's newest attempt is rewritten in place; nothing else changes.
LEMMA SetLastAttemptType ==
  ASSUME attempts \in [Steps -> Seq(Attempt)],
         NEW s \in Steps, attempts[s] # <<>>, NEW rec \in Attempt,
         NEW new, new = SetLastAttempt(s, rec)
  PROVE  /\ new \in [Steps -> Seq(Attempt)]
         /\ \A t \in Steps : t # s => new[t] = attempts[t]
         /\ Len(new[s]) = Len(attempts[s])
         /\ new[s] # <<>>
         /\ new[s][Len(new[s])] = rec
         /\ \A n \in 1..Len(attempts[s]) - 1 : new[s][n] = attempts[s][n]
<1>1. /\ attempts[s] \in Seq(Attempt)
      /\ AttemptNumber(s) \in 1..Len(attempts[s])
  BY EmptySeq DEF AttemptNumber
<1>2. new[s] = [attempts[s] EXCEPT ![AttemptNumber(s)] = rec]
  BY DEF SetLastAttempt
<1>3. new[s] \in Seq(Attempt) /\ Len(new[s]) = Len(attempts[s])
  BY <1>1, <1>2, ExceptSeq
<1> QED
  BY <1>1, <1>2, <1>3 DEF SetLastAttempt, AttemptNumber

\* A step whose newest attempt succeeded was produced by that attempt.
LEMMA ProducedByLatest ==
  ASSUME attempts \in [Steps -> Seq(Attempt)], NEW s \in Steps, LatestSucceeded(s)
  PROVE  /\ ProducedBy(s) = AttemptNumber(s)
         /\ AttemptNumber(s) \in Nat \ {0}
         /\ AttemptNumber(s) \in Succeeded(s)
<1>1. AttemptNumber(s) \in Nat \ {0}
  BY EmptySeq DEF LatestSucceeded, AttemptNumber
<1>2. AttemptNumber(s) \in Succeeded(s)
  BY <1>1 DEF LatestSucceeded, Succeeded
<1>3. \A n \in Succeeded(s) : n \in Nat /\ n <= AttemptNumber(s)
  BY <1>1 DEF Succeeded
<1> QED
  BY <1>1, <1>2, <1>3 DEF ProducedBy

\* An active attempt is the last one of its step.
LEMMA ActiveNumber ==
  ASSUME TypeOK, NEW s \in Steps, HasActiveAttempt(s)
  PROVE  /\ attempts[s] # <<>>
         /\ AttemptNumber(s) \in Nat \ {0}
         /\ attempts[s][AttemptNumber(s)] \in Attempt
<1>1. attempts[s] \in Seq(Attempt) /\ attempts[s] # <<>>
  BY DEF TypeOK, HasActiveAttempt
<1>2. AttemptNumber(s) \in Nat \ {0} /\ AttemptNumber(s) \in 1..Len(attempts[s])
  BY <1>1, EmptySeq DEF AttemptNumber
<1> QED
  BY <1>1, <1>2, ElementOfSeq

\* Recovery settles the last attempt of a step and touches no other.
LEMMA RecoveredAttemptsType ==
  ASSUME TypeOK, NEW s \in Steps
  PROVE  /\ RecoveredAttempts[s] \in Seq(Attempt)
         /\ Len(RecoveredAttempts[s]) = AttemptNumber(s)
         /\ ~HasActiveAttempt(s) => RecoveredAttempts[s] = attempts[s]
         /\ HasActiveAttempt(s) =>
              /\ RecoveredAttempts[s] # <<>>
              /\ RecoveredAttempts[s][AttemptNumber(s)].state =
                   IF Adoptable(s) THEN "succeeded" ELSE "interrupted"
<1>1. attempts[s] \in Seq(Attempt)
  BY DEF TypeOK
<1>2. CASE ~HasActiveAttempt(s)
  BY <1>1, <1>2 DEF RecoveredAttempts, Adoptable, Interrupted, AttemptNumber
<1>3. CASE HasActiveAttempt(s)
  <2> DEFINE old == attempts[s][AttemptNumber(s)]
             new == IF Adoptable(s) THEN [old EXCEPT !.state = "succeeded", !.commit = TRUE]
                    ELSE [old EXCEPT !.state = "interrupted"]
  <2>1. /\ old \in Attempt
        /\ AttemptNumber(s) \in 1..Len(attempts[s])
    BY <1>3, ActiveNumber DEF AttemptNumber
  <2>2. /\ new \in Attempt
        /\ new.state = IF Adoptable(s) THEN "succeeded" ELSE "interrupted"
    BY <2>1 DEF Attempt, AttemptState
  <2>3. RecoveredAttempts[s] = [attempts[s] EXCEPT ![AttemptNumber(s)] = new]
    BY <1>3 DEF RecoveredAttempts, Interrupted
  <2>4. /\ RecoveredAttempts[s] \in Seq(Attempt)
        /\ Len(RecoveredAttempts[s]) = Len(attempts[s])
        /\ RecoveredAttempts[s][AttemptNumber(s)] = new
    <3> HIDE DEF new
    <3> QED
      BY <1>1, <2>1, <2>2, <2>3, ExceptSeq
  <2>5. RecoveredAttempts[s] # <<>>
    BY <2>1, <2>4, EmptySeq
  <2> QED
    BY <1>3, <2>2, <2>4, <2>5 DEF AttemptNumber
<1> QED
  BY <1>2, <1>3

\* Settling a run never undoes a success and starts nothing.
LEMMA SettledStepsPreserve ==
  ASSUME TypeOK, NEW cancelled
  PROVE  /\ SettledSteps(cancelled) \in [Steps -> StepRunState]
         /\ \A s \in Steps :
              /\ SettledSteps(cancelled)[s] = "succeeded" <=> stepState[s] = "succeeded"
              /\ SettledSteps(cancelled)[s] = "running" => stepState[s] = "running"
<1>1. /\ Reconciled(stepState) \in [Steps -> StepRunState]
      /\ \A s \in Steps : \A v \in {"running", "succeeded", "failed", "cancelled"} :
           Reconciled(stepState)[s] = v <=> stepState[s] = v
  BY ReconcilePreserves DEF TypeOK, Reconciled
<1> QED
  BY <1>1 DEF SettledSteps, EndUnfinished, StepRunState

\* A settled run is not running.
LEMMA SettledStateType ==
  ASSUME TypeOK, NEW st
  PROVE  SettledState(st) \in RunLifecycleState \ {"running"}
  BY DEF SettledState, TypeOK, RunLifecycleState

\* integratePendingSteps takes up the first succeeded step in plan order.
LEMMA IntegrateNextStep ==
  ASSUME TypeInv, NEW s \in Steps, IntegrateNext(s)
  PROVE  TypeInv'
<1>1. TypeOK'
  BY DEF TypeInv, TypeOK, IntegrateNext, Integrable, isNextIntegrable, Pc, EnginePc
<1>2. Control'
  BY DEF TypeInv, TypeOK, Control, IntegrateNext, Integrable, isNextIntegrable,
     EnginePc, HoldingPc, Attempting, BusyWorker, NotStarted, NextInOrder, ActiveSteps,
     HasActiveAttempt, AttemptNumber
<1>3. Attempting'
  BY DEF TypeInv, TypeOK, Attempting, IntegrateNext, LatestSucceeded, HasActiveAttempt,
     AttemptNumber
<1> QED
  BY <1>1, <1>2, <1>3 DEF TypeInv

\* integratePendingSteps finds nothing and the loop goes on.
LEMMA NothingToIntegrateStep ==
  ASSUME TypeInv, NothingToIntegrate
  PROVE  TypeInv'
<1>1. TypeOK'
  BY DEF TypeInv, TypeOK, NothingToIntegrate, Pc, EnginePc
<1>2. Control'
  BY DEF TypeInv, TypeOK, Control, NothingToIntegrate, EnginePc, HoldingPc, NotStarted,
     NextInOrder, ActiveSteps, HasActiveAttempt, AttemptNumber
<1>3. Attempting'
  BY DEF TypeInv, TypeOK, Attempting, NothingToIntegrate, LatestSucceeded,
     HasActiveAttempt, AttemptNumber
<1> QED
  BY <1>1, <1>2, <1>3 DEF TypeInv

\* The commit of the step in hand comes from its newest attempt.
LEMMA GitIntegrateStep ==
  ASSUME TypeInv, GitIntegrate
  PROVE  TypeInv'
<1>1. branch' \in History
  <2>1. hand \in Steps /\ LatestSucceeded(hand)
    BY DEF TypeInv, TypeOK, Control, Attempting, NextInOrder, GitIntegrate
  <2>2. <<hand, ProducedBy(hand)>> \in Commit
    BY <2>1, ProducedByLatest DEF TypeInv, TypeOK, Commit
  <2> QED
    BY <2>2 DEF TypeInv, TypeOK, GitIntegrate, History
<1>2. TypeOK'
  BY <1>1 DEF TypeInv, TypeOK, GitIntegrate, Pc, EnginePc
<1>3. Control'
  BY DEF TypeInv, TypeOK, Control, GitIntegrate, NextInOrder, EnginePc, HoldingPc,
     NotStarted, ActiveSteps, HasActiveAttempt, AttemptNumber
<1>4. Attempting'
  BY DEF TypeInv, TypeOK, Attempting, GitIntegrate, LatestSucceeded, HasActiveAttempt,
     AttemptNumber
<1> QED
  BY <1>2, <1>3, <1>4 DEF TypeInv

\* A refused cherry-pick changes nothing yet.
LEMMA GitRefusesStep ==
  ASSUME TypeInv, GitRefuses
  PROVE  TypeInv'
<1>1. TypeOK'
  BY DEF TypeInv, TypeOK, GitRefuses, Pc, EnginePc
<1>2. Control'
  BY DEF TypeInv, TypeOK, Control, GitRefuses, EnginePc, HoldingPc, NotStarted,
     NextInOrder, ActiveSteps, HasActiveAttempt, AttemptNumber
<1>3. Attempting'
  BY DEF TypeInv, TypeOK, Attempting, GitRefuses, LatestSucceeded, HasActiveAttempt,
     AttemptNumber
<1> QED
  BY <1>1, <1>2, <1>3 DEF TypeInv

\* The end of a dispatch.
LEMMA DispatchDoneStep ==
  ASSUME TypeInv, DispatchDone
  PROVE  TypeInv'
<1>1. TypeOK'
  BY DEF TypeInv, TypeOK, DispatchDone, Pc, EnginePc
<1>2. Control'
  BY DEF TypeInv, TypeOK, Control, DispatchDone, EnginePc, HoldingPc, NotStarted,
     NextInOrder, ActiveSteps, HasActiveAttempt, AttemptNumber
<1>3. Attempting'
  BY DEF TypeInv, TypeOK, Attempting, DispatchDone, LatestSucceeded, HasActiveAttempt,
     AttemptNumber
<1> QED
  BY <1>1, <1>2, <1>3 DEF TypeInv

\* Preparing a workspace keeps the step in hand startable.
LEMMA PrepareStep ==
  ASSUME TypeInv, NEW s \in Steps, Prepare(s)
  PROVE  TypeInv'
<1>1. TypeOK'
  BY DEF TypeInv, TypeOK, Prepare, IsFirst, Pc, EnginePc
<1>2. Control'
  BY DEF TypeInv, TypeOK, Control, Prepare, IsFirst, EnginePc, HoldingPc, Attempting,
     BusyWorker, NotStarted, NextInOrder, ActiveSteps, HasActiveAttempt, AttemptNumber
<1>3. Attempting'
  BY DEF TypeInv, TypeOK, Attempting, Prepare, LatestSucceeded, HasActiveAttempt,
     AttemptNumber
<1> QED
  BY <1>1, <1>2, <1>3 DEF TypeInv

\* A workspace that cannot be prepared ends the dispatch.
LEMMA PrepareFailsStep ==
  ASSUME TypeInv, NEW s \in Steps, PrepareFails(s)
  PROVE  TypeInv'
<1>1. TypeOK'
  BY DEF TypeInv, TypeOK, PrepareFails, IsFirst, Pc, EnginePc
<1>2. Control'
  BY DEF TypeInv, TypeOK, Control, PrepareFails, IsFirst, EnginePc, HoldingPc,
     Attempting, BusyWorker, NotStarted, NextInOrder, ActiveSteps, HasActiveAttempt,
     AttemptNumber
<1>3. Attempting'
  BY DEF TypeInv, TypeOK, Attempting, PrepareFails, LatestSucceeded, HasActiveAttempt,
     AttemptNumber
<1> QED
  BY <1>1, <1>2, <1>3 DEF TypeInv

\* A lost reservation discards the workspace.
LEMMA LoseReservationStep ==
  ASSUME TypeInv, LoseReservation
  PROVE  TypeInv'
<1>1. TypeOK'
  BY DEF TypeInv, TypeOK, LoseReservation, Pc, EnginePc
<1>2. Control'
  BY DEF TypeInv, TypeOK, Control, LoseReservation, EnginePc, HoldingPc, NotStarted,
     NextInOrder, ActiveSteps, HasActiveAttempt, AttemptNumber
<1>3. Attempting'
  BY DEF TypeInv, TypeOK, Attempting, LoseReservation, LatestSucceeded,
     HasActiveAttempt, AttemptNumber
<1> QED
  BY <1>1, <1>2, <1>3 DEF TypeInv

\* The loop leaves with every handler collected.
LEMMA NoneActiveStep ==
  ASSUME TypeInv, NoneActive
  PROVE  TypeInv'
<1>1. TypeOK'
  BY DEF TypeInv, TypeOK, NoneActive, Pc, EnginePc
<1>2. Control'
  BY DEF TypeInv, TypeOK, Control, NoneActive, EnginePc, HoldingPc, NotStarted,
     NextInOrder, ActiveSteps, HasActiveAttempt, AttemptNumber
<1>3. Attempting'
  BY DEF TypeInv, TypeOK, Attempting, NoneActive, LatestSucceeded, HasActiveAttempt,
     AttemptNumber
<1> QED
  BY <1>1, <1>2, <1>3 DEF TypeInv

\* ChangeRun.settle writes the stored run.
LEMMA StoreSettledStep ==
  ASSUME TypeInv, StoreSettled
  PROVE  TypeInv'
<1>1. TypeOK'
  BY DEF TypeInv, TypeOK, StoreSettled, Pc, EnginePc, StoredState, RunLifecycleState
<1>2. Control'
  BY DEF TypeInv, TypeOK, Control, StoreSettled, EnginePc, HoldingPc, NotStarted,
     NextInOrder, ActiveSteps, HasActiveAttempt, AttemptNumber
<1>3. Attempting'
  BY DEF TypeInv, TypeOK, Attempting, StoreSettled, LatestSucceeded, HasActiveAttempt,
     AttemptNumber
<1> QED
  BY <1>1, <1>2, <1>3 DEF TypeInv

\* A resume starts from an idle process.
LEMMA ResumeStep ==
  ASSUME TypeInv, Resume
  PROVE  TypeInv'
<1>1. TypeOK'
  BY DEF TypeInv, TypeOK, Resume, Pc, EnginePc
<1>2. Control'
  BY DEF TypeInv, TypeOK, Control, Resume, EnginePc, HoldingPc, NotStarted, NextInOrder,
     ActiveSteps, HasActiveAttempt, AttemptNumber
<1>3. Attempting'
  BY DEF TypeInv, TypeOK, Attempting, Resume, LatestSucceeded, HasActiveAttempt,
     AttemptNumber
<1> QED
  BY <1>1, <1>2, <1>3 DEF TypeInv

\* A retry starts from an idle process without active attempts.
LEMMA RetryStep ==
  ASSUME TypeInv, Retry
  PROVE  TypeInv'
<1>1. TypeOK'
  BY BoundsAssumption DEF TypeInv, TypeOK, Retry, RetryAccepted, Pc, EnginePc,
     StoredState, RunLifecycleState
<1>2. Control'
  BY DEF TypeInv, TypeOK, Control, Retry, RetryAccepted, EnginePc, HoldingPc,
     NotStarted, NextInOrder, ActiveSteps, HasActiveAttempt, AttemptNumber
<1>3. Attempting'
  BY DEF TypeInv, TypeOK, Attempting, Retry, LatestSucceeded, HasActiveAttempt,
     AttemptNumber
<1> QED
  BY <1>1, <1>2, <1>3 DEF TypeInv

\* ChangeRun.cancel writes the stored run.
LEMMA FinishCancelStep ==
  ASSUME TypeInv, FinishCancel
  PROVE  TypeInv'
<1>1. TypeOK'
  BY DEF TypeInv, TypeOK, FinishCancel, StoredState, RunLifecycleState
<1>2. Control'
  BY DEF TypeInv, TypeOK, Control, FinishCancel, NotStarted, NextInOrder, ActiveSteps,
     HasActiveAttempt, AttemptNumber
<1>3. Attempting'
  BY DEF TypeInv, TypeOK, Attempting, FinishCancel, LatestSucceeded, HasActiveAttempt,
     AttemptNumber
<1> QED
  BY <1>1, <1>2, <1>3 DEF TypeInv

\* commitTaskWork names the commit of the active attempt.
LEMMA WorkerCommitsStep ==
  ASSUME TypeInv, NEW s \in Steps, WorkerCommits(s)
  PROVE  TypeInv'
<1>1. TypeOK'
  BY ActiveNumber DEF TypeInv, TypeOK, WorkerCommits, Commit, HasCommit, Attempting,
     BusyWorker
<1>2. Control'
  BY DEF TypeInv, TypeOK, Control, WorkerCommits, NotStarted, NextInOrder, ActiveSteps,
     HasActiveAttempt, AttemptNumber
<1>3. Attempting'
  BY DEF TypeInv, TypeOK, Attempting, WorkerCommits, LatestSucceeded, HasActiveAttempt,
     AttemptNumber
<1> QED
  BY <1>1, <1>2, <1>3 DEF TypeInv

\* An output is stored under the number of the active attempt.
LEMMA PublishArtifactStep ==
  ASSUME TypeInv, NEW s \in Steps, NEW o \in Outputs[s], PublishArtifact(s, o)
  PROVE  TypeInv'
<1>1. TypeOK'
  BY ActiveNumber DEF TypeInv, TypeOK, PublishArtifact, OutputNames, Attempting,
     BusyWorker
<1>2. Control'
  BY DEF TypeInv, TypeOK, Control, PublishArtifact, NotStarted, NextInOrder,
     ActiveSteps, HasActiveAttempt, AttemptNumber
<1>3. Attempting'
  BY DEF TypeInv, TypeOK, Attempting, PublishArtifact, LatestSucceeded,
     HasActiveAttempt, AttemptNumber
<1> QED
  BY <1>1, <1>2, <1>3 DEF TypeInv

\* A settled handler leaves the active set.
LEMMA CollectSettledStep ==
  ASSUME TypeInv, NEW s \in Steps, CollectSettled(s)
  PROVE  TypeInv'
<1>1. TypeOK'
  BY DEF TypeInv, TypeOK, CollectSettled, Pc, EnginePc, WorkerState
<1>2. Control'
  BY DEF TypeInv, TypeOK, Control, CollectSettled, EnginePc, HoldingPc, Attempting,
     BusyWorker, NotStarted, NextInOrder, ActiveSteps, HasActiveAttempt, AttemptNumber
<1>3. Attempting'
  BY DEF TypeInv, TypeOK, Attempting, CollectSettled, BusyWorker, LatestSucceeded,
     HasActiveAttempt, AttemptNumber
<1> QED
  BY <1>1, <1>2, <1>3 DEF TypeInv

\* A handler returns.
LEMMA WorkerSucceedsStep ==
  ASSUME TypeInv, NEW s \in Steps, WorkerSucceeds(s)
  PROVE  TypeInv'
<1>1. TypeOK'
  BY DEF TypeInv, TypeOK, WorkerSucceeds, WorkerEnds, WorkerState
<1>2. Control'
  BY DEF TypeInv, TypeOK, Control, WorkerSucceeds, WorkerEnds, Attempting, BusyWorker,
     NotStarted, NextInOrder, ActiveSteps, HasActiveAttempt, AttemptNumber
<1>3. Attempting'
  BY DEF TypeInv, TypeOK, Attempting, WorkerSucceeds, WorkerEnds, BusyWorker,
     LatestSucceeded, HasActiveAttempt, AttemptNumber
<1> QED
  BY <1>1, <1>2, <1>3 DEF TypeInv

\* A handler throws a failure worth a retry.
LEMMA WorkerFailsStep ==
  ASSUME TypeInv, NEW s \in Steps, WorkerFails(s)
  PROVE  TypeInv'
<1>1. TypeOK'
  BY DEF TypeInv, TypeOK, WorkerFails, WorkerEnds, WorkerState
<1>2. Control'
  BY DEF TypeInv, TypeOK, Control, WorkerFails, WorkerEnds, Attempting, BusyWorker,
     NotStarted, NextInOrder, ActiveSteps, HasActiveAttempt, AttemptNumber
<1>3. Attempting'
  BY DEF TypeInv, TypeOK, Attempting, WorkerFails, WorkerEnds, BusyWorker,
     LatestSucceeded, HasActiveAttempt, AttemptNumber
<1> QED
  BY <1>1, <1>2, <1>3 DEF TypeInv

\* A handler throws a permanent failure.
LEMMA WorkerRejectedStep ==
  ASSUME TypeInv, NEW s \in Steps, WorkerRejected(s)
  PROVE  TypeInv'
<1>1. TypeOK'
  BY DEF TypeInv, TypeOK, WorkerRejected, WorkerEnds, WorkerState
<1>2. Control'
  BY DEF TypeInv, TypeOK, Control, WorkerRejected, WorkerEnds, Attempting, BusyWorker,
     NotStarted, NextInOrder, ActiveSteps, HasActiveAttempt, AttemptNumber
<1>3. Attempting'
  BY DEF TypeInv, TypeOK, Attempting, WorkerRejected, WorkerEnds, BusyWorker,
     LatestSucceeded, HasActiveAttempt, AttemptNumber
<1> QED
  BY <1>1, <1>2, <1>3 DEF TypeInv

\* The abort ends a handler.
LEMMA WorkerAbortedStep ==
  ASSUME TypeInv, NEW s \in Steps, WorkerAborted(s)
  PROVE  TypeInv'
<1>1. TypeOK'
  BY DEF TypeInv, TypeOK, WorkerAborted, WorkerEnds, WorkerState
<1>2. Control'
  BY DEF TypeInv, TypeOK, Control, WorkerAborted, WorkerEnds, Attempting, BusyWorker,
     NotStarted, NextInOrder, ActiveSteps, HasActiveAttempt, AttemptNumber
<1>3. Attempting'
  BY DEF TypeInv, TypeOK, Attempting, WorkerAborted, WorkerEnds, BusyWorker,
     LatestSucceeded, HasActiveAttempt, AttemptNumber
<1> QED
  BY <1>1, <1>2, <1>3 DEF TypeInv

\* An output cannot be written.
LEMMA ArtifactWriteFailsStep ==
  ASSUME TypeInv, NEW s \in Steps, ArtifactWriteFails(s)
  PROVE  TypeInv'
<1>1. TypeOK'
  BY DEF TypeInv, TypeOK, ArtifactWriteFails, WorkerState
<1>2. Control'
  BY DEF TypeInv, TypeOK, Control, ArtifactWriteFails, Attempting, BusyWorker,
     NotStarted, NextInOrder, ActiveSteps, HasActiveAttempt, AttemptNumber
<1>3. Attempting'
  BY DEF TypeInv, TypeOK, Attempting, ArtifactWriteFails, BusyWorker, LatestSucceeded,
     HasActiveAttempt, AttemptNumber
<1> QED
  BY <1>1, <1>2, <1>3 DEF TypeInv

\* An output is refused before it is written.
LEMMA RoutingRejectedStep ==
  ASSUME TypeInv, NEW s \in Steps, RoutingRejected(s)
  PROVE  TypeInv'
<1>1. TypeOK'
  BY DEF TypeInv, TypeOK, RoutingRejected, WorkerState
<1>2. Control'
  BY DEF TypeInv, TypeOK, Control, RoutingRejected, Attempting, BusyWorker, NotStarted,
     NextInOrder, ActiveSteps, HasActiveAttempt, AttemptNumber
<1>3. Attempting'
  BY DEF TypeInv, TypeOK, Attempting, RoutingRejected, BusyWorker, LatestSucceeded,
     HasActiveAttempt, AttemptNumber
<1> QED
  BY <1>1, <1>2, <1>3 DEF TypeInv

\* A new run is idle apart from its loop.
LEMMA InitTypeInv ==
  ASSUME Init
  PROVE  TypeInv
<1>1. TypeOK
  <2>1. <<>> \in Seq(Commit) /\ <<>> \in Seq(Attempt)
    BY EmptySeq
  <2>2. 0 \in 0..MaxCrashes /\ 0 \in 0..MaxRetries
    BY BoundsAssumption
  <2>3. stepState \in [Steps -> StepRunState]
    BY DEF Init, StepRunState
  <2>4. /\ attempts \in [Steps -> Seq(Attempt)]
        /\ leftover \in [Steps -> SUBSET History]
        /\ worker \in [Steps -> WorkerState]
    BY <2>1 DEF Init, WorkerState
  <2> QED
    BY <2>1, <2>2, <2>3, <2>4 DEF Init, TypeOK, RunLifecycleState, StoredState, History, Pc,
       EnginePc
<1>2. Control
  BY DEF Init, Control, EnginePc, HoldingPc
<1>3. Attempting
  BY DEF Init, Attempting, HasActiveAttempt, BusyWorker
<1> QED
  BY <1>1, <1>2, <1>3 DEF TypeInv

\* A dispatch queues only steps that have not started.
LEMMA DispatchStep ==
  ASSUME TypeInv, Dispatch
  PROVE  TypeInv'
<1>1. /\ stepState \in [Steps -> StepRunState]
      /\ ActiveSteps \subseteq Steps
  BY DEF TypeInv, TypeOK, ActiveSteps
<1>2. \A s \in Launchable : s \in Steps /\ NotStarted(s)
  BY <1>1, LaunchableGrants DEF Launchable, NotStarted, ActiveSteps
<1>3. \A s \in Launchable : s # hand
  BY <1>2, StepDeclarations DEF TypeInv, Control, Dispatch, HoldingPc
<1>4. TypeOK'
  BY <1>2 DEF TypeInv, TypeOK, Dispatch, Pc, EnginePc
<1>5. Control'
  BY <1>2, <1>3 DEF TypeInv, Control, Dispatch, NotStarted, HasActiveAttempt, AttemptNumber,
     EnginePc, HoldingPc
<1>6. Attempting'
  BY DEF TypeInv, Attempting, Dispatch, LatestSucceeded, HasActiveAttempt, AttemptNumber
<1> QED
  BY <1>4, <1>5, <1>6 DEF TypeInv

\* After a crash no handler runs and nothing is held.
LEMMA CrashStep ==
  ASSUME TypeInv, Crash
  PROVE  TypeInv'
<1>1. crashes' \in 0..MaxCrashes
  BY BoundsAssumption DEF TypeInv, TypeOK, Crash
<1>2. worker' \in [Steps -> WorkerState]
  BY DEF Crash, WorkerState
<1>3. TypeOK'
  BY <1>1, <1>2 DEF TypeInv, TypeOK, Crash, Pc
<1>4. Control'
  BY DEF Crash, Control, EnginePc, HoldingPc
<1>5. Attempting'
  BY DEF TypeInv, Attempting, Crash, LatestSucceeded, HasActiveAttempt, AttemptNumber,
     BusyWorker
<1> QED
  BY <1>3, <1>4, <1>5 DEF TypeInv

\* Recording an integration only moves waiting steps.
LEMMA RecordIntegrationStep ==
  ASSUME TypeInv, RecordIntegration
  PROVE  TypeInv'
<1>1. /\ hand \in Steps
      /\ LatestSucceeded(hand)
      /\ hand \in Mutating
  BY DEF TypeInv, TypeOK, Control, Attempting, NextInOrder, RecordIntegration
<1>2. stepState' = reconcileWorkflowSteps(stepState, integrated \cup {hand})
  BY DEF RecordIntegration
<1>3. /\ stepState' \in [Steps -> StepRunState]
      /\ \A s \in Steps : \A v \in {"running", "succeeded", "failed", "cancelled"} :
           stepState'[s] = v <=> stepState[s] = v
  <2>1. stepState \in [Steps -> StepRunState]
    BY DEF TypeInv, TypeOK
  <2> QED
    BY ONLY <1>2, <2>1, ReconcilePreserves
<1>4. integrationHead' \in History
  BY <1>1, ProducedByLatest DEF TypeInv, TypeOK, RecordIntegration, HeadAfter, History, Commit
<1>5. TypeOK'
  BY <1>1, <1>3, <1>4 DEF TypeInv, TypeOK, RecordIntegration, Pc, EnginePc
<1>6. Control'
  BY <1>3 DEF TypeInv, Control, RecordIntegration, EnginePc, HoldingPc
<1>7. Attempting'
  <2>1. /\ integrated' = integrated \cup {hand}
        /\ UNCHANGED <<state, attempts, worker>>
    BY DEF RecordIntegration
  <2>2. stepState[hand] = "succeeded"
    BY DEF TypeInv, Control, NextInOrder, RecordIntegration
  <2> QED
    BY <1>3, <2>1, <2>2
       DEF TypeInv, Attempting, LatestSucceeded, HasActiveAttempt, AttemptNumber
<1> QED
  BY <1>5, <1>6, <1>7 DEF TypeInv

\* A failed integration fails the step in hand, which has not been integrated.
LEMMA RecordIntegrationFailureStep ==
  ASSUME TypeInv, RecordIntegrationFailure
  PROVE  TypeInv'
<1>1. /\ hand \in Steps
      /\ hand \notin integrated
      /\ ~HasActiveAttempt(hand)
  BY DEF TypeInv, TypeOK, Control, Attempting, NextInOrder, NotStarted,
     RecordIntegrationFailure, LatestSucceeded, HasActiveAttempt, ActiveAttemptStates
<1> DEFINE failed == [stepState EXCEPT ![hand] = "failed"]
<1>2. /\ failed \in [Steps -> StepRunState]
      /\ \A s \in Steps : failed[s] = IF s = hand THEN "failed" ELSE stepState[s]
  BY DEF TypeInv, TypeOK, StepRunState
<1>3. stepState' = reconcileWorkflowSteps(failed, integrated)
  BY DEF RecordIntegrationFailure, Reconciled
<1>4. /\ stepState' \in [Steps -> StepRunState]
      /\ \A s \in Steps : \A v \in {"running", "succeeded", "failed", "cancelled"} :
           stepState'[s] = v <=> failed[s] = v
  <2> HIDE DEF failed
  <2> QED
    BY ONLY <1>2, <1>3, ReconcilePreserves
<1>5. TypeOK'
  BY <1>4 DEF TypeInv, TypeOK, RecordIntegrationFailure, Pc, EnginePc, RunLifecycleState
<1>6. Control'
  BY DEF TypeInv, Control, RecordIntegrationFailure, EnginePc, HoldingPc
<1>7. Attempting'
  BY <1>1, <1>2, <1>4 DEF TypeInv, TypeOK, Attempting, RecordIntegrationFailure,
     LatestSucceeded, HasActiveAttempt, AttemptNumber
<1> QED
  BY <1>5, <1>6, <1>7 DEF TypeInv

\* A failed start fails the step in hand, which has not started.
LEMMA FailStartStep ==
  ASSUME TypeInv, FailStart
  PROVE  TypeInv'
<1>1. /\ hand \in Steps
      /\ hand \notin integrated
      /\ ~HasActiveAttempt(hand)
  BY DEF TypeInv, TypeOK, Control, Attempting, NextInOrder, NotStarted, FailStart,
     LatestSucceeded, HasActiveAttempt, ActiveAttemptStates
<1> DEFINE failed == [stepState EXCEPT ![hand] = "failed"]
<1>2. /\ failed \in [Steps -> StepRunState]
      /\ \A s \in Steps : failed[s] = IF s = hand THEN "failed" ELSE stepState[s]
  BY DEF TypeInv, TypeOK, StepRunState
<1>3. stepState' = reconcileWorkflowSteps(failed, integrated)
  BY DEF FailStart, Reconciled
<1>4. /\ stepState' \in [Steps -> StepRunState]
      /\ \A s \in Steps : \A v \in {"running", "succeeded", "failed", "cancelled"} :
           stepState'[s] = v <=> failed[s] = v
  <2> HIDE DEF failed
  <2> QED
    BY ONLY <1>2, <1>3, ReconcilePreserves
<1>5. TypeOK'
  BY <1>4 DEF TypeInv, TypeOK, FailStart, Pc, EnginePc, RunLifecycleState
<1>6. Control'
  BY DEF TypeInv, Control, FailStart, EnginePc, HoldingPc
<1>7. Attempting'
  BY <1>1, <1>2, <1>4 DEF TypeInv, TypeOK, Attempting, FailStart, LatestSucceeded,
     HasActiveAttempt, AttemptNumber
<1> QED
  BY <1>5, <1>6, <1>7 DEF TypeInv

\* A reservation is granted only to a step without an active attempt, in a run
\* that is running.
LEMMA ReserveAttempts ==
  ASSUME TypeInv, Reserve
  PROVE  /\ hand \in Steps
         /\ state = "running"
         /\ stepState[hand] \in {"planned", "ready"}
         /\ ~HasActiveAttempt(hand)
         /\ attempts' \in [Steps -> Seq(Attempt)]
         /\ \A t \in Steps : t # hand => attempts'[t] = attempts[t]
         /\ attempts'[hand] = Append(attempts[hand], NewAttempt)
         /\ HasActiveAttempt(hand)'
<1>1. /\ hand \in Steps
      /\ state = "running"
      /\ stepState[hand] \in {"planned", "ready"}
      /\ ~HasActiveAttempt(hand)
  <2>1. stepState \in [Steps -> StepRunState] /\ ActiveSteps \subseteq Steps
    BY DEF TypeInv, TypeOK, ActiveSteps
  <2>2. hand \in launchableStepIds(state, stepState, integrated, ActiveSteps)
    BY DEF Reserve, Launchable
  <2>3. /\ hand \in Steps /\ hand \notin ActiveSteps
        /\ state = "running"
        /\ stepState[hand] \in {"planned", "ready"}
    BY ONLY <2>1, <2>2, LaunchableGrants
  <2> QED
    BY <2>3 DEF ActiveSteps
<1>2. attempts[hand] \in Seq(Attempt) /\ NewAttempt \in Attempt /\ NewAttempt.state = "prepared"
  BY <1>1 DEF TypeInv, TypeOK, NewAttempt, Attempt, AttemptState
<1>3. /\ attempts' = [attempts EXCEPT ![hand] = Append(@, NewAttempt)]
      /\ stepState' = [stepState EXCEPT ![hand] = "running"]
  BY DEF Reserve, NewAttempt
<1>4. /\ attempts' \in [Steps -> Seq(Attempt)]
      /\ attempts'[hand] # <<>>
      /\ attempts'[hand][Len(attempts'[hand])] = NewAttempt
      /\ \A t \in Steps : t # hand => attempts'[t] = attempts[t]
  <2>1. /\ Append(attempts[hand], NewAttempt) \in Seq(Attempt)
        /\ Append(attempts[hand], NewAttempt) # <<>>
        /\ Append(attempts[hand], NewAttempt)[Len(Append(attempts[hand], NewAttempt))] = NewAttempt
    BY <1>2
  <2> QED
    BY <1>1, <1>3, <2>1 DEF TypeInv, TypeOK
<1>5. HasActiveAttempt(hand)'
  BY <1>2, <1>4 DEF HasActiveAttempt, AttemptNumber, ActiveAttemptStates, Reserve
<1> QED
  BY <1>1, <1>3, <1>4, <1>5 DEF TypeInv, TypeOK

\* A reservation adds an active attempt to a step that had none.
LEMMA ReserveStep ==
  ASSUME TypeInv, Reserve
  PROVE  TypeInv'
<1>1. /\ hand \in Steps
      /\ state = "running"
      /\ stepState[hand] \in {"planned", "ready"}
  BY ReserveAttempts
<1>2. stepState' = [stepState EXCEPT ![hand] = "running"]
  BY DEF Reserve
<1>3. /\ attempts' \in [Steps -> Seq(Attempt)]
      /\ \A t \in Steps : t # hand => attempts'[t] = attempts[t]
  BY ReserveAttempts
<1>4. ~HasActiveAttempt(hand) /\ HasActiveAttempt(hand)'
  BY ReserveAttempts
<1>5. TypeOK'
  BY <1>1, <1>2, <1>3 DEF TypeInv, TypeOK, Reserve, Pc, EnginePc, StepRunState
<1>6. Control'
  BY <1>1, <1>2, <1>3, <1>4 DEF TypeInv, TypeOK, Control, Attempting, Reserve, NotStarted,
     HasActiveAttempt, AttemptNumber, EnginePc, HoldingPc
<1>7. Attempting'
  BY <1>1, <1>2, <1>3, <1>4 DEF TypeInv, TypeOK, Attempting, Reserve, LatestSucceeded,
     HasActiveAttempt, AttemptNumber
<1> QED
  BY <1>5, <1>6, <1>7 DEF TypeInv

\* Marking an attempt rewrites the last attempt of the step in hand.
LEMMA MarkRunningAttempts ==
  ASSUME TypeInv, MarkRunning
  PROVE  /\ hand \in Steps /\ HasActiveAttempt(hand) /\ worker[hand] \notin BusyWorker
         /\ attempts' \in [Steps -> Seq(Attempt)]
         /\ \A t \in Steps : t # hand => attempts'[t] = attempts[t]
         /\ attempts'[hand] # <<>>
         /\ attempts'[hand][Len(attempts'[hand])].state = "running"
         /\ Len(attempts'[hand]) = Len(attempts[hand])
         /\ \A n \in 1..Len(attempts[hand]) - 1 : attempts'[hand][n] = attempts[hand][n]
<1> DEFINE old == attempts[hand][AttemptNumber(hand)]
           new == [old EXCEPT !.state = "running"]
<1>1. hand \in Steps /\ HasActiveAttempt(hand) /\ worker[hand] \notin BusyWorker
  BY DEF TypeInv, TypeOK, Control, MarkRunning
<1>2. attempts[hand] # <<>> /\ old \in Attempt
  BY <1>1, ActiveNumber DEF TypeInv
<1>3. new \in Attempt /\ new.state = "running"
  BY <1>2 DEF Attempt, AttemptState
<1>4. attempts' = SetLastAttempt(hand, new)
  BY DEF MarkRunning
<1> HIDE DEF new
<1>5. attempts \in [Steps -> Seq(Attempt)]
  BY DEF TypeInv, TypeOK
<1>6. /\ attempts' \in [Steps -> Seq(Attempt)]
      /\ \A t \in Steps : t # hand => attempts'[t] = attempts[t]
      /\ Len(attempts'[hand]) = Len(attempts[hand])
      /\ attempts'[hand] # <<>>
      /\ attempts'[hand][Len(attempts'[hand])] = new
      /\ \A n \in 1..Len(attempts[hand]) - 1 : attempts'[hand][n] = attempts[hand][n]
  BY <1>1, <1>2, <1>3, <1>4, <1>5, SetLastAttemptType
<1> QED
  BY <1>1, <1>3, <1>6

\* Marking the attempt in hand as running keeps it active.
LEMMA MarkRunningStep ==
  ASSUME TypeInv, MarkRunning
  PROVE  TypeInv'
<1>1. hand \in Steps /\ HasActiveAttempt(hand)
  BY MarkRunningAttempts
<1>2. attempts' \in [Steps -> Seq(Attempt)]
  BY MarkRunningAttempts
<1>3. /\ \A t \in Steps : t # hand =>
           /\ HasActiveAttempt(t)' <=> HasActiveAttempt(t)
           /\ LatestSucceeded(t)' <=> LatestSucceeded(t)
      /\ \A t \in Steps : t = hand => HasActiveAttempt(t)'
  BY MarkRunningAttempts DEF HasActiveAttempt, LatestSucceeded, AttemptNumber,
     ActiveAttemptStates
<1>4. TypeOK'
  BY <1>1, <1>2 DEF TypeInv, TypeOK, MarkRunning, Pc, EnginePc, WorkerState
<1>5. Control'
  <2>1. \A t \in queue : t \in Steps /\ t # hand /\ NotStarted(t)
    BY DEF TypeInv, TypeOK, Control
  <2>2. \A t \in queue : NotStarted(t)'
    BY <1>3, <2>1 DEF NotStarted, MarkRunning
  <2>3. /\ pc' = "launch" /\ hand' = NoStep /\ queue' = queue
        /\ \A t \in queue : t # NoStep
    BY <2>1, StepDeclarations DEF MarkRunning
  <2> QED
    BY <2>2, <2>3 DEF Control, EnginePc, HoldingPc
<1>6. Attempting'
  <2> SUFFICES ASSUME NEW t \in Steps
               PROVE  /\ stepState'[t] = "succeeded" => LatestSucceeded(t)'
                      /\ worker'[t] \in BusyWorker => HasActiveAttempt(t)'
                      /\ HasActiveAttempt(t)' => stepState'[t] = "running" \/ state' # "running"
                      /\ t \in integrated' => stepState'[t] = "succeeded"
    BY DEF Attempting
  <2>1. CASE t = hand
    <3>1. stepState[t] # "succeeded" /\ t \notin integrated
      BY <1>1, <2>1 DEF TypeInv, Attempting, LatestSucceeded, HasActiveAttempt,
         ActiveAttemptStates
    <3> QED
      BY <1>1, <1>3, <2>1, <3>1 DEF TypeInv, Attempting, MarkRunning
  <2>2. CASE t # hand
    BY <1>3, <2>2 DEF TypeInv, TypeOK, Attempting, MarkRunning
  <2> QED
    BY <2>1, <2>2
<1> QED
  BY <1>4, <1>5, <1>6 DEF TypeInv

\* Only a step with an active attempt settles, and it rewrites that attempt.
LEMMA SettleStepAttempts ==
  ASSUME TypeInv, NEW s \in Steps, SettleStep(s)
  PROVE  /\ worker[s] \in {"succeeded", "failed", "fatal", "cancelled"}
         /\ HasActiveAttempt(s) /\ s \notin integrated
         /\ attempts' \in [Steps -> Seq(Attempt)]
         /\ \A t \in Steps : t # s => attempts'[t] = attempts[t]
         /\ attempts'[s] # <<>>
         /\ attempts'[s][Len(attempts'[s])].state \in {"succeeded", "failed", "cancelled"}
         /\ worker[s] = "succeeded" => attempts'[s][Len(attempts'[s])].state = "succeeded"
         /\ Len(attempts'[s]) = Len(attempts[s])
         /\ \A n \in 1..Len(attempts[s]) - 1 : attempts'[s][n] = attempts[s][n]
<1> DEFINE outcome == worker[s]
           old == attempts[s][AttemptNumber(s)]
           new == [old EXCEPT !.state = SettledAttemptState(outcome),
                              !.commit = outcome = "succeeded" /\ HasCommit(s)]
<1>1. /\ outcome \in {"succeeded", "failed", "fatal", "cancelled"}
      /\ HasActiveAttempt(s)
      /\ s \notin integrated
  BY DEF TypeInv, Attempting, SettleStep, BusyWorker, LatestSucceeded, HasActiveAttempt,
     ActiveAttemptStates
<1>2. attempts[s] # <<>> /\ old \in Attempt
  BY <1>1, ActiveNumber DEF TypeInv
<1>3. /\ new \in Attempt
      /\ new.state = SettledAttemptState(outcome)
      /\ new.state \in {"succeeded", "failed", "cancelled"}
      /\ new.state = "succeeded" <=> outcome = "succeeded"
  BY <1>1, <1>2 DEF Attempt, AttemptState, SettledAttemptState
<1>4. attempts' = SetLastAttempt(s, new)
  BY DEF SettleStep
<1> HIDE DEF new
<1>5. attempts \in [Steps -> Seq(Attempt)]
  BY DEF TypeInv, TypeOK
<1>6. /\ attempts' \in [Steps -> Seq(Attempt)]
      /\ \A t \in Steps : t # s => attempts'[t] = attempts[t]
      /\ Len(attempts'[s]) = Len(attempts[s])
      /\ attempts'[s] # <<>>
      /\ attempts'[s][Len(attempts'[s])] = new
      /\ \A n \in 1..Len(attempts[s]) - 1 : attempts'[s][n] = attempts[s][n]
  BY <1>2, <1>3, <1>4, <1>5, SetLastAttemptType
<1> QED
  BY <1>1, <1>3, <1>6

\* Settling an attempt touches no step the loop holds.
LEMMA SettleStepStep ==
  ASSUME TypeInv, NEW s \in Steps, SettleStep(s)
  PROVE  TypeInv'
<1> DEFINE outcome == worker[s]
           ended == [stepState EXCEPT ![s] = SettledStepState(s, outcome)]
<1>1. /\ outcome \in {"succeeded", "failed", "fatal", "cancelled"}
      /\ HasActiveAttempt(s)
      /\ s \notin integrated
  BY SettleStepAttempts
<1>2. /\ attempts' \in [Steps -> Seq(Attempt)]
      /\ \A t \in Steps : t # s => attempts'[t] = attempts[t]
  BY SettleStepAttempts
<1>3. /\ ended \in [Steps -> StepRunState]
      /\ \A t \in Steps : t # s => ended[t] = stepState[t]
      /\ ended[s] = "succeeded" <=> outcome = "succeeded"
      /\ ended[s] # "running"
  BY <1>1 DEF TypeInv, TypeOK, StepRunState, SettledStepState, SettledAttemptState, Retryable
<1>4. stepState' = reconcileWorkflowSteps(ended, integrated)
  BY DEF SettleStep, Reconciled
<1>5. /\ stepState' \in [Steps -> StepRunState]
      /\ \A t \in Steps : \A v \in {"running", "succeeded", "failed", "cancelled"} :
           stepState'[t] = v <=> ended[t] = v
  <2> HIDE DEF ended
  <2> QED
    BY ONLY <1>3, <1>4, ReconcilePreserves
<1>6. /\ ~HasActiveAttempt(s)'
      /\ outcome = "succeeded" => LatestSucceeded(s)'
  BY SettleStepAttempts DEF HasActiveAttempt, LatestSucceeded, AttemptNumber,
     ActiveAttemptStates
<1>7. /\ state' \in RunLifecycleState
      /\ state # "running" => state' = state
  BY <1>1 DEF TypeInv, TypeOK, SettleStep, SettledRunState, SettledAttemptState,
     RunLifecycleState
<1>8. \A t \in Steps : t # s =>
        /\ HasActiveAttempt(t)' <=> HasActiveAttempt(t)
        /\ LatestSucceeded(t)' <=> LatestSucceeded(t)
  BY <1>2 DEF HasActiveAttempt, LatestSucceeded, AttemptNumber
<1>9. /\ UNCHANGED <<integrated, integrationHead, repository, artifacts, stored, pc, queue, hand,
                     aborted, stopped, world>>
      /\ worker' = [worker EXCEPT ![s] = "settled"]
  BY DEF SettleStep
<1>10. worker' \in [Steps -> WorkerState]
  BY <1>9 DEF TypeInv, TypeOK, WorkerState
<1>11. TypeOK'
  BY <1>2, <1>5, <1>7, <1>9, <1>10 DEF TypeInv, TypeOK
<1>12. Control'
  <2>1. s \notin queue /\ pc \in EnginePc \ {"settling", "cancelling"}
    BY <1>1 DEF TypeInv, Control, NotStarted
  <2>2. pc \in HoldingPc => hand \in Steps /\ hand # s
    BY <1>1 DEF TypeInv, TypeOK, Control, Attempting, NotStarted, NextInOrder, HoldingPc,
       BusyWorker, LatestSucceeded, HasActiveAttempt, ActiveAttemptStates
  <2>3. \A t \in Steps : t # s /\ NotStarted(t) => NotStarted(t)'
    BY <1>3, <1>5, <1>8 DEF NotStarted
  <2>4. /\ queue \subseteq Steps
        /\ queue' = queue /\ hand' = hand /\ pc' = pc /\ integrated' = integrated
    BY <1>9 DEF TypeInv, TypeOK
  <2>5. \A t \in Steps : t # s => worker'[t] = worker[t]
    BY <1>9
  <2>6. \A t \in queue' : NotStarted(t)' /\ t # hand'
    BY <2>1, <2>3, <2>4 DEF TypeInv, Control
  <2>7. pc' \in {"git", "record", "gitFailed"} => NextInOrder(hand)'
    BY <1>3, <1>5, <2>2, <2>4 DEF TypeInv, Control, NextInOrder, HoldingPc
  <2>8. pc' = "mark" => HasActiveAttempt(hand)' /\ worker'[hand'] \notin BusyWorker
    BY <1>8, <2>2, <2>4, <2>5 DEF TypeInv, Control, HoldingPc
  <2>9. pc' \in {"reserve", "startFailed"} => NotStarted(hand)'
    BY <2>2, <2>3, <2>4 DEF TypeInv, Control, HoldingPc
  <2>10. /\ pc' \notin HoldingPc => hand' = NoStep
         /\ pc' \notin {"launch", "reserve", "mark"} => queue' = {}
    BY <2>4 DEF TypeInv, Control
  <2> QED
    BY <2>1, <2>4, <2>6, <2>7, <2>8, <2>9, <2>10 DEF Control, EnginePc
<1>13. Attempting'
  <2> SUFFICES ASSUME NEW t \in Steps
               PROVE  /\ stepState'[t] = "succeeded" => LatestSucceeded(t)'
                      /\ worker'[t] \in BusyWorker => HasActiveAttempt(t)'
                      /\ HasActiveAttempt(t)' => stepState'[t] = "running" \/ state' # "running"
                      /\ t \in integrated' => stepState'[t] = "succeeded"
    BY DEF Attempting
  <2>1. CASE t = s
    BY <1>1, <1>3, <1>5, <1>6, <1>9, <2>1 DEF TypeInv, TypeOK, BusyWorker
  <2>2. CASE t # s
    BY <1>3, <1>5, <1>7, <1>8, <1>9, <2>2 DEF TypeInv, TypeOK, Attempting
  <2> QED
    BY <2>1, <2>2
<1> QED
  BY <1>11, <1>12, <1>13 DEF TypeInv

\* Settling the run keeps every success.
LEMMA SettleRunStep ==
  ASSUME TypeInv, SettleRun
  PROVE  TypeInv'
<1> DEFINE ended == SettledSteps(pc = "cancelling")
<1>1. /\ ended \in [Steps -> StepRunState]
      /\ \A s \in Steps : ended[s] = "succeeded" <=> stepState[s] = "succeeded"
  BY SettledStepsPreserve DEF TypeInv
<1>2. /\ stepState' = ended
      /\ state' \in RunLifecycleState \ {"running"}
  BY SettledStateType DEF TypeInv, SettleRun, Settle
<1> HIDE DEF ended
<1>3. TypeOK'
  BY <1>1, <1>2 DEF TypeInv, TypeOK, SettleRun, Settle, Pc
<1>4. Control'
  BY <1>1, <1>2 DEF TypeInv, Control, SettleRun, Settle, EnginePc, HoldingPc
<1>5. Attempting'
  BY <1>1, <1>2 DEF TypeInv, TypeOK, Attempting, SettleRun, Settle, LatestSucceeded,
     HasActiveAttempt, AttemptNumber
<1> QED
  BY <1>3, <1>4, <1>5 DEF TypeInv

\* After recovery no attempt is active, and exactly the adopted steps are new
\* successes.
LEMMA RecoverStep ==
  ASSUME TypeInv, Recover
  PROVE  TypeInv'
<1>1. \A s \in Steps : worker[s] = "idle"
  BY DEF TypeInv, Control, Recover, EnginePc
<1>2. CASE ActiveSteps = {}
  <2>1. UNCHANGED snapshot /\ stopped' = {}
    BY <1>2 DEF Recover, ActiveSteps, OutOfBudget, Interrupted
  <2>2. pc' \in {"integrate", "settled"}
    BY <2>1 DEF Recover
  <2>3. TypeOK'
    BY <2>1, <2>2 DEF TypeInv, TypeOK, Recover, Pc, EnginePc
  <2>4. Control'
    BY <1>1, <2>1, <2>2 DEF TypeInv, Control, Recover, HoldingPc, EnginePc
  <2>5. Attempting'
    BY <1>1, <2>1 DEF TypeInv, Attempting, Recover, LatestSucceeded, HasActiveAttempt,
       AttemptNumber
  <2> QED
    BY <2>3, <2>4, <2>5 DEF TypeInv
<1>3. CASE ActiveSteps # {}
  <2>1. /\ attempts' = RecoveredAttempts
        /\ stepState' = reconcileWorkflowSteps(RecoveredSteps, integrated)
        /\ state' \in {state, "failed"}
        /\ integrated' = integrated
        /\ integrationHead' = integrationHead
    BY <1>3 DEF Recover, Reconciled
  <2>2. \A s \in Steps : /\ RecoveredAttempts[s] \in Seq(Attempt)
                         /\ ~HasActiveAttempt(s) => RecoveredAttempts[s] = attempts[s]
    BY RecoveredAttemptsType DEF TypeInv
  <2>3. \A s \in Steps : HasActiveAttempt(s) =>
          /\ RecoveredAttempts[s] # <<>>
          /\ RecoveredAttempts[s][Len(RecoveredAttempts[s])].state =
               IF Adoptable(s) THEN "succeeded" ELSE "interrupted"
    BY RecoveredAttemptsType DEF TypeInv
  <2>4. attempts' \in [Steps -> Seq(Attempt)]
    BY <2>1, <2>2 DEF RecoveredAttempts
  <2>5. \A s \in Steps : ~HasActiveAttempt(s)'
    BY <2>1, <2>2, <2>3 DEF HasActiveAttempt, AttemptNumber, ActiveAttemptStates
  <2>6. /\ RecoveredSteps \in [Steps -> StepRunState]
        /\ \A s \in Steps : RecoveredSteps[s] = "succeeded" <=>
             Adoptable(s) \/ (~HasActiveAttempt(s) /\ stepState[s] = "succeeded")
    <3>1. \A s \in Steps : OutOfBudget(s) => Interrupted(s)
      BY DEF OutOfBudget
    <3>2. \A s \in Steps : Interrupted(s) <=> (HasActiveAttempt(s) /\ ~Adoptable(s))
      BY DEF Interrupted
    <3>3. \A s \in Steps : Adoptable(s) => HasActiveAttempt(s)
      BY DEF Adoptable
    <3> QED
      BY <3>1, <3>2, <3>3 DEF TypeInv, TypeOK, RecoveredSteps, StepRunState
  <2>7. /\ stepState' \in [Steps -> StepRunState]
        /\ \A s \in Steps : \A v \in {"running", "succeeded", "failed", "cancelled"} :
             stepState'[s] = v <=> RecoveredSteps[s] = v
    BY ONLY <2>1, <2>6, ReconcilePreserves
  <2>8. TypeOK'
    BY <2>1, <2>4, <2>7 DEF TypeInv, TypeOK, Recover, Pc, EnginePc, RunLifecycleState,
       OutOfBudget
  <2>9. Control'
    BY <1>1, <2>5 DEF TypeInv, Control, Recover, HoldingPc, EnginePc, ActiveSteps
  <2>10. Attempting'
    <3>1. \A s \in Steps : stepState'[s] = "succeeded" => LatestSucceeded(s)'
      BY <2>1, <2>2, <2>3, <2>6, <2>7 DEF TypeInv, Attempting, LatestSucceeded,
         AttemptNumber, Adoptable
    <3>2. \A s \in Steps : s \in integrated' => stepState'[s] = "succeeded"
      BY <2>1, <2>6, <2>7 DEF TypeInv, Attempting, LatestSucceeded, HasActiveAttempt,
         ActiveAttemptStates
    <3> QED
      BY <1>1, <2>5, <3>1, <3>2 DEF Attempting, Recover, BusyWorker
  <2> QED
    BY <2>8, <2>9, <2>10 DEF TypeInv
<1> QED
  BY <1>2, <1>3

\* Relaunching plans only failed and blocked steps again.
LEMMA RelaunchInterruptedStep ==
  ASSUME TypeInv, RelaunchInterrupted
  PROVE  TypeInv'
<1> DEFINE S == {s \in Steps :
                 \/ s \in stopped /\ stepState[s] = "failed"
                 \/ stepState[s] = "blocked"}
<1>1. /\ Replanned(S) \in [Steps -> StepRunState]
      /\ \A s \in Steps : Replanned(S)[s] = "succeeded" <=> stepState[s] = "succeeded"
  BY DEF TypeInv, TypeOK, Replanned, StepRunState
<1>2. stepState' = reconcileWorkflowSteps(Replanned(S), integrated)
  BY DEF RelaunchInterrupted, Reconciled
<1>3. /\ stepState' \in [Steps -> StepRunState]
      /\ \A s \in Steps : \A v \in {"running", "succeeded", "failed", "cancelled"} :
           stepState'[s] = v <=> Replanned(S)[s] = v
  <2> HIDE DEF S
  <2> QED
    BY ONLY <1>1, <1>2, ReconcilePreserves
<1>4. \A s \in Steps : ~HasActiveAttempt(s)
  BY DEF TypeInv, Control, RelaunchInterrupted, ActiveSteps
<1> HIDE DEF S
<1>5. TypeOK'
  BY <1>3 DEF TypeInv, TypeOK, RelaunchInterrupted, Pc, EnginePc, RunLifecycleState
<1>6. Control'
  BY DEF TypeInv, Control, RelaunchInterrupted, HoldingPc, EnginePc
<1>7. Attempting'
  BY <1>1, <1>3, <1>4 DEF TypeInv, TypeOK, Attempting, RelaunchInterrupted, LatestSucceeded,
     HasActiveAttempt, AttemptNumber
<1> QED
  BY <1>5, <1>6, <1>7 DEF TypeInv

\* A retry plans only failed and blocked steps again.
LEMMA RetryResetStep ==
  ASSUME TypeInv, RetryReset
  PROVE  TypeInv'
<1> DEFINE S == {s \in Steps : stepState[s] \in {"failed", "blocked"}}
<1>1. /\ Replanned(S) \in [Steps -> StepRunState]
      /\ \A s \in Steps : Replanned(S)[s] = "succeeded" <=> stepState[s] = "succeeded"
  BY DEF TypeInv, TypeOK, Replanned, StepRunState
<1>2. stepState' = reconcileWorkflowSteps(Replanned(S), integrated)
  BY DEF RetryReset, Reconciled
<1>3. /\ stepState' \in [Steps -> StepRunState]
      /\ \A s \in Steps : \A v \in {"running", "succeeded", "failed", "cancelled"} :
           stepState'[s] = v <=> Replanned(S)[s] = v
  <2> HIDE DEF S
  <2> QED
    BY ONLY <1>1, <1>2, ReconcilePreserves
<1>4. \A s \in Steps : ~HasActiveAttempt(s)
  BY DEF TypeInv, Control, RetryReset, ActiveSteps
<1> HIDE DEF S
<1>5. TypeOK'
  BY <1>3 DEF TypeInv, TypeOK, RetryReset, Pc, EnginePc, RunLifecycleState
<1>6. Control'
  BY DEF TypeInv, Control, RetryReset, HoldingPc, EnginePc
<1>7. Attempting'
  BY <1>1, <1>3, <1>4 DEF TypeInv, TypeOK, Attempting, RetryReset, LatestSucceeded,
     HasActiveAttempt, AttemptNumber
<1> QED
  BY <1>5, <1>6, <1>7 DEF TypeInv

\* A cancellation of the snapshot keeps every success and starts nothing.
LEMMA CancelSnapshotFacts ==
  ASSUME TypeInv, CancelSnapshot
  PROVE  /\ stepState' \in [Steps -> StepRunState]
         /\ \A s \in Steps :
              /\ stepState'[s] = "succeeded" <=> stepState[s] = "succeeded"
              /\ stepState'[s] = "running" => stepState[s] = "running"
         /\ state' \in RunLifecycleState
         /\ state' # "running" \/ UNCHANGED <<state, stepState>>
         /\ UNCHANGED <<integrated, attempts, integrationHead>>
         /\ cancel' \in {"requested", "foundFailed", "refused"}
<1>1. CASE SettleAccepted(TRUE)
  <2>1. /\ stepState' = SettledSteps(TRUE)
        /\ state' = SettledState(SettledSteps(TRUE))
        /\ UNCHANGED <<integrated, attempts, integrationHead>>
        /\ cancel' \in {"requested", "foundFailed"}
    BY <1>1 DEF CancelSnapshot, Settle
  <2> QED
    BY <2>1, SettledStepsPreserve, SettledStateType DEF TypeInv
<1>2. CASE ~SettleAccepted(TRUE)
  BY <1>2 DEF CancelSnapshot, TypeInv, TypeOK
<1> QED
  BY <1>1, <1>2

\* Such a cancellation keeps the invariant wherever the loop is.
LEMMA CancelKeeps ==
  ASSUME TypeInv,
         stepState' \in [Steps -> StepRunState],
         \A s \in Steps :
           /\ stepState'[s] = "succeeded" <=> stepState[s] = "succeeded"
           /\ stepState'[s] = "running" => stepState[s] = "running",
         state' \in RunLifecycleState,
         state' # "running" \/ UNCHANGED <<state, stepState>>,
         UNCHANGED <<integrated, attempts, integrationHead>>,
         cancel' \in {"requested", "foundFailed", "refused"},
         aborted' \in BOOLEAN,
         UNCHANGED <<repository, artifacts, stored, pc, queue, hand, worker, stopped, crashes, retries>>
  PROVE  TypeInv'
<1>1. TypeOK'
  BY DEF TypeInv, TypeOK
<1>2. Control'
  BY DEF TypeInv, TypeOK, Control, NotStarted, NextInOrder, ActiveSteps, HasActiveAttempt,
     AttemptNumber, Pc, EnginePc
<1>3. Attempting'
  BY DEF TypeInv, TypeOK, Attempting, LatestSucceeded, HasActiveAttempt, AttemptNumber
<1> QED
  BY <1>1, <1>2, <1>3 DEF TypeInv

\* Another process cancels the snapshot.
LEMMA CancelElsewhereStep ==
  ASSUME TypeInv, CancelElsewhere
  PROVE  TypeInv'
<1>1. CancelSnapshot /\ UNCHANGED <<repository, artifacts, stored, process, crashes, retries>>
  BY DEF CancelElsewhere
<1>2. aborted' \in BOOLEAN
  BY <1>1 DEF TypeInv, TypeOK
<1> QED
  BY <1>1, <1>2, CancelSnapshotFacts, CancelKeeps

\* The executing process cancels its own run.
LEMMA CancelHereStep ==
  ASSUME TypeInv, CancelHere
  PROVE  TypeInv'
<1>1. CASE pc \in EnginePc
  <2>1. UNCHANGED snapshot /\ cancel' \in {"requested", "foundFailed"}
    BY <1>1 DEF CancelHere
  <2>2. TypeOK'
    BY <2>1 DEF TypeInv, TypeOK, CancelHere
  <2>3. Control'
    BY <2>1 DEF TypeInv, Control, CancelHere, NotStarted, NextInOrder, ActiveSteps,
       HasActiveAttempt, AttemptNumber
  <2>4. Attempting'
    BY <2>1 DEF TypeInv, Attempting, CancelHere, LatestSucceeded, HasActiveAttempt,
       AttemptNumber
  <2> QED
    BY <2>2, <2>3, <2>4 DEF TypeInv
<1>2. CASE pc \notin EnginePc
  <2>1. CancelSnapshot /\ aborted' \in BOOLEAN
    BY <1>2 DEF CancelHere
  <2>2. UNCHANGED <<repository, artifacts, stored, pc, queue, hand, worker, stopped, crashes, retries>>
    BY DEF CancelHere
  <2> QED
    BY <2>1, <2>2, CancelSnapshotFacts, CancelKeeps
<1> QED
  BY <1>1, <1>2

\* Stuttering.
LEMMA UnchangedStep ==
  ASSUME TypeInv, UNCHANGED vars
  PROVE  TypeInv'
<1>1. TypeOK'
  BY DEF TypeInv, TypeOK, vars
<1>2. Control'
  BY DEF TypeInv, Control, NotStarted, NextInOrder, ActiveSteps, HasActiveAttempt,
     AttemptNumber, vars
<1>3. Attempting'
  BY DEF TypeInv, Attempting, LatestSucceeded, HasActiveAttempt, AttemptNumber, vars
<1> QED
  BY <1>1, <1>2, <1>3 DEF TypeInv

\* Every step of the loop keeps the invariant.
LEMMA EngineStepTypeInv ==
  ASSUME TypeInv, EngineStep
  PROVE  TypeInv'
<1>1. ASSUME NEW s \in Steps, IntegrateNext(s) \/ Prepare(s) \/ PrepareFails(s) \/ CollectSettled(s)
      PROVE  TypeInv'
  BY <1>1, IntegrateNextStep, PrepareStep, PrepareFailsStep, CollectSettledStep
<1> QED
  BY <1>1, NothingToIntegrateStep, GitIntegrateStep, GitRefusesStep, RecordIntegrationStep,
     RecordIntegrationFailureStep, DispatchStep, DispatchDoneStep, ReserveStep,
     LoseReservationStep, MarkRunningStep, FailStartStep, NoneActiveStep, SettleRunStep,
     StoreSettledStep, RecoverStep, RelaunchInterruptedStep, RetryResetStep
     DEF EngineStep

\* Every event of a handler keeps the invariant.
LEMMA WorkerStepTypeInv ==
  ASSUME TypeInv, NEW s \in Steps, WorkerCommits(s) \/ WorkerStep(s)
  PROVE  TypeInv'
  BY WorkerCommitsStep, WorkerSucceedsStep, WorkerFailsStep, WorkerRejectedStep,
     WorkerAbortedStep, PublishArtifactStep, ArtifactWriteFailsStep, RoutingRejectedStep,
     SettleStepStep DEF WorkerStep

\* The invariant is inductive.
LEMMA NextTypeInv ==
  ASSUME TypeInv, [Next]_vars
  PROVE  TypeInv'
<1>1. CASE EngineStep
  BY <1>1, EngineStepTypeInv
<1>2. ASSUME NEW s \in Steps, WorkerCommits(s) \/ WorkerStep(s)
      PROVE  TypeInv'
  BY <1>2, WorkerStepTypeInv
<1>3. CASE UserStep
  BY <1>3, ResumeStep, RetryStep, CancelHereStep, CancelElsewhereStep, FinishCancelStep
     DEF UserStep
<1>4. CASE Crash
  BY <1>4, CrashStep
<1>5. CASE UNCHANGED vars
  BY <1>5, UnchangedStep
<1> QED
  BY <1>1, <1>2, <1>3, <1>4, <1>5 DEF Next

\* In every run of every plan the invariant of the engine holds.
THEOREM EngineInvariant == Spec => []TypeInv
<1>1. Init => TypeInv
  BY InitTypeInv
<1>2. TypeInv /\ [Next]_vars => TypeInv'
  BY NextTypeInv
<1> QED
  BY <1>1, <1>2, PTL DEF Spec

\* Every variable keeps its type: the attempts of a step stay numbered without
\* a gap, only a mutating step is ever integrated, and the loop always holds a
\* step where it uses one.
THEOREM TypeCorrect == Spec => []TypeOK
<1>1. TypeInv => TypeOK
  BY DEF TypeInv
<1> QED
  BY <1>1, EngineInvariant, PTL

-----------------------------------------------------------------------------
(* What one step of the system does to the attempts.                       *)

\* Only a reservation, the start of a handler, the end of an attempt and
\* recovery write the attempts.
LEMMA AttemptsFrame ==
  ASSUME [Next]_vars,
         ~Reserve, ~MarkRunning, ~Recover, \A s \in Steps : ~SettleStep(s)
  PROVE  attempts' = attempts
<1>1. CASE EngineStep
  BY <1>1 DEF EngineStep, IntegrateNext, NothingToIntegrate, GitIntegrate, GitRefuses,
     RecordIntegration, RecordIntegrationFailure, Dispatch, DispatchDone, Prepare,
     PrepareFails, LoseReservation, FailStart, CollectSettled, NoneActive, SettleRun,
     Settle, StoreSettled, RelaunchInterrupted, RetryReset
<1>2. ASSUME NEW s \in Steps, WorkerCommits(s) \/ WorkerStep(s)
      PROVE  attempts' = attempts
  BY <1>2 DEF WorkerStep, WorkerCommits, WorkerSucceeds, WorkerFails, WorkerRejected,
     WorkerAborted, WorkerEnds, PublishArtifact, ArtifactWriteFails, RoutingRejected
<1>3. CASE UserStep
  BY <1>3 DEF UserStep, Resume, Retry, CancelHere, CancelElsewhere, CancelSnapshot, Settle,
     FinishCancel
<1>4. CASE Crash \/ UNCHANGED vars
  BY <1>4 DEF Crash, vars
<1> QED
  BY <1>1, <1>2, <1>3, <1>4 DEF Next

\* A step of the system leaves the attempts of a step alone, adds one that a
\* reservation granted, or rewrites the last one while it is active.
LEMMA AttemptsStep ==
  ASSUME TypeInv, [Next]_vars, NEW s \in Steps
  PROVE  \/ attempts'[s] = attempts[s]
         \/ /\ Reserve
            /\ s = hand
            /\ attempts'[s] = Append(attempts[s], NewAttempt)
         \/ /\ HasActiveAttempt(s)
            /\ Len(attempts'[s]) = Len(attempts[s])
            /\ \A n \in 1..Len(attempts[s]) - 1 : attempts'[s][n] = attempts[s][n]
<1>1. CASE Reserve
  BY <1>1, ReserveAttempts
<1>2. CASE MarkRunning
  BY <1>2, MarkRunningAttempts
<1>3. ASSUME NEW t \in Steps, SettleStep(t)
      PROVE  \/ attempts'[s] = attempts[s]
             \/ /\ HasActiveAttempt(s)
                /\ Len(attempts'[s]) = Len(attempts[s])
                /\ \A n \in 1..Len(attempts[s]) - 1 : attempts'[s][n] = attempts[s][n]
  BY <1>3, SettleStepAttempts
<1>4. CASE Recover
  <2>1. attempts' = attempts \/ attempts' = RecoveredAttempts
    BY <1>4 DEF Recover
  <2>2. ~HasActiveAttempt(s) => RecoveredAttempts[s] = attempts[s]
    BY RecoveredAttemptsType DEF TypeInv
  <2>3. HasActiveAttempt(s) =>
          /\ Len(RecoveredAttempts[s]) = Len(attempts[s])
          /\ \A n \in 1..Len(attempts[s]) - 1 : RecoveredAttempts[s][n] = attempts[s][n]
    <3> SUFFICES ASSUME HasActiveAttempt(s), NEW n \in 1..Len(attempts[s]) - 1
                 PROVE  RecoveredAttempts[s][n] = attempts[s][n]
      BY RecoveredAttemptsType DEF TypeInv, AttemptNumber
    <3>1. attempts[s] \in Seq(Attempt) /\ n # AttemptNumber(s)
      BY DEF TypeInv, TypeOK, AttemptNumber
    <3>2. \E rec : RecoveredAttempts[s] = [attempts[s] EXCEPT ![AttemptNumber(s)] = rec]
      BY DEF RecoveredAttempts, Interrupted
    <3> QED
      BY <3>1, <3>2
  <2> QED
    BY <2>1, <2>2, <2>3
<1> QED
  BY <1>1, <1>2, <1>3, <1>4, AttemptsFrame

-----------------------------------------------------------------------------
(* The history of the attempts.                                            *)

\* No attempt disappears, and a settled attempt is never written again, over
\* any number of crashes, resumes, retries and cancellations.
THEOREM AttemptHistorySafe == Spec => AttemptHistoryKept
<1>1. ASSUME TypeInv, [Next]_vars,
             NEW s \in Steps, NEW n \in 1..AttemptNumber(s)
      PROVE  /\ n <= Len(attempts'[s])
             /\ attempts[s][n].state \notin ActiveAttemptStates => attempts'[s][n] = attempts[s][n]
  <2>1. attempts[s] \in Seq(Attempt)
    BY <1>1 DEF TypeInv, TypeOK
  <2>2. CASE attempts'[s] = attempts[s]
    BY <2>1, <2>2 DEF AttemptNumber
  <2>3. CASE attempts'[s] = Append(attempts[s], NewAttempt)
    BY <2>1, <2>3 DEF AttemptNumber
  <2>4. CASE /\ HasActiveAttempt(s)
             /\ Len(attempts'[s]) = Len(attempts[s])
             /\ \A m \in 1..Len(attempts[s]) - 1 : attempts'[s][m] = attempts[s][m]
    BY <2>1, <2>4 DEF AttemptNumber, HasActiveAttempt
  <2> QED
    BY <1>1, <2>2, <2>3, <2>4, AttemptsStep
<1>2. TypeInv /\ [Next]_vars =>
        [\A s \in Steps : \A n \in 1..AttemptNumber(s) :
           /\ n <= Len(attempts'[s])
           /\ attempts[s][n].state \notin ActiveAttemptStates => attempts'[s][n] = attempts[s][n]
        ]_vars
  BY <1>1
<1> QED
  BY <1>2, EngineInvariant, PTL DEF Spec, AttemptHistoryKept

\* A new attempt is only ever added to a run that is running, for a step with
\* no active attempt, on top of the integration head of that moment.
THEOREM StartsAreAllowed == Spec => StartsOnlyWhenAllowed
<1>1. ASSUME TypeInv, [Next]_vars,
             NEW s \in Steps, AttemptNumber(s) < Len(attempts'[s])
      PROVE  /\ state = "running"
             /\ ~HasActiveAttempt(s)
             /\ attempts'[s][AttemptNumber(s) + 1].base = integrationHead
  <2>1. attempts[s] \in Seq(Attempt)
    BY <1>1 DEF TypeInv, TypeOK
  <2>2. /\ Reserve
        /\ s = hand
        /\ attempts'[s] = Append(attempts[s], NewAttempt)
    BY <1>1, <2>1, AttemptsStep DEF AttemptNumber
  <2>3. attempts'[s][AttemptNumber(s) + 1] = NewAttempt
    BY <2>1, <2>2 DEF AttemptNumber
  <2>4. state = "running" /\ ~HasActiveAttempt(s)
    BY <1>1, <2>2, ReserveAttempts
  <2> QED
    BY <2>3, <2>4 DEF NewAttempt
<1>2. TypeInv /\ [Next]_vars =>
        [\A s \in Steps : AttemptNumber(s) < Len(attempts'[s]) =>
           /\ state = "running"
           /\ ~HasActiveAttempt(s)
           /\ attempts'[s][AttemptNumber(s) + 1].base = integrationHead
        ]_vars
  BY <1>1
<1> QED
  BY <1>2, EngineInvariant, PTL DEF Spec, StartsOnlyWhenAllowed

-----------------------------------------------------------------------------
(* Locks and worker slots.                                                 *)

\* Only a reservation makes a step active.
LEMMA ActiveStepsStep ==
  ASSUME TypeInv, [Next]_vars
  PROVE  ActiveSteps' \subseteq IF Reserve THEN ActiveSteps \cup {hand} ELSE ActiveSteps
<1> SUFFICES ASSUME NEW s \in Steps, HasActiveAttempt(s)', ~HasActiveAttempt(s)
             PROVE  Reserve /\ s = hand
  BY DEF ActiveSteps
<1>1. attempts'[s] # attempts[s]
  BY DEF HasActiveAttempt, AttemptNumber
<1> QED
  BY <1>1, AttemptsStep

\* While the run is running, an active step is a running step: what the
\* scheduler reads as the held locks and slots covers every active attempt.
LEMMA ActiveRuns ==
  ASSUME TypeInv, state = "running"
  PROVE  ActiveSteps \subseteq Running(stepState)
  BY DEF TypeInv, Attempting, ActiveSteps, Running

\* What a reservation was granted against.
LEMMA ReserveGrants ==
  ASSUME TypeInv, Reserve
  PROVE  /\ hand \in Steps
         /\ hand \notin ActiveSteps
         /\ \A t \in ActiveSteps : <<hand, t>> \notin Conflicts /\ <<t, hand>> \notin Conflicts
         /\ hand \in UsesSlot => occupiedSlots(stepState, ActiveSteps) < MaxWorkers
<1>1. /\ stepState \in [Steps -> StepRunState]
      /\ ActiveSteps \in SUBSET Steps
  BY DEF TypeInv, TypeOK, ActiveSteps
<1>2. hand \in launchableStepIds(state, stepState, integrated, ActiveSteps)
  BY DEF Reserve, Launchable
<1>3. /\ state = "running"
      /\ hand \in Steps
      /\ hand \notin ActiveSteps
      /\ \A t \in Running(stepState) : <<hand, t>> \notin Conflicts
      /\ hand \in UsesSlot => occupiedSlots(stepState, ActiveSteps) < MaxWorkers
  BY <1>1, <1>2, LaunchableGrants
<1>4. \A t \in ActiveSteps : <<hand, t>> \notin Conflicts
  BY <1>3, ActiveRuns
<1> QED
  BY <1>1, <1>3, <1>4, LocksAssumption

\* Two attempts that are active at the same time hold no conflicting locks,
\* whatever crashed, was retried or cancelled before.
THEOREM LocksAreExclusive == Spec => []LocksExclusive
<1>1. Init => LocksExclusive
  BY DEF Init, LocksExclusive, ActiveSteps, HasActiveAttempt
<1>2. ASSUME TypeInv, LocksExclusive, [Next]_vars
      PROVE  LocksExclusive'
  <2>1. CASE Reserve
    <3>1. ActiveSteps' \subseteq ActiveSteps \cup {hand}
      BY <1>2, <2>1, ActiveStepsStep
    <3> QED
      BY <1>2, <2>1, <3>1, ReserveGrants DEF LocksExclusive
  <2>2. CASE ~Reserve
    <3>1. ActiveSteps' \subseteq ActiveSteps
      BY <1>2, <2>2, ActiveStepsStep
    <3> QED
      BY <1>2, <3>1 DEF LocksExclusive
  <2> QED
    BY <2>1, <2>2
<1> QED
  BY <1>1, <1>2, EngineInvariant, PTL DEF Spec

\* No more attempts are active than there are worker slots, and no handler
\* executes without an active attempt.
THEOREM SlotsAreBounded == Spec => []SlotsBounded
<1> DEFINE Slots == ActiveSteps \cap UsesSlot
           Bounded == Cardinality(Slots) <= MaxWorkers
<1>0. IsFiniteSet(Slots) /\ IsFiniteSet(ActiveSteps')
  BY PlanAssumption, FS_Subset DEF ActiveSteps
<1>1. Init => Bounded
  <2>1. Init => Slots = {}
    BY DEF Init, ActiveSteps, HasActiveAttempt
  <2> QED
    BY <2>1, FS_EmptySet, WorkersAssumption
<1>2. ASSUME TypeInv, Bounded, [Next]_vars
      PROVE  Bounded'
  <2>1. CASE Slots' \subseteq Slots
    <3>1. /\ Cardinality(Slots') <= Cardinality(Slots)
          /\ Cardinality(Slots) \in Nat /\ Cardinality(Slots') \in Nat
      BY <1>0, <2>1, FS_Subset, FS_CardinalityType
    <3> QED
      BY <1>2, <3>1, WorkersAssumption
  <2>2. CASE ~(Slots' \subseteq Slots)
    <3>1. /\ Reserve
          /\ hand \in UsesSlot
          /\ Slots' \subseteq Slots \cup {hand}
      BY <1>2, <2>2, ActiveStepsStep
    <3> DEFINE Occupied == (ActiveSteps \cup Running(stepState)) \cap UsesSlot
    <3>2. Cardinality(Occupied) < MaxWorkers
      BY <1>2, <3>1, ReserveGrants DEF occupiedSlots
    <3>3. IsFiniteSet(Occupied) /\ Slots \subseteq Occupied
      BY PlanAssumption, FS_Subset DEF ActiveSteps, Running
    <3>4. /\ Cardinality(Slots) <= Cardinality(Occupied)
          /\ Cardinality(Slots) \in Nat /\ Cardinality(Occupied) \in Nat
      BY <3>3, <1>0, FS_Subset, FS_CardinalityType
    <3>5. /\ IsFiniteSet(Slots \cup {hand})
          /\ Cardinality(Slots \cup {hand}) <= Cardinality(Slots) + 1
      <4> HIDE DEF Slots
      <4>1. /\ IsFiniteSet(Slots \cup {hand})
            /\ Cardinality(Slots \cup {hand}) =
                 IF hand \in Slots THEN Cardinality(Slots) ELSE Cardinality(Slots) + 1
        BY <1>0, FS_AddElement
      <4> QED
        BY <3>4, <4>1
    <3>6. /\ Cardinality(Slots') <= Cardinality(Slots \cup {hand})
          /\ Cardinality(Slots \cup {hand}) \in Nat /\ Cardinality(Slots') \in Nat
      BY <3>1, <3>5, FS_Subset, FS_CardinalityType
    <3> QED
      BY <3>2, <3>4, <3>5, <3>6, WorkersAssumption
  <2> QED
    BY <2>1, <2>2
<1>3. TypeInv /\ Bounded => SlotsBounded
  BY DEF TypeInv, Attempting, SlotsBounded, BusyWorker, ActiveSteps
<1> QED
  BY <1>1, <1>2, <1>3, EngineInvariant, PTL DEF Spec

-----------------------------------------------------------------------------
(* Integration.                                                            *)

\* Only a recorded integration moves the integrated steps or the head.
LEMMA IntegrationFrame ==
  ASSUME [Next]_vars, ~RecordIntegration
  PROVE  UNCHANGED <<integrated, integrationHead>>
<1>1. CASE EngineStep
  BY <1>1 DEF EngineStep, IntegrateNext, NothingToIntegrate, GitIntegrate, GitRefuses,
     RecordIntegrationFailure, Dispatch, DispatchDone, Prepare, PrepareFails, Reserve,
     LoseReservation, MarkRunning, FailStart, CollectSettled, NoneActive, SettleRun, Settle,
     StoreSettled, Recover, RelaunchInterrupted, RetryReset
<1>2. ASSUME NEW s \in Steps, WorkerCommits(s) \/ WorkerStep(s)
      PROVE  UNCHANGED <<integrated, integrationHead>>
  BY <1>2 DEF WorkerStep, WorkerCommits, WorkerSucceeds, WorkerFails, WorkerRejected,
     WorkerAborted, WorkerEnds, PublishArtifact, ArtifactWriteFails, RoutingRejected, SettleStep
<1>3. CASE UserStep
  BY <1>3 DEF UserStep, Resume, Retry, CancelHere, CancelElsewhere, CancelSnapshot, Settle,
     FinishCancel
<1>4. CASE Crash \/ UNCHANGED vars
  BY <1>4 DEF Crash, vars
<1> QED
  BY <1>1, <1>2, <1>3, <1>4 DEF Next

\* The attempts of an integrated step are final: its commit stays its commit.
LEMMA IntegratedKept ==
  ASSUME TypeInv, [Next]_vars, NEW s \in integrated
  PROVE  /\ s \in Steps
         /\ attempts'[s] = attempts[s]
         /\ ProducedBy(s)' = ProducedBy(s)
<1>1. s \in Steps /\ stepState[s] = "succeeded"
  BY PlanAssumption DEF TypeInv, TypeOK, Attempting
<1>2. ~HasActiveAttempt(s)
  BY <1>1 DEF TypeInv, Attempting, LatestSucceeded, HasActiveAttempt, ActiveAttemptStates
<1>3. ~(Reserve /\ s = hand)
  BY <1>1, ReserveAttempts
<1>4. attempts'[s] = attempts[s]
  BY <1>1, <1>2, <1>3, AttemptsStep
<1> QED
  BY <1>1, <1>4 DEF ProducedBy, Succeeded, AttemptNumber

\* The step that is recorded comes after every integrated step in the plan.
LEMMA RecordedInOrder ==
  ASSUME TypeInv, IntegrationFollowsPlan, RecordIntegration
  PROVE  /\ hand \in Mutating /\ hand \notin integrated
         /\ Before(Mutating, hand) \subseteq integrated
         /\ \A t \in integrated : Position[t] < Position[hand]
<1>1. /\ hand \in Steps
      /\ hand \in Mutating /\ hand \notin integrated
      /\ Before(Mutating, hand) \subseteq integrated
  BY PlanAssumption DEF TypeInv, Control, NextInOrder, RecordIntegration
<1>2. ASSUME NEW t \in integrated
      PROVE  Position[t] < Position[hand]
  <2>1. t \in Steps /\ t # hand /\ Before(Mutating, t) \subseteq integrated
    BY <1>1, PlanAssumption DEF TypeInv, TypeOK, IntegrationFollowsPlan
  <2>2. Position[t] \in Nat /\ Position[hand] \in Nat /\ Position[t] # Position[hand]
    BY <1>1, <2>1, PlanAssumption
  <2>3. ~(Position[hand] < Position[t])
    BY <1>1, <2>1 DEF Before
  <2> QED
    BY <2>2, <2>3
<1> QED
  BY <1>1, <1>2

\* The commits of the integrated steps, when the step in hand is recorded.
LEMMA RecordedCommits ==
  ASSUME TypeInv, RecordIntegration, hand \in Mutating
  PROVE  IntegratedCommits' =
           IF attempts[hand][ProducedBy(hand)].commit
           THEN IntegratedCommits \cup {<<hand, ProducedBy(hand)>>}
           ELSE IntegratedCommits
<1>1. attempts' = attempts /\ integrated' = integrated \cup {hand}
  BY DEF RecordIntegration
<1>2. \A s : ProducedBy(s)' = ProducedBy(s)
  BY <1>1 DEF ProducedBy, Succeeded, AttemptNumber
<1>3. IntegratedCommits' =
        {<<s, ProducedBy(s)>> :
           s \in {t \in integrated \cup {hand} : attempts[t][ProducedBy(t)].commit}}
  BY <1>1, <1>2 DEF IntegratedCommits
<1> QED
  BY <1>3 DEF IntegratedCommits

\* Recording an integration appends at most one commit, of the next step in
\* plan order, to the recorded history.
LEMMA RecordKeepsPlan ==
  ASSUME TypeInv, IntegrationFollowsPlan, RecordIntegration, TypeInv'
  PROVE  IntegrationFollowsPlan'
<1> DEFINE commit == <<hand, ProducedBy(hand)>>
<1>1. /\ hand \in Mutating /\ hand \notin integrated
      /\ Before(Mutating, hand) \subseteq integrated
      /\ \A t \in integrated : Position[t] < Position[hand]
  BY RecordedInOrder
<1>2. integrated' = integrated \cup {hand} /\ integrationHead' = HeadAfter(hand)
  BY DEF RecordIntegration
<1>3. \A s \in integrated' :
       stepState'[s] = "succeeded" /\ Before(Mutating, s) \subseteq integrated'
  BY <1>1, <1>2, PlanAssumption DEF TypeInv, TypeOK, Attempting, IntegrationFollowsPlan
<1>4. integrationHead \in Seq(Commit)
  BY DEF TypeInv, TypeOK, History
<1>5. \A i \in 1..Len(integrationHead) : integrationHead[i][1] \in integrated
  <2>1. \A i \in 1..Len(integrationHead) : integrationHead[i] \in IntegratedCommits
    BY DEF IntegrationFollowsPlan
  <2> QED
    BY <2>1 DEF IntegratedCommits
<1>6. CASE ~attempts[hand][ProducedBy(hand)].commit
  <2>1. integrationHead' = integrationHead /\ IntegratedCommits' = IntegratedCommits
    BY <1>1, <1>2, <1>6, RecordedCommits DEF HeadAfter
  <2> QED
    BY <1>3, <2>1 DEF IntegrationFollowsPlan
<1>7. CASE attempts[hand][ProducedBy(hand)].commit
  <2>1. /\ integrationHead' = Append(integrationHead, commit)
        /\ IntegratedCommits' = IntegratedCommits \cup {commit}
    BY <1>1, <1>2, <1>7, RecordedCommits DEF HeadAfter
  <2>2. /\ Len(integrationHead') = Len(integrationHead) + 1
        /\ Len(integrationHead) \in Nat
        /\ \A i \in 1..Len(integrationHead) : integrationHead'[i] = integrationHead[i]
        /\ integrationHead'[Len(integrationHead) + 1] = commit
    <3> HIDE DEF commit
    <3> QED
      BY <1>4, <2>1
  <2>3. {integrationHead'[i] : i \in 1..Len(integrationHead')} = IntegratedCommits'
    <3>1. {integrationHead[i] : i \in 1..Len(integrationHead)} = IntegratedCommits
      BY DEF IntegrationFollowsPlan
    <3>2. 1..Len(integrationHead') = 1..Len(integrationHead) \cup {Len(integrationHead) + 1}
      BY <2>2
    <3> HIDE DEF commit
    <3> QED
      BY <2>1, <2>2, <3>1, <3>2
  <2>4. ASSUME NEW i \in 1..Len(integrationHead'), NEW j \in 1..Len(integrationHead'), i < j
        PROVE  Position[integrationHead'[i][1]] < Position[integrationHead'[j][1]]
    <3>1. i \in 1..Len(integrationHead)
      BY <2>2, <2>4
    <3>2. CASE j = Len(integrationHead) + 1
      BY <1>1, <1>5, <2>2, <3>1, <3>2
    <3>3. CASE j \in 1..Len(integrationHead)
      BY <2>2, <2>4, <3>1, <3>3 DEF IntegrationFollowsPlan
    <3> QED
      BY <2>2, <3>2, <3>3
  <2> QED
    BY <1>3, <2>3, <2>4 DEF IntegrationFollowsPlan
<1> QED
  BY <1>6, <1>7

\* The integrated steps are a prefix of the mutating steps in plan order and
\* stay succeeded, and the history of the recorded head is exactly their
\* commits in that order.
THEOREM IntegrationIsOrdered == Spec => []IntegrationFollowsPlan
<1>1. ASSUME Init
      PROVE  IntegrationFollowsPlan
  BY <1>1 DEF Init, IntegrationFollowsPlan, IntegratedCommits
<1>2. ASSUME TypeInv, IntegrationFollowsPlan, [Next]_vars, TypeInv'
      PROVE  IntegrationFollowsPlan'
  <2>1. CASE RecordIntegration
    BY <1>2, <2>1, RecordKeepsPlan
  <2>2. CASE ~RecordIntegration
    <3>1. integrated' = integrated /\ integrationHead' = integrationHead
      BY <1>2, <2>2, IntegrationFrame
    <3>2. \A s \in integrated : /\ attempts'[s] = attempts[s]
                                /\ ProducedBy(s)' = ProducedBy(s)
      BY <1>2, IntegratedKept
    <3>3. IntegratedCommits' = IntegratedCommits
      BY <3>1, <3>2 DEF IntegratedCommits
    <3>4. \A s \in integrated' :
       stepState'[s] = "succeeded" /\ Before(Mutating, s) \subseteq integrated'
      BY <1>2, <3>1, PlanAssumption DEF TypeInv, TypeOK, Attempting, IntegrationFollowsPlan
    <3> QED
      BY <1>2, <3>1, <3>3, <3>4 DEF IntegrationFollowsPlan
  <2> QED
    BY <2>1, <2>2
<1> QED
  BY <1>1, <1>2, EngineInvariant, PTL DEF Spec

-----------------------------------------------------------------------------
(***************************************************************************)
(* What any process may rely on in the snapshot, the branch and the        *)
(* artifacts between two transactions.                                     *)
(*                                                                         *)
(* SnapshotInv joins what is needed to TypeInv and IntegrationFollowsPlan: *)
(* none of the properties is inductive by itself, because each transaction *)
(* trusts what earlier ones, of this process or of a dead one, left.       *)
(***************************************************************************)

\* Every active attempt has a handler while the loop runs; a running step has
\* an active attempt.
Owned ==
  /\ pc \in EnginePc =>
       \A s \in Steps : HasActiveAttempt(s) =>
         worker[s] \in BusyWorker \/ (pc = "mark" /\ hand = s)
  /\ \A s \in Steps : stepState[s] = "running" => HasActiveAttempt(s)

\* The attempts step s may have by now.
Budget(s) == MaxAttempts[s] + retries + crashes

\* A step that may get another attempt has one left: it waits, an interruption
\* stopped it, or the user has paid for one more.
MayRunAgain(s) ==
  \/ stepState[s] \in {"planned", "ready", "blocked"}
  \/ s \in stopped
  \/ HasActiveAttempt(s) /\ pc \notin EnginePc
  \/ pc = "reset"

WithinBudget ==
  /\ stopped # {} => pc = "relaunch"
  /\ \A s \in Steps :
       /\ AttemptNumber(s) <= Budget(s)
       /\ MayRunAgain(s) => AttemptNumber(s) < Budget(s)

\* What the attempts say of the commits that exist.  A mutating step that
\* succeeded without a commit never had one.
CommitsKnown ==
  /\ \A s \in Steps : \A n \in 1..AttemptNumber(s) :
       attempts[s][n].commit => <<s, n>> \in taskCommits
  /\ \A c \in taskCommits : c[2] <= AttemptNumber(c[1])
  /\ \A s \in Steps : worker[s] = "succeeded" => (MustCommit(s) => HasCommit(s))
  /\ \A s \in Mutating : \A n \in Succeeded(s) : \A m \in 1..n :
       <<s, m>> \in taskCommits => attempts[s][n].commit

\* The branch is where the loop believes it is: at the recorded head, or ahead
\* by the commit of the next step to integrate.
BranchKnown ==
  /\ \/ branch = integrationHead
     \/ \E s \in Mutating \ integrated : \E n \in Succeeded(s) :
          /\ branch = Append(integrationHead, <<s, n>>)
          /\ Before(Mutating, s) \subseteq integrated
          /\ attempts[s][n].commit
  /\ pc = "git" => attempts[hand][ProducedBy(hand)].commit
  /\ pc = "record" => branch = HeadAfter(hand)

\* Where an active attempt started from.
BasesHold ==
  \A s \in ActiveSteps : \A d \in Deps[s] :
    /\ SatisfiesDependents(stepState, integrated, d)
    /\ d \in Mutating /\ attempts[d][ProducedBy(d)].commit
         => Contains(attempts[s][AttemptNumber(s)].base, <<d, ProducedBy(d)>>)

\* What a completed run is, and where the loop can be when the run is settled.
Whole ==
  /\ state = "completed" =>
       (\A s \in Steps : stepState[s] = "succeeded") /\ Mutating \subseteq integrated
  /\ stored = "validating" => state = "completed" /\ pc = "off"
  /\ pc \in {"relaunch", "reset"} => \E s \in Steps : stepState[s] # "succeeded"

AllIdle == \A s \in Steps : worker[s] = "idle"

\* What the loop has not seen yet was brought by a handler it has not collected.
NothingOverlooked ==
  state = "running" =>
    /\ pc \in EnginePc \ {"integrate", "git", "record", "gitFailed"} =>
         \A s \in Steps : Integrable(s) => worker[s] = "settled"
    /\ pc = "launch" /\ AllIdle => queue = Launchable
    /\ pc = "reserve" /\ AllIdle => queue \cup {hand} = Launchable
    /\ pc = "await" /\ AllIdle => aborted \/ Launchable = {}
    /\ pc = "settling" => Launchable = {}

SnapshotInv ==
  /\ IsReconciled(stepState, integrated)
  /\ Owned
  /\ WithinBudget
  /\ SuccessIsDurable
  /\ CommitsKnown
  /\ BranchKnown
  /\ BasesHold
  /\ Whole
  /\ NothingOverlooked

Inv == TypeInv /\ IntegrationFollowsPlan /\ SnapshotInv

USE DEF snapshot, repository, process, world

-----------------------------------------------------------------------------
(* What one step of the system does to the other variables.                *)

\* Only these transactions write the states of the run and of its steps.
LEMMA StatesFrame ==
  ASSUME [Next]_vars,
         ~RecordIntegration, ~RecordIntegrationFailure, ~Reserve, ~FailStart, ~SettleRun,
         ~Recover, ~RelaunchInterrupted, ~RetryReset, ~CancelHere, ~CancelElsewhere,
         \A s \in Steps : ~SettleStep(s)
  PROVE  UNCHANGED <<state, stepState>>
<1>1. CASE EngineStep
  BY <1>1 DEF EngineStep, IntegrateNext, NothingToIntegrate, GitIntegrate, GitRefuses, Dispatch,
     DispatchDone, Prepare, PrepareFails, LoseReservation, MarkRunning, CollectSettled,
     NoneActive, StoreSettled
<1>2. ASSUME NEW s \in Steps, WorkerCommits(s) \/ WorkerStep(s)
      PROVE  UNCHANGED <<state, stepState>>
  BY <1>2 DEF WorkerStep, WorkerCommits, WorkerSucceeds, WorkerFails, WorkerRejected,
     WorkerAborted, WorkerEnds, PublishArtifact, ArtifactWriteFails, RoutingRejected
<1>3. CASE UserStep
  BY <1>3 DEF UserStep, Resume, Retry, FinishCancel
<1>4. CASE Crash \/ UNCHANGED vars
  BY <1>4 DEF Crash, vars
<1> QED
  BY <1>1, <1>2, <1>3, <1>4 DEF Next

\* Commits and artifacts are never taken back; a commit is of the attempt a
\* handler executes, and the branch moves only by a cherry-pick.
LEMMA RepositoryStep ==
  ASSUME [Next]_vars
  PROVE  /\ artifacts \subseteq artifacts'
         /\ \/ taskCommits' = taskCommits
            \/ \E s \in Steps : /\ worker[s] = "executing"
                                /\ s \in Mutating
                                /\ taskCommits' = taskCommits \cup {<<s, AttemptNumber(s)>>}
                                /\ UNCHANGED <<attempts, worker, integrated>>
         /\ branch' = branch \/ GitIntegrate
<1>1. CASE EngineStep
  BY <1>1 DEF EngineStep, IntegrateNext, NothingToIntegrate, GitIntegrate, GitRefuses,
     RecordIntegration, RecordIntegrationFailure, Dispatch, DispatchDone, Prepare,
     PrepareFails, Reserve, LoseReservation, MarkRunning, FailStart, CollectSettled,
     NoneActive, SettleRun, StoreSettled, Recover, RelaunchInterrupted, RetryReset
<1>2. ASSUME NEW s \in Steps, WorkerStep(s)
      PROVE  artifacts \subseteq artifacts' /\ UNCHANGED <<taskCommits, branch>>
  BY <1>2 DEF WorkerStep, WorkerSucceeds, WorkerFails, WorkerRejected, WorkerAborted,
     WorkerEnds, PublishArtifact, ArtifactWriteFails, RoutingRejected, SettleStep
<1>3. ASSUME NEW s \in Steps, WorkerCommits(s)
      PROVE  /\ UNCHANGED <<artifacts, branch, attempts, worker, integrated>>
             /\ worker[s] = "executing"
             /\ s \in Mutating
             /\ taskCommits' = taskCommits \cup {<<s, AttemptNumber(s)>>}
  BY <1>3 DEF WorkerCommits
<1>4. CASE UserStep
  BY <1>4 DEF UserStep, Resume, Retry, CancelHere, CancelElsewhere, FinishCancel
<1>5. CASE Crash \/ UNCHANGED vars
  BY <1>5 DEF Crash, vars
<1> QED
  BY <1>1, <1>2, <1>3, <1>4, <1>5 DEF Next

\* The user's budget only grows, and each crash of the process counts.
LEMMA BudgetStep ==
  ASSUME TypeOK, [Next]_vars
  PROVE  /\ \A s \in Steps : Budget(s) \in Nat /\ Budget(s)' \in Nat
         /\ \A s \in Steps : Budget(s) <= Budget(s)'
         /\ Crash \/ Retry => \A s \in Steps : Budget(s) < Budget(s)'
<1>1. /\ \/ UNCHANGED <<crashes, retries>>
         \/ crashes' = crashes + 1 /\ retries' = retries
         \/ crashes' = crashes /\ retries' = retries + 1
      /\ Crash \/ Retry => ~UNCHANGED <<crashes, retries>>
  <2>1. CASE EngineStep
    BY <2>1 DEF EngineStep, IntegrateNext, NothingToIntegrate, GitIntegrate, GitRefuses,
       RecordIntegration, RecordIntegrationFailure, Dispatch, DispatchDone, Prepare,
       PrepareFails, Reserve, LoseReservation, MarkRunning, FailStart, CollectSettled,
       NoneActive, SettleRun, StoreSettled, Recover, RelaunchInterrupted, RetryReset, Crash,
       Retry, TypeOK
  <2>2. ASSUME NEW s \in Steps, WorkerCommits(s) \/ WorkerStep(s)
        PROVE  UNCHANGED <<crashes, retries>>
    BY <2>2 DEF WorkerStep, WorkerCommits, WorkerSucceeds, WorkerFails, WorkerRejected,
       WorkerAborted, WorkerEnds, PublishArtifact, ArtifactWriteFails, RoutingRejected,
       SettleStep
  <2>3. crashes \in Nat /\ retries \in Nat
    BY BoundsAssumption DEF TypeOK
  <2>4. CASE UserStep
    BY <2>3, <2>4 DEF UserStep, Resume, Retry, CancelHere, CancelElsewhere, FinishCancel, Crash
  <2>5. CASE Crash \/ UNCHANGED vars
    BY <2>3, <2>5 DEF Crash, Retry, vars
  <2>6. Crash \/ Retry => ~UNCHANGED <<crashes, retries>>
    BY <2>3 DEF Crash, Retry
  <2> QED
    BY <2>1, <2>2, <2>4, <2>5, <2>6 DEF Next
<1>2. crashes \in Nat /\ retries \in Nat
  BY BoundsAssumption DEF TypeOK
<1>3. \A s \in Steps : MaxAttempts[s] \in Nat
  BY StepDeclarations
<1> QED
  BY <1>1, <1>2, <1>3 DEF Budget

-----------------------------------------------------------------------------
(* What one step of the system does to the state of a step.                *)

\* The states of a step that may still be started.
Waiting == {"planned", "ready", "blocked"}

\* How the state of s may change: only its own attempt starts or ends it, and
\* only a resume or a retry lets it wait again.
StateMoves(s) ==
  /\ stepState'[s] \in StepRunState
  /\ stepState'[s] = "running" => stepState[s] = "running" \/ (Reserve /\ s = hand)
  /\ stepState'[s] = "succeeded" =>
       \/ stepState[s] = "succeeded"
       \/ SettleStep(s) /\ worker[s] = "succeeded"
       \/ Recover /\ Adoptable(s)
  /\ stepState[s] = "succeeded" =>
       stepState'[s] = "succeeded" \/ (RecordIntegrationFailure /\ s = hand)
  /\ stepState'[s] \in Waiting =>
       \/ stepState[s] \in Waiting
       \/ SettleStep(s) /\ Retryable(s, worker[s])
       \/ Recover /\ Interrupted(s) /\ ~OutOfBudget(s)
       \/ RelaunchInterrupted /\ s \in stopped
       \/ RetryReset

\* A reconciliation keeps waiting steps waiting, and all others as they are.
LEMMA ReconcileWaits ==
  ASSUME NEW st \in [Steps -> StepRunState], NEW intg, NEW s \in Steps
  PROVE  LET rec == reconcileWorkflowSteps(st, intg)
         IN  /\ rec[s] \in StepRunState
             /\ rec[s] \in Waiting <=> st[s] \in Waiting
             /\ rec[s] \notin Waiting => rec[s] = st[s]
<1>1. /\ reconcileWorkflowSteps(st, intg)[s] \in StepRunState
      /\ \A v \in {"running", "succeeded", "failed", "cancelled"} :
           reconcileWorkflowSteps(st, intg)[s] = v <=> st[s] = v
  BY ReconcilePreserves
<1>2. st[s] \in StepRunState
  OBVIOUS
<1> QED
  BY <1>1, <1>2 DEF StepRunState, Waiting

\* Settling a run starts nothing and lets nothing wait again.
LEMMA SettledWaits ==
  ASSUME TypeOK, NEW cancelled, NEW s \in Steps
  PROVE  /\ SettledSteps(cancelled)[s] \in StepRunState
         /\ SettledSteps(cancelled)[s] \in Waiting => stepState[s] \in Waiting
         /\ SettledSteps(cancelled)[s] = "running" => stepState[s] = "running"
         /\ SettledSteps(cancelled)[s] = "succeeded" <=> stepState[s] = "succeeded"
<1>1. stepState \in [Steps -> StepRunState]
  BY DEF TypeOK
<1>2. LET rec == reconcileWorkflowSteps(stepState, integrated)
      IN  /\ rec[s] \in StepRunState
          /\ rec[s] \in Waiting <=> stepState[s] \in Waiting
          /\ rec[s] \notin Waiting => rec[s] = stepState[s]
  BY <1>1, ReconcileWaits
<1> QED
  BY <1>2 DEF SettledSteps, EndUnfinished, Reconciled, StepRunState, Waiting

LEMMA StepStateMoves ==
  ASSUME TypeInv, [Next]_vars, NEW s \in Steps
  PROVE  StateMoves(s)
<1>1. /\ stepState \in [Steps -> StepRunState]
      /\ stepState[s] \in StepRunState
      /\ pc \in {"git", "record", "gitFailed", "reserve", "mark", "startFailed"} => hand \in Steps
  BY DEF TypeInv, TypeOK
\* A state written through a reconciliation moves as what was reconciled.
<1>2. ASSUME NEW mid \in [Steps -> StepRunState], NEW intg,
             stepState' = reconcileWorkflowSteps(mid, intg)
      PROVE  /\ stepState'[s] \in StepRunState
             /\ stepState'[s] \in Waiting <=> mid[s] \in Waiting
             /\ stepState'[s] \notin Waiting => stepState'[s] = mid[s]
  BY <1>2, ReconcileWaits
<1>3. CASE RecordIntegration
  BY <1>1, <1>2, <1>3 DEF RecordIntegration, StateMoves, Waiting
<1>4. CASE RecordIntegrationFailure
  <2> DEFINE mid == [stepState EXCEPT ![hand] = "failed"]
  <2>1. hand \in Steps /\ mid \in [Steps -> StepRunState]
    BY <1>1, <1>4 DEF RecordIntegrationFailure, StepRunState
  <2>2. stepState' = reconcileWorkflowSteps(mid, integrated)
    BY <1>4 DEF RecordIntegrationFailure, Reconciled
  <2>3. mid[s] = IF s = hand THEN "failed" ELSE stepState[s]
    BY <1>1, <2>1
  <2> HIDE DEF mid
  <2> QED
    BY <1>2, <1>4, <2>1, <2>2, <2>3 DEF StateMoves, Waiting
<1>5. CASE FailStart
  <2> DEFINE mid == [stepState EXCEPT ![hand] = "failed"]
  <2>1. hand \in Steps /\ mid \in [Steps -> StepRunState]
    BY <1>1, <1>5 DEF FailStart, StepRunState
  <2>2. stepState' = reconcileWorkflowSteps(mid, integrated)
    BY <1>5 DEF FailStart, Reconciled
  <2>3. mid[s] = IF s = hand THEN "failed" ELSE stepState[s]
    BY <1>1, <2>1
  <2>4. s = hand => stepState[s] # "succeeded"
    BY <1>5 DEF FailStart, TypeInv, Control, NotStarted
  <2> HIDE DEF mid
  <2> QED
    BY <1>2, <2>1, <2>2, <2>3, <2>4 DEF StateMoves, Waiting
<1>6. CASE Reserve
  <2>1. hand \in Steps /\ stepState[hand] \in {"planned", "ready"}
    BY <1>6, ReserveAttempts
  <2>2. stepState' = [stepState EXCEPT ![hand] = "running"]
    BY <1>6 DEF Reserve
  <2> QED
    BY <1>1, <1>6, <2>1, <2>2 DEF StateMoves, Waiting, StepRunState
<1>7. ASSUME NEW t \in Steps, SettleStep(t)
      PROVE  StateMoves(s)
  <2> DEFINE mid == [stepState EXCEPT ![t] = SettledStepState(t, worker[t])]
  <2>1. worker[t] \in {"succeeded", "failed", "fatal", "cancelled"}
    BY <1>7 DEF SettleStep
  <2>2. /\ SettledStepState(t, worker[t]) \in StepRunState
        /\ SettledStepState(t, worker[t]) # "running"
        /\ SettledStepState(t, worker[t]) = "succeeded" => worker[t] = "succeeded"
        /\ SettledStepState(t, worker[t]) \in Waiting => Retryable(t, worker[t])
    BY <2>1 DEF SettledStepState, SettledAttemptState, StepRunState, Waiting
  <2>3. mid \in [Steps -> StepRunState]
    BY <1>1, <2>2
  <2>4. stepState' = reconcileWorkflowSteps(mid, integrated)
    BY <1>7 DEF SettleStep, Reconciled
  <2>5. mid[s] = IF s = t THEN SettledStepState(t, worker[t]) ELSE stepState[s]
    BY <1>1
  <2>6. HasActiveAttempt(t)
    BY <1>7, SettleStepAttempts
  <2>7. stepState[t] # "succeeded"
    BY <2>6 DEF TypeInv, Attempting, LatestSucceeded, HasActiveAttempt, ActiveAttemptStates
  <2> HIDE DEF mid
  <2> QED
    BY <1>2, <1>7, <2>2, <2>3, <2>4, <2>5, <2>7 DEF StateMoves, Waiting
<1>8. ASSUME NEW cancelled, stepState' = SettledSteps(cancelled)
      PROVE  StateMoves(s)
  BY <1>8, SettledWaits DEF StateMoves, Waiting, TypeInv
<1>9. CASE SettleRun \/ CancelHere \/ CancelElsewhere
  <2>1. stepState' = stepState \/ \E cancelled : stepState' = SettledSteps(cancelled)
    BY <1>9 DEF SettleRun, CancelHere, CancelElsewhere, CancelSnapshot, Settle
  <2> QED
    BY <1>1, <1>8, <2>1 DEF StateMoves
<1>10. CASE Recover
  <2>1. CASE ActiveSteps = {}
    BY <1>1, <1>10, <2>1 DEF Recover, StateMoves
  <2>2. CASE ActiveSteps # {}
    <3>1. stepState' = reconcileWorkflowSteps(RecoveredSteps, integrated)
      BY <1>10, <2>2 DEF Recover, Reconciled
    <3>2. RecoveredSteps \in [Steps -> StepRunState]
      BY <1>1 DEF RecoveredSteps, StepRunState
    <3>3. RecoveredSteps[s] = IF Adoptable(s) THEN "succeeded"
                              ELSE IF OutOfBudget(s) THEN "failed"
                              ELSE IF Interrupted(s) THEN "ready"
                              ELSE IF stepState[s] = "blocked" THEN "planned"
                              ELSE stepState[s]
      BY DEF RecoveredSteps
    <3>4. stepState[s] = "succeeded" => ~OutOfBudget(s) /\ ~Interrupted(s)
      BY DEF TypeInv, Attempting, LatestSucceeded, HasActiveAttempt, ActiveAttemptStates,
         OutOfBudget, Interrupted
    <3> QED
      BY <1>2, <1>10, <3>1, <3>2, <3>3, <3>4 DEF StateMoves, Waiting
  <2> QED
    BY <2>1, <2>2
<1>11. ASSUME NEW S, stepState' = reconcileWorkflowSteps(Replanned(S), integrated),
              \A t \in S : stepState[t] \in {"failed", "blocked"},
              s \in S /\ stepState[s] = "failed" =>
                (RelaunchInterrupted /\ s \in stopped) \/ RetryReset
       PROVE  StateMoves(s)
  <2>1. Replanned(S) \in [Steps -> StepRunState]
    BY <1>1 DEF Replanned, StepRunState
  <2>2. Replanned(S)[s] = IF s \in S THEN "planned" ELSE stepState[s]
    BY DEF Replanned
  <2> QED
    BY <1>2, <1>11, <2>1, <2>2 DEF StateMoves, Waiting
<1>12. CASE RelaunchInterrupted
  <2> DEFINE S == {t \in Steps : \/ t \in stopped /\ stepState[t] = "failed"
                                 \/ stepState[t] = "blocked"}
  <2>1. stepState' = reconcileWorkflowSteps(Replanned(S), integrated)
    BY <1>12 DEF RelaunchInterrupted, Reconciled
  <2>2. /\ \A t \in S : stepState[t] \in {"failed", "blocked"}
        /\ s \in S /\ stepState[s] = "failed" => s \in stopped
    OBVIOUS
  <2> HIDE DEF S
  <2> QED
    BY <1>11, <1>12, <2>1, <2>2
<1>13. CASE RetryReset
  <2> DEFINE S == {t \in Steps : stepState[t] \in {"failed", "blocked"}}
  <2>1. stepState' = reconcileWorkflowSteps(Replanned(S), integrated)
    BY <1>13 DEF RetryReset, Reconciled
  <2>2. \A t \in S : stepState[t] \in {"failed", "blocked"}
    OBVIOUS
  <2> HIDE DEF S
  <2> QED
    BY <1>11, <1>13, <2>1, <2>2
<1>14. CASE UNCHANGED <<state, stepState>>
  BY <1>1, <1>14 DEF StateMoves
<1> QED
  BY <1>3, <1>4, <1>5, <1>6, <1>7, <1>9, <1>10, <1>12, <1>13, <1>14, StatesFrame

-----------------------------------------------------------------------------
(* The snapshot needs no reconciliation.                                   *)

\* Settling the run, too, leaves nothing to reconcile.
LEMMA SettledIsReconciled ==
  ASSUME TypeOK, NEW cancelled
  PROVE  IsReconciled(SettledSteps(cancelled), integrated)
<1>1. stepState \in [Steps -> StepRunState]
  BY DEF TypeOK
<1>2. IsReconciled(Reconciled(stepState), integrated)
  BY <1>1, ReconcileIsEnough DEF Reconciled
<1>3. IsReconciled(EndUnfinished(Reconciled(stepState)), integrated)
  BY DEF EndUnfinished, IsReconciled, Movable, TerminalStepStates
<1> QED
  BY <1>2, <1>3 DEF SettledSteps

\* A reservation starts a ready step, and no step waits for a ready one to fail.
LEMMA ReserveIsReconciled ==
  ASSUME TypeInv, IsReconciled(stepState, integrated), Reserve
  PROVE  IsReconciled(stepState', integrated')
<1>1. hand \in Steps /\ stepState[hand] \in {"planned", "ready"}
  BY ReserveAttempts
<1>2. stepState' = [stepState EXCEPT ![hand] = "running"] /\ integrated' = integrated
  BY DEF Reserve
<1>3. \A d \in Steps : stepState'[d] = IF d = hand THEN "running" ELSE stepState[d]
  BY <1>1, <1>2 DEF TypeInv, TypeOK
<1> SUFFICES ASSUME NEW s \in Movable(stepState')
             PROVE  /\ \A d \in Deps[s] : stepState'[d] \notin FailureStepStates
                    /\ stepState'[s] = IF \A d \in Deps[s] :
                                            SatisfiesDependents(stepState', integrated', d)
                                       THEN "ready" ELSE "planned"
  BY DEF IsReconciled
<1>4. /\ s \in Steps /\ s # hand
      /\ s \in Movable(stepState)
      /\ Deps[s] \subseteq Steps
  BY <1>3, PlanAssumption DEF Movable
<1>5. \A d \in Deps[s] : /\ stepState'[d] \in FailureStepStates => stepState[d] \in FailureStepStates
                         /\ SatisfiesDependents(stepState', integrated', d)
                              <=> SatisfiesDependents(stepState, integrated, d)
  BY <1>1, <1>2, <1>3, <1>4 DEF FailureStepStates, SatisfiesDependents
<1> QED
  BY <1>3, <1>4, <1>5 DEF IsReconciled

\* Every transaction that moves a step reconciles what it writes.
LEMMA ReconciledStep ==
  ASSUME TypeInv, IsReconciled(stepState, integrated), [Next]_vars
  PROVE  IsReconciled(stepState', integrated')
<1>1. /\ stepState \in [Steps -> StepRunState]
      /\ pc \in {"git", "record", "gitFailed", "reserve", "mark", "startFailed"} => hand \in Steps
  BY DEF TypeInv, TypeOK
<1>2. ASSUME NEW mid \in [Steps -> StepRunState],
             stepState' = reconcileWorkflowSteps(mid, integrated')
      PROVE  IsReconciled(stepState', integrated')
  BY <1>2, ReconcileIsEnough
<1>3. CASE RecordIntegration
  BY <1>1, <1>2, <1>3 DEF RecordIntegration
<1>4. CASE RecordIntegrationFailure \/ FailStart
  <2>1. /\ [stepState EXCEPT ![hand] = "failed"] \in [Steps -> StepRunState]
        /\ stepState' = reconcileWorkflowSteps([stepState EXCEPT ![hand] = "failed"], integrated')
    BY <1>1, <1>4 DEF RecordIntegrationFailure, FailStart, Reconciled, StepRunState
  <2> QED
    BY <1>2, <2>1
<1>5. CASE Reserve
  BY <1>5, ReserveIsReconciled
<1>6. ASSUME NEW t \in Steps, SettleStep(t)
      PROVE  IsReconciled(stepState', integrated')
  <2>1. worker[t] \in {"succeeded", "failed", "fatal", "cancelled"}
    BY <1>6 DEF SettleStep
  <2>2. SettledStepState(t, worker[t]) \in StepRunState
    BY <2>1 DEF SettledStepState, SettledAttemptState, StepRunState
  <2>3. /\ [stepState EXCEPT ![t] = SettledStepState(t, worker[t])] \in [Steps -> StepRunState]
        /\ stepState' = reconcileWorkflowSteps(
                          [stepState EXCEPT ![t] = SettledStepState(t, worker[t])], integrated')
    BY <1>1, <1>6, <2>2 DEF SettleStep, Reconciled
  <2> QED
    BY <1>2, <2>3
<1>7. CASE SettleRun \/ CancelHere \/ CancelElsewhere
  <2>1. /\ integrated' = integrated
        /\ stepState' = stepState \/ \E cancelled : stepState' = SettledSteps(cancelled)
    BY <1>7 DEF SettleRun, CancelHere, CancelElsewhere, CancelSnapshot, Settle
  <2> QED
    BY <2>1, SettledIsReconciled DEF TypeInv
<1>8. CASE Recover
  <2>1. \/ stepState' = stepState
        \/ stepState' = reconcileWorkflowSteps(RecoveredSteps, integrated')
    BY <1>8 DEF Recover, Reconciled
  <2>2. RecoveredSteps \in [Steps -> StepRunState] /\ integrated' = integrated
    BY <1>1, <1>8 DEF Recover, RecoveredSteps, StepRunState
  <2> QED
    BY <1>2, <2>1, <2>2
<1>9. CASE RelaunchInterrupted \/ RetryReset
  <2>1. \E S : stepState' = reconcileWorkflowSteps(Replanned(S), integrated')
    BY <1>9 DEF RelaunchInterrupted, RetryReset, Reconciled
  <2>2. \A S : Replanned(S) \in [Steps -> StepRunState]
    BY <1>1 DEF Replanned, StepRunState
  <2> QED
    BY <1>2, <2>1, <2>2
<1>10. CASE UNCHANGED <<stepState, integrated>>
  BY <1>10
<1> QED
  BY <1>3, <1>4, <1>5, <1>6, <1>7, <1>8, <1>9, <1>10, StatesFrame, IntegrationFrame

-----------------------------------------------------------------------------
(* Handlers and the attempts they execute.                                 *)

\* A handler moves from one state to the next; only the start of an attempt
\* makes it execute.
LEMMA WorkersStep ==
  ASSUME TypeInv, [Next]_vars, NEW s \in Steps
  PROVE  \/ worker'[s] = worker[s]
         \/ MarkRunning /\ s = hand /\ worker'[s] = "executing"
         \/ /\ worker[s] = "executing"
            /\ \/ worker'[s] \in {"failed", "fatal", "cancelled"}
               \/ WorkerSucceeds(s) /\ worker'[s] = "succeeded"
            /\ UNCHANGED <<snapshot, taskCommits>>
         \/ /\ worker[s] = "succeeded" /\ worker'[s] \in {"failed", "fatal"}
            /\ UNCHANGED <<snapshot, taskCommits>>
         \/ SettleStep(s) /\ worker'[s] = "settled"
         \/ CollectSettled(s) /\ worker'[s] = "idle"
         \/ Crash /\ worker'[s] = "idle"
<1>1. worker \in [Steps -> WorkerState]
  BY DEF TypeInv, TypeOK
<1>2. CASE EngineStep
  <2>1. CASE MarkRunning
    BY <1>1, <2>1 DEF MarkRunning
  <2>2. ASSUME NEW t \in Steps, CollectSettled(t)
        PROVE  worker'[s] = worker[s] \/ (CollectSettled(s) /\ worker'[s] = "idle")
    BY <1>1, <2>2 DEF CollectSettled
  <2>3. CASE ~MarkRunning /\ \A t \in Steps : ~CollectSettled(t)
    BY <1>2, <2>3 DEF EngineStep, IntegrateNext, NothingToIntegrate, GitIntegrate, GitRefuses,
       RecordIntegration, RecordIntegrationFailure, Dispatch, DispatchDone, Prepare,
       PrepareFails, Reserve, LoseReservation, FailStart, NoneActive, SettleRun, StoreSettled,
       Recover, RelaunchInterrupted, RetryReset
  <2> QED
    BY <2>1, <2>2, <2>3
<1>3. ASSUME NEW t \in Steps, WorkerStep(t) \/ WorkerCommits(t)
      PROVE  \/ worker'[s] = worker[s]
             \/ /\ worker[s] = "executing"
                /\ \/ worker'[s] \in {"failed", "fatal", "cancelled"}
                   \/ WorkerSucceeds(s) /\ worker'[s] = "succeeded"
                /\ UNCHANGED <<snapshot, taskCommits>>
             \/ /\ worker[s] = "succeeded" /\ worker'[s] \in {"failed", "fatal"}
                /\ UNCHANGED <<snapshot, taskCommits>>
             \/ SettleStep(s) /\ worker'[s] = "settled"
  <2>1. CASE t # s
    BY <1>1, <1>3, <2>1 DEF WorkerStep, WorkerCommits, WorkerSucceeds, WorkerFails,
       WorkerRejected, WorkerAborted, WorkerEnds, PublishArtifact, ArtifactWriteFails,
       RoutingRejected, SettleStep
  <2>2. CASE t = s
    BY <1>1, <1>3, <2>2 DEF WorkerStep, WorkerCommits, WorkerSucceeds, WorkerFails,
       WorkerRejected, WorkerAborted, WorkerEnds, PublishArtifact, ArtifactWriteFails,
       RoutingRejected, SettleStep
  <2> QED
    BY <2>1, <2>2
<1>4. CASE UserStep
  BY <1>4 DEF UserStep, Resume, Retry, CancelHere, CancelElsewhere, FinishCancel
<1>5. CASE Crash
  BY <1>5 DEF Crash
<1>6. CASE UNCHANGED vars
  BY <1>6 DEF vars
<1> QED
  BY <1>2, <1>3, <1>4, <1>5, <1>6 DEF Next

\* The loop starts only with nothing active, and leaves only by a crash or with
\* every handler collected.
LEMMA LoopStep ==
  ASSUME TypeInv, [Next]_vars
  PROVE  /\ pc \notin EnginePc /\ pc' \in EnginePc =>
              (Recover \/ RelaunchInterrupted \/ RetryReset) /\ ActiveSteps' = {}
         /\ pc \in EnginePc /\ pc' \notin EnginePc => Crash \/ SettleRun
         /\ pc = "mark" => \/ pc' = "mark" /\ hand' = hand
                           \/ MarkRunning \/ Crash
<1>1. CASE EngineStep
  <2>1. CASE Recover
    <3>1. (attempts' = attempts /\ ActiveSteps = {}) \/ attempts' = RecoveredAttempts
      BY <2>1 DEF Recover
    <3>2. \A s \in Steps : ~HasActiveAttempt(s)'
      BY <3>1, RecoveredAttemptsType DEF TypeInv, TypeOK, ActiveSteps, HasActiveAttempt,
         AttemptNumber, ActiveAttemptStates
    <3> QED
      BY <2>1, <3>2 DEF Recover, ActiveSteps, EnginePc
  <2>2. CASE RelaunchInterrupted \/ RetryReset
    <3>1. attempts' = attempts /\ ActiveSteps = {} /\ pc \notin EnginePc
      BY <2>2 DEF RelaunchInterrupted, RetryReset, TypeInv, Control, EnginePc
    <3> QED
      BY <2>2, <3>1 DEF ActiveSteps, HasActiveAttempt, AttemptNumber, EnginePc
  <2>3. CASE ~Recover /\ ~RelaunchInterrupted /\ ~RetryReset
    BY <1>1, <2>3 DEF EngineStep, IntegrateNext, NothingToIntegrate, GitIntegrate, GitRefuses,
       RecordIntegration, RecordIntegrationFailure, Dispatch, DispatchDone, Prepare,
       PrepareFails, Reserve, LoseReservation, MarkRunning, FailStart, CollectSettled,
       NoneActive, SettleRun, StoreSettled, EnginePc
  <2> QED
    BY <2>1, <2>2, <2>3
<1>2. ASSUME NEW s \in Steps, WorkerCommits(s) \/ WorkerStep(s)
      PROVE  pc' = pc /\ hand' = hand
  BY <1>2 DEF WorkerStep, WorkerCommits, WorkerSucceeds, WorkerFails, WorkerRejected,
     WorkerAborted, WorkerEnds, PublishArtifact, ArtifactWriteFails, RoutingRejected, SettleStep
<1>3. CASE UserStep
  BY <1>3 DEF UserStep, Resume, Retry, CancelHere, CancelElsewhere, FinishCancel, EnginePc
<1>4. CASE Crash
  BY <1>4 DEF Crash, EnginePc
<1>5. CASE UNCHANGED vars
  BY <1>5 DEF vars
<1> QED
  BY <1>1, <1>2, <1>3, <1>4, <1>5 DEF Next

\* Who executes an attempt, after any step.
LEMMA OwnedStep ==
  ASSUME TypeInv, Owned, TypeInv', [Next]_vars
  PROVE  Owned'
<1>1. ASSUME NEW s \in Steps, pc' \in EnginePc, HasActiveAttempt(s)'
      PROVE  worker'[s] \in BusyWorker \/ (pc' = "mark" /\ hand' = s)
  <2>1. pc \in EnginePc
    BY <1>1, LoopStep DEF ActiveSteps
  <2>2. CASE Reserve
    <3>1. s # hand => HasActiveAttempt(s) /\ worker'[s] = worker[s]
      BY <1>1, <2>2, ActiveStepsStep DEF ActiveSteps, Reserve
    <3> QED
      BY <2>1, <2>2, <3>1 DEF Owned, Reserve
  <2>3. CASE ~Reserve
    <3>1. HasActiveAttempt(s)
      BY <1>1, <2>3, ActiveStepsStep DEF ActiveSteps
    <3>2. ~SettleStep(s)
      BY <1>1, SettleStepAttempts DEF HasActiveAttempt, AttemptNumber, ActiveAttemptStates
    <3>3. worker[s] \in BusyWorker \/ (pc = "mark" /\ hand = s)
      BY <2>1, <3>1 DEF Owned
    <3>4. ~Crash
      BY <1>1 DEF Crash, EnginePc
    <3>5. CASE worker[s] \in BusyWorker
      BY <3>2, <3>4, <3>5, WorkersStep DEF BusyWorker, CollectSettled
    <3>6. CASE pc = "mark" /\ hand = s
      <4>1. MarkRunning => worker'[s] = "executing"
        BY <3>6 DEF MarkRunning, TypeInv, TypeOK
      <4> QED
        BY <3>4, <3>6, <4>1, LoopStep DEF BusyWorker
    <3> QED
      BY <3>3, <3>5, <3>6
  <2> QED
    BY <2>2, <2>3
<1>2. ASSUME NEW s \in Steps, stepState'[s] = "running"
      PROVE  HasActiveAttempt(s)'
  <2>1. stepState[s] = "running" \/ (Reserve /\ s = hand)
    BY <1>2, StepStateMoves DEF StateMoves
  <2>2. CASE Reserve /\ s = hand
    <3>1. hand' = hand /\ HasActiveAttempt(hand)'
      BY <2>2, ReserveAttempts DEF Reserve
    <3> QED
      BY <2>2, <3>1 DEF HasActiveAttempt, AttemptNumber
  <2>3. CASE stepState[s] = "running" /\ ~(Reserve /\ s = hand)
    <3>1. HasActiveAttempt(s)
      BY <2>3 DEF Owned
    <3>2. ~SettleStep(s)
      <4>1. ASSUME SettleStep(s)
            PROVE  stepState'[s] # "running"
        <5>1. worker[s] \in {"succeeded", "failed", "fatal", "cancelled"}
          BY <4>1 DEF SettleStep
        <5>2. /\ SettledStepState(s, worker[s]) \in StepRunState
              /\ SettledStepState(s, worker[s]) # "running"
          BY <5>1 DEF SettledStepState, SettledAttemptState, StepRunState
        <5> DEFINE mid == [stepState EXCEPT ![s] = SettledStepState(s, worker[s])]
        <5>3. mid \in [Steps -> StepRunState] /\ mid[s] # "running"
          BY <5>2 DEF TypeInv, TypeOK
        <5>4. stepState' = reconcileWorkflowSteps(mid, integrated)
          BY <4>1 DEF SettleStep, Reconciled
        <5> HIDE DEF mid
        <5> QED
          BY <5>3, <5>4, ReconcilePreserves
      <4> QED
        BY <1>2, <4>1
    <3>3. ~Recover
      <4>1. ASSUME Recover
            PROVE  stepState'[s] # "running"
        <5>1. stepState' = reconcileWorkflowSteps(RecoveredSteps, integrated)
          BY <3>1, <4>1 DEF Recover, Reconciled, ActiveSteps
        <5>2. RecoveredSteps \in [Steps -> StepRunState]
          BY DEF RecoveredSteps, StepRunState, TypeInv, TypeOK
        <5>3. RecoveredSteps[s] # "running"
          BY <3>1 DEF RecoveredSteps, Interrupted
        <5> QED
          BY <5>1, <5>2, <5>3, ReconcilePreserves
      <4> QED
        BY <1>2, <4>1
    <3>4. attempts'[s] = attempts[s] \/ MarkRunning \/ Reserve
      <4>1. CASE Reserve
        BY <4>1
      <4>2. ASSUME NEW t \in Steps, SettleStep(t)
            PROVE  attempts'[s] = attempts[s]
        BY <3>2, <4>2, SettleStepAttempts
      <4> QED
        BY <3>3, <4>1, <4>2, AttemptsFrame
    <3>5. CASE attempts'[s] = attempts[s]
      BY <3>1, <3>5 DEF HasActiveAttempt, AttemptNumber
    <3>6. CASE MarkRunning
      BY <3>1, <3>6, MarkRunningAttempts DEF HasActiveAttempt, AttemptNumber,
         ActiveAttemptStates
    <3>7. CASE Reserve
      BY <2>3, <3>5, <3>7, ReserveAttempts
    <3> QED
      BY <3>4, <3>5, <3>6, <3>7
  <2> QED
    BY <2>1, <2>2, <2>3
<1> QED
  BY <1>1, <1>2 DEF Owned

-----------------------------------------------------------------------------
(* The budget of attempts.                                                 *)

\* Only recovery finds steps to relaunch, and only a retry pays for a reset.
LEMMA RelaunchStep ==
  ASSUME [Next]_vars
  PROVE  /\ \/ stopped' = stopped /\ (pc = "relaunch" => pc' = "relaunch")
            \/ stopped' = {}
            \/ Recover /\ stopped' = {s \in Steps : OutOfBudget(s)}
                       /\ (stopped' # {} => pc' = "relaunch")
         /\ pc' = "reset" => pc = "reset" \/ Retry
<1>1. CASE EngineStep
  BY <1>1 DEF EngineStep, IntegrateNext, NothingToIntegrate, GitIntegrate, GitRefuses,
     RecordIntegration, RecordIntegrationFailure, Dispatch, DispatchDone, Prepare,
     PrepareFails, Reserve, LoseReservation, MarkRunning, FailStart, CollectSettled,
     NoneActive, SettleRun, StoreSettled, Recover, RelaunchInterrupted, RetryReset
<1>2. ASSUME NEW s \in Steps, WorkerCommits(s) \/ WorkerStep(s)
      PROVE  UNCHANGED <<stopped, pc>>
  BY <1>2 DEF WorkerStep, WorkerCommits, WorkerSucceeds, WorkerFails, WorkerRejected,
     WorkerAborted, WorkerEnds, PublishArtifact, ArtifactWriteFails, RoutingRejected, SettleStep
<1>3. CASE UserStep
  BY <1>3 DEF UserStep, Resume, Retry, CancelHere, CancelElsewhere, FinishCancel
<1>4. CASE Crash \/ UNCHANGED vars
  BY <1>4 DEF Crash, vars
<1> QED
  BY <1>1, <1>2, <1>3, <1>4 DEF Next

\* An attempt is paid for before it starts.
LEMMA WithinBudgetStep ==
  ASSUME TypeInv, Owned, WithinBudget, TypeInv', [Next]_vars
  PROVE  WithinBudget'
<1>1. stopped' # {} => pc' = "relaunch"
  BY RelaunchStep DEF WithinBudget
<1>2. ASSUME NEW s \in Steps
      PROVE  /\ AttemptNumber(s)' <= Budget(s)'
             /\ MayRunAgain(s)' => AttemptNumber(s)' < Budget(s)'
  <2>1. /\ Budget(s) \in Nat /\ Budget(s)' \in Nat /\ Budget(s) <= Budget(s)'
        /\ Crash \/ Retry => Budget(s) < Budget(s)'
        /\ MaxAttempts[s] \in Nat /\ MaxAttempts[s] <= Budget(s)
    <3>1. crashes \in Nat /\ retries \in Nat /\ MaxAttempts[s] \in Nat
      <4>1. MaxAttempts[s] \in 1..5
        BY StepDeclarations
      <4> QED
        BY <4>1, BoundsAssumption DEF TypeInv, TypeOK
    <3>2. /\ Budget(s) \in Nat /\ Budget(s)' \in Nat /\ Budget(s) <= Budget(s)'
          /\ Crash \/ Retry => Budget(s) < Budget(s)'
      BY BudgetStep DEF TypeInv
    <3> QED
      BY <3>1, <3>2 DEF Budget
  <2>2. AttemptNumber(s) \in Nat /\ AttemptNumber(s)' \in Nat
    BY DEF TypeInv, TypeOK, AttemptNumber
  <2>3. CASE Reserve /\ s = hand
    <3>1. /\ AttemptNumber(s) < Budget(s)
          /\ AttemptNumber(s)' = AttemptNumber(s) + 1
      <4>1. /\ stepState[s] \in {"planned", "ready"}
            /\ attempts'[s] = Append(attempts[s], NewAttempt)
            /\ attempts[s] \in Seq(Attempt)
        BY <2>3, ReserveAttempts DEF TypeInv, TypeOK
      <4>2. AttemptNumber(s) < Budget(s)
        BY <4>1 DEF WithinBudget, MayRunAgain
      <4> QED
        BY <4>1, <4>2 DEF AttemptNumber
    <3>2. /\ pc' = "mark" /\ stepState'[s] = "running" /\ stopped' = stopped
      BY <2>3, ReserveAttempts DEF Reserve, TypeInv, TypeOK
    <3>3. stopped = {}
      BY <2>3 DEF Reserve, WithinBudget
    <3> QED
      BY <2>1, <2>2, <3>1, <3>2, <3>3 DEF MayRunAgain, EnginePc
  <2>4. CASE ~(Reserve /\ s = hand)
    <3>1. AttemptNumber(s)' = AttemptNumber(s)
      BY <2>4, AttemptsStep DEF AttemptNumber
    <3>2. /\ AttemptNumber(s) <= Budget(s)
          /\ MayRunAgain(s) => AttemptNumber(s) < Budget(s)
      BY DEF WithinBudget, MayRunAgain
    <3>3. ASSUME stepState'[s] \in Waiting
          PROVE  AttemptNumber(s) < Budget(s)
      <4>1. Retryable(s, worker[s]) => AttemptNumber(s) < MaxAttempts[s]
        BY DEF Retryable
      <4>2. Interrupted(s) /\ ~OutOfBudget(s) => AttemptNumber(s) < MaxAttempts[s]
        BY <2>1, <2>2 DEF OutOfBudget
      <4>3. RetryReset => pc = "reset"
        BY DEF RetryReset
      <4> QED
        BY <2>1, <2>2, <3>2, <3>3, <4>1, <4>2, <4>3, StepStateMoves
           DEF StateMoves, Waiting, MayRunAgain
    <3>4. ASSUME s \in stopped'
          PROVE  AttemptNumber(s) < Budget(s)
      <4>1. s \in stopped \/ (Recover /\ OutOfBudget(s))
        BY <3>4, RelaunchStep
      <4>2. Recover /\ OutOfBudget(s) => HasActiveAttempt(s) /\ pc \notin EnginePc
        BY DEF Recover, OutOfBudget, Interrupted, EnginePc
      <4> QED
        BY <3>2, <4>1, <4>2 DEF MayRunAgain
    <3>5. ASSUME HasActiveAttempt(s)', pc' \notin EnginePc
          PROVE  AttemptNumber(s) < Budget(s)'
      <4>1. HasActiveAttempt(s)
        BY <2>4, <3>5, ActiveStepsStep DEF ActiveSteps
      <4>2. CASE pc \notin EnginePc
        BY <2>1, <2>2, <3>2, <4>1, <4>2 DEF MayRunAgain
      <4>3. CASE pc \in EnginePc
        <5>1. ~SettleRun
          BY <4>1 DEF SettleRun, Owned, TypeInv, Control, EnginePc, BusyWorker
        <5>2. Crash
          BY <3>5, <4>3, <5>1, LoopStep
        <5> QED
          BY <2>1, <2>2, <3>2, <5>2
      <4> QED
        BY <4>2, <4>3
    <3>6. ASSUME pc' = "reset"
          PROVE  AttemptNumber(s) < Budget(s)'
      BY <2>1, <2>2, <3>2, <3>6, RelaunchStep DEF MayRunAgain
    <3> QED
      BY <2>1, <2>2, <3>1, <3>2, <3>3, <3>4, <3>5, <3>6 DEF MayRunAgain, Waiting
  <2> QED
    BY <2>3, <2>4
<1> QED
  BY <1>1, <1>2 DEF WithinBudget

-----------------------------------------------------------------------------
(* A success is durable.                                                   *)

\* The attempts of a succeeded step are final while it counts as succeeded.
LEMMA SucceededKept ==
  ASSUME TypeInv, [Next]_vars, NEW s \in Steps, stepState[s] = "succeeded"
  PROVE  /\ attempts'[s] = attempts[s]
         /\ AttemptNumber(s)' = AttemptNumber(s)
         /\ ProducedBy(s)' = ProducedBy(s)
         /\ Succeeded(s)' = Succeeded(s)
<1>1. ~HasActiveAttempt(s)
  BY DEF TypeInv, Attempting, LatestSucceeded, HasActiveAttempt, ActiveAttemptStates
<1>2. ~(Reserve /\ s = hand)
  BY ReserveAttempts
<1>3. attempts'[s] = attempts[s]
  BY <1>1, <1>2, AttemptsStep
<1> QED
  BY <1>3 DEF ProducedBy, Succeeded, AttemptNumber

\* Whoever settles an attempt as succeeded, the handler or recovery, has seen
\* every output of it in the store, and nothing is ever removed from there.
LEMMA SuccessStep ==
  ASSUME TypeInv, SuccessIsDurable, TypeInv', [Next]_vars
  PROVE  SuccessIsDurable'
<1> SUFFICES ASSUME NEW s \in Steps, stepState'[s] = "succeeded"
             PROVE  /\ AttemptNumber(s)' \in Succeeded(s)'
                    /\ Published(s, AttemptNumber(s))'
  BY DEF SuccessIsDurable
<1>1. AttemptNumber(s)' \in Succeeded(s)'
  <2>1. LatestSucceeded(s)' /\ attempts' \in [Steps -> Seq(Attempt)]
    BY DEF TypeInv, TypeOK, Attempting
  <2> QED
    BY <2>1, EmptySeq DEF LatestSucceeded, Succeeded, AttemptNumber
<1>2. Published(s, AttemptNumber(s)) /\ AttemptNumber(s)' = AttemptNumber(s)
  <2>1. CASE stepState[s] = "succeeded"
    BY <2>1, SucceededKept DEF SuccessIsDurable
  <2>2. CASE SettleStep(s) /\ worker[s] = "succeeded"
    BY <2>2, SettleStepAttempts DEF SettleStep, AttemptNumber
  <2>3. CASE Recover /\ Adoptable(s)
    <3>1. attempts' = RecoveredAttempts \/ attempts' = attempts
      BY <2>3 DEF Recover
    <3> QED
      BY <2>3, <3>1, RecoveredAttemptsType DEF Adoptable, AttemptNumber, TypeInv
  <2> QED
    BY <2>1, <2>2, <2>3, StepStateMoves DEF StateMoves
<1> QED
  BY <1>1, <1>2, RepositoryStep DEF Published

-----------------------------------------------------------------------------
(* Commits.                                                                *)

\* An active attempt is only rewritten to be marked running or to settle; it
\* succeeds only through its handler or by adoption, and keeps its base.
LEMMA RewriteStep ==
  ASSUME TypeInv, [Next]_vars, NEW s \in Steps, HasActiveAttempt(s), ~(Reserve /\ s = hand)
  PROVE  LET old == attempts[s][AttemptNumber(s)]
             new == attempts'[s][AttemptNumber(s)]
         IN  /\ new.base = old.base
             /\ new.commit => old.commit \/ HasCommit(s)
             /\ new.state = "succeeded" =>
                  \/ /\ SettleStep(s) /\ worker[s] = "succeeded"
                     /\ HasCommit(s) => new.commit
                  \/ Recover /\ Adoptable(s) /\ new.commit
<1> DEFINE n == AttemptNumber(s)
           old == attempts[s][n]
           new == attempts'[s][n]
<1>1. /\ attempts[s] \in Seq(Attempt) /\ attempts \in [Steps -> Seq(Attempt)]
      /\ n \in 1..Len(attempts[s])
      /\ old \in Attempt /\ old.state \in ActiveAttemptStates
  BY ActiveNumber DEF TypeInv, TypeOK, AttemptNumber, HasActiveAttempt
\* Each of the three writers replaces the last attempt of one step.
<1>2. ASSUME NEW rec, attempts'[s] = [attempts[s] EXCEPT ![n] = rec]
      PROVE  new = rec
  BY <1>1, <1>2
<1>3. CASE MarkRunning
  <2>1. CASE s = hand
    <3>1. attempts'[s] = [attempts[s] EXCEPT ![n] = [old EXCEPT !.state = "running"]]
      BY <1>1, <1>3, <2>1 DEF MarkRunning, SetLastAttempt
    <3>2. new = [old EXCEPT !.state = "running"]
      BY <1>2, <3>1
    <3> QED
      BY <1>1, <3>2 DEF Attempt
  <2>2. CASE s # hand
    <3>1. attempts'[s] = attempts[s]
      BY <1>3, <2>2, MarkRunningAttempts
    <3> QED
      BY <1>1, <3>1 DEF ActiveAttemptStates
  <2> QED
    BY <2>1, <2>2
<1>4. CASE SettleStep(s)
  <2> DEFINE rec == [old EXCEPT !.state = SettledAttemptState(worker[s]),
                                !.commit = worker[s] = "succeeded" /\ HasCommit(s)]
  <2>1. attempts'[s] = [attempts[s] EXCEPT ![n] = rec]
    BY <1>1, <1>4 DEF SettleStep, SetLastAttempt
  <2>2. new = rec
    <3> HIDE DEF rec
    <3> QED
      BY <1>2, <2>1
  <2>3. /\ rec.base = old.base
        /\ rec.commit = (worker[s] = "succeeded" /\ HasCommit(s))
        /\ rec.state = SettledAttemptState(worker[s])
    BY <1>1 DEF Attempt
  <2>4. SettledAttemptState(worker[s]) = "succeeded" => worker[s] = "succeeded"
    BY DEF SettledAttemptState
  <2> HIDE DEF rec
  <2> QED
    BY <1>4, <2>2, <2>3, <2>4
<1>5. CASE Recover
  <2>1. attempts' = RecoveredAttempts
    BY <1>5 DEF Recover, ActiveSteps
  <2>2. CASE Adoptable(s)
    <3>1. RecoveredAttempts[s] = [attempts[s] EXCEPT ![n] = [@ EXCEPT !.state = "succeeded", !.commit = TRUE]]
      BY <2>2 DEF RecoveredAttempts
    <3>2. RecoveredAttempts[s] = [attempts[s] EXCEPT ![n] = [old EXCEPT !.state = "succeeded", !.commit = TRUE]]
      BY <1>1, <3>1
    <3>3. new = [old EXCEPT !.state = "succeeded", !.commit = TRUE]
      BY <1>2, <2>1, <3>2
    <3> QED
      BY <1>1, <1>5, <2>2, <3>3 DEF Attempt, Adoptable
  <2>3. CASE ~Adoptable(s)
    <3>1. RecoveredAttempts[s] = [attempts[s] EXCEPT ![n] = [@ EXCEPT !.state = "interrupted"]]
      BY <2>3 DEF RecoveredAttempts, Interrupted
    <3>2. RecoveredAttempts[s] = [attempts[s] EXCEPT ![n] = [old EXCEPT !.state = "interrupted"]]
      BY <1>1, <3>1
    <3>3. new = [old EXCEPT !.state = "interrupted"]
      BY <1>2, <2>1, <3>2
    <3> QED
      BY <1>1, <3>3 DEF Attempt
  <2> QED
    BY <2>2, <2>3
<1>6. CASE attempts'[s] = attempts[s]
  BY <1>1, <1>6 DEF ActiveAttemptStates
<1>7. ASSUME NEW t \in Steps, SettleStep(t), t # s
      PROVE  attempts'[s] = attempts[s]
  BY <1>7, SettleStepAttempts
<1>8. CASE Reserve
  BY <1>8, <1>6, ReserveAttempts
<1> QED
  BY <1>3, <1>4, <1>5, <1>6, <1>7, <1>8, AttemptsFrame

\* A settled attempt is the same after any step, and attempts are only added.
LEMMA SettledAttemptKept ==
  ASSUME TypeInv, [Next]_vars, NEW s \in Steps, NEW n \in 1..AttemptNumber(s),
         n # AttemptNumber(s) \/ ~HasActiveAttempt(s)
  PROVE  /\ attempts'[s][n] = attempts[s][n]
         /\ n \in 1..AttemptNumber(s)'
<1>1. attempts[s] \in Seq(Attempt)
  BY DEF TypeInv, TypeOK
<1>2. CASE attempts'[s] = attempts[s]
  BY <1>2 DEF AttemptNumber
<1>3. CASE attempts'[s] = Append(attempts[s], NewAttempt)
  BY <1>1, <1>3 DEF AttemptNumber
<1>4. CASE /\ HasActiveAttempt(s)
           /\ Len(attempts'[s]) = Len(attempts[s])
           /\ \A m \in 1..Len(attempts[s]) - 1 : attempts'[s][m] = attempts[s][m]
  BY <1>1, <1>4 DEF AttemptNumber
<1> QED
  BY <1>2, <1>3, <1>4, AttemptsStep

\* A success in the history of a step stays there as it is.
LEMMA SucceededGrows ==
  ASSUME TypeInv, [Next]_vars, NEW s \in Steps, NEW n \in Succeeded(s)
  PROVE  n \in Succeeded(s)' /\ attempts'[s][n] = attempts[s][n]
<1>1. n \in 1..AttemptNumber(s) /\ attempts[s][n].state = "succeeded"
  BY DEF Succeeded
<1>2. n # AttemptNumber(s) \/ ~HasActiveAttempt(s)
  BY <1>1 DEF HasActiveAttempt, ActiveAttemptStates
<1> QED
  BY <1>1, <1>2, SettledAttemptKept DEF Succeeded

\* The commits that attempts name exist, and a success without a commit is one
\* of a step that never committed anything.
LEMMA CommitsKnownStep ==
  ASSUME TypeInv, CommitsKnown, TypeInv', [Next]_vars
  PROVE  CommitsKnown'
<1>1. \A s \in Steps : AttemptNumber(s) \in Nat /\ AttemptNumber(s)' \in Nat
  BY DEF TypeInv, TypeOK, AttemptNumber
<1>2. taskCommits \subseteq taskCommits'
  BY RepositoryStep
<1>3. ASSUME NEW s \in Steps
      PROVE  \/ AttemptNumber(s)' = AttemptNumber(s)
             \/ /\ Reserve /\ s = hand
                /\ AttemptNumber(s)' = AttemptNumber(s) + 1
                /\ attempts'[s][AttemptNumber(s) + 1] = NewAttempt
  <2>1. attempts[s] \in Seq(Attempt)
    BY DEF TypeInv, TypeOK
  <2> QED
    BY <2>1, AttemptsStep DEF AttemptNumber
<1>4. ASSUME NEW s \in Steps, NEW n \in 1..AttemptNumber(s)', attempts'[s][n].commit
      PROVE  <<s, n>> \in taskCommits'
  <2>1. CASE n \in 1..AttemptNumber(s) /\ (n # AttemptNumber(s) \/ ~HasActiveAttempt(s))
    BY <1>2, <1>4, <2>1, SettledAttemptKept DEF CommitsKnown
  <2>2. CASE n = AttemptNumber(s) /\ HasActiveAttempt(s)
    <3>1. ~(Reserve /\ s = hand)
      BY <2>2, ReserveAttempts
    <3>2. attempts[s][n].commit \/ HasCommit(s)
      BY <1>4, <2>2, <3>1, RewriteStep
    <3>3. n \in 1..AttemptNumber(s)
      BY <2>2, ActiveNumber DEF TypeInv
    <3> QED
      BY <1>2, <2>2, <3>2, <3>3 DEF CommitsKnown, HasCommit
  <2>3. CASE n = AttemptNumber(s) + 1 /\ attempts'[s][n] = NewAttempt
    BY <1>4, <2>3 DEF NewAttempt
  <2> QED
    BY <1>1, <1>3, <2>1, <2>2, <2>3
<1>5. ASSUME NEW made \in taskCommits'
      PROVE  made[2] <= AttemptNumber(made[1])'
  <2>1. made \in Steps \X (Nat \ {0})
    BY DEF TypeInv, TypeOK, Commit
  <2>2. made[1] \in Steps /\ made[2] \in Nat
    BY <2>1
  <2>3. made[2] <= AttemptNumber(made[1])
    <3>1. CASE made \in taskCommits
      BY <3>1 DEF CommitsKnown
    <3>2. CASE made \notin taskCommits
      <4>1. PICK s \in Steps : made = <<s, AttemptNumber(s)>>
        BY <3>2, RepositoryStep
      <4> QED
        BY <1>1, <4>1
    <3> QED
      BY <3>1, <3>2
  <2>4. AttemptNumber(made[1]) <= AttemptNumber(made[1])'
    BY <1>1, <1>3, <2>2
  <2> QED
    BY <1>1, <2>2, <2>3, <2>4
<1>6. ASSUME NEW s \in Steps, worker'[s] = "succeeded"
      PROVE  MustCommit(s)' => HasCommit(s)'
  <2>1. (worker[s] = "succeeded" /\ worker'[s] = worker[s])
        \/ (WorkerSucceeds(s) /\ UNCHANGED <<snapshot, taskCommits>>)
    BY <1>6, WorkersStep
  <2>2. CASE WorkerSucceeds(s) /\ UNCHANGED <<snapshot, taskCommits>>
    BY <2>2 DEF WorkerSucceeds, MustCommit, HasCommit, AttemptNumber
  <2>3. CASE worker[s] = "succeeded" /\ worker'[s] = worker[s]
    <3>1. HasActiveAttempt(s)
      BY <2>3 DEF TypeInv, Attempting, BusyWorker
    <3>2. AttemptNumber(s)' = AttemptNumber(s)
      BY <1>3, <3>1, ReserveAttempts
    <3>3. \A n : <<s, n>> \in taskCommits' <=> <<s, n>> \in taskCommits
      BY <2>3, RepositoryStep
    <3> QED
      BY <2>3, <3>2, <3>3 DEF CommitsKnown, MustCommit, HasCommit
  <2> QED
    BY <2>1, <2>2, <2>3
<1>7. ASSUME NEW s \in Mutating, NEW n \in Succeeded(s)', NEW m \in 1..n,
             <<s, m>> \in taskCommits'
      PROVE  attempts'[s][n].commit
  <2>1. s \in Steps
    BY PlanAssumption
  <2>2. n \in 1..AttemptNumber(s)' /\ attempts'[s][n].state = "succeeded" /\ n \in Nat /\ m \in Nat
    BY <1>1, <2>1 DEF Succeeded
  <2>3. CASE n \in Succeeded(s)
    <3>1. n \in 1..AttemptNumber(s) /\ attempts[s][n].state = "succeeded"
      BY <2>3 DEF Succeeded
    <3>2. <<s, m>> \in taskCommits
      <4>1. ASSUME <<s, m>> \notin taskCommits
            PROVE  FALSE
        <5>1. worker[s] = "executing" /\ m = AttemptNumber(s)
          BY <1>7, <4>1, RepositoryStep
        <5>2. HasActiveAttempt(s)
          BY <2>1, <5>1 DEF TypeInv, Attempting, BusyWorker
        <5>3. n = AttemptNumber(s)
          BY <1>1, <2>1, <2>2, <3>1, <5>1
        <5> QED
          BY <3>1, <5>2, <5>3 DEF HasActiveAttempt, ActiveAttemptStates
      <4> QED
        BY <4>1
    <3>3. attempts[s][n].commit
      BY <2>3, <3>2 DEF CommitsKnown
    <3> QED
      BY <2>1, <2>3, <3>3, SucceededGrows
  <2>4. CASE n \notin Succeeded(s)
    <3>1. ASSUME n = AttemptNumber(s) + 1 /\ attempts'[s][n] = NewAttempt
          PROVE  FALSE
      BY <2>2, <3>1 DEF NewAttempt
    <3>2. n \in 1..AttemptNumber(s)
      BY <1>1, <1>3, <2>1, <2>2, <3>1
    <3>3. n = AttemptNumber(s) /\ HasActiveAttempt(s)
      BY <2>1, <2>2, <2>4, <3>2, SettledAttemptKept DEF Succeeded
    <3>4. ~(Reserve /\ s = hand)
      BY <3>3, ReserveAttempts
    <3>5. \/ /\ SettleStep(s) /\ worker[s] = "succeeded"
             /\ HasCommit(s) => attempts'[s][n].commit
          \/ attempts'[s][n].commit
      BY <2>1, <2>2, <3>3, <3>4, RewriteStep
    <3>6. CASE /\ SettleStep(s) /\ worker[s] = "succeeded"
               /\ HasCommit(s) => attempts'[s][n].commit
      <4>1. taskCommits' = taskCommits
        BY <3>6 DEF SettleStep
      <4>2. MustCommit(s)
        BY <1>7, <2>2, <3>2, <3>3, <4>1 DEF MustCommit
      <4> QED
        BY <2>1, <3>6, <4>2 DEF CommitsKnown
    <3> QED
      BY <3>5, <3>6
  <2> QED
    BY <2>3, <2>4
<1> QED
  BY <1>4, <1>5, <1>6, <1>7 DEF CommitsKnown

-----------------------------------------------------------------------------
(* The integration branch.                                                 *)

\* The commit the branch is ahead by, when it is.
AheadBy(s, n) ==
  /\ branch = Append(integrationHead, <<s, n>>)
  /\ Before(Mutating, s) \subseteq integrated
  /\ attempts[s][n].commit

\* Two steps that may both be the next to integrate are the same step.
LEMMA NextIsUnique ==
  ASSUME NEW s \in Mutating \ integrated, Before(Mutating, s) \subseteq integrated,
         NEW t \in Mutating \ integrated, Before(Mutating, t) \subseteq integrated
  PROVE  s = t
<1>1. /\ s \in Steps /\ t \in Steps
      /\ Position[s] \in Nat /\ Position[t] \in Nat
  BY PlanAssumption
<1>2. ~(Position[s] < Position[t]) /\ ~(Position[t] < Position[s])
  BY DEF Before
<1> QED
  BY <1>1, <1>2, PlanAssumption

\* Only integratePendingSteps takes up a step, and only git goes on to record it.
LEMMA IntegratingStep ==
  ASSUME [Next]_vars
  PROVE  /\ pc' = "git" =>
              (pc = "git" /\ hand' = hand) \/ \E s \in Steps : IntegrateNext(s)
         /\ pc' = "record" =>
              \/ pc = "record" /\ hand' = hand
              \/ GitIntegrate
              \/ \E s \in Steps : IntegrateNext(s)
<1>1. ASSUME EngineStep, ~GitIntegrate, \A s \in Steps : ~IntegrateNext(s)
      PROVE  pc' \notin {"git", "record"}
  <2>1. CASE \E s \in Steps : Prepare(s) \/ PrepareFails(s) \/ CollectSettled(s)
    BY <2>1 DEF Prepare, PrepareFails, CollectSettled
  <2>2. CASE Recover \/ RelaunchInterrupted \/ RetryReset \/ SettleRun \/ StoreSettled
    BY <2>2 DEF Recover, RelaunchInterrupted, RetryReset, SettleRun, StoreSettled
  <2>3. CASE GitRefuses \/ RecordIntegration \/ RecordIntegrationFailure \/ NothingToIntegrate
    BY <2>3 DEF GitRefuses, RecordIntegration, RecordIntegrationFailure, NothingToIntegrate
  <2>4. CASE \/ Dispatch \/ DispatchDone \/ Reserve \/ LoseReservation \/ MarkRunning
             \/ FailStart \/ NoneActive
    BY <2>4 DEF Dispatch, DispatchDone, Reserve, LoseReservation, MarkRunning, FailStart,
       NoneActive
  <2> QED
    BY <1>1, <2>1, <2>2, <2>3, <2>4 DEF EngineStep
<1>2. ASSUME NEW s \in Steps, WorkerCommits(s) \/ WorkerStep(s)
      PROVE  pc' = pc /\ hand' = hand
  BY <1>2 DEF WorkerStep, WorkerCommits, WorkerSucceeds, WorkerFails, WorkerRejected,
     WorkerAborted, WorkerEnds, PublishArtifact, ArtifactWriteFails, RoutingRejected, SettleStep
<1>3. CASE UserStep
  BY <1>3 DEF UserStep, Resume, Retry, CancelHere, CancelElsewhere, FinishCancel
<1>4. CASE Crash \/ UNCHANGED vars
  BY <1>4 DEF Crash, vars
<1>5. CASE \E s \in Steps : IntegrateNext(s)
  BY <1>5
<1>6. CASE GitIntegrate
  <2>1. pc' = "record"
    BY <1>6 DEF GitIntegrate
  <2> QED
    BY <1>6, <2>1
<1>7. CASE EngineStep /\ ~GitIntegrate /\ \A s \in Steps : ~IntegrateNext(s)
  BY <1>1, <1>7
<1>8. CASE \E s \in Steps : WorkerCommits(s) \/ WorkerStep(s)
  BY <1>2, <1>8
<1> QED
  BY <1>3, <1>4, <1>5, <1>6, <1>7, <1>8 DEF Next

\* A step taken up without a commit finds the branch at the recorded head: had
\* an earlier attempt of it been picked, its newest success would name a commit.
LEMMA NothingAhead ==
  ASSUME TypeInv, CommitsKnown, BranchKnown,
         NEW s \in Mutating \ integrated, Before(Mutating, s) \subseteq integrated,
         LatestSucceeded(s), ~attempts[s][ProducedBy(s)].commit
  PROVE  branch = integrationHead
<1> SUFFICES ASSUME NEW t \in Mutating \ integrated, NEW n \in Succeeded(t), AheadBy(t, n)
             PROVE  FALSE
  BY DEF BranchKnown, AheadBy
<1>1. t = s
  BY NextIsUnique DEF AheadBy
<1>2. s \in Steps
  BY PlanAssumption
<1>3. /\ ProducedBy(s) = AttemptNumber(s)
      /\ ProducedBy(s) \in Succeeded(s)
      /\ AttemptNumber(s) \in Nat
  BY <1>2, ProducedByLatest DEF TypeInv, TypeOK
<1>4. n \in 1..AttemptNumber(s) /\ attempts[s][n].commit
  BY <1>1 DEF Succeeded, AheadBy
<1>5. <<s, n>> \in taskCommits
  BY <1>2, <1>4 DEF CommitsKnown
<1> QED
  BY <1>3, <1>4, <1>5 DEF CommitsKnown

\* The loop always knows where the branch is.
LEMMA BranchKnownStep ==
  ASSUME TypeInv, CommitsKnown, BranchKnown, TypeInv', [Next]_vars
  PROVE  BranchKnown'
<1>1. CASE GitIntegrate
  <2>1. /\ hand \in Steps /\ hand \in Mutating \ integrated
        /\ Before(Mutating, hand) \subseteq integrated
        /\ LatestSucceeded(hand)
    BY <1>1 DEF GitIntegrate, TypeInv, TypeOK, Control, Attempting, NextInOrder
  <2>2. ProducedBy(hand) \in Succeeded(hand) /\ attempts[hand][ProducedBy(hand)].commit
    BY <1>1, <2>1, ProducedByLatest DEF TypeInv, TypeOK, BranchKnown, GitIntegrate
  <2>3. /\ UNCHANGED <<integrated, integrationHead, attempts, hand>>
        /\ branch' = Append(integrationHead, <<hand, ProducedBy(hand)>>)
        /\ pc' = "record"
    BY <1>1 DEF GitIntegrate
  <2>4. ProducedBy(hand)' = ProducedBy(hand) /\ Succeeded(hand)' = Succeeded(hand)
    BY <2>3 DEF ProducedBy, Succeeded, AttemptNumber
  <2>5. branch' = HeadAfter(hand)'
    BY <2>2, <2>3, <2>4 DEF HeadAfter
  <2> QED
    BY <2>1, <2>2, <2>3, <2>4, <2>5 DEF BranchKnown, Succeeded, AttemptNumber
<1>2. CASE RecordIntegration
  BY <1>2 DEF RecordIntegration, BranchKnown
<1>3. CASE ~GitIntegrate /\ ~RecordIntegration
  <2>1. UNCHANGED <<branch, integrated, integrationHead>>
    BY <1>3, RepositoryStep, IntegrationFrame
  <2>2. \/ branch' = integrationHead'
        \/ \E s \in Mutating \ integrated' : \E n \in Succeeded(s)' :
             /\ branch' = Append(integrationHead', <<s, n>>)
             /\ Before(Mutating, s) \subseteq integrated'
             /\ attempts'[s][n].commit
    <3>1. CASE branch = integrationHead
      BY <2>1, <3>1
    <3>2. ASSUME NEW s \in Mutating \ integrated, NEW n \in Succeeded(s), AheadBy(s, n)
          PROVE  /\ n \in Succeeded(s)'
                 /\ branch' = Append(integrationHead', <<s, n>>)
                 /\ Before(Mutating, s) \subseteq integrated'
                 /\ attempts'[s][n].commit
      <4>1. s \in Steps
        BY PlanAssumption
      <4> QED
        BY <2>1, <3>2, <4>1, SucceededGrows DEF AheadBy
    <3> QED
      BY <2>1, <3>1, <3>2 DEF BranchKnown, AheadBy
  <2>3. ASSUME NEW s \in Steps, IntegrateNext(s)
        PROVE  /\ pc' = "git" => attempts'[s][ProducedBy(s)'].commit
               /\ pc' = "record" => branch' = HeadAfter(s)'
               /\ hand' = s
    <3>1. /\ UNCHANGED <<attempts, branch, integrationHead>>
          /\ hand' = s
          /\ pc' = IF attempts[s][ProducedBy(s)].commit THEN "git" ELSE "record"
          /\ s \in Mutating \ integrated /\ Before(Mutating, s) \subseteq integrated
          /\ stepState[s] = "succeeded"
      BY <2>3 DEF IntegrateNext, Integrable, isNextIntegrable
    <3>2. ProducedBy(s)' = ProducedBy(s)
      BY <3>1 DEF ProducedBy, Succeeded, AttemptNumber
    <3>3. ~attempts[s][ProducedBy(s)].commit => branch = integrationHead
      BY <3>1, NothingAhead DEF TypeInv, Attempting
    <3> QED
      BY <3>1, <3>2, <3>3 DEF HeadAfter
  <2>4. ASSUME pc \in {"git", "record"}, hand' = hand
        PROVE  /\ hand \in Steps
               /\ attempts'[hand] = attempts[hand]
               /\ ProducedBy(hand)' = ProducedBy(hand)
    <3>1. hand \in Steps /\ stepState[hand] = "succeeded"
      BY <2>4 DEF TypeInv, TypeOK, Control, NextInOrder
    <3>2. PICK h \in Steps : h = hand
      BY <3>1
    <3>3. attempts'[h] = attempts[h] /\ ProducedBy(h)' = ProducedBy(h)
      BY <3>1, <3>2, SucceededKept
    <3> QED
      BY <2>4, <3>2, <3>3 DEF ProducedBy, Succeeded, AttemptNumber
  <2>5. ASSUME pc' = "git"
        PROVE  attempts'[hand'][ProducedBy(hand)'].commit
    <3>1. CASE pc = "git" /\ hand' = hand
      BY <2>4, <3>1 DEF BranchKnown
    <3>2. ASSUME NEW s \in Steps, IntegrateNext(s)
          PROVE  attempts'[hand'][ProducedBy(hand)'].commit
      <4>1. /\ attempts'[s][ProducedBy(s)'].commit
            /\ hand' = s
        BY <2>3, <2>5, <3>2
      <4> QED
        BY <4>1 DEF ProducedBy, Succeeded, AttemptNumber
    <3> QED
      BY <2>5, <3>1, <3>2, IntegratingStep
  <2>6. ASSUME pc' = "record"
        PROVE  branch' = HeadAfter(hand)'
    <3>1. CASE pc = "record" /\ hand' = hand
      BY <2>1, <2>4, <3>1 DEF BranchKnown, HeadAfter
    <3>2. ASSUME NEW s \in Steps, IntegrateNext(s)
          PROVE  branch' = HeadAfter(hand)'
      <4>1. branch' = HeadAfter(s)' /\ hand' = s
        BY <2>3, <2>6, <3>2
      <4> QED
        BY <4>1 DEF HeadAfter, ProducedBy, Succeeded, AttemptNumber
    <3> QED
      BY <1>3, <2>6, <3>1, <3>2, IntegratingStep
  <2> QED
    BY <2>2, <2>5, <2>6 DEF BranchKnown
<1> QED
  BY <1>1, <1>2, <1>3

-----------------------------------------------------------------------------
(* Where an attempt starts from.                                           *)

\* What a dependency has given its dependents, it does not take back.
LEMMA DependencyKept ==
  ASSUME TypeInv, [Next]_vars, NEW d \in Steps, SatisfiesDependents(stepState, integrated, d)
  PROVE  /\ SatisfiesDependents(stepState', integrated', d)
         /\ attempts'[d] = attempts[d]
         /\ ProducedBy(d)' = ProducedBy(d)
<1>1. stepState[d] = "succeeded" /\ (d \in Mutating => d \in integrated)
  BY DEF SatisfiesDependents
<1>2. ~(RecordIntegrationFailure /\ d = hand)
  BY <1>1 DEF RecordIntegrationFailure, TypeInv, Control, NextInOrder
<1>3. stepState'[d] = "succeeded"
  BY <1>1, <1>2, StepStateMoves DEF StateMoves
<1>4. integrated \subseteq integrated'
  <2>1. CASE RecordIntegration
    BY <2>1 DEF RecordIntegration
  <2> QED
    BY <2>1, IntegrationFrame
<1> QED
  BY <1>1, <1>3, <1>4, SucceededKept DEF SatisfiesDependents

\* A reservation is granted to a step whose dependencies are all in the
\* recorded head, and nothing an active attempt stands on is taken back.
LEMMA BasesHoldStep ==
  ASSUME TypeInv, IntegrationFollowsPlan, BasesHold, [Next]_vars
  PROVE  BasesHold'
<1> SUFFICES ASSUME NEW s \in Steps, HasActiveAttempt(s)', NEW d \in Deps[s]
             PROVE  /\ SatisfiesDependents(stepState', integrated', d)
                    /\ d \in Mutating /\ attempts'[d][ProducedBy(d)'].commit
                         => Contains(attempts'[s][AttemptNumber(s)'].base, <<d, ProducedBy(d)'>>)
  BY DEF BasesHold, ActiveSteps, SatisfiesDependents, Contains
<1>1. d \in Steps /\ attempts[s] \in Seq(Attempt)
  BY PlanAssumption DEF TypeInv, TypeOK
<1>2. CASE Reserve /\ s = hand
  <2>1. s \in launchableStepIds(state, stepState, integrated, ActiveSteps)
    BY <1>2 DEF Reserve, Launchable
  <2>2. stepState \in [Steps -> StepRunState] /\ ActiveSteps \in SUBSET Steps
    BY DEF TypeInv, TypeOK, ActiveSteps
  <2>3. SatisfiesDependents(stepState, integrated, d)
    BY <2>1, <2>2, LaunchableIsSatisfied
  <2>4. attempts'[s][AttemptNumber(s)'].base = integrationHead
    <3>1. attempts'[s] = Append(attempts[s], NewAttempt)
      BY <1>2, ReserveAttempts
    <3>2. AttemptNumber(s)' = Len(attempts[s]) + 1
      BY <1>1, <3>1 DEF AttemptNumber
    <3> QED
      BY <1>1, <3>1, <3>2 DEF NewAttempt
  <2>5. ASSUME d \in Mutating, attempts[d][ProducedBy(d)].commit
        PROVE  Contains(integrationHead, <<d, ProducedBy(d)>>)
    <3>1. <<d, ProducedBy(d)>> \in IntegratedCommits
      BY <2>3, <2>5 DEF SatisfiesDependents, IntegratedCommits
    <3> QED
      BY <3>1 DEF IntegrationFollowsPlan, Contains
  <2> QED
    BY <1>1, <2>3, <2>4, <2>5, DependencyKept
<1>3. CASE ~(Reserve /\ s = hand)
  <2>1. HasActiveAttempt(s)
    BY <1>3, ActiveStepsStep DEF ActiveSteps
  <2>2. /\ SatisfiesDependents(stepState, integrated, d)
        /\ d \in Mutating /\ attempts[d][ProducedBy(d)].commit
             => Contains(attempts[s][AttemptNumber(s)].base, <<d, ProducedBy(d)>>)
    BY <2>1 DEF BasesHold, ActiveSteps
  <2>3. AttemptNumber(s)' = AttemptNumber(s)
    BY <1>3, AttemptsStep DEF AttemptNumber
  <2>4. attempts'[s][AttemptNumber(s)].base = attempts[s][AttemptNumber(s)].base
    BY <1>3, <2>1, RewriteStep
  <2> QED
    BY <1>1, <2>2, <2>3, <2>4, DependencyKept
<1> QED
  BY <1>2, <1>3

-----------------------------------------------------------------------------
(* A completed run.                                                        *)

\* Only the end of an execution starts final validation, and only recovery
\* comes to relaunch steps.
LEMMA StoredStep ==
  ASSUME [Next]_vars
  PROVE  /\ stored' = "validating" => stored = "validating" \/ StoreSettled
         /\ pc' = "relaunch" => pc = "relaunch" \/ (Recover /\ stopped' # {})
<1>1. CASE EngineStep
  BY <1>1 DEF EngineStep, IntegrateNext, NothingToIntegrate, GitIntegrate, GitRefuses,
     RecordIntegration, RecordIntegrationFailure, Dispatch, DispatchDone, Prepare,
     PrepareFails, Reserve, LoseReservation, MarkRunning, FailStart, CollectSettled,
     NoneActive, SettleRun, Recover, RelaunchInterrupted, RetryReset, StoreSettled
<1>2. ASSUME NEW s \in Steps, WorkerCommits(s) \/ WorkerStep(s)
      PROVE  UNCHANGED <<stored, pc>>
  BY <1>2 DEF WorkerStep, WorkerCommits, WorkerSucceeds, WorkerFails, WorkerRejected,
     WorkerAborted, WorkerEnds, PublishArtifact, ArtifactWriteFails, RoutingRejected, SettleStep
<1>3. CASE UserStep
  BY <1>3 DEF UserStep, Resume, Retry, CancelHere, CancelElsewhere, FinishCancel
<1>4. CASE Crash \/ UNCHANGED vars
  BY <1>4 DEF Crash, vars
<1> QED
  BY <1>1, <1>2, <1>3, <1>4 DEF Next

\* While no process executes the run, only the user moves it.
LEMMA OffStep ==
  ASSUME TypeInv, pc = "off", [Next]_vars
  PROVE  Resume \/ Retry \/ CancelElsewhere \/ FinishCancel \/ UNCHANGED vars
<1>1. \A s \in Steps : worker[s] = "idle"
  BY DEF TypeInv, Control, EnginePc
<1>2. ~EngineStep
  BY DEF EngineStep, IntegrateNext, NothingToIntegrate, GitIntegrate, GitRefuses,
     RecordIntegration, RecordIntegrationFailure, Dispatch, DispatchDone, Prepare,
     PrepareFails, Reserve, LoseReservation, MarkRunning, FailStart, CollectSettled,
     NoneActive, SettleRun, Recover, RelaunchInterrupted, RetryReset, StoreSettled
<1>3. \A s \in Steps : ~(WorkerCommits(s) \/ WorkerStep(s))
  BY <1>1 DEF WorkerStep, WorkerCommits, WorkerSucceeds, WorkerFails, WorkerRejected,
     WorkerAborted, WorkerEnds, PublishArtifact, ArtifactWriteFails, RoutingRejected, SettleStep
<1>4. ~CancelHere /\ ~Crash
  BY DEF CancelHere, Crash
<1> QED
  BY <1>2, <1>3, <1>4 DEF Next, UserStep

\* A run completes only by being settled with every step succeeded.
LEMMA CompletesStep ==
  ASSUME TypeInv, [Next]_vars, state' = "completed", state # "completed"
  PROVE  /\ state = "running"
         /\ integrated' = integrated
         /\ \A s \in Steps : stepState[s] = "succeeded" /\ stepState'[s] = "succeeded"
         /\ Mutating \subseteq integrated \/ SettleRun
<1>1. ASSUME NEW cancelled, Settle(cancelled)
      PROVE  /\ state = "running"
             /\ integrated' = integrated
             /\ \A s \in Steps : stepState[s] = "succeeded" /\ stepState'[s] = "succeeded"
  <2>1. SettledState(SettledSteps(cancelled)) = "completed" /\ state = "running"
    BY <1>1 DEF Settle, SettledState
  <2>2. \A s \in Steps : SettledSteps(cancelled)[s] = "succeeded"
    BY <2>1 DEF SettledState
  <2>3. \A s \in Steps : stepState[s] = "succeeded"
    BY <2>2, SettledStepsPreserve DEF TypeInv
  <2> QED
    BY <1>1, <2>1, <2>2, <2>3 DEF Settle
<1>2. CASE SettleRun
  BY <1>1, <1>2 DEF SettleRun
<1>3. CASE CancelHere \/ CancelElsewhere
  <2>1. CancelSnapshot /\ ~UNCHANGED snapshot
    BY <1>3 DEF CancelHere, CancelElsewhere
  <2>2. Settle(TRUE) /\ SettleAccepted(TRUE)
    BY <2>1 DEF CancelSnapshot
  <2>3. SettledState(SettledSteps(TRUE)) = "completed"
    BY <2>2 DEF Settle
  <2> QED
    BY <1>1, <2>2, <2>3 DEF SettleAccepted
<1>4. ASSUME NEW s \in Steps, SettleStep(s)
      PROVE  FALSE
  BY <1>4 DEF SettleStep, SettledRunState, SettledAttemptState
<1>5. CASE RecordIntegration \/ RecordIntegrationFailure \/ Reserve \/ FailStart
  BY <1>5 DEF RecordIntegration, RecordIntegrationFailure, Reserve, FailStart
<1>6. CASE Recover \/ RelaunchInterrupted \/ RetryReset
  BY <1>6 DEF Recover, RelaunchInterrupted, RetryReset
<1> QED
  BY <1>2, <1>3, <1>4, <1>5, <1>6, StatesFrame

\* With every step succeeded and nothing to integrate, all of it is integrated.
LEMMA AllIntegrated ==
  ASSUME \A s \in Steps : stepState[s] = "succeeded",
         \A s \in Steps : ~Integrable(s)
  PROVE  Mutating \subseteq integrated
<1> SUFFICES ASSUME Mutating \ integrated # {}
             PROVE  FALSE
  OBVIOUS
<1>1. Mutating \ integrated \subseteq Steps
  BY PlanAssumption
<1>2. PICK s \in Mutating \ integrated : Before(Mutating \ integrated, s) = {}
  BY <1>1, FirstInOrder
<1>3. Before(Mutating, s) \subseteq integrated
  BY <1>2 DEF Before
<1> QED
  BY <1>1, <1>2, <1>3 DEF Integrable, isNextIntegrable

\* A run once completed stays as it is, and nothing else is validated.
LEMMA WholeStep ==
  ASSUME TypeInv, Whole, NothingOverlooked, [Next]_vars
  PROVE  Whole'
<1>1. /\ \A s \in Steps : stepState[s] \in StepRunState
      /\ state \in RunLifecycleState
  BY DEF TypeInv, TypeOK
<1>2. ASSUME state' = "completed"
      PROVE  (\A s \in Steps : stepState'[s] = "succeeded") /\ Mutating \subseteq integrated'
  <2>1. CASE state = "completed"
    <3>1. (\A s \in Steps : stepState[s] = "succeeded") /\ Mutating \subseteq integrated
      BY <2>1 DEF Whole
    <3>2. ~RecordIntegrationFailure
      BY <3>1 DEF RecordIntegrationFailure, TypeInv, Control, NextInOrder
    <3>3. integrated \subseteq integrated'
      <4>1. CASE RecordIntegration
        BY <4>1 DEF RecordIntegration
      <4> QED
        BY <4>1, IntegrationFrame
    <3> QED
      BY <3>1, <3>2, <3>3, StepStateMoves DEF StateMoves
  <2>2. CASE state # "completed"
    <3>1. /\ state = "running"
          /\ integrated' = integrated
          /\ \A s \in Steps : stepState[s] = "succeeded" /\ stepState'[s] = "succeeded"
          /\ Mutating \subseteq integrated \/ SettleRun
      BY <1>2, <2>2, CompletesStep
    <3>2. ASSUME SettleRun
          PROVE  Mutating \subseteq integrated
      <4>1. pc \in {"settling", "cancelling"} /\ pc \notin EnginePc \ {"settling", "cancelling"}
        BY <3>2 DEF SettleRun
      <4>2. \A s \in Steps : worker[s] = "idle"
        BY <4>1 DEF TypeInv, Control
      <4>3. \A s \in Steps : ~Integrable(s)
        BY <3>1, <4>1, <4>2 DEF NothingOverlooked, EnginePc
      <4> QED
        BY <3>1, <4>3, AllIntegrated
    <3> QED
      BY <3>1, <3>2
  <2> QED
    BY <2>1, <2>2
<1>3. ASSUME stored' = "validating"
      PROVE  state' = "completed" /\ pc' = "off"
  <2>1. CASE stored = "validating"
    <3>1. state = "completed" /\ pc = "off"
      BY <2>1 DEF Whole
    <3>2. ~Resume /\ ~Retry /\ ~CancelElsewhere /\ ~FinishCancel
      BY <1>3, <2>1 DEF Resume, Retry, RetryAccepted, ViewedState, CancelElsewhere, FinishCancel
    <3> QED
      BY <3>1, <3>2, OffStep DEF vars
  <2>2. CASE StoreSettled
    BY <1>1, <1>3, <2>2 DEF StoreSettled, RunLifecycleState
  <2> QED
    BY <1>3, <2>1, <2>2, StoredStep
<1>4. ASSUME pc' \in {"relaunch", "reset"}
      PROVE  \E s \in Steps : stepState'[s] # "succeeded"
  <2>1. CASE Recover /\ stopped' # {}
    <3>1. PICK s \in Steps : OutOfBudget(s)
      BY <2>1 DEF Recover
    <3>2. s \in ActiveSteps /\ RecoveredSteps[s] = "failed"
      BY <3>1 DEF OutOfBudget, Interrupted, ActiveSteps, RecoveredSteps
    <3>3. stepState' = reconcileWorkflowSteps(RecoveredSteps, integrated)
      BY <2>1, <3>2 DEF Recover, Reconciled
    <3>4. reconcileWorkflowSteps(RecoveredSteps, integrated)[s] = RecoveredSteps[s]
      BY <3>2, ReconcileKeeps DEF TerminalStepStates
    <3> QED
      BY <3>2, <3>3, <3>4
  <2>2. CASE Retry
    <3>1. PICK s \in Steps : stepState[s] = "failed"
      BY <2>2 DEF Retry, RetryAccepted
    <3> QED
      BY <2>2, <3>1 DEF Retry
  <2>3. CASE pc \in {"relaunch", "reset"}
    <3>1. PICK s \in Steps : stepState[s] # "succeeded"
      BY <2>3 DEF Whole
    <3>2. ~SettleStep(s)
      BY <2>3 DEF SettleStep, TypeInv, Control, EnginePc
    <3>3. ~Recover
      BY <2>3 DEF Recover
    <3> QED
      BY <3>1, <3>2, <3>3, StepStateMoves DEF StateMoves
  <2> QED
    BY <1>4, <2>1, <2>2, <2>3, StoredStep, RelaunchStep
<1> QED
  BY <1>2, <1>3, <1>4 DEF Whole

-----------------------------------------------------------------------------
(* The loop overlooks nothing.                                             *)

\* What may be launched or integrated is a matter of the snapshot alone.
LEMMA SnapshotDecides ==
  ASSUME UNCHANGED <<state, stepState, integrated, attempts>>
  PROVE  Launchable' = Launchable /\ \A s : Integrable(s)' <=> Integrable(s)
<1>1. ActiveSteps' = ActiveSteps
  BY DEF ActiveSteps, HasActiveAttempt, AttemptNumber
<1> QED
  BY <1>1 DEF Launchable, Integrable

\* Nothing changes for the loop but an abort.
LEMMA OverlookedFrame ==
  ASSUME NothingOverlooked,
         UNCHANGED <<state, stepState, integrated, attempts, pc, queue, hand, worker>>,
         aborted => aborted'
  PROVE  NothingOverlooked'
<1>1. Launchable' = Launchable /\ \A s \in Steps : Integrable(s)' <=> Integrable(s)
  BY SnapshotDecides
<1> QED
  BY <1>1 DEF NothingOverlooked, AllIdle

\* A step becomes integrable in the eyes of the loop only by its own success.
LEMMA BecomesIntegrable ==
  ASSUME TypeInv, [Next]_vars, ~RecordIntegration, ~Recover, NEW s \in Steps, Integrable(s)'
  PROVE  Integrable(s) \/ SettleStep(s)
<1>1. integrated' = integrated
  BY IntegrationFrame
<1>2. stepState'[s] = "succeeded" /\ s \in Mutating \ integrated
      /\ Before(Mutating, s) \subseteq integrated
  BY <1>1 DEF Integrable, isNextIntegrable
<1> QED
  BY <1>2, StepStateMoves DEF StateMoves, Integrable, isNextIntegrable

\* The steps of the loop that leave the snapshot alone.
LEMMA LoopOverlooksNothing ==
  ASSUME TypeInv, NothingOverlooked,
         \/ NothingToIntegrate \/ Dispatch \/ DispatchDone \/ LoseReservation \/ NoneActive
         \/ \E s \in Steps : Prepare(s) \/ PrepareFails(s)
  PROVE  NothingOverlooked'
<1>1. UNCHANGED <<state, stepState, integrated, attempts, worker, aborted>>
  BY DEF NothingToIntegrate, Dispatch, DispatchDone, LoseReservation, NoneActive, Prepare,
     PrepareFails
<1>2. /\ Launchable' = Launchable
      /\ \A s \in Steps : Integrable(s)' <=> Integrable(s)
      /\ AllIdle' = AllIdle
  BY <1>1, SnapshotDecides DEF AllIdle
<1>3. CASE NothingToIntegrate
  BY <1>1, <1>2, <1>3 DEF NothingToIntegrate, NothingOverlooked
<1>4. CASE Dispatch
  BY <1>1, <1>2, <1>4 DEF Dispatch, NothingOverlooked, EnginePc
<1>5. CASE DispatchDone
  BY <1>1, <1>2, <1>5 DEF DispatchDone, NothingOverlooked, EnginePc
<1>6. CASE LoseReservation
  BY <1>1, <1>2, <1>6 DEF LoseReservation, NothingOverlooked, EnginePc
<1>7. CASE NoneActive
  BY <1>1, <1>2, <1>7 DEF NoneActive, NothingOverlooked, EnginePc, AllIdle
<1>8. ASSUME NEW s \in Steps, Prepare(s)
      PROVE  NothingOverlooked'
  <2>1. pc = "launch" /\ pc' = "reserve" /\ queue' \cup {hand'} = queue
    BY <1>8 DEF Prepare, IsFirst
  <2> QED
    BY <1>1, <1>2, <2>1 DEF NothingOverlooked, EnginePc
<1>9. ASSUME NEW s \in Steps, PrepareFails(s)
      PROVE  NothingOverlooked'
  BY <1>1, <1>2, <1>9 DEF PrepareFails, NothingOverlooked, EnginePc
<1> QED
  BY <1>3, <1>4, <1>5, <1>6, <1>7, <1>8, <1>9

\* A handler that is busy keeps the loop from drawing conclusions.
LEMMA WorkerOverlooksNothing ==
  ASSUME TypeInv, NothingOverlooked, NEW s \in Steps, WorkerCommits(s) \/ WorkerStep(s)
  PROVE  NothingOverlooked'
<1>1. worker \in [Steps -> WorkerState]
  BY DEF TypeInv, TypeOK
<1>2. [Next]_vars
  BY DEF Next
<1>3. CASE WorkerCommits(s) \/ \E o \in Outputs[s] : PublishArtifact(s, o)
  <2>1. UNCHANGED <<state, stepState, integrated, attempts, pc, queue, hand, worker, aborted>>
    BY <1>3 DEF WorkerCommits, PublishArtifact
  <2> QED
    BY <2>1, OverlookedFrame
<1>4. CASE \/ WorkerSucceeds(s) \/ WorkerFails(s) \/ WorkerRejected(s) \/ WorkerAborted(s)
           \/ ArtifactWriteFails(s) \/ RoutingRejected(s)
  <2>1. /\ UNCHANGED <<state, stepState, integrated, attempts, pc, queue, hand, aborted>>
        /\ worker[s] \in {"executing", "succeeded"}
        /\ worker'[s] # "idle"
        /\ \A t \in Steps : t # s => worker'[t] = worker[t]
    BY <1>1, <1>4 DEF WorkerSucceeds, WorkerFails, WorkerRejected, WorkerAborted, WorkerEnds,
       ArtifactWriteFails, RoutingRejected
  <2>2. Launchable' = Launchable /\ \A t \in Steps : Integrable(t)' <=> Integrable(t)
    BY <2>1, SnapshotDecides
  <2>3. ~AllIdle'
    BY <2>1 DEF AllIdle
  <2>4. \A t \in Steps : worker[t] = "settled" => worker'[t] = "settled"
    BY <2>1
  <2> QED
    BY <2>1, <2>2, <2>3, <2>4 DEF NothingOverlooked
<1>5. CASE SettleStep(s)
  <2>1. /\ worker'[s] = "settled"
        /\ \A t \in Steps : t # s => worker'[t] = worker[t]
        /\ worker[s] # "idle"
        /\ pc' = pc
    BY <1>1, <1>5 DEF SettleStep
  <2>2. pc # "settling" /\ ~AllIdle'
    BY <2>1 DEF TypeInv, Control, AllIdle
  <2>3. state' = "running" => state = "running"
    BY <1>5 DEF SettleStep, SettledRunState, SettledAttemptState
  <2>4. \A t \in Steps : Integrable(t)' => Integrable(t) \/ t = s
    <3>1. ~RecordIntegration /\ ~Recover
      BY <1>5, <2>1 DEF SettleStep, RecordIntegration, Recover
    <3>2. \A t \in Steps : SettleStep(t) => t = s
      BY <1>1, <2>1 DEF SettleStep
    <3> QED
      BY <1>2, <3>1, <3>2, BecomesIntegrable
  <2> QED
    BY <2>1, <2>2, <2>3, <2>4 DEF NothingOverlooked
<1> QED
  BY <1>3, <1>4, <1>5 DEF WorkerStep

LEMMA NothingOverlookedStep ==
  ASSUME TypeInv, NothingOverlooked, [Next]_vars
  PROVE  NothingOverlooked'
<1>1. CASE \/ NothingToIntegrate \/ Dispatch \/ DispatchDone \/ LoseReservation \/ NoneActive
           \/ \E s \in Steps : Prepare(s) \/ PrepareFails(s)
  BY <1>1, LoopOverlooksNothing
<1>2. CASE Reserve
  <2>1. pc = "reserve" /\ pc' = "mark" /\ UNCHANGED <<state, worker>>
    BY <1>2 DEF Reserve
  <2>2. \A s \in Steps : Integrable(s)' => Integrable(s)
    <3>1. \A s \in Steps : ~SettleStep(s)
      BY <2>1 DEF SettleStep
    <3>2. ~RecordIntegration /\ ~Recover
      BY <2>1 DEF RecordIntegration, Recover
    <3> QED
      BY <3>1, <3>2, BecomesIntegrable
  <2> QED
    BY <2>1, <2>2 DEF NothingOverlooked, EnginePc
<1>3. CASE MarkRunning
  <2>1. /\ pc = "mark" /\ pc' = "launch"
        /\ UNCHANGED <<state, stepState, integrated>>
        /\ worker \in [Steps -> WorkerState]
        /\ hand \in Steps /\ worker' = [worker EXCEPT ![hand] = "executing"]
    BY <1>3 DEF MarkRunning, TypeInv, TypeOK
  <2>2. ~AllIdle'
    BY <2>1 DEF AllIdle
  <2>3. \A s \in Steps : Integrable(s)' => Integrable(s)
    BY <2>1 DEF Integrable
  <2>4. ~Integrable(hand)
    BY <2>1 DEF Integrable, isNextIntegrable, TypeInv, Control, Attempting, HasActiveAttempt,
       LatestSucceeded, ActiveAttemptStates
  <2>5. state = "running" => \A s \in Steps : Integrable(s)' => worker'[s] = "settled"
    BY <2>1, <2>3, <2>4 DEF NothingOverlooked, EnginePc
  <2> QED
    BY <2>1, <2>2, <2>5 DEF NothingOverlooked
<1>4. CASE RecordIntegrationFailure \/ FailStart
  <2>1. state' # "running"
    BY <1>4 DEF RecordIntegrationFailure, FailStart
  <2> QED
    BY <2>1 DEF NothingOverlooked
<1>5. CASE \/ GitIntegrate \/ GitRefuses \/ RecordIntegration \/ SettleRun \/ StoreSettled
           \/ Recover \/ RelaunchInterrupted \/ RetryReset \/ Resume \/ Retry \/ Crash
           \/ \E s \in Steps : IntegrateNext(s) \/ CollectSettled(s)
  <2>1. pc' \in {"integrate", "git", "record", "gitFailed", "off", "recover", "relaunch",
                 "reset", "settled"}
    BY <1>5 DEF GitIntegrate, GitRefuses, RecordIntegration, SettleRun, StoreSettled, Recover,
       RelaunchInterrupted, RetryReset, Resume, Retry, Crash, IntegrateNext, CollectSettled
  <2> QED
    BY <2>1 DEF NothingOverlooked, EnginePc
<1>6. ASSUME NEW s \in Steps, WorkerCommits(s) \/ WorkerStep(s)
      PROVE  NothingOverlooked'
  BY <1>6, WorkerOverlooksNothing
<1>7. CASE CancelHere \/ CancelElsewhere
  <2>1. /\ UNCHANGED <<pc, queue, hand, worker>>
        /\ aborted => aborted'
        /\ CancelSnapshot \/ UNCHANGED snapshot
    BY <1>7 DEF CancelHere, CancelElsewhere
  <2>2. state' # "running" \/ UNCHANGED <<state, stepState, integrated, attempts>>
    BY <2>1, CancelSnapshotFacts
  <2>3. CASE state' # "running"
    BY <2>3 DEF NothingOverlooked
  <2> QED
    BY <2>1, <2>2, <2>3, OverlookedFrame
<1>8. CASE FinishCancel \/ UNCHANGED vars
  BY <1>8, OverlookedFrame DEF FinishCancel, vars
<1> QED
  BY <1>1, <1>2, <1>3, <1>4, <1>5, <1>6, <1>7, <1>8 DEF Next, EngineStep, UserStep

-----------------------------------------------------------------------------
(* The invariant.                                                          *)

LEMMA InitSnapshot ==
  ASSUME Init
  PROVE  SnapshotInv
<1>1. \A s \in Steps : /\ stepState[s] \in {"ready", "planned"}
                       /\ attempts[s] = <<>> /\ worker[s] = "idle"
                       /\ AttemptNumber(s) = 0 /\ ~HasActiveAttempt(s) /\ Succeeded(s) = {}
  <2>1. \A s \in Steps : attempts[s] = <<>> /\ worker[s] = "idle" /\ stepState[s] \in {"ready", "planned"}
    BY DEF Init
  <2>2. \A s \in Steps : AttemptNumber(s) = 0
    BY <2>1 DEF AttemptNumber
  <2> QED
    BY <2>1, <2>2 DEF HasActiveAttempt, Succeeded
<1>2. IsReconciled(stepState, integrated)
  <2> SUFFICES ASSUME NEW s \in Steps
               PROVE  /\ \A d \in Deps[s] : stepState[d] \notin FailureStepStates
                      /\ stepState[s] = IF \A d \in Deps[s] :
                                             SatisfiesDependents(stepState, integrated, d)
                                        THEN "ready" ELSE "planned"
    BY DEF IsReconciled, Movable
  <2>1. \A d \in Deps[s] : stepState[d] \in {"ready", "planned"}
    BY <1>1, PlanAssumption
  <2>2. stepState[s] = IF Deps[s] = {} THEN "ready" ELSE "planned"
    BY DEF Init
  <2> QED
    BY <2>1, <2>2 DEF FailureStepStates, SatisfiesDependents
<1>3. Owned
  BY <1>1 DEF Owned
<1>4. WithinBudget
  <2>1. stopped = {} /\ crashes = 0 /\ retries = 0
    BY DEF Init
  <2>2. \A s \in Steps : MaxAttempts[s] \in 1..5
    BY StepDeclarations
  <2>3. \A s \in Steps : Budget(s) \in Nat /\ 0 < Budget(s)
    BY <2>1, <2>2 DEF Budget
  <2> QED
    BY <1>1, <2>1, <2>3 DEF WithinBudget
<1>5. SuccessIsDurable
  BY <1>1 DEF SuccessIsDurable
<1>6. CommitsKnown
  <2>1. taskCommits = {} /\ \A s \in Mutating : s \in Steps
    BY PlanAssumption DEF Init
  <2> QED
    BY <1>1, <2>1 DEF CommitsKnown
<1>7. BranchKnown
  BY DEF Init, BranchKnown
<1>8. BasesHold
  BY <1>1 DEF BasesHold, ActiveSteps
<1>9. Whole /\ NothingOverlooked
  BY DEF Init, Whole, NothingOverlooked, EnginePc
<1> QED
  BY <1>2, <1>3, <1>4, <1>5, <1>6, <1>7, <1>8, <1>9 DEF SnapshotInv

LEMMA NextSnapshot ==
  ASSUME TypeInv, IntegrationFollowsPlan, SnapshotInv, TypeInv', [Next]_vars
  PROVE  SnapshotInv'
<1>1. /\ IsReconciled(stepState', integrated')
      /\ Owned' /\ WithinBudget' /\ SuccessIsDurable'
  BY ReconciledStep, OwnedStep, WithinBudgetStep, SuccessStep DEF SnapshotInv
<1>2. CommitsKnown' /\ BranchKnown' /\ BasesHold'
  BY CommitsKnownStep, BranchKnownStep, BasesHoldStep DEF SnapshotInv
<1>3. Whole' /\ NothingOverlooked'
  BY WholeStep, NothingOverlookedStep DEF SnapshotInv
<1>4. IsReconciled(stepState, integrated)'
  BY <1>1 DEF IsReconciled, Movable, SatisfiesDependents
<1> QED
  BY <1>1, <1>2, <1>3, <1>4 DEF SnapshotInv

\* The snapshot, the branch and the artifacts hang together in every state.
THEOREM SnapshotInvariance == Spec => []Inv
<1>1. ASSUME Init
      PROVE  SnapshotInv
  BY <1>1, InitSnapshot
<1>2. ASSUME TypeInv, IntegrationFollowsPlan, SnapshotInv, TypeInv', [Next]_vars
      PROVE  SnapshotInv'
  BY <1>2, NextSnapshot
<1>3. TypeInv /\ IntegrationFollowsPlan /\ SnapshotInv => Inv
  BY DEF Inv
<1> QED
  BY <1>1, <1>2, <1>3, EngineInvariant, IntegrationIsOrdered, PTL DEF Spec

-----------------------------------------------------------------------------
(* What follows from it.                                                   *)

\* A step that counts as succeeded did so in its newest attempt, with every
\* declared output durable for that attempt: what adoption by recovery and
\* routing by a live process must agree on.
THEOREM SuccessesAreDurable == Spec => []SuccessIsDurable
<1>1. Inv => SuccessIsDurable
  BY DEF Inv, SnapshotInv
<1> QED
  BY <1>1, SnapshotInvariance, PTL

\* The branch is at the recorded head or one commit ahead of it, whatever died
\* between the cherry-pick and its record.
THEOREM BranchIsKnown == Spec => []BranchAtMostOneAhead
<1>1. Inv => BranchAtMostOneAhead
  BY DEF Inv, SnapshotInv, BranchKnown, BranchAtMostOneAhead
<1> QED
  BY <1>1, SnapshotInvariance, PTL

\* The commit an active attempt starts from contains what every dependency
\* made, and the inputs it resolves are those of the attempts that succeeded.
THEOREM StartsFromResults == Spec => []StartsFromDependencies
<1>1. ASSUME Inv, NEW s \in ActiveSteps
      PROVE  /\ \A d \in Deps[s] :
                  /\ stepState[d] = "succeeded"
                  /\ d \in Mutating /\ attempts[d][ProducedBy(d)].commit
                       => Contains(attempts[s][AttemptNumber(s)].base, <<d, ProducedBy(d)>>)
             /\ \A i \in Inputs[s] :
                  \A n \in 1..AttemptNumber(i[1]) :
                    <<i[1], i[2], n>> \in artifacts => n <= ProducedBy(i[1])
  <2>1. /\ s \in Steps
        /\ \A i \in Inputs[s] : i[1] \in Deps[s]
        /\ \A d \in Deps[s] : d \in Steps
    BY PlanAssumption, StepDeclarations DEF ActiveSteps
  <2>2. \A d \in Deps[s] :
          /\ stepState[d] = "succeeded"
          /\ d \in Mutating /\ attempts[d][ProducedBy(d)].commit
               => Contains(attempts[s][AttemptNumber(s)].base, <<d, ProducedBy(d)>>)
    BY <1>1 DEF Inv, SnapshotInv, BasesHold, SatisfiesDependents
  <2>3. \A d \in Deps[s] : ProducedBy(d) = AttemptNumber(d) /\ AttemptNumber(d) \in Nat
    BY <1>1, <2>1, <2>2, ProducedByLatest DEF Inv, TypeInv, TypeOK, Attempting
  <2>4. ASSUME NEW i \in Inputs[s], NEW n \in 1..AttemptNumber(i[1])
        PROVE  n <= ProducedBy(i[1])
    BY <2>1, <2>3
  <2> QED
    BY <2>2, <2>4
<1>2. Inv => StartsFromDependencies
  BY <1>1 DEF StartsFromDependencies
<1> QED
  BY <1>2, SnapshotInvariance, PTL

\* The snapshot as any process may read it between two transactions: it needs
\* no reconciliation, every attempt was paid for, and a completed run is whole.
THEOREM SnapshotIsSound == Spec => []SnapshotSound
<1>1. ASSUME Inv
      PROVE  SnapshotSound
  <2>1. TypeOK
    BY <1>1 DEF Inv, TypeInv
  <2>2. SnapshotReconciled
    BY <1>1, <2>1, FixpointFromRules DEF Inv, SnapshotInv, TypeOK, SnapshotReconciled
  <2>3. AttemptBudget
    BY <1>1 DEF Inv, SnapshotInv, WithinBudget, Budget, AttemptBudget
  <2>4. CompletedIsWhole
    BY <1>1 DEF Inv, SnapshotInv, Whole, BranchKnown, CompletedIsWhole
  <2> QED
    BY <2>1, <2>2, <2>3, <2>4 DEF SnapshotSound
<1> QED
  BY <1>1, SnapshotInvariance, PTL

\* The loop gives the run up only when nothing can run.  A step that still
\* waits then waits for another one, or for a change held up behind a failed
\* change: the earliest step that waits could not wait for anything else.
THEOREM NeverStopsEarly == Spec => []NeverStopsWithWorkWaiting
<1>1. ASSUME Inv, pc = "settling", state = "running"
      PROVE  \A s \in Steps :
               \/ stepState[s] \in TerminalStepStates
               \/ stepState[s] = "planned" /\ \E d \in Deps[s] : stepState[d] = "planned" \/ HeldUp(d)
  <2>1. \A s \in Steps : stepState[s] \in StepRunState
    BY <1>1 DEF Inv, TypeInv, TypeOK
  <2>2. \A s \in Steps : worker[s] = "idle"
    BY <1>1 DEF Inv, TypeInv, Control
  <2>3. ActiveSteps = {} /\ Running(stepState) = {}
    BY <1>1, <2>2 DEF Inv, SnapshotInv, Owned, EnginePc, BusyWorker, ActiveSteps, Running
  <2>4. Launchable = {} /\ \A s \in Steps : ~Integrable(s)
    BY <1>1, <2>2 DEF Inv, SnapshotInv, NothingOverlooked, EnginePc
  <2>5. \A s \in Steps : stepState[s] # "ready"
    <3>1. stepState \in [Steps -> StepRunState]
      BY <1>1 DEF Inv, TypeInv, TypeOK
    <3>2. stepState = reconcileWorkflowSteps(stepState, integrated)
      BY <1>1, <3>1, FixpointFromRules DEF Inv, SnapshotInv
    <3>3. launchableStepIds("running", stepState, integrated, {}) = {}
      BY <1>1, <2>3, <2>4 DEF Launchable
    <3> QED
      BY <2>3, <3>1, <3>2, <3>3, NothingReady
  <2>6. \A s \in Steps : stepState[s] \in TerminalStepStates \cup {"planned"}
    BY <2>1, <2>3, <2>5 DEF StepRunState, TerminalStepStates, Running
  \* A planned step waits for a planned one, or for one not integrated yet.
  <2>7. ASSUME NEW s \in Steps, stepState[s] = "planned"
        PROVE  \E d \in Deps[s] :
                 \/ stepState[d] = "planned"
                 \/ stepState[d] = "succeeded" /\ d \in Mutating \ integrated
    <3>1. s \in Movable(stepState)
      BY <2>7 DEF Movable, TerminalStepStates
    <3>2. /\ \A d \in Deps[s] : stepState[d] \notin FailureStepStates
          /\ ~\A d \in Deps[s] : SatisfiesDependents(stepState, integrated, d)
      BY <1>1, <2>7, <3>1 DEF Inv, SnapshotInv, IsReconciled
    <3>3. \A d \in Deps[s] : d \in Steps
      BY PlanAssumption
    <3> QED
      BY <2>6, <3>2, <3>3 DEF SatisfiesDependents, FailureStepStates, TerminalStepStates
  \* What is not integrated waits behind a change that failed.
  <2>8. ASSUME NEW d \in Mutating \ integrated, stepState[d] = "succeeded"
        PROVE  HeldUp(d)
    <3>1. Mutating \ integrated \subseteq Steps /\ d \in Steps
      BY PlanAssumption
    <3>2. PICK f \in Mutating \ integrated : Before(Mutating \ integrated, f) = {}
      BY <3>1, FirstInOrder
    <3>3. stepState[f] # "succeeded" /\ f \in Steps
      BY <2>4, <3>1, <3>2 DEF Integrable, isNextIntegrable, Before
    <3>4. \A t \in Mutating \ integrated : ~(Position[t] < Position[f])
      BY <3>2 DEF Before
    <3>5. f \in Before(Mutating, d)
      BY <2>8, <3>1, <3>3, <3>4, PlanAssumption DEF Before
    <3>6. stepState[f] # "planned"
      <4>1. SUFFICES ASSUME stepState[f] = "planned"
                     PROVE  FALSE
        OBVIOUS
      <4> DEFINE Planned == {s \in Steps : stepState[s] = "planned"}
      <4>2. PICK p \in Planned : Before(Planned, p) = {}
        <5>1. Planned \subseteq Steps /\ Planned # {}
          BY <3>3, <4>1
        <5> QED
          BY <5>1, FirstInOrder
      <4>3. \A t \in Steps : stepState[t] = "planned" => ~(Position[t] < Position[p])
        BY <4>2 DEF Before
      <4>4. p \in Steps /\ stepState[p] = "planned"
        BY <4>2
      <4>5. PICK e \in Deps[p] : \/ stepState[e] = "planned"
                                 \/ e \in Mutating \ integrated
        BY <2>7, <4>4
      <4>6. e \in Steps /\ Position[e] < Position[p]
        BY <4>4, PlanAssumption
      <4>7. /\ Position[e] \in Nat /\ Position[p] \in Nat /\ Position[f] \in Nat
            /\ ~(Position[f] < Position[p])
            /\ e \in Mutating \ integrated
        BY <3>3, <4>1, <4>3, <4>4, <4>5, <4>6, PlanAssumption
      <4> QED
        BY <3>4, <4>6, <4>7
    <3> QED
      BY <2>6, <2>8, <3>3, <3>5, <3>6 DEF HeldUp, TerminalStepStates, FailureStepStates
  <2> QED
    BY <2>6, <2>7, <2>8
<1>2. Inv => NeverStopsWithWorkWaiting
  BY <1>1 DEF NeverStopsWithWorkWaiting
<1> QED
  BY <1>2, SnapshotInvariance, PTL

-----------------------------------------------------------------------------
(* The engine implements EngineLifecycle.                                  *)

\* What waits for a relaunch or a reset is still there when it comes to it.
WorkWaits ==
  /\ pc = "relaunch" => \E s \in Steps : LatestInterrupted(s)
  /\ pc = "reset" => /\ \A s \in Steps : ~LatestInterrupted(s)
                     /\ \E s \in Steps : stepState[s] = "failed"

\* Settling a run neither fails a step nor forgives one.
LEMMA SettledFails ==
  ASSUME TypeOK, NEW cancelled, NEW s \in Steps
  PROVE  SettledSteps(cancelled)[s] = "failed" <=> stepState[s] = "failed"
<1>1. stepState \in [Steps -> StepRunState]
  BY DEF TypeOK
<1>2. reconcileWorkflowSteps(stepState, integrated)[s] = "failed" <=> stepState[s] = "failed"
  BY <1>1, ReconcilePreserves
<1> QED
  BY <1>2 DEF SettledSteps, EndUnfinished, Reconciled

\* A cancellation, too, leaves the failed steps failed.
LEMMA CancelKeepsFailures ==
  ASSUME TypeInv, CancelHere \/ CancelElsewhere \/ SettleRun, NEW s \in Steps
  PROVE  stepState'[s] = "failed" <=> stepState[s] = "failed"
<1>1. stepState' = stepState \/ \E cancelled : stepState' = SettledSteps(cancelled)
  BY DEF CancelHere, CancelElsewhere, CancelSnapshot, SettleRun, Settle
<1> QED
  BY <1>1, SettledFails DEF TypeInv

LEMMA WorkWaitsStep ==
  ASSUME TypeInv, WorkWaits, [Next]_vars
  PROVE  WorkWaits'
<1>1. \A s \in Steps : attempts'[s] = attempts[s] => LatestInterrupted(s)' = LatestInterrupted(s)
  BY DEF LatestInterrupted, AttemptNumber
<1>2. ASSUME pc \in {"relaunch", "reset"}, NEW s \in Steps
      PROVE  LatestInterrupted(s)' = LatestInterrupted(s)
  <2>1. ~HasActiveAttempt(s) /\ ~Reserve
    BY <1>2 DEF TypeInv, Control, ActiveSteps, Reserve
  <2> QED
    BY <1>1, <2>1, AttemptsStep
<1>3. ASSUME pc' = "relaunch"
      PROVE  \E s \in Steps : LatestInterrupted(s)'
  <2>1. CASE pc = "relaunch"
    BY <1>2, <2>1 DEF WorkWaits
  <2>2. CASE Recover /\ stopped' # {}
    <3>1. PICK s \in Steps : OutOfBudget(s)
      BY <2>2 DEF Recover
    <3>2. HasActiveAttempt(s) /\ ~Adoptable(s) /\ ActiveSteps # {}
      BY <3>1 DEF OutOfBudget, Interrupted, ActiveSteps
    <3>3. attempts' = RecoveredAttempts
      BY <2>2, <3>2 DEF Recover
    <3>4. /\ attempts'[s] # <<>>
          /\ Len(attempts'[s]) = AttemptNumber(s)
          /\ attempts'[s][AttemptNumber(s)].state = "interrupted"
      BY <3>2, <3>3, RecoveredAttemptsType DEF TypeInv
    <3> QED
      BY <3>4 DEF LatestInterrupted, AttemptNumber
  <2> QED
    BY <1>3, <2>1, <2>2, StoredStep
<1>4. ASSUME pc' = "reset"
      PROVE  /\ \A s \in Steps : ~LatestInterrupted(s)'
             /\ \E s \in Steps : stepState'[s] = "failed"
  <2>1. CASE Retry
    <3>1. /\ \A s \in Steps : ~LatestInterrupted(s)
          /\ \E s \in Steps : stepState[s] = "failed"
          /\ UNCHANGED <<attempts, stepState>>
      BY <2>1 DEF Retry, RetryAccepted
    <3> QED
      BY <1>1, <3>1
  <2>2. CASE pc = "reset"
    <3>1. /\ \A s \in Steps : ~LatestInterrupted(s)
          /\ \E s \in Steps : stepState[s] = "failed"
      BY <2>2 DEF WorkWaits
    <3>2. stepState' = stepState \/ CancelHere \/ CancelElsewhere
      <4>1. \A s \in Steps : ~SettleStep(s)
        BY <2>2 DEF SettleStep, TypeInv, Control, EnginePc
      <4>2. /\ ~RecordIntegration /\ ~RecordIntegrationFailure /\ ~Reserve /\ ~FailStart
            /\ ~SettleRun /\ ~Recover /\ ~RelaunchInterrupted /\ ~RetryReset
        BY <1>4, <2>2 DEF RecordIntegration, RecordIntegrationFailure, Reserve, FailStart,
           SettleRun, Recover, RelaunchInterrupted, RetryReset
      <4> QED
        BY <4>1, <4>2, StatesFrame
    <3> QED
      BY <1>2, <2>2, <3>1, <3>2, CancelKeepsFailures
  <2> QED
    BY <1>4, <2>1, <2>2, RelaunchStep
<1> QED
  BY <1>3, <1>4 DEF WorkWaits

\* What is left of the run is a matter of its attempts and its failed steps.
LEMMA WorkKept ==
  ASSUME UNCHANGED attempts,
         \A s \in Steps : stepState'[s] = "failed" <=> stepState[s] = "failed"
  PROVE  RemainingWork' = RemainingWork
  BY DEF RemainingWork, ActiveSteps, HasActiveAttempt, AttemptNumber, LatestInterrupted

\* Nothing is left of a run all of whose steps succeeded.
LEMMA NoWorkLeft ==
  ASSUME TypeInv, \A s \in Steps : stepState[s] = "succeeded"
  PROVE  RemainingWork = "none"
<1>1. \A s \in Steps : ~HasActiveAttempt(s) /\ ~LatestInterrupted(s)
  BY DEF TypeInv, Attempting, LatestSucceeded, HasActiveAttempt, ActiveAttemptStates,
     LatestInterrupted
<1> QED
  BY <1>1 DEF RemainingWork, ActiveSteps

\* An attempt starts only by a reservation.
LEMMA OnlyReservesStart ==
  ASSUME TypeInv, [Next]_vars, ~Reserve
  PROVE  RemainingWork' = "active" => RemainingWork = "active"
  BY ActiveStepsStep DEF RemainingWork

\* While the loop runs, only it and a cancellation end the run, and nothing
\* reopens it.
LEMMA LoopStates ==
  ASSUME Inv, [Next]_vars, pc \in EnginePc, state # "running"
  PROVE  state' = state \/ (state # "completed" /\ state' = "failed")
<1>1. CASE RecordIntegrationFailure
  BY <1>1 DEF RecordIntegrationFailure, Inv, TypeInv, Control, NextInOrder, SnapshotInv, Whole
<1>2. CASE FailStart
  <2>1. hand \in Steps /\ stepState[hand] # "succeeded"
    BY <1>2 DEF FailStart, Inv, TypeInv, TypeOK, Control, NotStarted
  <2> QED
    BY <1>2, <2>1 DEF FailStart, Inv, SnapshotInv, Whole
<1>3. ASSUME NEW s \in Steps, SettleStep(s)
      PROVE  state' = state
  BY <1>3 DEF SettleStep, SettledRunState
<1>4. CASE SettleRun \/ CancelHere \/ CancelElsewhere
  BY <1>4 DEF SettleRun, CancelHere, CancelElsewhere, CancelSnapshot, Settle, SettledState
<1>5. CASE RecordIntegration \/ Reserve
  BY <1>5 DEF RecordIntegration, Reserve
<1>6. ~Recover /\ ~RelaunchInterrupted /\ ~RetryReset
  BY DEF Recover, RelaunchInterrupted, RetryReset, EnginePc
<1> QED
  BY <1>1, <1>2, <1>3, <1>4, <1>5, <1>6, StatesFrame


LEMMA CompletedLeavesNone ==
  ASSUME Inv'
  PROVE  state' = "completed" => RemainingWork' = "none"
<1> SUFFICES ASSUME state' = "completed"
             PROVE  RemainingWork' = "none"
  OBVIOUS
<1>1. TypeInv' /\ \A s \in Steps : stepState'[s] = "succeeded"
  BY DEF Inv, SnapshotInv, Whole
<1>2. \A s \in Steps : ~HasActiveAttempt(s)' /\ ~LatestInterrupted(s)'
  BY <1>1 DEF TypeInv, Attempting, LatestSucceeded, HasActiveAttempt, ActiveAttemptStates,
     LatestInterrupted
<1> QED
  BY <1>1, <1>2 DEF RemainingWork, ActiveSteps

\* Inside the loop.
LEMMA LoopImplements ==
  ASSUME Inv, Inv', [Next]_vars, pc \in EnginePc, pc' \in EnginePc
  PROVE  [Lifecycle!Next]_(Lifecycle!vars)
<1>1. /\ state \in RunLifecycleState /\ state' \in RunLifecycleState
      /\ RemainingWork' \in Lifecycle!Work
  BY DEF Inv, TypeInv, TypeOK, RemainingWork, Lifecycle!Work
<1>2. UNCHANGED (pc \in EnginePc)
  OBVIOUS
<1>3. state' = "completed" => RemainingWork' = "none"
  BY CompletedLeavesNone
<1>4. state # "running" \/ state' # "running" =>
        (RemainingWork' = "active" => RemainingWork = "active")
  BY OnlyReservesStart, ReserveAttempts DEF Reserve, Inv
<1>5. CASE state = "running" /\ state' = "running"
  BY <1>1, <1>2, <1>5 DEF Lifecycle!Next, Lifecycle!Execute, Lifecycle!Running
<1>6. CASE state = "running" /\ state' # "running"
  BY <1>1, <1>2, <1>3, <1>4, <1>6
     DEF Lifecycle!Next, Lifecycle!Execute, Lifecycle!Ending, Lifecycle!Ends,
         Lifecycle!NothingStarts, RunLifecycleState
<1>7. CASE state \in {"failed", "cancelled"}
  <2>1. state' \in {state, "failed"}
    BY <1>7, LoopStates
  <2> QED
    BY <1>1, <1>2, <1>4, <1>7, <2>1
       DEF Lifecycle!Next, Lifecycle!Execute, Lifecycle!Stopping, Lifecycle!NothingStarts
<1>8. CASE state = "completed"
  <2>1. state' = state
    BY <1>8, LoopStates
  <2>2. RemainingWork = "none"
    BY <1>8, NoWorkLeft DEF Inv, SnapshotInv, Whole
  <2> QED
    BY <1>2, <1>3, <1>8, <2>1, <2>2 DEF Lifecycle!vars
<1> QED
  BY <1>1, <1>5, <1>6, <1>7, <1>8 DEF RunLifecycleState

\* The loop returns or dies.
LEMMA LeavingImplements ==
  ASSUME Inv, Inv', [Next]_vars, pc \in EnginePc, pc' \notin EnginePc
  PROVE  Lifecycle!Next
<1>1. CASE Crash
  <2>1. UNCHANGED <<state, stepState, attempts>>
    BY <1>1 DEF Crash
  <2>2. RemainingWork' = RemainingWork
    BY <2>1, WorkKept
  <2> QED
    BY <2>1, <2>2 DEF Lifecycle!Next, Lifecycle!Crash
<1>2. CASE SettleRun
  <2>1. RemainingWork' = RemainingWork
    <3>1. attempts' = attempts
      BY <1>2 DEF SettleRun, Settle
    <3> QED
      BY <1>2, <3>1, CancelKeepsFailures, WorkKept DEF Inv
  <2>2. RemainingWork # "active"
    <3>1. \A s \in Steps : worker[s] = "idle"
      BY <1>2 DEF SettleRun, Inv, TypeInv, Control
    <3>2. ActiveSteps = {}
      BY <1>2, <3>1 DEF SettleRun, Inv, SnapshotInv, Owned, BusyWorker, ActiveSteps
    <3> QED
      BY <3>2 DEF RemainingWork
  <2>3. /\ state # "running" => state' = state
        /\ state' \in RunLifecycleState \ {"running"}
    BY <1>2, SettledStateType DEF SettleRun, Settle, SettledState, Inv, TypeInv
  <2> QED
    BY <2>1, <2>2, <2>3, CompletedLeavesNone
       DEF Lifecycle!Next, Lifecycle!Return, Lifecycle!Ends, RunLifecycleState
<1> QED
  BY <1>1, <1>2, LoopStep DEF Inv

\* Recovery settles what a dead process left active.
LEMMA RecoverImplements ==
  ASSUME Inv, Inv', Recover, [Next]_vars
  PROVE  Lifecycle!Recover
<1>1. pc \notin EnginePc /\ (pc' \in EnginePc => state' = "running")
  BY DEF Recover, EnginePc
<1>2. RemainingWork \in Lifecycle!Work /\ RemainingWork' \in Lifecycle!Work
  BY DEF RemainingWork, Lifecycle!Work
<1>3. CASE ActiveSteps = {}
  <2>1. UNCHANGED <<state, stepState, attempts>>
    BY <1>3 DEF Recover
  <2>2. RemainingWork' = RemainingWork /\ RemainingWork # "active"
    BY <1>3, <2>1, WorkKept DEF RemainingWork
  <2> QED
    BY <1>1, <1>2, <2>1, <2>2 DEF Lifecycle!Recover, Lifecycle!NothingStarts
<1>4. CASE ActiveSteps # {}
  <2>1. attempts' = RecoveredAttempts
    BY <1>4 DEF Recover
  <2>2. \A s \in Steps : ~HasActiveAttempt(s)'
    BY <2>1, RecoveredAttemptsType DEF Inv, TypeInv, TypeOK, HasActiveAttempt, AttemptNumber,
       ActiveAttemptStates
  <2>3. RemainingWork = "active" /\ RemainingWork' # "active"
    BY <1>4, <2>2 DEF RemainingWork, ActiveSteps
  <2>4. state' = state \/ (state = "running" /\ state' = "failed")
    BY <1>4 DEF Recover
  <2> QED
    BY <1>1, <1>2, <2>3, <2>4 DEF Lifecycle!Recover, Lifecycle!NothingStarts
<1> QED
  BY <1>3, <1>4

\* A resume runs what was interrupted again, a retry what had failed.
LEMMA ReopenImplements ==
  ASSUME Inv, WorkWaits, RelaunchInterrupted \/ RetryReset
  PROVE  Lifecycle!Relaunch \/ Lifecycle!Reopen
<1>1. /\ pc \notin EnginePc /\ pc' \in EnginePc
      /\ state' = "running" /\ attempts' = attempts
      /\ ActiveSteps = {}
  BY DEF RelaunchInterrupted, RetryReset, EnginePc, Inv, TypeInv, Control
<1>2. /\ ActiveSteps' = {}
      /\ \A s : LatestInterrupted(s)' <=> LatestInterrupted(s)
  BY <1>1 DEF ActiveSteps, HasActiveAttempt, AttemptNumber, LatestInterrupted
<1>3. CASE RelaunchInterrupted
  <2>1. \E s \in Steps : LatestInterrupted(s)
    BY <1>3 DEF RelaunchInterrupted, WorkWaits
  <2>2. RemainingWork = "interrupted" /\ RemainingWork' = "interrupted"
    BY <1>1, <1>2, <2>1 DEF RemainingWork
  <2> QED
    BY <1>1, <2>2 DEF Lifecycle!Relaunch
<1>4. CASE RetryReset
  <2>1. /\ \A s \in Steps : ~LatestInterrupted(s)
        /\ \E s \in Steps : stepState[s] = "failed"
    BY <1>4 DEF RetryReset, WorkWaits
  <2>2. \A s \in Steps : stepState'[s] # "failed"
    <3> DEFINE mid == Replanned({s \in Steps : stepState[s] \in {"failed", "blocked"}})
    <3>1. /\ mid \in [Steps -> StepRunState]
          /\ \A s \in Steps : mid[s] # "failed"
      BY DEF Replanned, StepRunState, Inv, TypeInv, TypeOK
    <3>2. stepState' = reconcileWorkflowSteps(mid, integrated)
      BY <1>4 DEF RetryReset, Reconciled
    <3> HIDE DEF mid
    <3> QED
      BY <3>1, <3>2, ReconcilePreserves
  <2>3. RemainingWork = "failed" /\ RemainingWork' = "none"
    BY <1>1, <1>2, <2>1, <2>2 DEF RemainingWork
  <2> QED
    BY <1>1, <2>3 DEF Lifecycle!Reopen
<1> QED
  BY <1>3, <1>4

\* Outside the loop only a cancellation settles the run.
LEMMA OutsideImplements ==
  ASSUME Inv, Inv', WorkWaits, [Next]_vars, pc \notin EnginePc
  PROVE  [Lifecycle!Next]_(Lifecycle!vars)
<1>1. CASE Recover
  BY <1>1, RecoverImplements DEF Lifecycle!Next
<1>2. CASE RelaunchInterrupted \/ RetryReset
  BY <1>2, ReopenImplements DEF Lifecycle!Next
<1>3. CASE ~Recover /\ ~RelaunchInterrupted /\ ~RetryReset
  <2>1. pc' \notin EnginePc
    BY <1>3, LoopStep DEF Inv
  <2>2. attempts' = attempts
    <3>1. ~Reserve /\ ~MarkRunning /\ \A s \in Steps : ~SettleStep(s)
      BY DEF Reserve, MarkRunning, SettleStep, Inv, TypeInv, Control, EnginePc
    <3> QED
      BY <1>3, <3>1, AttemptsFrame
  <2>3. CASE CancelHere \/ CancelElsewhere
    <3>1. RemainingWork' = RemainingWork
      BY <2>2, <2>3, CancelKeepsFailures, WorkKept DEF Inv
    <3>2. CancelSnapshot
      BY <2>3 DEF CancelHere, CancelElsewhere
    <3>3. /\ state # "running" => state' = state
          /\ state' = state \/ state' \in {"completed", "failed", "cancelled"}
      BY <3>2 DEF CancelSnapshot, Settle, SettledState
    <3>4. UNCHANGED (pc \in EnginePc)
      BY <2>1
    <3> QED
      BY <3>1, <3>3, <3>4, CompletedLeavesNone
         DEF Lifecycle!Next, Lifecycle!Cancel, Lifecycle!Ends, Lifecycle!vars
  <2>4. CASE ~CancelHere /\ ~CancelElsewhere
    <3>1. /\ ~RecordIntegration /\ ~RecordIntegrationFailure /\ ~Reserve /\ ~FailStart
          /\ ~SettleRun /\ \A s \in Steps : ~SettleStep(s)
      BY DEF RecordIntegration, RecordIntegrationFailure, Reserve, FailStart, SettleRun,
         SettleStep, Inv, TypeInv, Control, EnginePc
    <3>2. UNCHANGED <<state, stepState>>
      BY <1>3, <2>4, <3>1, StatesFrame
    <3>3. RemainingWork' = RemainingWork
      BY <2>2, <3>2, WorkKept
    <3> QED
      BY <2>1, <3>2, <3>3 DEF Lifecycle!vars
  <2> QED
    BY <2>3, <2>4
<1> QED
  BY <1>1, <1>2, <1>3

\* The engine with all its steps, handlers, crashes, resumes and retries is to
\* its callers no more than EngineLifecycle: attempts start only in a running
\* run, a run completes for good and only with no work left, and only recovery,
\* a resume or a retry brings a run back.
THEOREM ImplementsTheLifecycle == Spec => ImplementsLifecycle
<1>1. ASSUME Init
      PROVE  Lifecycle!Init /\ WorkWaits
  <2>1. RemainingWork = "none"
    <3>1. \A s \in Steps : /\ ~HasActiveAttempt(s) /\ ~LatestInterrupted(s)
                           /\ stepState[s] # "failed"
      BY <1>1 DEF Init, HasActiveAttempt, LatestInterrupted
    <3> QED
      BY <3>1 DEF RemainingWork, ActiveSteps
  <2>2. state = "running" /\ pc = "integrate" /\ (pc \in EnginePc) = TRUE
    BY <1>1 DEF Init, EnginePc
  <2> QED
    BY <2>1, <2>2 DEF Lifecycle!Init, WorkWaits
<1>2. ASSUME Inv, WorkWaits, [Next]_vars
      PROVE  WorkWaits'
  BY <1>2, WorkWaitsStep DEF Inv
<1>3. ASSUME Inv, Inv', WorkWaits, [Next]_vars
      PROVE  [Lifecycle!Next]_(Lifecycle!vars)
  BY <1>3, LoopImplements, LeavingImplements, OutsideImplements
<1> QED
  BY <1>1, <1>2, <1>3, SnapshotInvariance, PTL DEF Spec, ImplementsLifecycle, Lifecycle!Spec

=============================================================================
