---------------------------- MODULE LegacyReview ----------------------------
(***************************************************************************)
(* The other half of a legacy run, from its integrated tasks to its       *)
(* merge-ready evidence: review rounds, repairs and the final validation   *)
(* of src/orchestrator.ts, with their recovery, retry and cancellation,    *)
(* over the run that storage/run-store.ts keeps and the branch git keeps.  *)
(*                                                                         *)
(* A commit is named by the repair attempt that made it, and a head of the *)
(* integration branch by the repairs on it.  A report has at most one      *)
(* finding that matters, and its kind says what the policy does with it.   *)
(***************************************************************************)
EXTENDS Integers, Sequences, SequencesExt, FiniteSets

CONSTANTS REVIEW_CATEGORIES, \* in the order the rounds launch them
          Kinds,             \* what the reviewers of a category report
          MaxWorkers,        \* maxConcurrentWorkers
          MaxCrashes,        \* bound on the crashes of a run
          MaxRetries         \* bound on its retries

ASSUME ReviewAssumption ==
  /\ REVIEW_CATEGORIES \in Seq(Range(REVIEW_CATEGORIES))
  /\ \A i, j \in DOMAIN REVIEW_CATEGORIES : i # j => REVIEW_CATEGORIES[i] # REVIEW_CATEGORIES[j]
  /\ Kinds \in [Range(REVIEW_CATEGORIES) -> SUBSET {"minor", "important", "outside"}]
  /\ MaxWorkers \in Nat \ {0} /\ {MaxCrashes, MaxRetries} \subseteq Nat

VARIABLES
  run,      \* the stored run: state, head, rounds, reviews, repairs, finals, merge-ready evidence
  branch,   \* the repairs on the integration branch
  loop,     \* the process that holds the lifecycle lease, and the await it is at
  pass,     \* the review pass of each category, and the await it is at
  cancel,   \* the repair a cancellation waits for; 0 when none does
  count     \* crashes and retries so far

vars == <<run, branch, loop, pass, cancel, count>>

Categories == Range(REVIEW_CATEGORIES)
TerminalRun == {"completed", "failed", "cancelled"}
ActiveStates == {"prepared", "running", "validating"}
AttemptStates == ActiveStates \cup {"succeeded", "failed", "cancelled", "interrupted"}
Heads == Seq(Nat)

Round == [state : {"running", "repairing", "succeeded", "failed", "cancelled"},
          base : Heads, repair : Nat]
Review == [round : Nat, category : Categories, state : AttemptStates, kind : {"none", "minor", "important", "outside"},
           status : {"deferred", "repair_required", "repaired", "unresolved"}, by : Nat]
Repair == [round : Nat, state : AttemptStates, findings : SUBSET Nat, base : Heads,
           evidence : BOOLEAN, commit : BOOLEAN, integrated : BOOLEAN]
Final == [state : AttemptStates \ {"prepared", "validating"}, commit : Heads, evidence : BOOLEAN]
Ready == [head : Heads, reviews : SUBSET Nat, risks : SUBSET Nat]

RunStates == {"integrating", "reviewing", "repairing", "reviewed", "validating"} \cup TerminalRun
LoopPc == {"idle", "review", "passes", "judge",
           "spawn", "work", "validate", "evidence", "commit", "integrate", "complete", "unrepair", "abandon",
           "final", "stale", "reserve", "check", "checked", "finish", "unfinal",
           "recover", "recovered", "resume"}
PassPc == {"none", "prepare", "spawn", "work", "report", "fail", "done", "rejected"}

TypeOK ==
  /\ run \in [state : RunStates, head : Heads, rounds : Seq(Round), reviews : Seq(Review),
             repairs : Seq(Repair), finals : Seq(Final), ready : Seq(Ready)]
  /\ branch \in Heads
  /\ loop \in [pc : LoopPc, todo : SUBSET Categories, at : Nat]
  /\ pass \in [Categories -> [pc : PassPc, at : Nat]]
  /\ cancel \in Nat /\ count \in [crashes : 0..MaxCrashes, retries : 0..MaxRetries]

-----------------------------------------------------------------------------
(* The stored run, and what validateStoredRun refuses.                     *)

Current == Len(run.rounds)
InRound(r, n) == {i \in DOMAIN r.reviews : r.reviews[i].round = n}
Reported(r, n) == {i \in InRound(r, n) : r.reviews[i].state = "succeeded"}
ActiveIn(attempts) == {i \in DOMAIN attempts : attempts[i].state \in ActiveStates}
FinalRound(r) == Reported(r, Len(r.rounds))
CategoriesOf(r, ids) == {r.reviews[i].category : i \in ids}
Risks(r) == {i \in FinalRound(r) : r.reviews[i].status = "deferred"}

RoundsSound(r) ==
  /\ \A n \in DOMAIN r.rounds :
        /\ \A i, j \in InRound(r, n) :
              i < j /\ r.reviews[i].state = "succeeded" => r.reviews[i].category # r.reviews[j].category
        /\ r.rounds[n].repair # 0 => r.repairs[r.rounds[n].repair].round = n
        /\ r.rounds[n].state = "succeeded" => CategoriesOf(r, Reported(r, n)) = Categories
  /\ \A i \in DOMAIN r.reviews : r.reviews[i].round \in DOMAIN r.rounds

RepairsSound(r) ==
  /\ \A i \in DOMAIN r.repairs :
        /\ r.repairs[i].findings # {} /\ r.repairs[i].findings \subseteq InRound(r, r.repairs[i].round)
        /\ r.repairs[i].commit => r.repairs[i].evidence
        /\ r.repairs[i].integrated => r.repairs[i].commit
        /\ r.repairs[i].state = "succeeded" => r.repairs[i].integrated
  /\ Range(r.head) = {i \in DOMAIN r.repairs : r.repairs[i].integrated}
  /\ \A m, n \in DOMAIN r.head : m < n => r.head[m] < r.head[n]
  /\ \A n \in DOMAIN r.head : r.repairs[r.head[n]].base = SubSeq(r.head, 1, n - 1)
  /\ \A i \in DOMAIN r.reviews : r.reviews[i].status = "repaired" =>
        \E k \in DOMAIN r.repairs :
          /\ k = r.reviews[i].by /\ i \in r.repairs[k].findings
          /\ r.repairs[k].state = "succeeded" /\ r.repairs[k].integrated

FinalsSound(r) ==
  LET running == {i \in DOMAIN r.finals : r.finals[i].state = "running"}
  IN /\ Cardinality(running) <= 1
     /\ (r.state = "validating") <=> running # {}
     /\ \A i \in DOMAIN r.finals : r.finals[i].state = "succeeded" => r.finals[i].evidence

ReviewedSound(r) ==
  r.state \in {"reviewed", "validating", "completed"} =>
    /\ r.rounds # <<>> /\ Last(r.rounds).state = "succeeded"
    /\ \A i \in DOMAIN r.reviews : r.reviews[i].status \notin {"repair_required", "unresolved"}

ReadySound(r) ==
  /\ r.state = "completed" => r.ready # <<>>
  /\ r.state \in {"failed", "cancelled"} => r.ready = <<>>
  /\ \A i \in DOMAIN r.ready :
        /\ r.ready[i].head = r.head
        /\ r.ready[i].reviews = FinalRound(r) /\ r.ready[i].risks = Risks(r)
        /\ \E f \in DOMAIN r.finals : r.finals[f].state = "succeeded" /\ r.finals[f].commit = r.head

WorkersBounded(r) == Cardinality(ActiveIn(r.reviews)) + Cardinality(ActiveIn(r.repairs)) <= MaxWorkers

SetRun(state) == [run EXCEPT !.state = state]
Kept(r) == IF run.state = "cancelled" THEN run ELSE r  \* the write of a run nobody cancelled

At(pc) == loop.pc = pc
GoTo(pc) == loop' = [loop EXCEPT !.pc = pc]
GoWith(pc, i) == loop' = [loop EXCEPT !.pc = pc, !.at = i]
Idle == [pc |-> "idle", todo |-> {}, at |-> 0]
NoPass == [c \in Categories |-> [pc |-> "none", at |-> 0]]
Others == UNCHANGED <<branch, pass, cancel, count>>

Init ==
  /\ run = [state |-> "integrating", head |-> <<>>, rounds |-> <<>>, reviews |-> <<>>,
            repairs |-> <<>>, finals |-> <<>>, ready |-> <<>>]
  /\ branch = <<>> /\ loop = Idle /\ pass = NoPass /\ cancel = 0 /\ count = [crashes |-> 0, retries |-> 0]

-----------------------------------------------------------------------------
(* runReviewLifecycle: rounds of reviews.                                  *)

NewRound(head) == [state |-> "running", base |-> head, repair |-> 0]

BeginReview ==
  /\ At("review") /\ run.state = "integrating"
  /\ run' = [run EXCEPT !.state = "reviewing",
                        !.rounds = IF @ = <<>> THEN <<NewRound(run.head)>> ELSE @]
  /\ UNCHANGED loop /\ Others

Order(c) == CHOOSE i \in DOMAIN REVIEW_CATEGORIES : REVIEW_CATEGORIES[i] = c
Earlier(todo, c) == {d \in todo : Order(d) < Order(c)}
First(todo) == {c \in todo : Cardinality(Earlier(todo, c)) < MaxWorkers}

Batch(todo) ==
  /\ loop' = [loop EXCEPT !.pc = "passes", !.todo = todo \ First(todo)]
  /\ pass' = [c \in Categories |-> IF c \in First(todo) THEN [pc |-> "prepare", at |-> 0]
                                                        ELSE NoPass[c]]

Missing == Categories \ CategoriesOf(run, Reported(run, Current))

RunReviewRound ==
  /\ At("review") /\ run.state = "reviewing"
  /\ IF Missing = {} THEN GoTo("judge") /\ UNCHANGED pass ELSE Batch(Missing)
  /\ UNCHANGED <<run, branch, cancel, count>>

Leave ==
  /\ At("review") /\ run.state \in TerminalRun /\ loop' = Idle
  /\ UNCHANGED run /\ Others

PassAt(c, pc) == pass[c].pc = pc
PassTo(c, pc) == pass' = [pass EXCEPT ![c].pc = pc]
PassOthers == UNCHANGED <<branch, loop, cancel, count>>

\* The worktree is prepared and the attempt reserved, by a transaction that throws
\* when the run is not in review any more or the category has an attempt already.
ReservePass(c) ==
  /\ PassAt(c, "prepare")
  /\ IF run.state = "reviewing"
        /\ \A i \in ActiveIn(run.reviews) \cap InRound(run, Current) : run.reviews[i].category # c
     THEN /\ run' = [run EXCEPT !.reviews =
                       Append(@, [round |-> Current, category |-> c, state |-> "prepared",
                                  kind |-> "none", status |-> "deferred", by |-> 0])]
          /\ pass' = [pass EXCEPT ![c] = [pc |-> "spawn", at |-> Len(run.reviews) + 1]]
     ELSE UNCHANGED run /\ \/ PassTo(c, "rejected")
                           \/ run.state # "reviewing" /\ PassTo(c, "done")
  /\ PassOthers

PreparePassFails(c) ==
  /\ PassAt(c, "prepare") /\ PassTo(c, "rejected")
  /\ UNCHANGED run /\ PassOthers

SpawnPass(c) ==
  /\ PassAt(c, "spawn")
  /\ run' = Kept([run EXCEPT !.reviews[pass[c].at].state = "running"])
  /\ PassTo(c, IF run.state = "cancelled" THEN "done" ELSE "work")
  /\ PassOthers

\* The worker is stopped, its worktree verified and its report parsed, or one of them fails.
EndPass(c) ==
  /\ \/ PassAt(c, "work") /\ PassTo(c, "report")
     \/ (PassAt(c, "spawn") \/ PassAt(c, "work")) /\ PassTo(c, "fail")
  /\ UNCHANGED run /\ PassOthers

RecordReport(c) ==
  /\ PassAt(c, "report") /\ PassTo(c, "done")
  /\ \E kind \in Kinds[c] :
       run' = Kept([run EXCEPT !.reviews[pass[c].at].state = "succeeded",
                               !.reviews[pass[c].at].kind = kind])
  /\ PassOthers

RecordPassFailure(c) ==
  /\ PassAt(c, "fail") /\ PassTo(c, "done")
  /\ run' = Kept([run EXCEPT !.reviews[pass[c].at].state = "failed"])
  /\ PassOthers

FailRound(r) == [r EXCEPT !.state = "failed", !.rounds[Current].state = "failed"]

\* Faulty variant of BatchSettled: a pass that was rejected is waited for.
BatchSettledDone ==
  /\ At("passes") /\ \A c \in Categories : pass[c].pc \in {"none", "done"}
  /\ pass' = NoPass /\ UNCHANGED run
  /\ loop' = [loop EXCEPT !.pc = "review"]
  /\ UNCHANGED <<branch, cancel, count>>

\* Promise.allSettled of a batch, and what runReviewRound makes of it.
BatchSettled ==
  /\ At("passes") /\ \A c \in Categories : pass[c].pc \in {"none", "done", "rejected"}
  /\ IF \/ \E c \in Categories : PassAt(c, "rejected")
        \/ \E i \in InRound(run, Current) : run.reviews[i].state = "failed"
     THEN run' = Kept(FailRound(run)) /\ pass' = NoPass /\ GoTo("review")
     ELSE /\ UNCHANGED run
          /\ IF run.state # "reviewing" THEN GoTo("review") /\ pass' = NoPass
             ELSE IF loop.todo = {} THEN GoTo("judge") /\ pass' = NoPass
             ELSE Batch(loop.todo)
  /\ UNCHANGED <<branch, cancel, count>>

-----------------------------------------------------------------------------
(* review-policy.ts on the findings of a round, and what becomes of the run. *)

Important(r, n) == {i \in Reported(r, n) : r.reviews[i].kind \in {"important", "outside"}}
OutOfScope(r, n) == {i \in Reported(r, n) : r.reviews[i].kind = "outside"}

\* prioritizeFindings, with the findings nothing will repair.
Prioritized(unresolved) ==
  [i \in DOMAIN run.reviews |->
     IF i \notin Reported(run, Current) THEN run.reviews[i]
     ELSE [run.reviews[i] EXCEPT !.status =
             IF i \in unresolved THEN "unresolved"
             ELSE IF i \in Important(run, Current) THEN "repair_required" ELSE "deferred"]]

Unresolved(found) == FailRound([run EXCEPT !.reviews = Prioritized(found)])

Judgement ==
  LET important == Important(run, Current)
      repairs == important # {}
  IN IF Cardinality(Reported(run, Current)) # Len(REVIEW_CATEGORIES) \/ branch # run.head
     THEN FailRound(run)
     ELSE IF OutOfScope(run, Current) # {} THEN Unresolved(OutOfScope(run, Current))
     ELSE IF repairs /\ Current > 2 THEN Unresolved(important)
     ELSE [run EXCEPT !.reviews = Prioritized({}),
                      !.state = IF repairs THEN "repairing" ELSE "reviewed",
                      !.rounds[Current].state = IF repairs THEN "repairing" ELSE "succeeded"]

Judge ==
  /\ At("judge") /\ GoTo("review")
  /\ run' = IF run.state = "reviewing" THEN Judgement ELSE run
  /\ Others

-----------------------------------------------------------------------------
(* runRepairAttempt.  The boundary a cancellation waits for is open from the *)
(* end of the validation to the end of the repair.                          *)

Required == {i \in InRound(run, Current) : run.reviews[i].status = "repair_required"}

Mine == run.repairs[loop.at]
SetMine(state) == [run EXCEPT !.repairs[loop.at].state = state]

ReserveRepair ==
  /\ At("review") /\ run.state = "repairing" /\ Required # {}
  /\ run' = [run EXCEPT !.repairs =
               Append(@, [round |-> Current, state |-> "prepared", findings |-> Required,
                          base |-> run.head, evidence |-> FALSE, commit |-> FALSE,
                          integrated |-> FALSE]),
               !.rounds[Current].repair = Len(run.repairs) + 1]
  /\ GoWith("spawn", Len(run.repairs) + 1) /\ Others

\* The worktree of the repair cannot be prepared, and nothing catches it.
PrepareRepairFails ==
  /\ At("review") /\ run.state = "repairing" /\ loop' = Idle
  /\ UNCHANGED run /\ Others

SpawnRepair ==
  /\ At("spawn") /\ run' = Kept(SetMine("running"))
  /\ GoTo(IF run.state = "cancelled" THEN "review" ELSE "work") /\ Others

EndRepair ==
  /\ At("work") /\ run' = Kept(SetMine("validating"))
  /\ GoTo(IF run.state = "cancelled" THEN "review" ELSE "validate") /\ Others

ValidateRepair ==
  /\ At("validate") /\ GoTo("evidence")
  /\ UNCHANGED run /\ Others

\* The evidence and the commit are written whatever the run is by now.
RecordRepairEvidence ==
  /\ At("evidence") /\ GoTo("commit")
  /\ run' = [run EXCEPT !.repairs[loop.at].evidence = TRUE] /\ Others

RecordRepairCommit ==
  /\ At("commit") /\ GoTo("integrate")
  /\ run' = [run EXCEPT !.repairs[loop.at].commit = TRUE] /\ Others

\* Faulty variant of IntegrateRepair: onto wherever the branch is.
IntegrateRepairAnywhere(pc, next) ==
  /\ At(pc) /\ branch' = Append(branch, loop.at) /\ GoTo(next)
  /\ UNCHANGED <<run, pass, cancel, count>>

\* removeTaskWorktree and integrateCommit.
IntegrateRepair(pc, next) ==
  /\ At(pc) /\ branch = Mine.base /\ branch' = Append(branch, loop.at) /\ GoTo(next)
  /\ UNCHANGED <<run, pass, cancel, count>>

Completable == Mine.state = "validating" /\ Mine.commit /\ run.head = Mine.base

\* Faulty variant of Complete: the review of the repaired head is skipped.
CompleteUnreviewed ==
  [run EXCEPT !.state = "reviewed", !.head = Append(@, loop.at),
              !.repairs[loop.at].state = "succeeded", !.repairs[loop.at].integrated = TRUE,
              !.reviews = [i \in DOMAIN @ |-> IF i \in Mine.findings
                                              THEN [@[i] EXCEPT !.status = "repaired", !.by = loop.at]
                                              ELSE @[i]],
              !.rounds[Mine.round].state = "succeeded"]

Complete ==
  LET head == Append(run.head, loop.at)
      closed == [run.rounds EXCEPT ![Mine.round].state = "succeeded"]
  IN [run EXCEPT !.state = "reviewing", !.head = head,
                 !.repairs[loop.at].state = "succeeded", !.repairs[loop.at].integrated = TRUE,
                 !.reviews = [i \in DOMAIN @ |->
                                IF i \in Mine.findings
                                THEN [@[i] EXCEPT !.status = "repaired", !.by = loop.at] ELSE @[i]],
                 !.rounds = IF Mine.round + 1 \in DOMAIN @ THEN closed ELSE Append(closed, NewRound(head))]

completeRepairIntegration ==
  /\ At("complete")
  /\ IF Completable THEN run' = Complete /\ GoTo("review") ELSE GoTo("abandon") /\ UNCHANGED run
  /\ Others

\* Whatever await of it fails, up to the branch that moved; inside the boundary, that
\* stays open until the failure is recorded.
RepairFails ==
  /\ \/ loop.pc \in {"spawn", "work", "validate"} /\ GoTo("unrepair")
     \/ loop.pc \in {"evidence", "commit", "integrate"} /\ GoTo("abandon")
  /\ UNCHANGED run /\ Others

RecordRepairFailure ==
  /\ loop.pc \in {"unrepair", "abandon"} /\ GoTo("review")
  /\ run' = Kept([SetMine("failed") EXCEPT !.state = "failed", !.rounds[Current].state = "failed"])
  /\ Others

-----------------------------------------------------------------------------
(* runFinalValidation and completeFinalValidationAttempt.                   *)

StartFinalValidation ==
  /\ At("review") /\ run.state = "reviewed" /\ GoTo("final")
  /\ UNCHANGED run /\ Others

Unsettled(i) == run.finals[i].state \in {"running", "interrupted"}
Stale == {i \in DOMAIN run.finals : Unsettled(i)}
LastOf(s) == CHOOSE i \in s : \A j \in s : j <= i

FindStaleAttempt ==
  /\ At("final")
  /\ loop' = IF run.state \notin {"reviewed", "validating"} THEN Idle
             ELSE IF Stale = {} THEN [loop EXCEPT !.pc = "reserve", !.at = 0]
             ELSE [loop EXCEPT !.pc = "stale", !.at = LastOf(Stale)]
  /\ UNCHANGED run /\ Others

\* Its worktree is removed.  Passing evidence for the head is used, and otherwise a
\* new attempt is made.  The write that first interrupts one which was running when it
\* was found is dead: a recovery has done so (FinalsHold of LegacyReviewProofs).
RemoveStaleAttempt ==
  /\ At("stale")
  /\ GoTo(IF run.finals[loop.at].evidence /\ run.finals[loop.at].commit = run.head
          THEN "finish" ELSE "reserve")
  /\ UNCHANGED run /\ Others

\* A failure to remove it is recorded, whatever the run is by now.
RemoveStaleAttemptFails ==
  /\ At("stale") /\ loop' = Idle
  /\ run' = [run EXCEPT !.state = "failed", !.finals[loop.at].state = "failed"]
  /\ Others

ReserveFinalAttempt ==
  /\ At("reserve")
  /\ IF run.state = "reviewed"
     THEN /\ run' = [run EXCEPT !.state = "validating", !.finals =
                       Append(@, [state |-> "running", commit |-> run.head, evidence |-> FALSE])]
          /\ GoWith("check", Len(run.finals) + 1)
     ELSE loop' = Idle /\ UNCHANGED run
  /\ Others

\* The approved suite passes on the head, or the attempt fails or is aborted.
CheckHead ==
  /\ At("check") /\ (GoTo("checked") \/ GoTo("unfinal"))
  /\ UNCHANGED run /\ Others

RecordFinalEvidence ==
  /\ At("checked") /\ GoTo("finish")
  /\ run' = IF run.finals[loop.at].state = "running"
            THEN [run EXCEPT !.finals[loop.at].evidence = TRUE] ELSE run
  /\ Others

\* The worktree of the validation cannot be removed.
RemoveFinalWorktreeFails ==
  /\ At("finish") /\ run.finals[loop.at].state # "interrupted" /\ GoTo("unfinal")
  /\ UNCHANGED run /\ Others

Finishable ==
  /\ run.state \in {"reviewed", "validating"} /\ Unsettled(loop.at)
  /\ run.finals[loop.at].commit = run.head

\* verifyMergeReadyHistory throws while the user has moved on: nothing catches
\* that, and the attempt stays as it is for a resume to find.
CompleteFinalValidation ==
  /\ At("finish") /\ loop' = Idle
  /\ IF Finishable /\ branch = run.head
     THEN run' = [run EXCEPT !.state = "completed", !.finals[loop.at].state = "succeeded",
                             !.ready = <<[head |-> run.head, reviews |-> FinalRound(run), risks |-> Risks(run)]>>]
     ELSE UNCHANGED run
  /\ Others

HistoryNotMergeReady ==
  /\ At("finish") /\ loop' = Idle
  /\ UNCHANGED run /\ Others

RecordFinalFailure ==
  /\ At("unfinal") /\ loop' = Idle
  /\ LET mine == run.finals[loop.at].state = "running"
     IN run' = [run EXCEPT !.state = IF @ = "cancelled" THEN @ ELSE "failed",
                           !.finals[loop.at].state = IF mine THEN "failed" ELSE @]
  /\ Others

-----------------------------------------------------------------------------
(* cancelRun, in this process or in another one that sees no boundary.      *)

Boundary == IF loop.pc \in {"evidence", "commit", "integrate", "complete", "abandon"} THEN loop.at ELSE 0

Cancel ==
  /\ cancel = 0 /\ run.state \notin TerminalRun /\ Boundary # 0
  /\ cancel' = Boundary
  /\ UNCHANGED <<run, branch, loop, pass, count>>

CancelAttempts(attempts) ==
  [i \in DOMAIN attempts |-> IF attempts[i].state \in ActiveStates
                             THEN [attempts[i] EXCEPT !.state = "cancelled"] ELSE attempts[i]]

CancelRounds(rounds) ==
  [n \in DOMAIN rounds |-> IF rounds[n].state \in {"running", "repairing"}
                           THEN [rounds[n] EXCEPT !.state = "cancelled"] ELSE rounds[n]]

Cancelled ==
  [run EXCEPT !.state = "cancelled", !.rounds = CancelRounds(@), !.reviews = CancelAttempts(@),
              !.repairs = CancelAttempts(@), !.finals = CancelAttempts(@)]

CancelRun ==
  /\ \/ cancel = 0 /\ run.state \notin TerminalRun
     \/ cancel # 0 /\ Boundary # cancel
  /\ run' = IF run.state \in TerminalRun THEN run ELSE Cancelled
  /\ cancel' = 0
  /\ UNCHANGED <<branch, loop, pass, count>>

-----------------------------------------------------------------------------
(* recoverRun and resumeAndLaunch, retryAndLaunch, and the crash.           *)

\* Faulty variant of RecoverableRepair: only a repair that is not on the branch yet.
RecoverableUnmerged(i) ==
  /\ run.repairs[i].state = "validating" /\ run.repairs[i].evidence /\ run.repairs[i].commit
  /\ branch = run.repairs[i].base

RecoverableRepair(i) ==
  run.repairs[i].state = "validating" /\ run.repairs[i].evidence /\ run.repairs[i].commit

Resume ==
  /\ At("idle")
  /\ LET found == {i \in DOMAIN run.repairs : RecoverableRepair(i)}
     IN GoWith("recover", IF found = {} THEN 0 ELSE LastOf(found))
  /\ UNCHANGED run /\ Others

RecoverIntegrated ==
  /\ At("recover") /\ loop.at # 0 /\ branch = Append(Mine.base, loop.at) /\ GoTo("recovered")
  /\ UNCHANGED run /\ Others

RecoverIntegrates == loop.at # 0 /\ IntegrateRepair("recover", "recovered")

RecordRecoveredRepair ==
  /\ At("recovered") /\ Completable /\ run' = Complete /\ GoWith("recover", 0) /\ Others

\* Recorded whatever the run is by now; the round is left as it was.
RecoverRepairFails ==
  /\ loop.pc \in {"recover", "recovered"} /\ loop.at # 0 /\ loop' = Idle
  /\ run' = [SetMine("failed") EXCEPT !.state = "failed"]
  /\ Others

Interrupt(attempts) ==
  [i \in DOMAIN attempts |-> IF attempts[i].state \in ActiveStates
                             THEN [attempts[i] EXCEPT !.state = "interrupted"] ELSE attempts[i]]

\* Faulty variant of recoverInterruptedRun: a final validation that was running is kept.
InterruptAttemptsOnly ==
  [run EXCEPT !.reviews = Interrupt(@), !.repairs = Interrupt(@), !.finals = Interrupt(@)]

recoverInterruptedRun ==
  [run EXCEPT !.state = IF @ = "validating" THEN "reviewed" ELSE @,
              !.reviews = Interrupt(@), !.repairs = Interrupt(@), !.finals = Interrupt(@)]

Recover ==
  /\ At("recover") /\ loop.at = 0 /\ run' = recoverInterruptedRun
  /\ IF run'.state \notin TerminalRun /\ branch # run'.head THEN loop' = Idle ELSE GoTo("resume")
  /\ Others

ResumeAndLaunch ==
  /\ At("resume")
  /\ CASE run.state \in {"integrating", "reviewing", "repairing"} -> GoTo("review")
       [] run.state \in {"reviewed", "validating"} -> GoTo("final")
       [] OTHER -> loop' = Idle
  /\ UNCHANGED run /\ Others

LatestInterrupted(attempts, unit) ==
  \E i \in DOMAIN attempts : attempts[i].state = "interrupted"
                             /\ \A j \in DOMAIN attempts : unit[i] = unit[j] => j <= i

\* A failed final validation is all that a retry takes up in this half of a run.
Retryable ==
  /\ run.state = "failed" /\ run.finals # <<>> /\ Last(run.finals).state = "failed"
  /\ ActiveIn(run.reviews) = {} /\ ActiveIn(run.repairs) = {}
  /\ ~LatestInterrupted(run.repairs, [i \in DOMAIN run.repairs |-> run.repairs[i].round])
  /\ ~LatestInterrupted(run.reviews, [i \in DOMAIN run.reviews |->
                                        <<run.reviews[i].round, run.reviews[i].category>>])

Retry ==
  /\ At("idle") /\ Retryable /\ count.retries < MaxRetries
  /\ count' = [count EXCEPT !.retries = @ + 1]
  /\ run' = SetRun("reviewed") /\ GoTo("final")
  /\ UNCHANGED <<branch, pass, cancel>>

Crash ==
  /\ count.crashes < MaxCrashes /\ count' = [count EXCEPT !.crashes = @ + 1]
  /\ loop' = Idle /\ pass' = NoPass /\ cancel' = 0
  /\ UNCHANGED <<run, branch>>

ReviewStep == BeginReview \/ RunReviewRound \/ Leave \/ BatchSettled \/ Judge

PassStep(c) == \/ ReservePass(c) \/ PreparePassFails(c) \/ SpawnPass(c) \/ EndPass(c)
               \/ RecordReport(c) \/ RecordPassFailure(c)

RepairStep == \/ ReserveRepair \/ PrepareRepairFails \/ SpawnRepair \/ EndRepair \/ ValidateRepair
              \/ RecordRepairEvidence \/ RecordRepairCommit \/ IntegrateRepair("integrate", "complete")
              \/ completeRepairIntegration \/ RepairFails \/ RecordRepairFailure

FinalStep == \/ StartFinalValidation \/ FindStaleAttempt \/ RemoveStaleAttempt
             \/ RemoveStaleAttemptFails \/ ReserveFinalAttempt \/ CheckHead \/ RecordFinalEvidence
             \/ RemoveFinalWorktreeFails \/ CompleteFinalValidation \/ HistoryNotMergeReady
             \/ RecordFinalFailure

RecoveryStep == \/ RecoverIntegrated \/ RecoverIntegrates \/ RecordRecoveredRepair
                \/ RecoverRepairFails \/ Recover \/ ResumeAndLaunch

Next == \/ ReviewStep \/ RepairStep \/ FinalStep \/ RecoveryStep
        \/ (\E c \in Categories : PassStep(c))
        \/ Cancel \/ CancelRun \/ Resume \/ Retry \/ Crash

Spec == Init /\ [][Next]_vars

\* The program goes on; nobody has to give a command or crash.
FairSpec ==
  /\ Spec
  /\ WF_vars(ReviewStep \/ RepairStep \/ FinalStep \/ RecoveryStep)
  /\ \A c \in Categories : WF_vars(PassStep(c))

-----------------------------------------------------------------------------
(* Properties.                                                             *)

\* Every write of the lifecycle is one validateStoredRun takes: rounds with the reports
\* they claim, repairs that chain on the head, at most one running final validation and
\* only while the run validates, and evidence that is about the head.
StoreAccepts ==
  /\ TypeOK /\ RoundsSound(run) /\ RepairsSound(run) /\ FinalsSound(run)
  /\ ReviewedSound(run) /\ ReadySound(run) /\ WorkersBounded(run)

\* A run past its reviews was reviewed as it is: the last round looked at the very head
\* that is validated and merged, in every category, and the branch is at that head.
ReviewedAsMerged ==
  run.state \in {"reviewed", "validating", "completed"} =>
    /\ Last(run.rounds).base = run.head /\ branch = run.head
    /\ CategoriesOf(run, FinalRound(run)) = Categories

\* A repair reaches the branch once, and at most two do: the branch is the recorded head,
\* or one commit further, that of a repair with a recorded commit made on that head.
RepairsReachBranchOnce ==
  /\ Len(branch) <= 2 /\ IsInjective(branch)
  /\ \/ branch = run.head
     \/ \E i \in DOMAIN run.repairs :
          branch = Append(run.head, i) /\ run.repairs[i].commit /\ run.repairs[i].base = run.head

\* A repair whose commit is recorded is never interrupted away: a recovery integrates
\* it, finds it on the branch or fails the run, and never repairs the round again.
CommittedRepairKept ==
  [][\A i \in DOMAIN run.repairs :
       run.repairs[i].commit => run'.repairs[i].state # "interrupted"]_vars

\* Whoever holds the lifecycle lease gives it back, through as many rounds as there are.
LifecycleEnds == ~At("idle") ~> At("idle")
=============================================================================
