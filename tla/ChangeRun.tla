------------------------------ MODULE ChangeRun ------------------------------
(***************************************************************************)
(* The lifecycle of one change run, as several host processes drive it:    *)
(* approval, resume, retry and cancellation, the lifecycle lease, and the  *)
(* final validation that makes a completed execution merge ready           *)
(* (workflows/change-run.ts).                                              *)
(*                                                                         *)
(* The run has two durable records, the stored run and the snapshot of the *)
(* engine; no transaction covers both.  The engine is its abstract         *)
(* specification EngineLifecycle, which WorkflowEngine implements.         *)
(***************************************************************************)
EXTENDS Integers, Sequences

CONSTANTS Hosts,        \* the processes a user may run commands in
          NoHost,
          MaxCommands,  \* bound on the commands given
          MaxCrashes    \* bound on the crashes of a process

ASSUME HostsAssumption ==
  /\ NoHost \notin Hosts
  /\ MaxCommands \in Nat
  /\ MaxCrashes \in Nat

VARIABLES
  stored,      \* the lifecycle state of the stored run
  finals,      \* the states of its final validation attempts
  mergeReady,  \* whether it has merge-ready evidence
  life, work,  \* the engine snapshot, "none" before it is created
  lease,       \* the host that last took the lifecycle lease
  pc,          \* where the command of each host is
  command,     \* which command that is
  aborted,     \* the abort signal of its execution
  attempt,     \* the final validation attempt it runs, 0 for none
  cancel,      \* the one cancellation: where it is, and in which host
  commands, crashes

run == <<stored, finals, mergeReady>>
snapshot == <<life, work>>
execution == <<lease, command, aborted, attempt>>
world == <<cancel, commands, crashes>>
vars == <<run, snapshot, execution, pc, world>>

RunState == {"awaiting_approval", "running", "validating", "reviewed",
             "completed", "failed", "cancelled"}
FinalStates == {"running", "succeeded", "failed", "cancelled", "interrupted"}
Terminal == {"completed", "failed", "cancelled"}
Commands == {"approve", "resume", "retry"}

\* The awaits of a command.  Until it has the lease it is idle or claiming; in
\* EnginePc the engine of this host executes the run.
EnginePc == {"launch", "execute"}
EndPc == {"settled", "refused", "threw"}
Pc == {"idle", "claim", "approve", "create", "giveUp", "snapshot", "interrupt",
       "assess", "mark", "recover", "relaunch", "reset", "settle", "finalize",
       "validate"} \cup EnginePc \cup EndPc
CancelPc == {"none", "asked", "engine", "legacy", "storeFailed", "storeCancelled",
             "ended", "refused", "killed"}

Executing == \E h \in Hosts : pc[h] \in EnginePc

Engine == INSTANCE EngineLifecycle WITH on <- Executing

TypeOK ==
  /\ stored \in RunState
  /\ finals \in Seq(FinalStates)
  /\ mergeReady \in BOOLEAN
  /\ life \in Engine!Life \cup {"none"}
  /\ work \in Engine!Work
  /\ lease \in Hosts \cup {NoHost}
  /\ pc \in [Hosts -> Pc]
  /\ command \in [Hosts -> Commands]
  /\ aborted \in [Hosts -> BOOLEAN]
  /\ attempt \in [Hosts -> Nat]
  /\ cancel \in [pc : CancelPc, host : Hosts \cup {NoHost}]
  /\ commands \in 0..MaxCommands
  /\ crashes \in 0..MaxCrashes

Init ==
  /\ stored = "awaiting_approval"
  /\ finals = <<>>
  /\ mergeReady = FALSE
  /\ life = "none" /\ work = "none"
  /\ lease = NoHost
  /\ pc = [h \in Hosts |-> "idle"]
  /\ command = [h \in Hosts |-> "approve"]
  /\ aborted = [h \in Hosts |-> FALSE]
  /\ attempt = [h \in Hosts |-> 0]
  /\ cancel = [pc |-> "none", host |-> NoHost]
  /\ commands = 0 /\ crashes = 0

-----------------------------------------------------------------------------
(* The run store.                                                          *)

IsRunning(f) == \E i \in DOMAIN f : f[i] = "running"
HasSucceeded(f) == \E i \in DOMAIN f : f[i] = "succeeded"

\* What the validator of the store demands of the fields a lifecycle writes.
Valid(s, f, m) ==
  /\ \A i, j \in DOMAIN f : f[i] = "running" /\ f[j] = "running" => i = j
  /\ s = "validating" <=> IsRunning(f)
  /\ m => HasSucceeded(f)
  /\ s = "completed" => m
  /\ s \in {"failed", "cancelled"} => ~m

\* The attempts with the ones in A that still run settled as `to`.
Settled(A, to) ==
  [i \in DOMAIN finals |-> IF i \in A /\ finals[i] = "running" THEN to ELSE finals[i]]

\* A transaction writes what the validator accepts, and throws otherwise.
Write(s, f, m) == Valid(s, f, m) /\ stored' = s /\ finals' = f /\ mergeReady' = m
WriteThrows(s, f, m) == ~Valid(s, f, m) /\ UNCHANGED run

At(h, p) == pc[h] = p
Go(h, p) == pc' = [pc EXCEPT ![h] = p]

Store(h, s, f, m, next) ==
  \/ Write(s, f, m) /\ Go(h, next)
  \/ WriteThrows(s, f, m) /\ Go(h, "threw")

\* Faulty variant of StoreUnlessCancelled: a cancelled run is written too.
StoreEvenCancelled(h, s, f, m, next) == Store(h, s, f, m, next)

\* Most transactions leave a cancelled run as it is.
StoreUnlessCancelled(h, s, f, m, next) ==
  IF stored = "cancelled" THEN UNCHANGED run /\ Go(h, next) ELSE Store(h, s, f, m, next)

-----------------------------------------------------------------------------
(* What a run looks like to a command, and which commands it accepts.      *)

ViewedState ==
  IF life = "none" \/ stored = "awaiting_approval" THEN stored
  ELSE IF life = "cancelled" \/ stored = "cancelled" THEN "cancelled"
  ELSE IF stored \in {"completed", "failed", "validating"} THEN stored
  ELSE IF life = "failed" THEN "failed"
  ELSE IF life = "completed" THEN "reviewed"
  ELSE "running"

LastFinalIs(s) == finals # <<>> /\ finals[Len(finals)] = s

\* A failed run is retried from its failed steps, or its failed validation.
RetryAccepted ==
  /\ life # "none"
  /\ ViewedState = "failed"
  /\ work \notin {"active", "interrupted"}
  /\ ~IsRunning(finals) /\ ~LastFinalIs("interrupted")
  /\ work = "failed" \/ LastFinalIs("failed")

Accepts(c) ==
  CASE c = "approve" -> stored = "awaiting_approval"
    [] c = "resume" -> stored \notin {"awaiting_approval", "failed", "cancelled"}
    [] c = "retry" -> RetryAccepted

FirstStep(c) ==
  CASE c = "approve" -> "approve"
    [] c = "resume" -> "snapshot"
    [] c = "retry" -> "assess"

\* The handler looks at the run before it waits for the lease.
Command(h, c) ==
  /\ At(h, "idle")
  /\ commands < MaxCommands
  /\ Accepts(c)
  /\ commands' = commands + 1
  /\ command' = [command EXCEPT ![h] = c]
  /\ Go(h, "claim")
  /\ UNCHANGED <<run, snapshot, lease, aborted, attempt, cancel, crashes>>

\* Faulty variant of LeaseFree: only an executing engine holds the lease.
LeaseFreeOfEngines == \A g \in Hosts : lease = g => pc[g] \notin EnginePc

\* The lease of a process that died goes stale: its host is idle again, or
\* waits for the lease itself.
LeaseFree == \A g \in Hosts : lease = g => pc[g] \in {"idle", "claim"}

Claim(h) ==
  /\ At(h, "claim")
  /\ LeaseFree
  /\ lease' = h
  /\ Go(h, FirstStep(command[h]))
  /\ UNCHANGED <<run, snapshot, command, aborted, attempt, world>>

ClaimTimesOut(h) ==
  /\ At(h, "claim")
  /\ Go(h, "idle")
  /\ aborted' = [aborted EXCEPT ![h] = FALSE]
  /\ UNCHANGED <<run, snapshot, lease, command, attempt, world>>

\* Faulty variant of Release: a command that throws keeps its lease.
ReleaseSettled(h) ==
  /\ At(h, "settled")
  /\ Go(h, "idle")
  /\ lease' = NoHost
  /\ aborted' = [aborted EXCEPT ![h] = FALSE]
  /\ attempt' = [attempt EXCEPT ![h] = 0]
  /\ UNCHANGED <<run, snapshot, command, world>>

Release(h) ==
  /\ pc[h] \in EndPc
  /\ Go(h, "idle")
  /\ lease' = NoHost
  /\ aborted' = [aborted EXCEPT ![h] = FALSE]
  /\ attempt' = [attempt EXCEPT ![h] = 0]
  /\ UNCHANGED <<run, snapshot, command, world>>

-----------------------------------------------------------------------------
(* Approval: the plan is approved in the stored run, then the snapshot is  *)
(* created.                                                                *)

Approve(h) ==
  /\ At(h, "approve")
  /\ IF stored = "awaiting_approval"
     THEN Store(h, "running", finals, mergeReady, "create")
     ELSE Go(h, "refused") /\ UNCHANGED run
  /\ UNCHANGED <<snapshot, execution, world>>

CreateSnapshot(h) ==
  /\ pc[h] \in {"create", "snapshot"}
  /\ life = "none"
  /\ life' = "running" /\ work' = "none"
  /\ Go(h, IF pc[h] = "create" THEN "launch" ELSE "interrupt")
  /\ UNCHANGED <<run, execution, world>>

\* The integration branch or the snapshot cannot be created.
CreateFails(h) ==
  /\ At(h, "create")
  /\ Go(h, "giveUp")
  /\ UNCHANGED <<run, snapshot, execution, world>>

\* An approval that cannot start fails the run, whatever became of it.
GiveUp(h) ==
  /\ At(h, "giveUp")
  /\ Store(h, "failed", finals, mergeReady, "refused")
  /\ UNCHANGED <<snapshot, execution, world>>

\* Git or the preflight of the workers throws, with nothing written.
Throws(h) ==
  /\ pc[h] \in {"approve", "snapshot", "recover"}
  /\ Go(h, "refused")
  /\ UNCHANGED <<run, snapshot, execution, world>>

-----------------------------------------------------------------------------
(* Resume and retry.                                                       *)

HasSnapshot(h) ==
  /\ At(h, "snapshot")
  /\ life # "none"
  /\ Go(h, "interrupt")
  /\ UNCHANGED <<run, snapshot, execution, world>>

\* Faulty variant of InterruptStaleFinalValidation: its attempt is forgotten.
InterruptRunOnly(h) ==
  /\ At(h, "interrupt")
  /\ IF stored = "validating"
     THEN Store(h, "reviewed", finals, mergeReady, "mark")
     ELSE Go(h, "mark") /\ UNCHANGED run
  /\ UNCHANGED <<snapshot, execution, world>>

\* A final validation that was running when its process died is interrupted.
InterruptStaleFinalValidation(h) ==
  /\ At(h, "interrupt")
  /\ IF stored = "validating"
     THEN Store(h, "reviewed", Settled(DOMAIN finals, "interrupted"), mergeReady, "mark")
     ELSE Go(h, "mark") /\ UNCHANGED run
  /\ UNCHANGED <<snapshot, execution, world>>

\* A retry looks again once it has the lease.
Assess(h) ==
  /\ At(h, "assess")
  /\ Go(h, IF RetryAccepted THEN "mark" ELSE "refused")
  /\ UNCHANGED <<run, snapshot, execution, world>>

MarkExecuting(h) ==
  /\ At(h, "mark")
  /\ StoreUnlessCancelled(h, "running", finals, mergeReady,
       IF command[h] = "retry" THEN "reset" ELSE "recover")
  /\ UNCHANGED <<snapshot, execution, world>>

\* Recovery settles what was active.  A step it interrupted beyond its budget
\* has failed, and runs again at once; a failure that an earlier resume left
\* behind fails the run again, with nothing to run.
Recover(h) ==
  /\ At(h, "recover")
  /\ life' \in Engine!Life /\ work' \in Engine!Work
  /\ \E again \in BOOLEAN :
       /\ again => work = "active" /\ work' = "interrupted" /\ life' # "running"
       /\ Go(h, IF again THEN "relaunch" ELSE IF life' = "running" THEN "launch" ELSE "settle")
  /\ Engine!Recover
  /\ UNCHANGED <<run, execution, world>>

RelaunchInterruptedSteps(h) ==
  /\ At(h, "relaunch")
  /\ Go(h, "launch")
  /\ Engine!Relaunch
  /\ UNCHANGED <<run, execution, world>>

\* A retry plans the failed steps again, or validates a completed run again.
RetryFailedSteps(h) ==
  /\ At(h, "reset")
  /\ life # "cancelled"
  /\ Go(h, "launch")
  /\ Engine!Reopen
  /\ UNCHANGED <<run, execution, world>>

RetryFinalization(h) ==
  /\ At(h, "reset")
  /\ life = "cancelled" \/ work # "failed"
  /\ Go(h, IF life = "completed" THEN "settle" ELSE "refused")
  /\ UNCHANGED <<run, snapshot, execution, world>>

-----------------------------------------------------------------------------
(* The execution, and what settles it.                                     *)

Launch(h) ==
  /\ At(h, "launch")
  /\ Go(h, "execute")
  /\ UNCHANGED <<run, snapshot, execution, world>>

Execute(h) ==
  /\ At(h, "execute")
  /\ UNCHANGED pc
  /\ Engine!Execute
  /\ UNCHANGED <<run, execution, world>>

Return(h) ==
  /\ At(h, "execute")
  /\ Go(h, "settle")
  /\ Engine!Return
  /\ UNCHANGED <<run, execution, world>>

\* A run that did not complete ends as its snapshot did.
SettleStopped(h) ==
  /\ At(h, "settle")
  /\ life # "completed"
  /\ StoreUnlessCancelled(h, IF life = "cancelled" THEN "cancelled" ELSE "failed",
       finals, mergeReady, "settled")
  /\ UNCHANGED <<snapshot, execution, world>>

\* Faulty variant of SettleCompleted: any settled snapshot is finalized.
SettleAnything(h) ==
  /\ At(h, "settle")
  /\ Go(h, "finalize")
  /\ UNCHANGED <<run, snapshot, execution, world>>

SettleCompleted(h) ==
  /\ At(h, "settle")
  /\ life = "completed"
  /\ Go(h, "finalize")
  /\ UNCHANGED <<run, snapshot, execution, world>>

\* Faulty variant of EvidenceGap: the gap is only shown.
EvidenceGapShown(h) ==
  /\ At(h, "finalize")
  /\ Go(h, "settled")
  /\ UNCHANGED <<run, snapshot, execution, world>>

\* The reviews do not cover the final head, or cannot be read.
EvidenceGap(h) ==
  /\ At(h, "finalize")
  /\ StoreUnlessCancelled(h, "failed", finals, mergeReady, "settled")
  /\ UNCHANGED <<snapshot, execution, world>>

\* cancelStoredRun: an open run is cancelled, with its final validation.
CancelStored(h, next) ==
  IF stored \in Terminal
  THEN UNCHANGED run /\ Go(h, next)
  ELSE Store(h, "cancelled", Settled(DOMAIN finals, "cancelled"), mergeReady, next)

AbortedBeforeValidation(h) ==
  /\ At(h, "finalize")
  /\ aborted[h]
  /\ CancelStored(h, "settled")
  /\ UNCHANGED <<snapshot, execution, world>>

NextAttempt == Len(finals) + 1

StartValidation(h) ==
  /\ At(h, "finalize")
  /\ ~aborted[h]
  /\ IF stored = "cancelled"
     THEN UNCHANGED <<run, attempt>> /\ Go(h, "settled")
     ELSE /\ Store(h, "validating", Append(finals, "running"), mergeReady, "validate")
          /\ attempt' = [attempt EXCEPT ![h] = NextAttempt]
  /\ UNCHANGED <<snapshot, lease, command, aborted, world>>

\* The suite passed and the history verified, or the attempt failed.  The abort
\* is read before the transaction waits for its lock, so it may come too late.
EndValidation(h) ==
  /\ At(h, "validate")
  /\ LET settle(s, to, m) ==
           StoreUnlessCancelled(h, s, Settled({attempt[h]}, to), m, "settled")
     IN \/ aborted[h] /\ settle("cancelled", "cancelled", mergeReady)
        \/ settle("completed", "succeeded", TRUE)
        \/ settle("failed", "failed", mergeReady)
  /\ UNCHANGED <<snapshot, execution, world>>

-----------------------------------------------------------------------------
(* Cancellation, a command of its own in any host.                         *)

CancelTo(p) == cancel' = [cancel EXCEPT !.pc = p]

RequestCancel(h) ==
  /\ cancel.pc = "none"
  /\ ViewedState \notin Terminal
  /\ cancel' = [pc |-> "asked", host |-> h]
  /\ UNCHANGED <<run, snapshot, execution, pc, commands, crashes>>

\* A run with a snapshot is cancelled by the engine, which aborts the execution
\* in this host; one without goes to the orchestrator, which knows of none.
ChooseCancel ==
  /\ cancel.pc = "asked"
  /\ CancelTo(IF life = "none" THEN "legacy" ELSE "engine")
  /\ aborted' = [aborted EXCEPT ![cancel.host] =
                   @ \/ (life # "none" /\ ~At(cancel.host, "idle"))]
  /\ UNCHANGED <<run, snapshot, lease, command, attempt, pc, commands, crashes>>

\* An engine executing here settles itself; any other running snapshot is
\* settled at once, whoever executes it.
CancelEngine ==
  /\ cancel.pc = "engine"
  /\ IF At(cancel.host, "execute") \/ life # "running"
     THEN UNCHANGED snapshot
     ELSE UNCHANGED pc /\ Engine!Cancel
  /\ CancelTo(IF life' = "failed" THEN "storeFailed" ELSE "storeCancelled")
  /\ UNCHANGED <<run, execution, pc, commands, crashes>>

StoreCancel(s, f) ==
  /\ IF stored \in Terminal THEN UNCHANGED run /\ CancelTo("ended")
     ELSE \/ Write(s, f, mergeReady) /\ CancelTo("ended")
          \/ WriteThrows(s, f, mergeReady) /\ CancelTo("refused")
  /\ UNCHANGED <<snapshot, execution, pc, commands, crashes>>

CancelStoredRun ==
  /\ cancel.pc \in {"storeCancelled", "legacy"}
  /\ StoreCancel("cancelled", Settled(DOMAIN finals, "cancelled"))

\* A snapshot that failed under the cancellation fails the stored run.
CancelFailedRun == cancel.pc = "storeFailed" /\ StoreCancel("failed", finals)

-----------------------------------------------------------------------------

\* The process of h dies with its command, its engine and its cancellation.
Crash(h) ==
  /\ ~At(h, "idle")
  /\ crashes < MaxCrashes
  /\ crashes' = crashes + 1
  /\ Go(h, "idle")
  /\ aborted' = [aborted EXCEPT ![h] = FALSE]
  /\ attempt' = [attempt EXCEPT ![h] = 0]
  /\ IF cancel.host = h /\ cancel.pc \notin {"none", "ended", "refused"}
     THEN CancelTo("killed") ELSE UNCHANGED cancel
  /\ UNCHANGED <<run, snapshot, lease, command, commands>>

\* The loop of the engine throws: its last transaction was refused.
EngineThrows(h) ==
  /\ pc[h] \in EnginePc
  /\ Go(h, "refused")
  /\ Engine!Crash
  /\ UNCHANGED <<run, execution, world>>

\* What a command does by itself once it has the lease.
LifecycleStep(h) ==
  \/ Approve(h) \/ CreateSnapshot(h) \/ CreateFails(h) \/ GiveUp(h) \/ Throws(h)
  \/ HasSnapshot(h) \/ InterruptStaleFinalValidation(h) \/ Assess(h) \/ MarkExecuting(h)
  \/ Recover(h) \/ RelaunchInterruptedSteps(h)
  \/ RetryFailedSteps(h) \/ RetryFinalization(h) \/ Launch(h)
  \/ SettleStopped(h) \/ SettleCompleted(h) \/ EvidenceGap(h)
  \/ AbortedBeforeValidation(h) \/ StartValidation(h) \/ EndValidation(h)
  \/ Release(h)

EngineStep(h) == Execute(h) \/ Return(h) \/ EngineThrows(h)

CancelStep == ChooseCancel \/ CancelEngine \/ CancelStoredRun \/ CancelFailedRun

Next ==
  \/ \E h \in Hosts :
       \/ \E c \in Commands : Command(h, c)
       \/ Claim(h) \/ ClaimTimesOut(h) \/ LifecycleStep(h) \/ EngineStep(h)
       \/ RequestCancel(h) \/ Crash(h)
  \/ CancelStep

Spec == Init /\ [][Next]_vars

\* The promises of a live process come due, a waiting command gives up, and an
\* execution returns (ExecutionSettles of WorkflowEngine).
FairSpec ==
  /\ Spec
  /\ \A h \in Hosts :
       /\ WF_vars(LifecycleStep(h))
       /\ WF_vars(Claim(h) \/ ClaimTimesOut(h))
       /\ WF_vars(Return(h) \/ EngineThrows(h))

-----------------------------------------------------------------------------
(* What the lifecycle promises.                                            *)

\* A stored run is completed only on a completed execution, merge-ready
\* evidence and a final validation that passed after every other one.
CompletedIsProved ==
  stored = "completed" => life = "completed" /\ mergeReady /\ LastFinalIs("succeeded")

\* A command that settled its run leaves it settled until it gives the lease
\* back: nothing that raced with it reopens the run (settle, markExecuting).
SettledIsFinal == \A h \in Hosts : At(h, "settled") => stored \in Terminal

\* A final validation that runs is the running attempt of a validating run,
\* unless the run was cancelled under it (onValidationReady, cancelStoredRun).
ValidationTracked ==
  \A h \in Hosts : At(h, "validate") =>
    \/ stored = "cancelled"
    \/ stored = "validating" /\ attempt[h] = Len(finals) /\ LastFinalIs("running")

\* No command makes a run the store refuses, except from a completed run that
\* was reopened with its evidence.
OnlyReopenedRunsRefused == \A h \in Hosts : At(h, "threw") => mergeReady

\* Final validation attempts are only added, and a settled one never changes:
\* late results, cancellations and interruptions settle what still runs.
FinalHistoryKept ==
  [][\A i \in DOMAIN finals :
       i \in DOMAIN finals' /\ (finals[i] # "running" => finals'[i] = finals[i])]_vars

\* "A cancelled run stays cancelled" (markExecuting), once it has a snapshot.
CancelledIsFinal == [][stored = "cancelled" /\ life # "none" => stored' = "cancelled"]_vars

\* What a run has ended with is never taken back: neither a validation attempt
\* nor a cancellation, by whatever command or execution still runs.
EndsAreFinal == FinalHistoryKept /\ CancelledIsFinal

\* Every command ends, whatever races with it, and gives its lease back.
CommandsEnd == \A h \in Hosts : ~At(h, "idle") ~> At(h, "idle")

-----------------------------------------------------------------------------
(* A claim of the code that it does not meet.                              *)

\* "so a cancelled run never stays open" (ChangeRun.cancel): when it is over,
\* the run is settled.
CancelledNeverOpen ==
  [][CancelStoredRun \/ CancelFailedRun => cancel.pc = "legacy" \/ stored' \in Terminal]_vars
=============================================================================
