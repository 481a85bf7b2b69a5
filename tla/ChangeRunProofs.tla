--------------------------- MODULE ChangeRunProofs ---------------------------
(***************************************************************************)
(* The safety of the change run lifecycle, for any number of hosts,        *)
(* commands and crashes.                                                   *)
(***************************************************************************)
EXTENDS ChangeRun, SequenceTheorems, TLAPS

Working(h) == pc[h] \notin {"idle", "claim"}

\* The two records: nothing is validated before the execution completed, and
\* the last attempt of a completed run passed.
RecordInv ==
  /\ Valid(stored, finals, mergeReady)
  /\ life = "completed" => work = "none"
  /\ finals # <<>> => life = "completed"
  /\ stored = "awaiting_approval" => life = "none"
  /\ stored = "completed" => LastFinalIs("succeeded")

Quiet == {"create", "giveUp", "mark", "recover", "relaunch", "reset", "settle",
          "finalize"} \cup EnginePc
Started == {"interrupt", "mark", "recover", "relaunch", "reset", "settle",
            "finalize", "validate"} \cup EnginePc

\* What a host knows at each of its awaits: it has the lease, so only a
\* cancellation can change the records under it.
HostInv(h) ==
  /\ Working(h) => lease = h
  /\ pc[h] \in {"create", "giveUp"} => life = "none"
  /\ pc[h] \in Started => life # "none"
  /\ pc[h] \in {"finalize", "validate"} => life = "completed"
  /\ pc[h] \in Quiet => stored # "validating"
  /\ pc[h] \in {"create", "snapshot"} \/ (pc[h] = "claim" /\ command[h] = "resume")
       => stored # "awaiting_approval"
  /\ pc[h] = "validate" =>
       \/ stored = "cancelled"
       \/ stored = "validating" /\ attempt[h] = Len(finals) /\ LastFinalIs("running")
  /\ pc[h] = "settled" => stored \in Terminal
  /\ pc[h] = "threw" => mergeReady

Inv == TypeOK /\ RecordInv /\ \A h \in Hosts : HostInv(h)

USE DEF run, snapshot, execution, world, Terminal, Commands, EnginePc, EndPc, At, Go

-----------------------------------------------------------------------------
(* Final validation attempts.                                              *)

\* A new attempt is the last one.
LEMMA AppendFacts ==
  ASSUME NEW S, NEW s \in Seq(S), NEW e \in S
  PROVE  /\ Append(s, e) \in Seq(S) /\ Append(s, e) # <<>>
         /\ Len(s) \in Nat /\ Len(Append(s, e)) = Len(s) + 1
         /\ DOMAIN s = 1..Len(s) /\ DOMAIN Append(s, e) = 1..(Len(s) + 1)
         /\ \A i \in DOMAIN s : Append(s, e)[i] = s[i]
         /\ Append(s, e)[Len(s) + 1] = e
  <1>1. /\ Append(s, e) \in Seq(S) /\ Append(s, e) # <<>>
        /\ Len(Append(s, e)) = Len(s) + 1
        /\ \A i \in 1..Len(s) : Append(s, e)[i] = s[i]
        /\ Append(s, e)[Len(s) + 1] = e
    BY AppendProperties
  <1>2. Len(s) \in Nat /\ DOMAIN s = 1..Len(s)
    BY LenProperties
  <1>3. DOMAIN Append(s, e) = 1..(Len(s) + 1)
    BY <1>1, LenProperties
  <1> QED
    BY <1>1, <1>2, <1>3

\* The last attempt, if there is one.
LEMMA LastFacts ==
  ASSUME NEW S, NEW s \in Seq(S), s # <<>>
  PROVE  DOMAIN s = 1..Len(s) /\ Len(s) \in DOMAIN s
  <1>1. DOMAIN s = 1..Len(s) /\ Len(s) \in Nat \ {0}
    BY LenProperties, EmptySeq
  <1> QED
    BY <1>1

\* Settling keeps the number of attempts and the ones that had ended.
LEMMA SettledFacts ==
  ASSUME TypeOK, NEW A, NEW to \in FinalStates
  PROVE  /\ Settled(A, to) \in Seq(FinalStates)
         /\ Len(Settled(A, to)) = Len(finals)
         /\ DOMAIN Settled(A, to) = DOMAIN finals
         /\ finals = <<>> <=> Settled(A, to) = <<>>
         /\ \A i \in DOMAIN finals :
              Settled(A, to)[i] = IF i \in A /\ finals[i] = "running" THEN to ELSE finals[i]
  <1>1. finals \in Seq(FinalStates)
    BY DEF TypeOK
  <1>2. DOMAIN finals = 1..Len(finals) /\ Len(finals) \in Nat
    BY <1>1
  <1>3. \A i \in 1..Len(finals) : finals[i] \in FinalStates
    BY <1>1
  <1>4. Settled(A, to) \in [1..Len(finals) -> FinalStates]
    BY <1>2, <1>3 DEF Settled
  <1>5. Settled(A, to) \in Seq(FinalStates)
    BY <1>2, <1>4, SeqDef
  <1>6. Len(Settled(A, to)) = Len(finals)
    BY <1>2, <1>4, <1>5
  <1>7. finals = <<>> <=> Settled(A, to) = <<>>
    BY <1>1, <1>5, <1>6
  <1> QED
    BY <1>2, <1>4, <1>5, <1>6, <1>7 DEF Settled

\* Settling everything that runs leaves nothing running.
LEMMA SettledNone ==
  ASSUME TypeOK, NEW A, NEW to \in FinalStates \ {"running"},
         \A i \in DOMAIN finals : finals[i] = "running" => i \in A
  PROVE  /\ ~IsRunning(Settled(A, to))
         /\ \A i, j \in DOMAIN Settled(A, to) :
              Settled(A, to)[i] = "running" /\ Settled(A, to)[j] = "running" => i = j
         /\ HasSucceeded(finals) => HasSucceeded(Settled(A, to))
  BY SettledFacts DEF IsRunning, HasSucceeded

\* What the engine may do to a snapshot that exists.
EngineActs ==
  \/ Engine!Execute \/ Engine!Return \/ Engine!Crash \/ Engine!Cancel
  \/ Engine!Recover \/ Engine!Relaunch \/ Engine!Reopen

LEMMA EngineFacts ==
  ASSUME TypeOK, RecordInv, life # "none", EngineActs
  PROVE  /\ life' \in Engine!Life /\ work' \in Engine!Work
         /\ life = "completed" => life' = "completed"
         /\ life' = "completed" => work' = "none"
  BY DEF TypeOK, RecordInv, EngineActs, Engine!Life, Engine!Work, Engine!Execute,
     Engine!Running, Engine!Ending, Engine!Stopping, Engine!Return, Engine!Crash,
     Engine!Cancel, Engine!Recover, Engine!Relaunch, Engine!Reopen, Engine!Ends,
     Engine!NothingStarts

\* A step of the host that works: the others wait, and nobody takes a run back
\* to its approval.
LEMMA OwnStep ==
  ASSUME Inv, NEW h \in Hosts, Working(h),
         TypeOK', RecordInv', HostInv(h)',
         \A g \in Hosts \ {h} : pc'[g] = pc[g] /\ command'[g] = command[g],
         stored' = "awaiting_approval" => stored = "awaiting_approval"
  PROVE  Inv'
  <1>1. ASSUME NEW g \in Hosts \ {h} PROVE HostInv(g)'
    <2>1. pc[g] \in {"idle", "claim"}
      BY DEF Inv, HostInv, Working
    <2> QED
      BY <2>1 DEF Inv, HostInv, Working, Quiet, Started
  <1> QED
    BY <1>1 DEF Inv

\* A step that leaves the records, the lease and the other hosts alone.
LEMMA AsideStep ==
  ASSUME Inv, NEW h \in Hosts, TypeOK', HostInv(h)',
         UNCHANGED <<run, snapshot, lease>>,
         \A g \in Hosts \ {h} :
           pc'[g] = pc[g] /\ command'[g] = command[g] /\ attempt'[g] = attempt[g]
  PROVE  Inv'
  <1>1. RecordInv'
    BY DEF Inv, RecordInv, Valid, IsRunning, HasSucceeded, LastFinalIs
  <1>2. ASSUME NEW g \in Hosts \ {h} PROVE HostInv(g)'
    BY DEF Inv, HostInv, Working, Quiet, Started, LastFinalIs
  <1> QED
    BY <1>1, <1>2 DEF Inv

-----------------------------------------------------------------------------
(* One lemma per action.                                                   *)

LEMMA ReleaseStep ==
  ASSUME Inv, NEW h \in Hosts, Release(h)
  PROVE  Inv'
  <1> USE DEF Release
  <1>1. TypeOK'
    BY SMTT(30) DEF Inv, TypeOK, Pc
  <1>2. RecordInv'
    BY SMTT(30) DEF Inv, HostInv, Quiet, Started, RecordInv, Valid, IsRunning, HasSucceeded, LastFinalIs
  <1>3. HostInv(h)'
    BY SMTT(30) DEF Inv, TypeOK, HostInv, Working, Quiet, Started, RecordInv, Valid, IsRunning, HasSucceeded, LastFinalIs
  <1>4. /\ \A g \in Hosts \ {h} : pc'[g] = pc[g] /\ command'[g] = command[g]
        /\ stored' = "awaiting_approval" => stored = "awaiting_approval"
    BY DEF Inv, TypeOK
  <1> QED
    BY <1>1, <1>2, <1>3, <1>4, OwnStep DEF Working

LEMMA ApproveStep ==
  ASSUME Inv, NEW h \in Hosts, Approve(h)
  PROVE  Inv'
  <1> USE DEF Approve, StoreUnlessCancelled, Store, Write, WriteThrows, RunState
  <1>1. TypeOK'
    BY SMTT(30) DEF Inv, TypeOK, Pc
  <1>2. RecordInv'
    BY SMTT(30) DEF Inv, HostInv, Quiet, Started, RecordInv, Valid, IsRunning, HasSucceeded, LastFinalIs
  <1>3. HostInv(h)'
    BY SMTT(30) DEF Inv, TypeOK, HostInv, Working, Quiet, Started, RecordInv, Valid, IsRunning, HasSucceeded, LastFinalIs
  <1>4. /\ \A g \in Hosts \ {h} : pc'[g] = pc[g] /\ command'[g] = command[g]
        /\ stored' = "awaiting_approval" => stored = "awaiting_approval"
    BY DEF Inv, TypeOK
  <1> QED
    BY <1>1, <1>2, <1>3, <1>4, OwnStep DEF Working

LEMMA CreateSnapshotStep ==
  ASSUME Inv, NEW h \in Hosts, CreateSnapshot(h)
  PROVE  Inv'
  <1> USE DEF CreateSnapshot, Engine!Life, Engine!Work
  <1>1. TypeOK'
    BY SMTT(30) DEF Inv, TypeOK, Pc
  <1>2. RecordInv'
    BY SMTT(30) DEF Inv, HostInv, Quiet, Started, RecordInv, Valid, IsRunning, HasSucceeded, LastFinalIs
  <1>3. HostInv(h)'
    BY SMTT(30) DEF Inv, TypeOK, HostInv, Working, Quiet, Started, RecordInv, Valid, IsRunning, HasSucceeded, LastFinalIs
  <1>4. /\ \A g \in Hosts \ {h} : pc'[g] = pc[g] /\ command'[g] = command[g]
        /\ stored' = "awaiting_approval" => stored = "awaiting_approval"
    BY DEF Inv, TypeOK
  <1> QED
    BY <1>1, <1>2, <1>3, <1>4, OwnStep DEF Working

LEMMA CreateFailsStep ==
  ASSUME Inv, NEW h \in Hosts, CreateFails(h)
  PROVE  Inv'
  <1> USE DEF CreateFails
  <1>1. TypeOK'
    BY SMTT(30) DEF Inv, TypeOK, Pc
  <1>2. RecordInv'
    BY SMTT(30) DEF Inv, HostInv, Quiet, Started, RecordInv, Valid, IsRunning, HasSucceeded, LastFinalIs
  <1>3. HostInv(h)'
    BY SMTT(30) DEF Inv, TypeOK, HostInv, Working, Quiet, Started, RecordInv, Valid, IsRunning, HasSucceeded, LastFinalIs
  <1>4. /\ \A g \in Hosts \ {h} : pc'[g] = pc[g] /\ command'[g] = command[g]
        /\ stored' = "awaiting_approval" => stored = "awaiting_approval"
    BY DEF Inv, TypeOK
  <1> QED
    BY <1>1, <1>2, <1>3, <1>4, OwnStep DEF Working

LEMMA GiveUpStep ==
  ASSUME Inv, NEW h \in Hosts, GiveUp(h)
  PROVE  Inv'
  <1> USE DEF GiveUp, StoreUnlessCancelled, Store, Write, WriteThrows, RunState
  <1>1. TypeOK'
    BY SMTT(30) DEF Inv, TypeOK, Pc
  <1>2. RecordInv'
    BY SMTT(30) DEF Inv, HostInv, Quiet, Started, RecordInv, Valid, IsRunning, HasSucceeded, LastFinalIs
  <1>3. HostInv(h)'
    BY SMTT(30) DEF Inv, TypeOK, HostInv, Working, Quiet, Started, RecordInv, Valid, IsRunning, HasSucceeded, LastFinalIs
  <1>4. /\ \A g \in Hosts \ {h} : pc'[g] = pc[g] /\ command'[g] = command[g]
        /\ stored' = "awaiting_approval" => stored = "awaiting_approval"
    BY DEF Inv, TypeOK
  <1> QED
    BY <1>1, <1>2, <1>3, <1>4, OwnStep DEF Working

LEMMA ThrowsStep ==
  ASSUME Inv, NEW h \in Hosts, Throws(h)
  PROVE  Inv'
  <1> USE DEF Throws
  <1>1. TypeOK'
    BY SMTT(30) DEF Inv, TypeOK, Pc
  <1>2. RecordInv'
    BY SMTT(30) DEF Inv, HostInv, Quiet, Started, RecordInv, Valid, IsRunning, HasSucceeded, LastFinalIs
  <1>3. HostInv(h)'
    BY SMTT(30) DEF Inv, TypeOK, HostInv, Working, Quiet, Started, RecordInv, Valid, IsRunning, HasSucceeded, LastFinalIs
  <1>4. /\ \A g \in Hosts \ {h} : pc'[g] = pc[g] /\ command'[g] = command[g]
        /\ stored' = "awaiting_approval" => stored = "awaiting_approval"
    BY DEF Inv, TypeOK
  <1> QED
    BY <1>1, <1>2, <1>3, <1>4, OwnStep DEF Working

LEMMA HasSnapshotStep ==
  ASSUME Inv, NEW h \in Hosts, HasSnapshot(h)
  PROVE  Inv'
  <1> USE DEF HasSnapshot
  <1>1. TypeOK'
    BY SMTT(30) DEF Inv, TypeOK, Pc
  <1>2. RecordInv'
    BY SMTT(30) DEF Inv, HostInv, Quiet, Started, RecordInv, Valid, IsRunning, HasSucceeded, LastFinalIs
  <1>3. HostInv(h)'
    BY SMTT(30) DEF Inv, TypeOK, HostInv, Working, Quiet, Started, RecordInv, Valid, IsRunning, HasSucceeded, LastFinalIs
  <1>4. /\ \A g \in Hosts \ {h} : pc'[g] = pc[g] /\ command'[g] = command[g]
        /\ stored' = "awaiting_approval" => stored = "awaiting_approval"
    BY DEF Inv, TypeOK
  <1> QED
    BY <1>1, <1>2, <1>3, <1>4, OwnStep DEF Working

LEMMA AssessStep ==
  ASSUME Inv, NEW h \in Hosts, Assess(h)
  PROVE  Inv'
  <1> USE DEF Assess, RetryAccepted, ViewedState
  <1>1. TypeOK'
    BY SMTT(30) DEF Inv, TypeOK, Pc
  <1>2. RecordInv'
    BY SMTT(30) DEF Inv, HostInv, Quiet, Started, RecordInv, Valid, IsRunning, HasSucceeded, LastFinalIs
  <1>3. HostInv(h)'
    BY SMTT(30) DEF Inv, TypeOK, HostInv, Working, Quiet, Started, RecordInv, Valid, IsRunning, HasSucceeded, LastFinalIs
  <1>4. /\ \A g \in Hosts \ {h} : pc'[g] = pc[g] /\ command'[g] = command[g]
        /\ stored' = "awaiting_approval" => stored = "awaiting_approval"
    BY DEF Inv, TypeOK
  <1> QED
    BY <1>1, <1>2, <1>3, <1>4, OwnStep DEF Working

LEMMA MarkExecutingStep ==
  ASSUME Inv, NEW h \in Hosts, MarkExecuting(h)
  PROVE  Inv'
  <1> USE DEF MarkExecuting, StoreUnlessCancelled, Store, Write, WriteThrows, RunState
  <1>1. TypeOK'
    BY SMTT(30) DEF Inv, TypeOK, Pc
  <1>2. RecordInv'
    BY SMTT(30) DEF Inv, HostInv, Quiet, Started, RecordInv, Valid, IsRunning, HasSucceeded, LastFinalIs
  <1>3. HostInv(h)'
    BY SMTT(30) DEF Inv, TypeOK, HostInv, Working, Quiet, Started, RecordInv, Valid, IsRunning, HasSucceeded, LastFinalIs
  <1>4. /\ \A g \in Hosts \ {h} : pc'[g] = pc[g] /\ command'[g] = command[g]
        /\ stored' = "awaiting_approval" => stored = "awaiting_approval"
    BY DEF Inv, TypeOK
  <1> QED
    BY <1>1, <1>2, <1>3, <1>4, OwnStep DEF Working

LEMMA RetryFinalizationStep ==
  ASSUME Inv, NEW h \in Hosts, RetryFinalization(h)
  PROVE  Inv'
  <1> USE DEF RetryFinalization
  <1>1. TypeOK'
    BY SMTT(30) DEF Inv, TypeOK, Pc
  <1>2. RecordInv'
    BY SMTT(30) DEF Inv, HostInv, Quiet, Started, RecordInv, Valid, IsRunning, HasSucceeded, LastFinalIs
  <1>3. HostInv(h)'
    BY SMTT(30) DEF Inv, TypeOK, HostInv, Working, Quiet, Started, RecordInv, Valid, IsRunning, HasSucceeded, LastFinalIs
  <1>4. /\ \A g \in Hosts \ {h} : pc'[g] = pc[g] /\ command'[g] = command[g]
        /\ stored' = "awaiting_approval" => stored = "awaiting_approval"
    BY DEF Inv, TypeOK
  <1> QED
    BY <1>1, <1>2, <1>3, <1>4, OwnStep DEF Working

LEMMA LaunchStep ==
  ASSUME Inv, NEW h \in Hosts, Launch(h)
  PROVE  Inv'
  <1> USE DEF Launch
  <1>1. TypeOK'
    BY SMTT(30) DEF Inv, TypeOK, Pc
  <1>2. RecordInv'
    BY SMTT(30) DEF Inv, HostInv, Quiet, Started, RecordInv, Valid, IsRunning, HasSucceeded, LastFinalIs
  <1>3. HostInv(h)'
    BY SMTT(30) DEF Inv, TypeOK, HostInv, Working, Quiet, Started, RecordInv, Valid, IsRunning, HasSucceeded, LastFinalIs
  <1>4. /\ \A g \in Hosts \ {h} : pc'[g] = pc[g] /\ command'[g] = command[g]
        /\ stored' = "awaiting_approval" => stored = "awaiting_approval"
    BY DEF Inv, TypeOK
  <1> QED
    BY <1>1, <1>2, <1>3, <1>4, OwnStep DEF Working

LEMMA SettleCompletedStep ==
  ASSUME Inv, NEW h \in Hosts, SettleCompleted(h)
  PROVE  Inv'
  <1> USE DEF SettleCompleted
  <1>1. TypeOK'
    BY SMTT(30) DEF Inv, TypeOK, Pc
  <1>2. RecordInv'
    BY SMTT(30) DEF Inv, HostInv, Quiet, Started, RecordInv, Valid, IsRunning, HasSucceeded, LastFinalIs
  <1>3. HostInv(h)'
    BY SMTT(30) DEF Inv, TypeOK, HostInv, Working, Quiet, Started, RecordInv, Valid, IsRunning, HasSucceeded, LastFinalIs
  <1>4. /\ \A g \in Hosts \ {h} : pc'[g] = pc[g] /\ command'[g] = command[g]
        /\ stored' = "awaiting_approval" => stored = "awaiting_approval"
    BY DEF Inv, TypeOK
  <1> QED
    BY <1>1, <1>2, <1>3, <1>4, OwnStep DEF Working

LEMMA EvidenceGapStep ==
  ASSUME Inv, NEW h \in Hosts, EvidenceGap(h)
  PROVE  Inv'
  <1> USE DEF EvidenceGap, StoreUnlessCancelled, Store, Write, WriteThrows, RunState
  <1>1. TypeOK'
    BY SMTT(30) DEF Inv, TypeOK, Pc
  <1>2. RecordInv'
    BY SMTT(30) DEF Inv, HostInv, Quiet, Started, RecordInv, Valid, IsRunning, HasSucceeded, LastFinalIs
  <1>3. HostInv(h)'
    BY SMTT(30) DEF Inv, TypeOK, HostInv, Working, Quiet, Started, RecordInv, Valid, IsRunning, HasSucceeded, LastFinalIs
  <1>4. /\ \A g \in Hosts \ {h} : pc'[g] = pc[g] /\ command'[g] = command[g]
        /\ stored' = "awaiting_approval" => stored = "awaiting_approval"
    BY DEF Inv, TypeOK
  <1> QED
    BY <1>1, <1>2, <1>3, <1>4, OwnStep DEF Working

LEMMA RecoverStep ==
  ASSUME Inv, NEW h \in Hosts, Recover(h)
  PROVE  Inv'
  <1>1. /\ pc[h] \in {"recover"}
        /\ \E p \in {"relaunch", "launch", "settle"} : pc' = [pc EXCEPT ![h] = p]
        /\ EngineActs
        /\ UNCHANGED <<run, execution, world>>
    BY DEF Recover, EngineActs, Inv, TypeOK
  <1>2. life # "none"
    BY <1>1 DEF Inv, HostInv, Started
  <1>3. /\ life' \in Engine!Life /\ work' \in Engine!Work
        /\ life = "completed" => life' = "completed"
        /\ life' = "completed" => work' = "none"
    BY <1>1, <1>2, EngineFacts DEF Inv
  <1>4. life' # "none"
    BY <1>3 DEF Engine!Life
  <1>5. TypeOK'
    BY <1>1, <1>3 DEF Inv, TypeOK, Pc
  <1>6. RecordInv'
    BY <1>1, <1>2, <1>3 DEF Inv, RecordInv, Valid, IsRunning, HasSucceeded, LastFinalIs
  <1>7. HostInv(h)'
    BY <1>1, <1>4 DEF Inv, TypeOK, HostInv, Working, Quiet, Started
  <1>8. /\ \A g \in Hosts \ {h} : pc'[g] = pc[g] /\ command'[g] = command[g]
        /\ stored' = stored
    BY <1>1 DEF Inv, TypeOK
  <1> QED
    BY <1>1, <1>5, <1>6, <1>7, <1>8, OwnStep DEF Working

LEMMA RelaunchInterruptedStepsStep ==
  ASSUME Inv, NEW h \in Hosts, RelaunchInterruptedSteps(h)
  PROVE  Inv'
  <1>1. /\ pc[h] \in {"relaunch"}
        /\ \E p \in {"launch"} : pc' = [pc EXCEPT ![h] = p]
        /\ EngineActs
        /\ UNCHANGED <<run, execution, world>>
    BY DEF RelaunchInterruptedSteps, EngineActs, Inv, TypeOK
  <1>2. life # "none"
    BY <1>1 DEF Inv, HostInv, Started
  <1>3. /\ life' \in Engine!Life /\ work' \in Engine!Work
        /\ life = "completed" => life' = "completed"
        /\ life' = "completed" => work' = "none"
    BY <1>1, <1>2, EngineFacts DEF Inv
  <1>4. life' # "none"
    BY <1>3 DEF Engine!Life
  <1>5. TypeOK'
    BY <1>1, <1>3 DEF Inv, TypeOK, Pc
  <1>6. RecordInv'
    BY <1>1, <1>2, <1>3 DEF Inv, RecordInv, Valid, IsRunning, HasSucceeded, LastFinalIs
  <1>7. HostInv(h)'
    BY <1>1, <1>4 DEF Inv, TypeOK, HostInv, Working, Quiet, Started
  <1>8. /\ \A g \in Hosts \ {h} : pc'[g] = pc[g] /\ command'[g] = command[g]
        /\ stored' = stored
    BY <1>1 DEF Inv, TypeOK
  <1> QED
    BY <1>1, <1>5, <1>6, <1>7, <1>8, OwnStep DEF Working

LEMMA RetryFailedStepsStep ==
  ASSUME Inv, NEW h \in Hosts, RetryFailedSteps(h)
  PROVE  Inv'
  <1>1. /\ pc[h] \in {"reset"}
        /\ \E p \in {"launch"} : pc' = [pc EXCEPT ![h] = p]
        /\ EngineActs
        /\ UNCHANGED <<run, execution, world>>
    BY DEF RetryFailedSteps, EngineActs, Inv, TypeOK
  <1>2. life # "none"
    BY <1>1 DEF Inv, HostInv, Started
  <1>3. /\ life' \in Engine!Life /\ work' \in Engine!Work
        /\ life = "completed" => life' = "completed"
        /\ life' = "completed" => work' = "none"
    BY <1>1, <1>2, EngineFacts DEF Inv
  <1>4. life' # "none"
    BY <1>3 DEF Engine!Life
  <1>5. TypeOK'
    BY <1>1, <1>3 DEF Inv, TypeOK, Pc
  <1>6. RecordInv'
    BY <1>1, <1>2, <1>3 DEF Inv, RecordInv, Valid, IsRunning, HasSucceeded, LastFinalIs
  <1>7. HostInv(h)'
    BY <1>1, <1>4 DEF Inv, TypeOK, HostInv, Working, Quiet, Started
  <1>8. /\ \A g \in Hosts \ {h} : pc'[g] = pc[g] /\ command'[g] = command[g]
        /\ stored' = stored
    BY <1>1 DEF Inv, TypeOK
  <1> QED
    BY <1>1, <1>5, <1>6, <1>7, <1>8, OwnStep DEF Working

LEMMA ExecuteStep ==
  ASSUME Inv, NEW h \in Hosts, Execute(h)
  PROVE  Inv'
  <1>1. /\ pc[h] \in {"execute"}
        /\ \E p \in {"execute"} : pc' = [pc EXCEPT ![h] = p]
        /\ EngineActs
        /\ UNCHANGED <<run, execution, world>>
    BY DEF Execute, EngineActs, Inv, TypeOK
  <1>2. life # "none"
    BY <1>1 DEF Inv, HostInv, Started
  <1>3. /\ life' \in Engine!Life /\ work' \in Engine!Work
        /\ life = "completed" => life' = "completed"
        /\ life' = "completed" => work' = "none"
    BY <1>1, <1>2, EngineFacts DEF Inv
  <1>4. life' # "none"
    BY <1>3 DEF Engine!Life
  <1>5. TypeOK'
    BY <1>1, <1>3 DEF Inv, TypeOK, Pc
  <1>6. RecordInv'
    BY <1>1, <1>2, <1>3 DEF Inv, RecordInv, Valid, IsRunning, HasSucceeded, LastFinalIs
  <1>7. HostInv(h)'
    BY <1>1, <1>4 DEF Inv, TypeOK, HostInv, Working, Quiet, Started
  <1>8. /\ \A g \in Hosts \ {h} : pc'[g] = pc[g] /\ command'[g] = command[g]
        /\ stored' = stored
    BY <1>1 DEF Inv, TypeOK
  <1> QED
    BY <1>1, <1>5, <1>6, <1>7, <1>8, OwnStep DEF Working

LEMMA ReturnStep ==
  ASSUME Inv, NEW h \in Hosts, Return(h)
  PROVE  Inv'
  <1>1. /\ pc[h] \in {"execute"}
        /\ \E p \in {"settle"} : pc' = [pc EXCEPT ![h] = p]
        /\ EngineActs
        /\ UNCHANGED <<run, execution, world>>
    BY DEF Return, EngineActs, Inv, TypeOK
  <1>2. life # "none"
    BY <1>1 DEF Inv, HostInv, Started
  <1>3. /\ life' \in Engine!Life /\ work' \in Engine!Work
        /\ life = "completed" => life' = "completed"
        /\ life' = "completed" => work' = "none"
    BY <1>1, <1>2, EngineFacts DEF Inv
  <1>4. life' # "none"
    BY <1>3 DEF Engine!Life
  <1>5. TypeOK'
    BY <1>1, <1>3 DEF Inv, TypeOK, Pc
  <1>6. RecordInv'
    BY <1>1, <1>2, <1>3 DEF Inv, RecordInv, Valid, IsRunning, HasSucceeded, LastFinalIs
  <1>7. HostInv(h)'
    BY <1>1, <1>4 DEF Inv, TypeOK, HostInv, Working, Quiet, Started
  <1>8. /\ \A g \in Hosts \ {h} : pc'[g] = pc[g] /\ command'[g] = command[g]
        /\ stored' = stored
    BY <1>1 DEF Inv, TypeOK
  <1> QED
    BY <1>1, <1>5, <1>6, <1>7, <1>8, OwnStep DEF Working

LEMMA EngineThrowsStep ==
  ASSUME Inv, NEW h \in Hosts, EngineThrows(h)
  PROVE  Inv'
  <1>1. /\ pc[h] \in EnginePc
        /\ \E p \in {"refused"} : pc' = [pc EXCEPT ![h] = p]
        /\ EngineActs
        /\ UNCHANGED <<run, execution, world>>
    BY DEF EngineThrows, EngineActs, Inv, TypeOK
  <1>2. life # "none"
    BY <1>1 DEF Inv, HostInv, Started
  <1>3. /\ life' \in Engine!Life /\ work' \in Engine!Work
        /\ life = "completed" => life' = "completed"
        /\ life' = "completed" => work' = "none"
    BY <1>1, <1>2, EngineFacts DEF Inv
  <1>4. life' # "none"
    BY <1>3 DEF Engine!Life
  <1>5. TypeOK'
    BY <1>1, <1>3 DEF Inv, TypeOK, Pc
  <1>6. RecordInv'
    BY <1>1, <1>2, <1>3 DEF Inv, RecordInv, Valid, IsRunning, HasSucceeded, LastFinalIs
  <1>7. HostInv(h)'
    BY <1>1, <1>4 DEF Inv, TypeOK, HostInv, Working, Quiet, Started
  <1>8. /\ \A g \in Hosts \ {h} : pc'[g] = pc[g] /\ command'[g] = command[g]
        /\ stored' = stored
    BY <1>1 DEF Inv, TypeOK
  <1> QED
    BY <1>1, <1>5, <1>6, <1>7, <1>8, OwnStep DEF Working

LEMMA SettleStoppedStep ==
  ASSUME Inv, NEW h \in Hosts, SettleStopped(h)
  PROVE  Inv'
  <1>1. pc[h] = "settle" /\ UNCHANGED <<snapshot, execution, world>>
    BY DEF SettleStopped
  <1>2. PICK s \in {"cancelled", "failed"} :
           StoreUnlessCancelled(h, s, finals, mergeReady, "settled")
    BY DEF SettleStopped
  <1>3. ~mergeReady => Valid(s, finals, mergeReady)
    BY <1>1 DEF Inv, HostInv, Quiet, RecordInv, Valid
  <1>4. \/ pc' = [pc EXCEPT ![h] = "settled"] /\ stored = "cancelled" /\ UNCHANGED run
        \/ /\ pc' = [pc EXCEPT ![h] = "settled"]
           /\ stored' = s /\ UNCHANGED <<finals, mergeReady>>
           /\ Valid(s, finals, mergeReady)
        \/ pc' = [pc EXCEPT ![h] = "threw"] /\ mergeReady /\ UNCHANGED run
    BY <1>2, <1>3 DEF StoreUnlessCancelled, Store, Write, WriteThrows
  <1>5. TypeOK'
    BY <1>1, <1>4 DEF Inv, TypeOK, RunState, Pc
  <1>6. RecordInv'
    BY <1>1, <1>4 DEF Inv, RecordInv, Valid, IsRunning, HasSucceeded, LastFinalIs
  <1>7. HostInv(h)'
    BY <1>1, <1>4 DEF Inv, TypeOK, HostInv, Working, Quiet, Started
  <1>8. /\ \A g \in Hosts \ {h} : pc'[g] = pc[g] /\ command'[g] = command[g]
        /\ stored' = "awaiting_approval" => stored = "awaiting_approval"
    BY <1>1, <1>4 DEF Inv, TypeOK
  <1> QED
    BY <1>1, <1>5, <1>6, <1>7, <1>8, OwnStep DEF Working

LEMMA InterruptStaleFinalValidationStep ==
  ASSUME Inv, NEW h \in Hosts, InterruptStaleFinalValidation(h)
  PROVE  Inv'
  <1> DEFINE f == Settled(DOMAIN finals, "interrupted")
  <1>1. pc[h] = "interrupt" /\ UNCHANGED <<snapshot, execution, world>>
    BY DEF InterruptStaleFinalValidation
  <1>2. f \in Seq(FinalStates) /\ (f = <<>> <=> finals = <<>>)
    BY SettledFacts DEF Inv, FinalStates
  <1>3. Valid("reviewed", f, mergeReady) /\ ~IsRunning(f)
    BY SettledNone DEF Inv, RecordInv, Valid, FinalStates
  <1>4. /\ pc' = [pc EXCEPT ![h] = "mark"]
        /\ \/ stored # "validating" /\ UNCHANGED run
           \/ stored' = "reviewed" /\ finals' = f /\ mergeReady' = mergeReady
    BY <1>3 DEF InterruptStaleFinalValidation, Store, Write, WriteThrows
  <1> HIDE DEF f
  <1>5. TypeOK'
    BY <1>1, <1>2, <1>4 DEF Inv, TypeOK, RunState, Pc
  <1>6. RecordInv'
    BY <1>1, <1>2, <1>3, <1>4 DEF Inv, RecordInv, Valid, IsRunning, HasSucceeded, LastFinalIs
  <1>7. HostInv(h)'
    BY <1>1, <1>4 DEF Inv, TypeOK, HostInv, Working, Quiet, Started
  <1>8. /\ \A g \in Hosts \ {h} : pc'[g] = pc[g] /\ command'[g] = command[g]
        /\ stored' = "awaiting_approval" => stored = "awaiting_approval"
    BY <1>1, <1>4 DEF Inv, TypeOK
  <1> QED
    BY <1>1, <1>5, <1>6, <1>7, <1>8, OwnStep DEF Working

LEMMA AbortedBeforeValidationStep ==
  ASSUME Inv, NEW h \in Hosts, AbortedBeforeValidation(h)
  PROVE  Inv'
  <1> DEFINE f == Settled(DOMAIN finals, "cancelled")
  <1>1. pc[h] = "finalize" /\ UNCHANGED <<snapshot, execution, world>>
    BY DEF AbortedBeforeValidation
  <1>2. f \in Seq(FinalStates) /\ (f = <<>> <=> finals = <<>>)
    BY SettledFacts DEF Inv, FinalStates
  <1>3. /\ ~mergeReady => Valid("cancelled", f, mergeReady)
        /\ ~IsRunning(f)
    BY SettledNone DEF Inv, RecordInv, Valid, FinalStates
  <1>4. \/ pc' = [pc EXCEPT ![h] = "settled"] /\ stored \in Terminal /\ UNCHANGED run
        \/ /\ pc' = [pc EXCEPT ![h] = "settled"]
           /\ stored' = "cancelled" /\ finals' = f /\ mergeReady' = mergeReady
           /\ Valid("cancelled", f, mergeReady)
        \/ pc' = [pc EXCEPT ![h] = "threw"] /\ mergeReady /\ UNCHANGED run
    BY <1>3 DEF AbortedBeforeValidation, CancelStored, Store, Write, WriteThrows
  <1> HIDE DEF f
  <1>5. TypeOK'
    BY <1>1, <1>2, <1>4 DEF Inv, TypeOK, RunState, Pc
  <1>6. RecordInv'
    BY <1>1, <1>2, <1>4 DEF Inv, RecordInv, Valid, IsRunning, HasSucceeded, LastFinalIs
  <1>7. HostInv(h)'
    BY <1>1, <1>4 DEF Inv, TypeOK, HostInv, Working, Quiet, Started
  <1>8. /\ \A g \in Hosts \ {h} : pc'[g] = pc[g] /\ command'[g] = command[g]
        /\ stored' = "awaiting_approval" => stored = "awaiting_approval"
    BY <1>1, <1>4 DEF Inv, TypeOK
  <1> QED
    BY <1>1, <1>5, <1>6, <1>7, <1>8, OwnStep DEF Working

LEMMA StartValidationStep ==
  ASSUME Inv, NEW h \in Hosts, StartValidation(h)
  PROVE  Inv'
  <1> DEFINE f == Append(finals, "running")
  <1>1. /\ pc[h] = "finalize" /\ life = "completed"
        /\ UNCHANGED <<snapshot, lease, command, aborted, world>>
    BY DEF StartValidation, Inv, HostInv
  <1>2. /\ f \in Seq(FinalStates) /\ f # <<>> /\ Len(f) = Len(finals) + 1
        /\ DOMAIN f = 1..(Len(finals) + 1) /\ DOMAIN finals = 1..Len(finals)
        /\ Len(finals) \in Nat
        /\ \A i \in DOMAIN finals : f[i] = finals[i]
        /\ f[Len(finals) + 1] = "running"
    <2>1. finals \in Seq(FinalStates) /\ "running" \in FinalStates
      BY DEF Inv, TypeOK, FinalStates
    <2> QED
      BY <2>1, AppendFacts
  <1>3. ~IsRunning(finals)
    BY <1>1 DEF Inv, HostInv, Quiet, RecordInv, Valid
  <1>4. IsRunning(f) /\ (HasSucceeded(finals) => HasSucceeded(f))
    BY <1>2 DEF IsRunning, HasSucceeded
  <1>5. \A i, j \in DOMAIN f : f[i] = "running" /\ f[j] = "running" => i = j
    BY <1>2, <1>3 DEF IsRunning
  <1>6. Valid("validating", f, mergeReady)
    BY <1>4, <1>5 DEF Inv, RecordInv, Valid
  <1>7. \/ /\ pc' = [pc EXCEPT ![h] = "settled"]
           /\ stored = "cancelled" /\ UNCHANGED <<run, attempt>>
        \/ /\ pc' = [pc EXCEPT ![h] = "validate"]
           /\ stored' = "validating" /\ finals' = f /\ mergeReady' = mergeReady
           /\ attempt' = [attempt EXCEPT ![h] = Len(finals) + 1]
    BY <1>6 DEF StartValidation, Store, Write, WriteThrows, NextAttempt
  <1> HIDE DEF f
  <1>8. TypeOK'
    <2>1. Len(finals) + 1 \in Nat
      BY <1>2
    <2>2. attempt' \in [Hosts -> Nat]
      BY <1>7, <2>1 DEF Inv, TypeOK
    <2>3. finals' \in Seq(FinalStates)
      BY <1>2, <1>7 DEF Inv, TypeOK
    <2>4. /\ stored' \in RunState /\ mergeReady' \in BOOLEAN
          /\ pc' \in [Hosts -> Pc]
      BY <1>7 DEF Inv, TypeOK, RunState, Pc
    <2> QED
      BY <1>1, <2>2, <2>3, <2>4 DEF Inv, TypeOK
  <1>9. RecordInv'
    BY <1>1, <1>2, <1>6, <1>7 DEF Inv, RecordInv, Valid, IsRunning, HasSucceeded, LastFinalIs
  <1>10. HostInv(h)'
    BY <1>1, <1>2, <1>7 DEF Inv, TypeOK, HostInv, Working, Quiet, Started, LastFinalIs
  <1>11. /\ \A g \in Hosts \ {h} : pc'[g] = pc[g] /\ command'[g] = command[g]
         /\ stored' = "awaiting_approval" => stored = "awaiting_approval"
    BY <1>1, <1>7 DEF Inv, TypeOK
  <1> QED
    BY <1>1, <1>8, <1>9, <1>10, <1>11, OwnStep DEF Working

LEMMA EndValidationStep ==
  ASSUME Inv, NEW h \in Hosts, EndValidation(h)
  PROVE  Inv'
  <1>1. /\ pc[h] = "validate" /\ life = "completed"
        /\ UNCHANGED <<snapshot, execution, world>>
    BY DEF EndValidation, Inv, HostInv
  <1>2. PICK s \in {"cancelled", "completed", "failed"},
             to \in {"cancelled", "succeeded", "failed"}, m \in BOOLEAN :
          /\ s = "completed" => to = "succeeded" /\ m
          /\ s # "completed" => m = mergeReady
          /\ StoreUnlessCancelled(h, s, Settled({attempt[h]}, to), m, "settled")
    BY DEF EndValidation, Inv, TypeOK
  <1> DEFINE f == Settled({attempt[h]}, to)
  <1>3. /\ f \in Seq(FinalStates) /\ Len(f) = Len(finals)
        /\ DOMAIN f = DOMAIN finals
        /\ \A i \in DOMAIN finals :
             f[i] = IF i = attempt[h] /\ finals[i] = "running" THEN to ELSE finals[i]
    BY SettledFacts DEF Inv, FinalStates
  <1>4. /\ finals \in Seq(FinalStates) /\ DOMAIN finals = 1..Len(finals)
        /\ Len(finals) \in Nat
    BY DEF Inv, TypeOK
  <1>5. CASE stored = "cancelled"
    <2>1. pc' = [pc EXCEPT ![h] = "settled"] /\ UNCHANGED run
      BY <1>2, <1>5 DEF StoreUnlessCancelled
    <2>2. TypeOK'
      BY <1>1, <2>1 DEF Inv, TypeOK, Pc
    <2>3. RecordInv'
      BY <1>1, <2>1 DEF Inv, RecordInv, Valid, IsRunning, HasSucceeded, LastFinalIs
    <2>4. HostInv(h)'
      BY <1>1, <1>5, <2>1 DEF Inv, TypeOK, HostInv, Working, Quiet, Started
    <2>5. /\ \A g \in Hosts \ {h} : pc'[g] = pc[g] /\ command'[g] = command[g]
          /\ stored' = stored
      BY <1>1, <2>1 DEF Inv, TypeOK
    <2> QED
      BY <1>1, <2>2, <2>3, <2>4, <2>5, OwnStep DEF Working
  <1>6. CASE stored # "cancelled"
    <2>1. /\ stored = "validating" /\ attempt[h] = Len(finals)
          /\ finals # <<>> /\ finals[Len(finals)] = "running"
      BY <1>1, <1>6 DEF Inv, HostInv, LastFinalIs
    <2>2. Len(finals) \in DOMAIN finals /\ f[Len(finals)] = to /\ f # <<>>
      <3>1. Len(finals) \in DOMAIN finals
        BY <1>4, <2>1, LastFacts
      <3>2. Len(f) # 0
        BY <1>3, <1>4, <3>1
      <3> QED
        BY <1>3, <2>1, <3>1, <3>2, EmptySeq
    <2>3. ~IsRunning(f) /\ (HasSucceeded(finals) => HasSucceeded(f))
      BY <1>4, <2>1, <2>2, SettledNone DEF Inv, RecordInv, Valid, FinalStates
    <2>4. to = "succeeded" => HasSucceeded(f)
      BY <1>3, <2>2 DEF HasSucceeded
    <2>5. ~mergeReady => Valid(s, f, m)
      BY <1>2, <2>3, <2>4 DEF Valid, IsRunning
    <2>6. \/ /\ pc' = [pc EXCEPT ![h] = "settled"]
             /\ stored' = s /\ finals' = f /\ mergeReady' = m
             /\ Valid(s, f, m)
          \/ pc' = [pc EXCEPT ![h] = "threw"] /\ mergeReady /\ UNCHANGED run
      BY <1>2, <1>6, <2>5 DEF StoreUnlessCancelled, Store, Write, WriteThrows
    <2> HIDE DEF f
    <2>7. TypeOK'
      BY <1>1, <1>3, <2>6 DEF Inv, TypeOK, RunState, Pc
    <2>8. RecordInv'
      BY <1>1, <1>2, <1>3, <2>2, <2>6
      DEF Inv, RecordInv, Valid, IsRunning, HasSucceeded, LastFinalIs
    <2>9. HostInv(h)'
      BY <1>1, <2>6 DEF Inv, TypeOK, HostInv, Working, Quiet, Started
    <2>10. /\ \A g \in Hosts \ {h} : pc'[g] = pc[g] /\ command'[g] = command[g]
           /\ stored' = "awaiting_approval" => stored = "awaiting_approval"
      BY <1>1, <2>6 DEF Inv, TypeOK
    <2> QED
      BY <1>1, <2>7, <2>8, <2>9, <2>10, OwnStep DEF Working
  <1> QED
    BY <1>5, <1>6

LEMMA CommandStep ==
  ASSUME Inv, NEW h \in Hosts, NEW c \in Commands, Command(h, c)
  PROVE  Inv'
  <1> USE DEF Command
  <1>1. TypeOK'
    <2>1. commands + 1 \in 0..MaxCommands
      BY HostsAssumption DEF Inv, TypeOK
    <2> QED
      BY <2>1 DEF Inv, TypeOK, Pc
  <1>2. c = "resume" => stored # "awaiting_approval"
    BY DEF Accepts
  <1>3. HostInv(h)'
    BY <1>2 DEF Inv, TypeOK, HostInv, Working, Quiet, Started
  <1>4. \A g \in Hosts \ {h} :
          pc'[g] = pc[g] /\ command'[g] = command[g] /\ attempt'[g] = attempt[g]
    BY DEF Inv, TypeOK
  <1> QED
    BY <1>1, <1>3, <1>4, AsideStep

LEMMA ClaimStep ==
  ASSUME Inv, NEW h \in Hosts, Claim(h)
  PROVE  Inv'
  <1> USE DEF Claim
  <1>1. /\ pc[h] = "claim" /\ lease' = h
        /\ pc' = [pc EXCEPT ![h] = FirstStep(command[h])]
        /\ UNCHANGED <<run, snapshot, command, aborted, attempt, world>>
    OBVIOUS
  <1>2. \/ command[h] = "approve" /\ FirstStep(command[h]) = "approve"
        \/ command[h] = "resume" /\ FirstStep(command[h]) = "snapshot"
        \/ command[h] = "retry" /\ FirstStep(command[h]) = "assess"
    BY DEF Inv, TypeOK, FirstStep
  <1>3. TypeOK'
    BY <1>1, <1>2 DEF Inv, TypeOK, Pc
  <1>4. RecordInv'
    BY <1>1 DEF Inv, RecordInv, Valid, IsRunning, HasSucceeded, LastFinalIs
  <1>5. HostInv(h)'
    BY <1>1, <1>2 DEF Inv, TypeOK, HostInv, Working, Quiet, Started
  <1>6. ASSUME NEW g \in Hosts \ {h} PROVE HostInv(g)'
    <2>1. pc[g] \in {"idle", "claim"}
      BY DEF LeaseFree, Inv, HostInv, Working
    <2>2. pc'[g] = pc[g]
      BY <1>1 DEF Inv, TypeOK
    <2> QED
      BY <1>1, <2>1, <2>2 DEF Inv, HostInv, Working, Quiet, Started
  <1> QED
    BY <1>3, <1>4, <1>5, <1>6 DEF Inv

LEMMA ClaimTimesOutStep ==
  ASSUME Inv, NEW h \in Hosts, ClaimTimesOut(h)
  PROVE  Inv'
  <1> USE DEF ClaimTimesOut
  <1>1. TypeOK'
    BY DEF Inv, TypeOK, Pc
  <1>2. HostInv(h)'
    BY DEF Inv, TypeOK, HostInv, Working, Quiet, Started
  <1>3. \A g \in Hosts \ {h} :
          pc'[g] = pc[g] /\ command'[g] = command[g] /\ attempt'[g] = attempt[g]
    BY DEF Inv, TypeOK
  <1> QED
    BY <1>1, <1>2, <1>3, AsideStep

LEMMA CrashStep ==
  ASSUME Inv, NEW h \in Hosts, Crash(h)
  PROVE  Inv'
  <1> USE DEF Crash
  <1>1. TypeOK'
    <2>1. crashes' \in 0..MaxCrashes
      BY HostsAssumption DEF Inv, TypeOK
    <2>2. cancel' \in [pc : CancelPc, host : Hosts \cup {NoHost}]
      BY DEF Inv, TypeOK, CancelTo, CancelPc
    <2> QED
      BY <2>1, <2>2 DEF Inv, TypeOK, Pc
  <1>2. HostInv(h)'
    BY DEF Inv, TypeOK, HostInv, Working, Quiet, Started
  <1>3. \A g \in Hosts \ {h} :
          pc'[g] = pc[g] /\ command'[g] = command[g] /\ attempt'[g] = attempt[g]
    BY DEF Inv, TypeOK
  <1> QED
    BY <1>1, <1>2, <1>3, AsideStep

\* A step of a cancellation: no host moves, the snapshot stays one that exists,
\* and the run changes only into a settled one.
LEMMA CancellationStep ==
  ASSUME Inv, TypeOK', RecordInv',
         UNCHANGED <<mergeReady, lease, command, attempt, pc>>,
         life = "none" <=> life' = "none",
         life = "completed" => life' = "completed",
         \/ UNCHANGED run
         \/ stored' = "cancelled"
         \/ stored' = "failed" /\ stored \notin {"validating", "cancelled"}
  PROVE  Inv'
  <1>1. ASSUME NEW g \in Hosts PROVE HostInv(g)'
    BY DEF Inv, HostInv, Working, Quiet, Started, LastFinalIs
  <1> QED
    BY <1>1 DEF Inv

LEMMA RequestCancelStep ==
  ASSUME Inv, NEW h \in Hosts, RequestCancel(h)
  PROVE  Inv'
  <1> USE DEF RequestCancel
  <1>1. TypeOK'
    BY DEF Inv, TypeOK, CancelPc
  <1>2. RecordInv'
    BY DEF Inv, RecordInv, Valid, IsRunning, HasSucceeded, LastFinalIs
  <1> QED
    BY <1>1, <1>2, CancellationStep

LEMMA ChooseCancelStep ==
  ASSUME Inv, ChooseCancel
  PROVE  Inv'
  <1> USE DEF ChooseCancel
  <1>1. TypeOK'
    <2>1. cancel' \in [pc : CancelPc, host : Hosts \cup {NoHost}]
      BY DEF Inv, TypeOK, CancelTo, CancelPc
    <2>2. aborted' \in [Hosts -> BOOLEAN]
      <3> DEFINE b == aborted[cancel.host] \/ (life # "none" /\ ~At(cancel.host, "idle"))
      <3>1. aborted' = [aborted EXCEPT ![cancel.host] = b] /\ b \in BOOLEAN
        OBVIOUS
      <3> HIDE DEF b
      <3> QED
        BY <3>1 DEF Inv, TypeOK
    <2> QED
      BY <2>1, <2>2 DEF Inv, TypeOK
  <1>2. RecordInv'
    BY DEF Inv, RecordInv, Valid, IsRunning, HasSucceeded, LastFinalIs
  <1> QED
    BY <1>1, <1>2, CancellationStep

LEMMA CancelEngineStep ==
  ASSUME Inv, CancelEngine
  PROVE  Inv'
  <1> USE DEF CancelEngine
  <1>1. /\ life' \in Engine!Life \cup {"none"} /\ work' \in Engine!Work
        /\ life = "none" <=> life' = "none"
        /\ life = "completed" => life' = "completed"
        /\ life' = "completed" => work' = "none"
    <2>1. CASE UNCHANGED snapshot
      BY <2>1 DEF Inv, TypeOK, RecordInv
    <2>2. CASE life = "running" /\ Engine!Cancel
      BY <2>2, EngineFacts DEF EngineActs, Inv, Engine!Life
    <2> QED
      BY <2>1, <2>2
  <1>2. TypeOK'
    <2>1. cancel' \in [pc : CancelPc, host : Hosts \cup {NoHost}]
      BY DEF Inv, TypeOK, CancelTo, CancelPc
    <2> QED
      BY <1>1, <2>1 DEF Inv, TypeOK
  <1>3. RecordInv'
    BY <1>1 DEF Inv, RecordInv, Valid, IsRunning, HasSucceeded, LastFinalIs
  <1> QED
    BY <1>1, <1>2, <1>3, CancellationStep

LEMMA CancelStoredRunStep ==
  ASSUME Inv, CancelStoredRun
  PROVE  Inv'
  <1> DEFINE f == Settled(DOMAIN finals, "cancelled")
  <1>1. f \in Seq(FinalStates) /\ (f = <<>> <=> finals = <<>>)
    BY SettledFacts DEF Inv, FinalStates
  <1>2. /\ UNCHANGED <<snapshot, execution, pc, commands, crashes>>
        /\ \/ UNCHANGED run
           \/ /\ stored' = "cancelled" /\ finals' = f /\ mergeReady' = mergeReady
              /\ Valid("cancelled", f, mergeReady)
        /\ \E p \in CancelPc : CancelTo(p)
    BY DEF CancelStoredRun, StoreCancel, Write, WriteThrows, CancelPc
  <1> HIDE DEF f
  <1>3. TypeOK'
    <2>1. cancel' \in [pc : CancelPc, host : Hosts \cup {NoHost}]
      BY <1>2 DEF Inv, TypeOK, CancelTo
    <2> QED
      BY <1>1, <1>2, <2>1 DEF Inv, TypeOK, RunState
  <1>4. RecordInv'
    BY <1>1, <1>2 DEF Inv, RecordInv, Valid, IsRunning, HasSucceeded, LastFinalIs
  <1> QED
    BY <1>2, <1>3, <1>4, CancellationStep

LEMMA CancelFailedRunStep ==
  ASSUME Inv, CancelFailedRun
  PROVE  Inv'
  <1>1. /\ UNCHANGED <<snapshot, execution, pc, commands, crashes>>
        /\ UNCHANGED <<finals, mergeReady>>
        /\ \/ stored' = stored
           \/ /\ stored \notin Terminal /\ stored' = "failed"
              /\ Valid("failed", finals, mergeReady)
        /\ \E p \in CancelPc : CancelTo(p)
    BY DEF CancelFailedRun, StoreCancel, Write, WriteThrows, CancelPc
  <1>2. stored' = stored \/ stored # "validating"
    BY <1>1 DEF Inv, RecordInv, Valid
  <1>3. TypeOK'
    <2>1. cancel' \in [pc : CancelPc, host : Hosts \cup {NoHost}]
      BY <1>1 DEF Inv, TypeOK, CancelTo
    <2> QED
      BY <1>1, <2>1 DEF Inv, TypeOK, RunState
  <1>4. RecordInv'
    BY <1>1 DEF Inv, RecordInv, Valid, IsRunning, HasSucceeded, LastFinalIs
  <1> QED
    BY <1>1, <1>2, <1>3, <1>4, CancellationStep

-----------------------------------------------------------------------------
(* The invariant.                                                          *)

LEMMA InitInv == Init => Inv
  <1> SUFFICES ASSUME Init PROVE Inv
    OBVIOUS
  <1> USE DEF Init
  <1>1. TypeOK
    <2>1. finals \in Seq(FinalStates)
      BY EmptySeq
    <2>2. commands \in 0..MaxCommands /\ crashes \in 0..MaxCrashes
      BY HostsAssumption
    <2>3. cancel \in [pc : CancelPc, host : Hosts \cup {NoHost}]
      BY DEF CancelPc
    <2> QED
      BY <2>1, <2>2, <2>3 DEF TypeOK, RunState, Pc, Engine!Work
  <1>2. RecordInv
    BY EmptySeq DEF RecordInv, Valid, IsRunning, HasSucceeded, LastFinalIs
  <1>3. \A h \in Hosts : HostInv(h)
    BY DEF HostInv, Working, Quiet, Started
  <1> QED
    BY <1>1, <1>2, <1>3 DEF Inv

LEMMA LifecycleStepInv ==
  ASSUME Inv, NEW h \in Hosts, LifecycleStep(h)
  PROVE  Inv'
  BY ApproveStep, CreateSnapshotStep, CreateFailsStep, GiveUpStep, ThrowsStep,
     HasSnapshotStep, InterruptStaleFinalValidationStep, AssessStep, MarkExecutingStep,
     RecoverStep, RelaunchInterruptedStepsStep, RetryFailedStepsStep,
     RetryFinalizationStep, LaunchStep, SettleStoppedStep, SettleCompletedStep,
     EvidenceGapStep, AbortedBeforeValidationStep, StartValidationStep,
     EndValidationStep, ReleaseStep
  DEF LifecycleStep

LEMMA NextInv ==
  ASSUME Inv, [Next]_vars
  PROVE  Inv'
  <1>1. CASE UNCHANGED vars
    <2>1. TypeOK' /\ RecordInv'
      BY <1>1 DEF vars, Inv, TypeOK, RecordInv, Valid, IsRunning, HasSucceeded, LastFinalIs
    <2> QED
      BY <1>1, <2>1, CancellationStep DEF vars
  <1>2. ASSUME NEW h \in Hosts,
               \/ \E c \in Commands : Command(h, c)
               \/ Claim(h) \/ ClaimTimesOut(h) \/ LifecycleStep(h) \/ EngineStep(h)
               \/ RequestCancel(h) \/ Crash(h)
        PROVE  Inv'
    BY <1>2, CommandStep, ClaimStep, ClaimTimesOutStep, LifecycleStepInv, ExecuteStep,
       ReturnStep, EngineThrowsStep, RequestCancelStep, CrashStep
    DEF EngineStep
  <1>3. CASE CancelStep
    BY <1>3, ChooseCancelStep, CancelEngineStep, CancelStoredRunStep, CancelFailedRunStep
    DEF CancelStep
  <1> QED
    BY <1>1, <1>2, <1>3 DEF Next

\* The strengthened invariant: what holds of the two records, and what the lease
\* lets each host rely on at each of its awaits.
THEOREM Invariance == Spec => []Inv
  <1>1. Init => Inv
    BY InitInv
  <1>2. Inv /\ [Next]_vars => Inv'
    BY NextInv
  <1> QED
    BY <1>1, <1>2, PTL DEF Spec

-----------------------------------------------------------------------------
(* What follows from it.                                                   *)

\* The variables keep their types: a stored run is in a state of RUN_STATES, and
\* its attempts in states of FINAL_VALIDATION_STATES, whatever the hosts do.
THEOREM TypeCorrect == Spec => []TypeOK
  BY Invariance, PTL DEF Inv

\* A stored run is completed only on a completed execution, merge-ready evidence
\* and a last final validation that passed (runFinalValidation).
THEOREM CompletedProved == Spec => []CompletedIsProved
  <1>1. ASSUME Inv PROVE CompletedIsProved
    BY <1>1 DEF Inv, RecordInv, Valid, CompletedIsProved, LastFinalIs
  <1> QED
    BY <1>1, Invariance, PTL

\* A host whose command settled its run finds it settled until it gives the
\* lease back (settle, withLifecycle).
THEOREM SettledFinal == Spec => []SettledIsFinal
  <1>1. ASSUME Inv PROVE SettledIsFinal
    BY <1>1 DEF Inv, HostInv, SettledIsFinal
  <1> QED
    BY <1>1, Invariance, PTL

\* The attempt a host validates is the last one and runs, unless the run was
\* cancelled under it (onValidationReady).
THEOREM ValidationIsTracked == Spec => []ValidationTracked
  <1>1. ASSUME Inv PROVE ValidationTracked
    BY <1>1 DEF Inv, HostInv, ValidationTracked
  <1> QED
    BY <1>1, Invariance, PTL

\* The store refuses a write of a command only of a run that was reopened with
\* its merge-ready evidence (markExecuting, validateBuildRun).
THEOREM OnlyReopenedRefused == Spec => []OnlyReopenedRunsRefused
  <1>1. ASSUME Inv PROVE OnlyReopenedRunsRefused
    BY <1>1 DEF Inv, HostInv, OnlyReopenedRunsRefused
  <1> QED
    BY <1>1, Invariance, PTL

\* Two hosts never work on the run at once (withLifecycle).
ExclusiveLifecycle ==
  \A g, h \in Hosts : Working(g) /\ Working(h) => g = h

\* The lease keeps lifecycles apart, for any number of hosts and crashes.
THEOREM LifecyclesExclusive == Spec => []ExclusiveLifecycle
  <1>1. ASSUME Inv PROVE ExclusiveLifecycle
    BY <1>1 DEF Inv, HostInv, ExclusiveLifecycle
  <1> QED
    BY <1>1, Invariance, PTL

-----------------------------------------------------------------------------
(* What a step never does.                                                 *)

Kept ==
  \A i \in DOMAIN finals :
    i \in DOMAIN finals' /\ (finals[i] # "running" => finals'[i] = finals[i])

\* The attempts change in one of three ways.
LEMMA FinalsChange ==
  ASSUME [Next]_vars
  PROVE  \/ finals' = finals
         \/ finals' = Append(finals, "running")
         \/ \E A, to : finals' = Settled(A, to)
  <1> USE DEF Write, WriteThrows, Store, StoreUnlessCancelled
  <1>1. CASE UNCHANGED vars
    BY <1>1 DEF vars
  <1>2. ASSUME NEW h \in Hosts, LifecycleStep(h)
        PROVE  \/ finals' = finals
               \/ finals' = Append(finals, "running")
               \/ \E A, to : finals' = Settled(A, to)
    <2>1. CASE InterruptStaleFinalValidation(h)
      BY <2>1 DEF InterruptStaleFinalValidation
    <2>2. CASE AbortedBeforeValidation(h)
      BY <2>2 DEF AbortedBeforeValidation, CancelStored
    <2>3. CASE StartValidation(h)
      BY <2>3 DEF StartValidation
    <2>4. CASE EndValidation(h)
      BY <2>4 DEF EndValidation
    <2>5. CASE Approve(h) \/ GiveUp(h) \/ MarkExecuting(h) \/ SettleStopped(h)
               \/ EvidenceGap(h)
      BY <2>5 DEF Approve, GiveUp, MarkExecuting, SettleStopped, EvidenceGap
    <2>6. CASE \/ CreateSnapshot(h) \/ CreateFails(h) \/ Throws(h) \/ HasSnapshot(h)
               \/ Assess(h) \/ Recover(h) \/ RelaunchInterruptedSteps(h)
               \/ RetryFailedSteps(h) \/ RetryFinalization(h) \/ Launch(h)
               \/ SettleCompleted(h) \/ Release(h)
      BY <2>6 DEF CreateSnapshot, CreateFails, Throws, HasSnapshot, Assess, Recover,
         RelaunchInterruptedSteps, RetryFailedSteps, RetryFinalization, Launch,
         SettleCompleted, Release
    <2> QED
      BY <1>2, <2>1, <2>2, <2>3, <2>4, <2>5, <2>6 DEF LifecycleStep
  <1>3. ASSUME NEW h \in Hosts,
               \/ \E c \in Commands : Command(h, c)
               \/ Claim(h) \/ ClaimTimesOut(h) \/ EngineStep(h)
               \/ RequestCancel(h) \/ Crash(h)
        PROVE  finals' = finals
    BY <1>3 DEF Command, Claim, ClaimTimesOut, EngineStep, Execute, Return, EngineThrows,
       RequestCancel, Crash
  <1>4. CASE CancelStep
    BY <1>4 DEF CancelStep, ChooseCancel, CancelEngine, CancelStoredRun, CancelFailedRun,
       StoreCancel
  <1> QED
    BY <1>1, <1>2, <1>3, <1>4 DEF Next

\* Final validation attempts are only added, and one that ended never changes:
\* a late result, a cancellation or an interruption settles what still runs.
THEOREM FinalHistory == Spec => FinalHistoryKept
  <1>1. ASSUME TypeOK, [Next]_vars PROVE Kept
    <2>1. CASE finals' = finals
      BY <2>1 DEF Kept
    <2>2. CASE finals' = Append(finals, "running")
      <3>1. finals \in Seq(FinalStates) /\ "running" \in FinalStates
        BY <1>1 DEF TypeOK, FinalStates
      <3> QED
        BY <2>2, <3>1, AppendFacts DEF Kept
    <2>3. ASSUME NEW A, NEW to, finals' = Settled(A, to) PROVE Kept
      BY <2>3 DEF Kept, Settled
    <2> QED
      BY <1>1, <2>1, <2>2, <2>3, FinalsChange
  <1>2. TypeOK /\ [Next]_vars =>
        [\A i \in DOMAIN finals :
           i \in DOMAIN finals' /\ (finals[i] # "running" => finals'[i] = finals[i])]_vars
    BY <1>1 DEF Kept
  <1> QED
    BY <1>2, TypeCorrect, PTL DEF Spec, FinalHistoryKept

\* A cancelled run with a snapshot stays cancelled, whatever a command or an
\* execution that raced with its cancellation writes (markExecuting, settle).
THEOREM CancelledFinal == Spec => CancelledIsFinal
  <1>1. ASSUME Inv, [Next]_vars, stored = "cancelled", life # "none"
        PROVE  stored' = "cancelled"
    <2> USE <1>1 DEF Write, WriteThrows, Store, StoreUnlessCancelled
    <2>1. CASE UNCHANGED vars
      BY <2>1 DEF vars
    <2>2. ASSUME NEW h \in Hosts, LifecycleStep(h) PROVE stored' = stored
      <3>1. ~GiveUp(h)
        BY DEF GiveUp, Inv, HostInv
      <3>2. CASE \/ Approve(h) \/ MarkExecuting(h) \/ SettleStopped(h) \/ EvidenceGap(h)
                 \/ AbortedBeforeValidation(h) \/ StartValidation(h) \/ EndValidation(h)
                 \/ InterruptStaleFinalValidation(h)
        BY <3>2 DEF Approve, MarkExecuting, SettleStopped, EvidenceGap, CancelStored,
           AbortedBeforeValidation, StartValidation, EndValidation,
           InterruptStaleFinalValidation
      <3>3. CASE \/ CreateSnapshot(h) \/ CreateFails(h) \/ Throws(h) \/ HasSnapshot(h)
                 \/ Assess(h) \/ Recover(h) \/ RelaunchInterruptedSteps(h)
                 \/ RetryFailedSteps(h) \/ RetryFinalization(h) \/ Launch(h)
                 \/ SettleCompleted(h) \/ Release(h)
        BY <3>3 DEF CreateSnapshot, CreateFails, Throws, HasSnapshot, Assess, Recover,
           RelaunchInterruptedSteps, RetryFailedSteps, RetryFinalization, Launch,
           SettleCompleted, Release
      <3> QED
        BY <2>2, <3>1, <3>2, <3>3 DEF LifecycleStep
    <2>3. ASSUME NEW h \in Hosts,
                 \/ \E c \in Commands : Command(h, c)
                 \/ Claim(h) \/ ClaimTimesOut(h) \/ EngineStep(h)
                 \/ RequestCancel(h) \/ Crash(h)
          PROVE  stored' = stored
      BY <2>3 DEF Command, Claim, ClaimTimesOut, EngineStep, Execute, Return, EngineThrows,
         RequestCancel, Crash
    <2>4. CASE CancelStep
      BY <2>4 DEF CancelStep, ChooseCancel, CancelEngine, CancelStoredRun, CancelFailedRun,
         StoreCancel
    <2> QED
      BY <2>1, <2>2, <2>3, <2>4 DEF Next
  <1>2. Inv /\ [Next]_vars => [stored = "cancelled" /\ life # "none" => stored' = "cancelled"]_vars
    BY <1>1
  <1> QED
    BY <1>2, Invariance, PTL DEF Spec, CancelledIsFinal

\* Neither a settled validation attempt nor a cancellation is ever taken back.
THEOREM EndsFinal == Spec => EndsAreFinal
  BY FinalHistory, CancelledFinal DEF EndsAreFinal
=============================================================================
