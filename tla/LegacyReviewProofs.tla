-------------------------- MODULE LegacyReviewProofs --------------------------
(***************************************************************************)
(* The safety properties of LegacyReview, for every set of categories, all *)
(* reports, any number of workers, rounds, crashes and retries.            *)
(*                                                                         *)
(* What the store refuses is not inductive: that a write keeps the record  *)
(* sound follows from what the lifecycle knows at each of its awaits of    *)
(* the attempt it works on, while a cancellation may come at any of them.  *)
(***************************************************************************)
EXTENDS LegacyReview, FiniteSetTheorems, SequenceTheorems, TLAPS

\* Where a pass has an attempt, a repair one, and a final validation one.
LivePass == {"spawn", "work", "report", "fail"}
RepairPc == {"spawn", "work", "validate", "evidence", "commit", "integrate", "complete",
             "unrepair", "abandon"}
RecoveryPc == {"idle", "recover", "recovered"}

Launched == {c \in Categories : pass[c].pc # "none"}
ReportedNow == CategoriesOf(run, Reported(run, Current))

\* What a pass knows of its attempt: it is the newest one of its category in
\* the round, and nobody but a cancellation ended it.
Passing(c) ==
  LET at == pass[c].at
  IN /\ at \in InRound(run, Current) /\ run.reviews[at].category = c
     /\ run.state = "cancelled" \/ run.reviews[at].state \in ActiveStates
     /\ \A i \in InRound(run, Current) :
          run.reviews[i].category = c => i <= at /\ (i # at => run.reviews[i].state # "succeeded")

\* The reviews of a round, and who owns the active ones.
ReviewsHold ==
  /\ \A i \in ActiveIn(run.reviews) :
       /\ run.state = "reviewing" /\ run.reviews[i].round = Current
       /\ loop.pc \notin RecoveryPc => \E c \in Categories : pass[c].pc \in LivePass /\ pass[c].at = i
  /\ loop.pc # "passes" => pass = NoPass
  /\ loop.pc = "passes" =>
       /\ run.state \in {"reviewing", "cancelled"}
       /\ Cardinality(Launched) <= MaxWorkers
       /\ loop.todo \cap (Launched \cup ReportedNow) = {}
  /\ \A c \in Categories :
       /\ pass[c].pc = "prepare" => c \notin ReportedNow
       /\ pass[c].pc \in LivePass => Passing(c)

\* Rounds follow each other on the heads they repaired.
RoundsHold ==
  /\ RoundsSound(run)
  /\ \A n \in DOMAIN run.rounds :
       /\ run.rounds[n].repair # 0 => run.rounds[n].repair \in DOMAIN run.repairs
       /\ run.rounds[n].state = "repairing" => CategoriesOf(run, Reported(run, n)) = Categories
  /\ run.state = "integrating" => run.rounds = <<>>
  /\ run.rounds = <<>> => run.reviews = <<>> /\ run.head = <<>>
                          /\ run.state \in {"integrating", "cancelled", "failed"}
  /\ run.rounds # <<>> => Len(run.head) = Current - 1 /\ run.rounds[Current].base = run.head
  /\ Len(run.head) <= 2
  /\ run.state = "repairing" => Current <= 2 /\ run.rounds[Current].state = "repairing"

\* What the loop, or a recovery, knows of the repair it works on.
Working ==
  /\ loop.at \in DOMAIN run.repairs
  /\ Mine.base = run.head /\ ~Mine.integrated
  /\ \/ run.state = "cancelled" /\ Mine.state = "cancelled"
     \/ /\ run.state = "repairing"
        /\ Mine.state \in IF loop.pc = "spawn" THEN {"prepared"}
                          ELSE IF loop.pc = "work" THEN {"running"}
                          ELSE IF loop.pc = "unrepair" THEN ActiveStates
                          ELSE {"validating"}
  /\ run.finals = <<>> /\ Len(run.head) <= 1

RepairsHold ==
  /\ RepairsSound(run)
  /\ \A i \in DOMAIN run.repairs :
       /\ run.repairs[i].integrated <=> run.repairs[i].state = "succeeded"
       /\ run.repairs[i].commit => run.repairs[i].state \notin {"prepared", "running", "interrupted"}
  /\ \A i \in ActiveIn(run.repairs) :
       /\ run.state = "repairing" /\ i = Len(run.repairs)
       /\ run.repairs[i].round = Current /\ run.repairs[i].base = run.head
       /\ run.repairs[i].findings = Required
       /\ loop.pc \notin RecoveryPc => loop.pc \in RepairPc /\ loop.at = i
       /\ loop.pc = "recover" /\ loop.at = 0 => ~run.repairs[i].commit
  /\ loop.pc \in RepairPc \/ (loop.pc \in {"recover", "recovered"} /\ loop.at # 0) => Working
  /\ loop.pc \in {"commit", "integrate", "complete"} => Mine.evidence
  /\ loop.pc \in {"integrate", "complete", "recovered"} \/ (loop.pc = "recover" /\ loop.at # 0) =>
       Mine.evidence /\ Mine.commit
  /\ loop.pc = "recovered" => loop.at # 0

\* The findings nothing has repaired.
Open == {i \in DOMAIN run.reviews : run.reviews[i].status \in {"repair_required", "unresolved"}}

\* A run past its reviews; the finals of a run are only made of such a one.
PastReview == run.state \in {"reviewed", "validating", "completed"} \/ run.finals # <<>>

FindingsHold ==
  /\ run.state = "reviewing" \/ PastReview => Open = {}
  /\ run.state = "repairing" => Open = Required
  /\ PastReview =>
       /\ run.state \notin {"integrating", "reviewing", "repairing"}
       /\ run.rounds # <<>> /\ run.rounds[Current].state = "succeeded"
       /\ branch = run.head

RunningFinals == {i \in DOMAIN run.finals : run.finals[i].state = "running"}

\* What the loop knows of the final validation it works on.
FinalsHold ==
  /\ FinalsSound(run) /\ ReadySound(run)
  /\ run.state # "completed" => run.ready = <<>>
  /\ run.state = "validating" =>
       /\ loop.pc \in {"idle", "recover", "check", "checked", "finish", "unfinal"}
       /\ loop.pc = "recover" => loop.at = 0
  /\ loop.pc \in {"check", "checked", "unfinal", "finish", "stale"} => loop.at \in DOMAIN run.finals
  /\ loop.pc \in {"check", "checked", "unfinal"} =>
       \/ run.state = "validating" /\ loop.at \in RunningFinals
       \/ run.state = "cancelled" /\ run.finals[loop.at].state # "interrupted"
  /\ loop.pc = "finish" =>
       /\ \/ run.state = "validating" /\ loop.at \in RunningFinals
          \/ run.state = "reviewed" /\ run.finals[loop.at].state = "interrupted"
          \/ run.state = "cancelled"
       /\ Unsettled(loop.at) => run.finals[loop.at].evidence
  /\ loop.pc = "stale" =>
       run.state \in {"reviewed", "cancelled"} /\ run.finals[loop.at].state = "interrupted"

\* The branch is where the loop believes it is.
BranchHolds ==
  /\ \/ branch = run.head
     \/ \E i \in DOMAIN run.repairs :
          /\ branch = Append(run.head, i) /\ run.repairs[i].base = run.head
          /\ run.repairs[i].commit /\ ~run.repairs[i].integrated
          /\ Len(run.head) <= 1
  /\ loop.pc \in {"complete", "recovered"} => branch = Append(run.head, loop.at)

Inv ==
  /\ TypeOK
  /\ ReviewsHold
  /\ RoundsHold
  /\ RepairsHold
  /\ FindingsHold
  /\ FinalsHold
  /\ BranchHolds
  /\ WorkersBounded(run)

LEMMA Constants ==
  /\ MaxWorkers \in Nat /\ MaxWorkers > 0 /\ MaxCrashes \in Nat /\ MaxRetries \in Nat
  /\ REVIEW_CATEGORIES \in Seq(Categories)
  /\ \A c \in Categories : Kinds[c] \subseteq {"minor", "important", "outside"}
BY ReviewAssumption DEF Categories

USE Constants

-----------------------------------------------------------------------------
(* Types.                                                                  *)

RunRecord == [state : RunStates, head : Heads, rounds : Seq(Round), reviews : Seq(Review),
              repairs : Seq(Repair), finals : Seq(Final), ready : Seq(Ready)]
LoopRecord == [pc : LoopPc, todo : SUBSET Categories, at : Nat]
PassRecord == [pc : PassPc, at : Nat]
Counted == [crashes : 0..MaxCrashes, retries : 0..MaxRetries]

LEMMA TypeParts ==
  TypeOK <=> /\ run \in RunRecord
             /\ branch \in Heads
             /\ loop \in LoopRecord
             /\ pass \in [Categories -> PassRecord]
             /\ cancel \in Nat
             /\ count \in Counted
BY DEF TypeOK, RunRecord, LoopRecord, PassRecord, Counted

\* An attempt is rewritten in place.
LEMMA Rewritten ==
  ASSUME NEW S, NEW s \in Seq(S), NEW k \in DOMAIN s, NEW v \in S
  PROVE  /\ [s EXCEPT ![k] = v] \in Seq(S)
         /\ DOMAIN [s EXCEPT ![k] = v] = DOMAIN s
         /\ Len([s EXCEPT ![k] = v]) = Len(s)
         /\ [s EXCEPT ![k] = v][k] = v
         /\ \A i \in DOMAIN s \ {k} : [s EXCEPT ![k] = v][i] = s[i]
<1>1. k \in 1..Len(s)
  OBVIOUS
<1> QED
  BY <1>1, ExceptSeq

\* One more attempt.
LEMMA Added ==
  ASSUME NEW S, NEW s \in Seq(S), NEW v \in S
  PROVE  /\ Append(s, v) \in Seq(S)
         /\ Len(s) \in Nat /\ DOMAIN s = 1..Len(s)
         /\ DOMAIN Append(s, v) = 1..(Len(s) + 1)
         /\ Len(Append(s, v)) = Len(s) + 1
         /\ \A i \in DOMAIN s : Append(s, v)[i] = s[i]
         /\ Append(s, v)[Len(s) + 1] = v
         /\ Append(s, v) # <<>>
BY AppendProperties

\* The fields of the run, and one of them written.
LEMMA RunFields ==
  ASSUME run \in RunRecord
  PROVE  /\ run.state \in RunStates /\ run.head \in Heads
         /\ run.rounds \in Seq(Round) /\ run.reviews \in Seq(Review)
         /\ run.repairs \in Seq(Repair) /\ run.finals \in Seq(Final)
         /\ run.ready \in Seq(Ready)
         /\ Current \in Nat /\ DOMAIN run.rounds = 1..Current
         /\ \A n \in DOMAIN run.rounds : run.rounds[n] \in Round
         /\ \A i \in DOMAIN run.reviews : run.reviews[i] \in Review
         /\ \A i \in DOMAIN run.repairs : run.repairs[i] \in Repair
         /\ \A i \in DOMAIN run.finals : run.finals[i] \in Final
         /\ DOMAIN run.reviews = 1..Len(run.reviews) /\ Len(run.reviews) \in Nat
         /\ DOMAIN run.repairs = 1..Len(run.repairs) /\ Len(run.repairs) \in Nat
         /\ DOMAIN run.finals = 1..Len(run.finals) /\ Len(run.finals) \in Nat
<1>1. /\ run.state \in RunStates /\ run.head \in Heads
      /\ run.rounds \in Seq(Round) /\ run.reviews \in Seq(Review)
      /\ run.repairs \in Seq(Repair) /\ run.finals \in Seq(Final)
      /\ run.ready \in Seq(Ready)
  BY DEF RunRecord
<1>2. Current \in Nat /\ DOMAIN run.rounds = 1..Current
  BY <1>1 DEF Current
<1>3. /\ \A n \in DOMAIN run.rounds : run.rounds[n] \in Round
      /\ \A i \in DOMAIN run.reviews : run.reviews[i] \in Review
  BY <1>1
<1>4. /\ \A i \in DOMAIN run.repairs : run.repairs[i] \in Repair
      /\ \A i \in DOMAIN run.finals : run.finals[i] \in Final
  BY <1>1
<1>5. /\ DOMAIN run.reviews = 1..Len(run.reviews) /\ Len(run.reviews) \in Nat
      /\ DOMAIN run.repairs = 1..Len(run.repairs) /\ Len(run.repairs) \in Nat
      /\ DOMAIN run.finals = 1..Len(run.finals) /\ Len(run.finals) \in Nat
  BY <1>1
<1> QED
  BY <1>1, <1>2, <1>3, <1>4, <1>5

-----------------------------------------------------------------------------
(* What each write does to the fields of the run.                          *)

LEMMA ReviewWritten ==
  ASSUME run \in RunRecord, NEW k \in DOMAIN run.reviews, NEW v \in Review,
         NEW r, r = [run EXCEPT !.reviews[k] = v]
  PROVE  /\ r \in RunRecord
         /\ r.state = run.state /\ r.head = run.head /\ r.rounds = run.rounds
         /\ r.repairs = run.repairs /\ r.finals = run.finals /\ r.ready = run.ready
         /\ DOMAIN r.reviews = DOMAIN run.reviews
         /\ \A i \in DOMAIN run.reviews : r.reviews[i] = IF i = k THEN v ELSE run.reviews[i]
<1>1. run.reviews \in Seq(Review)
  BY RunFields
<1>2. [run.reviews EXCEPT ![k] = v] \in Seq(Review)
  BY <1>1, Rewritten
<1>3. r \in RunRecord /\ r.reviews = [run.reviews EXCEPT ![k] = v]
  BY <1>2 DEF RunRecord
<1>4. /\ r.state = run.state /\ r.head = run.head /\ r.rounds = run.rounds
      /\ r.repairs = run.repairs /\ r.finals = run.finals /\ r.ready = run.ready
  BY DEF RunRecord
<1> QED
  BY <1>1, <1>3, <1>4

LEMMA RepairWritten ==
  ASSUME run \in RunRecord, NEW k \in DOMAIN run.repairs, NEW v \in Repair,
         NEW r, r = [run EXCEPT !.repairs[k] = v]
  PROVE  /\ r \in RunRecord
         /\ r.state = run.state /\ r.head = run.head /\ r.rounds = run.rounds
         /\ r.reviews = run.reviews /\ r.finals = run.finals /\ r.ready = run.ready
         /\ DOMAIN r.repairs = DOMAIN run.repairs
         /\ \A i \in DOMAIN run.repairs : r.repairs[i] = IF i = k THEN v ELSE run.repairs[i]
<1>1. run.repairs \in Seq(Repair)
  BY RunFields
<1>2. [run.repairs EXCEPT ![k] = v] \in Seq(Repair)
  BY <1>1, Rewritten
<1>3. r \in RunRecord /\ r.repairs = [run.repairs EXCEPT ![k] = v]
  BY <1>2 DEF RunRecord
<1>4. /\ r.state = run.state /\ r.head = run.head /\ r.rounds = run.rounds
      /\ r.reviews = run.reviews /\ r.finals = run.finals /\ r.ready = run.ready
  BY DEF RunRecord
<1> QED
  BY <1>1, <1>3, <1>4

\* The ways to write the repair the loop works on.
LEMMA MineWritten ==
  ASSUME run \in RunRecord, loop.at \in DOMAIN run.repairs
  PROVE  /\ Mine \in Repair
         /\ \A state \in AttemptStates :
              /\ [Mine EXCEPT !.state = state] \in Repair
              /\ SetMine(state) = [run EXCEPT !.repairs[loop.at] = [Mine EXCEPT !.state = state]]
         /\ [Mine EXCEPT !.evidence = TRUE] \in Repair
         /\ [Mine EXCEPT !.commit = TRUE] \in Repair
         /\ [run EXCEPT !.repairs[loop.at].evidence = TRUE]
              = [run EXCEPT !.repairs[loop.at] = [Mine EXCEPT !.evidence = TRUE]]
         /\ [run EXCEPT !.repairs[loop.at].commit = TRUE]
              = [run EXCEPT !.repairs[loop.at] = [Mine EXCEPT !.commit = TRUE]]
<1>1. Mine \in Repair
  BY RunFields DEF Mine
<1>2. \A state \in AttemptStates : [Mine EXCEPT !.state = state] \in Repair
  BY <1>1 DEF Repair
<1>3. [Mine EXCEPT !.evidence = TRUE] \in Repair /\ [Mine EXCEPT !.commit = TRUE] \in Repair
  BY <1>1 DEF Repair
<1>4. \A state \in AttemptStates :
        SetMine(state) = [run EXCEPT !.repairs[loop.at] = [Mine EXCEPT !.state = state]]
  BY DEF SetMine, Mine, RunRecord
<1>5. /\ [run EXCEPT !.repairs[loop.at].evidence = TRUE]
           = [run EXCEPT !.repairs[loop.at] = [Mine EXCEPT !.evidence = TRUE]]
      /\ [run EXCEPT !.repairs[loop.at].commit = TRUE]
           = [run EXCEPT !.repairs[loop.at] = [Mine EXCEPT !.commit = TRUE]]
  BY DEF Mine, RunRecord
<1> QED
  BY <1>1, <1>2, <1>3, <1>4, <1>5

\* A repair that failed, with its round or, in a recovery, without it.
WithoutRound == [SetMine("failed") EXCEPT !.state = "failed"]
WithRound == [SetMine("failed") EXCEPT !.state = "failed", !.rounds[Current].state = "failed"]

LEMMA RepairFailed ==
  ASSUME run \in RunRecord, loop.at \in DOMAIN run.repairs,
         NEW r, r = WithoutRound \/ (Current # 0 /\ r = WithRound),
         NEW v, v = [Mine EXCEPT !.state = "failed"]
  PROVE  /\ r \in RunRecord
         /\ r.state = "failed" /\ r.head = run.head
         /\ r.reviews = run.reviews /\ r.finals = run.finals /\ r.ready = run.ready
         /\ DOMAIN r.rounds = DOMAIN run.rounds
         /\ \A n \in DOMAIN run.rounds :
              /\ r.rounds[n].base = run.rounds[n].base /\ r.rounds[n].repair = run.rounds[n].repair
              /\ r.rounds[n].state \in {run.rounds[n].state, "failed"}
         /\ DOMAIN r.repairs = DOMAIN run.repairs
         /\ \A i \in DOMAIN run.repairs : r.repairs[i] = IF i = loop.at THEN v ELSE run.repairs[i]
<1> DEFINE s == SetMine("failed")
<1>1. s = [run EXCEPT !.repairs[loop.at] = v] /\ v \in Repair
  BY MineWritten DEF AttemptStates
<1>2. /\ s \in RunRecord
      /\ s.state = run.state /\ s.head = run.head /\ s.rounds = run.rounds
      /\ s.reviews = run.reviews /\ s.finals = run.finals /\ s.ready = run.ready
      /\ DOMAIN s.repairs = DOMAIN run.repairs
      /\ \A i \in DOMAIN run.repairs : s.repairs[i] = IF i = loop.at THEN v ELSE run.repairs[i]
  BY <1>1, RepairWritten
<1> HIDE DEF s
<1>3. CASE r = [s EXCEPT !.state = "failed"]
  BY <1>2, <1>3 DEF RunRecord, RunStates, TerminalRun
<1>4. CASE Current # 0 /\ r = [s EXCEPT !.state = "failed", !.rounds[Current].state = "failed"]
  <2> DEFINE w == [run.rounds[Current] EXCEPT !.state = "failed"]
  <2>1. Current \in DOMAIN run.rounds /\ run.rounds[Current] \in Round /\ run.rounds \in Seq(Round)
    BY <1>4, RunFields
  <2>2. w \in Round
    BY <2>1 DEF Round
  <2>3. r = [s EXCEPT !.state = "failed", !.rounds = [run.rounds EXCEPT ![Current] = w]]
    BY <1>2, <1>4 DEF RunRecord
  <2>4. /\ w.base = run.rounds[Current].base /\ w.repair = run.rounds[Current].repair
        /\ w.state = "failed"
    BY <2>1 DEF Round
  <2> HIDE DEF w
  <2>5. [run.rounds EXCEPT ![Current] = w] \in Seq(Round)
    BY <2>1, <2>2, Rewritten
  <2>6. r.rounds = [run.rounds EXCEPT ![Current] = w] /\ r \in RunRecord /\ r.state = "failed"
    BY <1>2, <2>3, <2>5 DEF RunRecord, RunStates, TerminalRun
  <2>7. r.repairs = s.repairs /\ r.head = s.head /\ r.reviews = s.reviews /\ r.finals = s.finals
        /\ r.ready = s.ready
    BY <1>2, <2>3 DEF RunRecord
  <2>8. /\ DOMAIN r.rounds = DOMAIN run.rounds
        /\ \A n \in DOMAIN run.rounds :
             /\ r.rounds[n].base = run.rounds[n].base /\ r.rounds[n].repair = run.rounds[n].repair
             /\ r.rounds[n].state \in {run.rounds[n].state, "failed"}
    BY <2>1, <2>4, <2>6
  <2> QED
    BY <1>2, <2>6, <2>7, <2>8
<1> QED
  BY <1>3, <1>4 DEF s, WithoutRound, WithRound

\* A round that failed, with what became of its findings.
LEMMA RoundFailed ==
  ASSUME run \in RunRecord, Current # 0, NEW q, q \in RunRecord, q.rounds = run.rounds,
         NEW r, r = FailRound(q)
  PROVE  /\ r \in RunRecord
         /\ r.state = "failed" /\ r.head = q.head
         /\ r.reviews = q.reviews /\ r.repairs = q.repairs
         /\ r.finals = q.finals /\ r.ready = q.ready
         /\ DOMAIN r.rounds = DOMAIN run.rounds
         /\ \A n \in DOMAIN run.rounds :
              /\ r.rounds[n].base = run.rounds[n].base /\ r.rounds[n].repair = run.rounds[n].repair
              /\ r.rounds[n].state \in {run.rounds[n].state, "failed"}
<1> DEFINE w == [run.rounds[Current] EXCEPT !.state = "failed"]
<1>1. Current \in DOMAIN run.rounds /\ run.rounds[Current] \in Round /\ run.rounds \in Seq(Round)
  BY RunFields
<1>2. w \in Round
  BY <1>1 DEF Round
<1>3. r = [q EXCEPT !.state = "failed", !.rounds = [run.rounds EXCEPT ![Current] = w]]
  BY DEF FailRound, RunRecord
<1>4. w.base = run.rounds[Current].base /\ w.repair = run.rounds[Current].repair
      /\ w.state = "failed"
  BY <1>1 DEF Round
<1> HIDE DEF w
<1>5. [run.rounds EXCEPT ![Current] = w] \in Seq(Round)
  BY <1>1, <1>2, Rewritten
<1>6. r.rounds = [run.rounds EXCEPT ![Current] = w] /\ r \in RunRecord /\ r.state = "failed"
  BY <1>3, <1>5 DEF RunRecord, RunStates, TerminalRun
<1>7. r.repairs = q.repairs /\ r.head = q.head /\ r.reviews = q.reviews
      /\ r.finals = q.finals /\ r.ready = q.ready
  BY <1>3 DEF RunRecord
<1> QED
  BY <1>1, <1>4, <1>6, <1>7

\* The statuses the policy gives to the findings of the current round.
LEMMA PrioritizedWritten ==
  ASSUME run \in RunRecord, NEW found
  PROVE  /\ Prioritized(found) \in Seq(Review)
         /\ DOMAIN Prioritized(found) = DOMAIN run.reviews
         /\ \A i \in DOMAIN run.reviews :
              LET old == run.reviews[i]
                  new == Prioritized(found)[i]
              IN /\ new.round = old.round /\ new.category = old.category
                 /\ new.state = old.state /\ new.kind = old.kind /\ new.by = old.by
                 /\ IF i \notin Reported(run, Current) THEN new.status = old.status
                    ELSE new.status = IF i \in found THEN "unresolved"
                                      ELSE IF i \in Important(run, Current) THEN "repair_required"
                                      ELSE "deferred"
<1> DEFINE st(i) == IF i \in found THEN "unresolved"
                    ELSE IF i \in Important(run, Current) THEN "repair_required" ELSE "deferred"
           v(i) == IF i \notin Reported(run, Current) THEN run.reviews[i]
                   ELSE [run.reviews[i] EXCEPT !.status = st(i)]
<1>1. /\ run.reviews \in Seq(Review) /\ DOMAIN run.reviews = 1..Len(run.reviews)
      /\ Len(run.reviews) \in Nat
      /\ \A i \in DOMAIN run.reviews : run.reviews[i] \in Review
  BY RunFields
<1>2. \A i \in DOMAIN run.reviews : st(i) \in {"unresolved", "repair_required", "deferred"}
  OBVIOUS
<1>3. Prioritized(found) = [i \in DOMAIN run.reviews |-> v(i)]
  BY DEF Prioritized
<1> HIDE DEF st
<1>4. \A i \in DOMAIN run.reviews : v(i) \in Review
  BY <1>1, <1>2 DEF Review
<1>5. \A i \in DOMAIN run.reviews :
        /\ v(i).round = run.reviews[i].round /\ v(i).category = run.reviews[i].category
        /\ v(i).state = run.reviews[i].state /\ v(i).kind = run.reviews[i].kind
        /\ v(i).by = run.reviews[i].by
        /\ v(i).status = IF i \notin Reported(run, Current) THEN run.reviews[i].status ELSE st(i)
  BY <1>1 DEF Review
<1> HIDE DEF v
<1>6. Prioritized(found) \in Seq(Review) /\ DOMAIN Prioritized(found) = DOMAIN run.reviews
  BY <1>1, <1>3, <1>4, IsASeq
<1>7. \A i \in DOMAIN run.reviews : Prioritized(found)[i] = v(i)
  BY <1>3
<1> QED
  BY <1>5, <1>6, <1>7 DEF st

\* The run of a repair that reached the branch: its findings repaired, its round
\* closed, and a new one on the new head.
LEMMA Completed ==
  ASSUME run \in RunRecord, loop.at \in DOMAIN run.repairs, Mine.round = Current,
         Current # 0, NEW r, r = Complete
  PROVE  /\ r \in RunRecord
         /\ r.state = "reviewing" /\ r.head = Append(run.head, loop.at)
         /\ r.finals = run.finals /\ r.ready = run.ready
         /\ DOMAIN r.rounds = 1..(Current + 1) /\ Len(r.rounds) = Current + 1
         /\ r.rounds[Current + 1] = NewRound(r.head)
         /\ \A n \in DOMAIN run.rounds :
              /\ r.rounds[n].base = run.rounds[n].base /\ r.rounds[n].repair = run.rounds[n].repair
              /\ r.rounds[n].state = IF n = Current THEN "succeeded" ELSE run.rounds[n].state
         /\ DOMAIN r.repairs = DOMAIN run.repairs
         /\ \A i \in DOMAIN run.repairs :
              r.repairs[i] = IF i = loop.at THEN [Mine EXCEPT !.state = "succeeded", !.integrated = TRUE]
                             ELSE run.repairs[i]
         /\ DOMAIN r.reviews = DOMAIN run.reviews
         /\ \A i \in DOMAIN run.reviews :
              LET old == run.reviews[i]
                  new == r.reviews[i]
              IN /\ new.round = old.round /\ new.category = old.category
                 /\ new.state = old.state /\ new.kind = old.kind
                 /\ IF i \in Mine.findings THEN new.status = "repaired" /\ new.by = loop.at
                    ELSE new.status = old.status /\ new.by = old.by
<1> DEFINE head == Append(run.head, loop.at)
           w == [run.rounds[Current] EXCEPT !.state = "succeeded"]
           closed == [run.rounds EXCEPT ![Current] = w]
           rounds == Append(closed, NewRound(head))
           m == [Mine EXCEPT !.state = "succeeded", !.integrated = TRUE]
           repairs == [run.repairs EXCEPT ![loop.at] = m]
           v(i) == IF i \in Mine.findings
                   THEN [run.reviews[i] EXCEPT !.status = "repaired", !.by = loop.at]
                   ELSE run.reviews[i]
           reviews == [i \in DOMAIN run.reviews |-> v(i)]
<1>1. /\ run.rounds \in Seq(Round) /\ Current \in DOMAIN run.rounds
      /\ run.rounds[Current] \in Round
      /\ run.repairs \in Seq(Repair) /\ Mine \in Repair /\ run.head \in Heads
      /\ run.reviews \in Seq(Review) /\ DOMAIN run.reviews = 1..Len(run.reviews)
      /\ Len(run.reviews) \in Nat /\ loop.at \in Nat
      /\ \A i \in DOMAIN run.reviews : run.reviews[i] \in Review
      /\ DOMAIN run.rounds = 1..Current /\ Current \in Nat
  BY RunFields DEF Mine
<1>2. w \in Round /\ w.base = run.rounds[Current].base /\ w.repair = run.rounds[Current].repair
      /\ w.state = "succeeded"
  BY <1>1 DEF Round
<1>3. m \in Repair
  BY <1>1 DEF Repair, AttemptStates
<1>4. head \in Heads /\ NewRound(head) \in Round
  BY <1>1 DEF Heads, NewRound, Round
<1>5. /\ closed \in Seq(Round) /\ DOMAIN closed = DOMAIN run.rounds /\ Len(closed) = Current
      /\ closed[Current] = w
      /\ \A n \in DOMAIN run.rounds \ {Current} : closed[n] = run.rounds[n]
  BY <1>1, <1>2, Rewritten DEF Current
<1>6. /\ rounds \in Seq(Round) /\ DOMAIN rounds = 1..(Current + 1) /\ Len(rounds) = Current + 1
      /\ rounds[Current + 1] = NewRound(head)
      /\ \A n \in DOMAIN run.rounds : rounds[n] = closed[n]
  BY <1>1, <1>4, <1>5, Added
<1>7. /\ repairs \in Seq(Repair) /\ DOMAIN repairs = DOMAIN run.repairs
      /\ \A i \in DOMAIN run.repairs : repairs[i] = IF i = loop.at THEN m ELSE run.repairs[i]
  BY <1>1, <1>3, Rewritten
<1>8. \A i \in DOMAIN run.reviews :
        /\ v(i) \in Review
        /\ v(i).round = run.reviews[i].round /\ v(i).category = run.reviews[i].category
        /\ v(i).state = run.reviews[i].state /\ v(i).kind = run.reviews[i].kind
        /\ IF i \in Mine.findings THEN v(i).status = "repaired" /\ v(i).by = loop.at
           ELSE v(i).status = run.reviews[i].status /\ v(i).by = run.reviews[i].by
  BY <1>1 DEF Review
<1>9. reviews \in Seq(Review) /\ DOMAIN reviews = DOMAIN run.reviews
      /\ \A i \in DOMAIN run.reviews : reviews[i] = v(i)
  <2> HIDE DEF v
  <2> QED
    BY <1>1, <1>8, IsASeq
<1>10. r = [run EXCEPT !.state = "reviewing", !.head = head, !.repairs = repairs,
                       !.reviews = reviews, !.rounds = rounds]
  <2>1. ~(Mine.round + 1 \in DOMAIN run.rounds)
    BY <1>1
  <2>2. [run.rounds EXCEPT ![Mine.round].state = "succeeded"] = closed
    OBVIOUS
  <2>3. [run EXCEPT !.repairs[loop.at].state = "succeeded", !.repairs[loop.at].integrated = TRUE].repairs
          = repairs
    BY <1>1 DEF RunRecord, Mine
  <2> QED
    BY <1>1, <2>1, <2>2, <2>3 DEF Complete, RunRecord, Mine
<1> HIDE DEF head, w, closed, rounds, m, repairs, v, reviews
<1>11. /\ r \in RunRecord /\ r.state = "reviewing" /\ r.head = head /\ r.repairs = repairs
       /\ r.reviews = reviews /\ r.rounds = rounds /\ r.finals = run.finals /\ r.ready = run.ready
  BY <1>4, <1>6, <1>7, <1>9, <1>10 DEF RunRecord, RunStates
<1>12. \A n \in DOMAIN run.rounds :
         /\ r.rounds[n].base = run.rounds[n].base /\ r.rounds[n].repair = run.rounds[n].repair
         /\ r.rounds[n].state = IF n = Current THEN "succeeded" ELSE run.rounds[n].state
  BY <1>2, <1>5, <1>6, <1>11
<1>13. DOMAIN r.rounds = 1..(Current + 1) /\ Len(r.rounds) = Current + 1
       /\ r.rounds[Current + 1] = NewRound(r.head) /\ r.head = Append(run.head, loop.at)
  BY <1>6, <1>11 DEF head
<1>14. DOMAIN r.repairs = DOMAIN run.repairs
       /\ \A i \in DOMAIN run.repairs :
            r.repairs[i] = IF i = loop.at THEN [Mine EXCEPT !.state = "succeeded", !.integrated = TRUE]
                           ELSE run.repairs[i]
  BY <1>7, <1>11 DEF m
<1>15. DOMAIN r.reviews = DOMAIN run.reviews /\ \A i \in DOMAIN run.reviews : r.reviews[i] = v(i)
  BY <1>9, <1>11
<1> QED
  BY <1>8, <1>11, <1>12, <1>13, <1>14, <1>15

-----------------------------------------------------------------------------
(* The operators over categories and attempts.                             *)

\* The newest attempt of a non-empty set of them.
LEMMA Newest ==
  ASSUME NEW n \in Nat, NEW S, S \subseteq 1..n, S # {}
  PROVE  LastOf(S) \in S /\ LastOf(S) \in 1..n /\ \A j \in S : j <= LastOf(S)
<1> DEFINE T == {n - i : i \in S}
<1>1. T \subseteq Nat /\ T # {}
  <2>1. \A i \in S : i \in 1..n /\ n - i \in Nat
    OBVIOUS
  <2> QED
    BY <2>1
<1>2. PICK m \in T : \A k \in T : <<k, m>> \notin OpToRel(<, Nat)
  BY ONLY <1>1, NatLessThanWellFounded, WFMin
<1>3. \A k \in T : ~(k < m)
  <2> HIDE DEF T
  <2> QED
    BY <1>1, <1>2 DEF OpToRel
<1>4. PICK i \in S : m = n - i
  OBVIOUS
<1>5. \A j \in S : j <= i
  <2> SUFFICES ASSUME NEW j \in S PROVE j <= i
    OBVIOUS
  <2>1. n - j \in T /\ j \in Nat /\ i \in Nat
    OBVIOUS
  <2> HIDE DEF T
  <2> QED
    BY <1>3, <1>4, <2>1
<1> QED
  BY <1>4, <1>5 DEF LastOf

LEMMA CategoriesFinite ==
  /\ IsFiniteSet(Categories) /\ Cardinality(Categories) = Len(REVIEW_CATEGORIES)
  /\ \A c \in Categories : Order(c) \in DOMAIN REVIEW_CATEGORIES /\ REVIEW_CATEGORIES[Order(c)] = c
  /\ DOMAIN REVIEW_CATEGORIES = 1..Len(REVIEW_CATEGORIES) /\ Len(REVIEW_CATEGORIES) \in Nat
<1>1. DOMAIN REVIEW_CATEGORIES = 1..Len(REVIEW_CATEGORIES) /\ Len(REVIEW_CATEGORIES) \in Nat
  OBVIOUS
<1>2. \A c \in Categories : \E i \in DOMAIN REVIEW_CATEGORIES : REVIEW_CATEGORIES[i] = c
  BY DEF Categories, Range
<1>3. \A i \in DOMAIN REVIEW_CATEGORIES : REVIEW_CATEGORIES[i] \in Categories
  BY DEF Categories, Range
<1>4. REVIEW_CATEGORIES \in Bijection(1..Len(REVIEW_CATEGORIES), Categories)
  <2>1. REVIEW_CATEGORIES \in [1..Len(REVIEW_CATEGORIES) -> Categories]
    OBVIOUS
  <2>2. REVIEW_CATEGORIES \in Surjection(1..Len(REVIEW_CATEGORIES), Categories)
    BY <1>1, <1>2, <2>1 DEF Surjection
  <2>3. REVIEW_CATEGORIES \in Injection(1..Len(REVIEW_CATEGORIES), Categories)
    BY <1>1, <2>1, ReviewAssumption DEF Injection, IsInjective
  <2> QED
    BY <2>2, <2>3 DEF Bijection
<1>5. IsFiniteSet(1..Len(REVIEW_CATEGORIES)) /\ Cardinality(1..Len(REVIEW_CATEGORIES)) = Len(REVIEW_CATEGORIES)
  BY <1>1, FS_Interval
<1>6. IsFiniteSet(Categories) /\ Cardinality(Categories) = Len(REVIEW_CATEGORIES)
  BY <1>4, <1>5, FS_Bijection DEF ExistsBijection
<1> QED
  BY <1>1, <1>2, <1>6 DEF Order

\* A batch is no larger than the pool of workers.
LEMMA FirstBounded ==
  ASSUME NEW S, S \subseteq Categories
  PROVE  /\ First(S) \subseteq S
         /\ IsFiniteSet(First(S)) /\ Cardinality(First(S)) <= MaxWorkers
<1> DEFINE F == First(S)
           Is == {Order(c) : c \in F}
           n == Len(REVIEW_CATEGORIES)
<1>1. F \subseteq S /\ IsFiniteSet(F) /\ F \subseteq Categories
  BY CategoriesFinite, FS_Subset DEF First
<1>2. CASE F = {}
  BY <1>1, <1>2, FS_EmptySet
<1>3. CASE F # {}
  <2>1. Is \subseteq 1..n /\ Is # {} /\ n \in Nat
    BY <1>1, <1>3, CategoriesFinite
  <2>2. LastOf(Is) \in Is /\ \A j \in Is : j <= LastOf(Is)
    <3> HIDE DEF Is, n
    <3> QED
      BY <2>1, Newest
  <2>3. PICK c \in F : LastOf(Is) = Order(c)
    BY <2>2
  <2>4. \A d \in F \ {c} : Order(d) < Order(c)
    <3> SUFFICES ASSUME NEW d \in F \ {c} PROVE Order(d) < Order(c)
      OBVIOUS
    <3>1. Order(d) <= Order(c) /\ Order(d) \in Nat /\ Order(c) \in Nat
      BY <1>1, <2>2, <2>3, CategoriesFinite
    <3>2. Order(d) # Order(c)
      BY <1>1, CategoriesFinite
    <3> QED
      BY <3>1, <3>2
  <2>5. F \ {c} \subseteq Earlier(S, c)
    BY <1>1, <2>4 DEF Earlier
  <2>6. IsFiniteSet(Earlier(S, c)) /\ Cardinality(Earlier(S, c)) \in Nat
    BY CategoriesFinite, FS_Subset, FS_CardinalityType DEF Earlier
  <2>7. Cardinality(F \ {c}) <= Cardinality(Earlier(S, c)) /\ Cardinality(F \ {c}) \in Nat
    BY <2>5, <2>6, FS_Subset, FS_CardinalityType
  <2>8. Cardinality(F \ {c}) = Cardinality(F) - 1 /\ Cardinality(F) \in Nat
    BY <1>1, FS_RemoveElement, FS_CardinalityType
  <2>9. Cardinality(Earlier(S, c)) < MaxWorkers
    BY DEF First
  <2> QED
    BY <1>1, <2>6, <2>7, <2>8, <2>9
<1> QED
  BY <1>2, <1>3

\* A round with a report for each category has them all.
LEMMA AllReported ==
  ASSUME run \in RunRecord, RoundsSound(run), Current # 0,
         Cardinality(Reported(run, Current)) = Len(REVIEW_CATEGORIES)
  PROVE  ReportedNow = Categories
<1> DEFINE R == Reported(run, Current)
           f == [i \in R |-> run.reviews[i].category]
<1>1. Current \in DOMAIN run.rounds
  BY RunFields
<1>2. \A i \in R : i \in DOMAIN run.reviews /\ i \in InRound(run, Current) /\ i \in Nat
                   /\ run.reviews[i].category \in Categories /\ run.reviews[i].state = "succeeded"
  BY RunFields DEF Reported, InRound, Review
<1>3. \A i, j \in R : i < j => run.reviews[i].category # run.reviews[j].category
  <2> HIDE DEF R
  <2> QED
    BY <1>1, <1>2 DEF RoundsSound
<1>4. f \in Injection(R, Categories)
  <2> HIDE DEF R
  <2>1. \A i, j \in R : i # j => run.reviews[i].category # run.reviews[j].category
    BY <1>2, <1>3
  <2> QED
    BY <1>2, <2>1 DEF Injection, IsInjective
<1>5. f \in Surjection(R, Categories)
  BY <1>4, CategoriesFinite, FS_Injection
<1> QED
  BY <1>5 DEF Surjection, ReportedNow, CategoriesOf

\* Every active review has a pass of its own.
LEMMA PoolBounded ==
  ASSUME NEW A, NEW L, NEW at, IsFiniteSet(L), \A i \in A : \E c \in L : at[c] = i
  PROVE  IsFiniteSet(A) /\ Cardinality(A) <= Cardinality(L)
<1> DEFINE M == {c \in L : at[c] \in A}
           f == [c \in M |-> at[c]]
<1>1. IsFiniteSet(M) /\ Cardinality(M) <= Cardinality(L)
  BY FS_Subset
<1>2. f \in Surjection(M, A)
  BY DEF Surjection
<1>3. IsFiniteSet(A) /\ Cardinality(A) <= Cardinality(M)
  <2> HIDE DEF M, f
  <2> QED
    BY <1>1, <1>2, FS_Surjection
<1>4. Cardinality(A) \in Nat /\ Cardinality(M) \in Nat /\ Cardinality(L) \in Nat
  BY <1>1, <1>3, FS_CardinalityType
<1> HIDE DEF M
<1> QED
  BY <1>1, <1>3, <1>4

LEMMA ActiveFinite ==
  ASSUME run \in RunRecord
  PROVE  /\ IsFiniteSet(ActiveIn(run.reviews)) /\ IsFiniteSet(ActiveIn(run.repairs))
         /\ ActiveIn(run.reviews) \subseteq DOMAIN run.reviews
         /\ ActiveIn(run.repairs) \subseteq DOMAIN run.repairs
<1>0. Len(run.reviews) \in Int /\ Len(run.repairs) \in Int /\ 1 \in Int
  BY RunFields
<1>1. IsFiniteSet(1..Len(run.reviews)) /\ IsFiniteSet(1..Len(run.repairs))
  BY <1>0, FS_Interval
<1>2. /\ ActiveIn(run.reviews) \subseteq 1..Len(run.reviews)
      /\ ActiveIn(run.repairs) \subseteq 1..Len(run.repairs)
  BY RunFields DEF ActiveIn
<1> QED
  BY <1>1, <1>2, RunFields, FS_Subset

\* Ending attempts keeps the bound.
LEMMA FewerActive ==
  ASSUME run \in RunRecord, WorkersBounded(run), NEW r,
         ActiveIn(r.reviews) \subseteq ActiveIn(run.reviews),
         ActiveIn(r.repairs) \subseteq ActiveIn(run.repairs)
  PROVE  WorkersBounded(r)
<1>1. /\ Cardinality(ActiveIn(r.reviews)) <= Cardinality(ActiveIn(run.reviews))
      /\ Cardinality(ActiveIn(r.repairs)) <= Cardinality(ActiveIn(run.repairs))
      /\ IsFiniteSet(ActiveIn(r.reviews)) /\ IsFiniteSet(ActiveIn(r.repairs))
  BY ActiveFinite, FS_Subset
<1>2. /\ Cardinality(ActiveIn(r.reviews)) \in Nat /\ Cardinality(ActiveIn(run.reviews)) \in Nat
      /\ Cardinality(ActiveIn(r.repairs)) \in Nat /\ Cardinality(ActiveIn(run.repairs)) \in Nat
  BY <1>1, ActiveFinite, FS_CardinalityType
<1> QED
  BY <1>1, <1>2 DEF WorkersBounded

-----------------------------------------------------------------------------
(* Steps that write nothing.                                               *)

LEMMA SameRun ==
  ASSUME Inv, UNCHANGED <<run, branch>>
  PROVE  RoundsHold' /\ FindingsHold' /\ WorkersBounded(run)'
<1>1. RoundsHold'
  BY DEF Inv, RoundsHold, Current
<1>2. FindingsHold'
  BY DEF Inv, FindingsHold, Current, PastReview, Required, Open
<1>3. WorkersBounded(run)'
  BY DEF Inv
<1> QED
  BY <1>1, <1>2, <1>3

\* The moves of the loop between two awaits, with what it learns on the way.
Move ==
  \/ loop.pc \in {"review", "final", "reserve", "finish", "resume"} /\ loop'.pc = "idle"
  \/ loop.pc = "review" /\ loop'.pc \in {"judge", "final"}
  \/ loop.pc = "resume" /\ loop'.pc \in {"review", "final"}
  \/ loop.pc = "judge" /\ loop'.pc = "review"
  \/ loop.pc = "final" /\ loop'.pc = "reserve"
  \/ /\ loop.pc = "final" /\ loop'.pc = "stale" /\ run.state = "reviewed"
     /\ loop'.at \in DOMAIN run.finals /\ run.finals[loop'.at].state = "interrupted"
  \/ /\ loop.pc = "stale" /\ loop'.pc = "finish" /\ loop'.at = loop.at
     /\ run.finals[loop.at].evidence
  \/ loop.pc = "stale" /\ loop'.pc = "reserve"
  \/ loop.pc = "checked" /\ loop'.pc = "finish" /\ loop'.at = loop.at /\ ~Unsettled(loop.at)
  \/ /\ loop.pc \in {"spawn", "work"} /\ loop'.pc = "review" /\ run.state = "cancelled"
  \/ loop.pc \in {"unrepair", "abandon"} /\ loop'.pc = "review" /\ run.state = "cancelled"
  \/ loop.pc = "validate" /\ loop'.pc = "evidence" /\ loop'.at = loop.at
  \/ /\ loop.pc \in {"spawn", "work", "validate"}
     /\ loop'.pc = "unrepair" /\ loop'.at = loop.at
  \/ /\ loop.pc \in {"evidence", "commit", "integrate", "complete"}
     /\ loop'.pc = "abandon" /\ loop'.at = loop.at
  \/ loop.pc = "check" /\ loop'.pc \in {"checked", "unfinal"} /\ loop'.at = loop.at
  \/ /\ loop.pc = "finish" /\ loop'.pc = "unfinal" /\ loop'.at = loop.at
     /\ run.finals[loop.at].state # "interrupted"
  \/ /\ loop.pc = "idle" /\ loop'.pc = "recover" /\ loop'.at = 0
     /\ \A i \in DOMAIN run.repairs : ~RecoverableRepair(i)
  \/ /\ loop.pc = "idle" /\ loop'.pc = "recover" /\ loop'.at \in DOMAIN run.repairs
     /\ RecoverableRepair(loop'.at)
  \/ /\ loop.pc = "recover" /\ loop'.pc = "recovered" /\ loop'.at = loop.at /\ loop.at # 0
     /\ branch = Append(Mine.base, loop.at)

LEMMA MoveStep ==
  ASSUME Inv, Move, UNCHANGED <<run, branch, pass>>, loop' \in LoopRecord,
         cancel' \in Nat, count' \in Counted
  PROVE  Inv'
<1>1. run \in RunRecord /\ TypeOK'
  BY TypeParts DEF Inv, TypeOK, LoopRecord, Counted
<1>2. ReviewsHold'
  BY DEF Inv, ReviewsHold, Launched, ReportedNow, Current, Passing, RecoveryPc, Move
<1>3. RepairsHold'
  <2>1. RepairsSound(run)' /\ \A i \in DOMAIN run.repairs' :
          /\ run.repairs'[i].integrated <=> run.repairs'[i].state = "succeeded"
          /\ run.repairs'[i].commit => run.repairs'[i].state \notin {"prepared", "running", "interrupted"}
    BY DEF Inv, RepairsHold
  <2>2. \A i \in ActiveIn(run.repairs)' :
          /\ run.state' = "repairing" /\ i = Len(run.repairs')
          /\ run.repairs'[i].round = Current' /\ run.repairs'[i].base = run.head'
          /\ run.repairs'[i].findings = Required'
    BY DEF Inv, RepairsHold, Current, Required
  <2>3. \A i \in ActiveIn(run.repairs)' :
          /\ loop.pc' \notin RecoveryPc => loop.pc' \in RepairPc /\ loop.at' = i
          /\ loop.pc' = "recover" /\ loop.at' = 0 => ~run.repairs'[i].commit
    <3> SUFFICES ASSUME NEW i \in ActiveIn(run.repairs)
                 PROVE  /\ loop.pc' \notin RecoveryPc => loop.pc' \in RepairPc /\ loop.at' = i
                        /\ loop.pc' = "recover" /\ loop.at' = 0 => ~run.repairs[i].commit
      OBVIOUS
    <3>1. run.state = "repairing" /\ (loop.pc \notin RecoveryPc => loop.pc \in RepairPc /\ loop.at = i)
      BY DEF Inv, RepairsHold
    <3>2. loop.pc' \notin RecoveryPc => loop.pc' \in RepairPc /\ loop.at' = i
      BY <3>1 DEF Move, RecoveryPc, RepairPc
    <3>3. ASSUME loop.pc' = "recover", loop.at' = 0 PROVE ~run.repairs[i].commit
      <4>1. i \in DOMAIN run.repairs /\ ~RecoverableRepair(i) /\ run.repairs[i].state \in ActiveStates
            /\ DOMAIN run.repairs = 1..Len(run.repairs) /\ Len(run.repairs) \in Nat
        BY <1>1, <3>3, RunFields DEF Move, ActiveIn
      <4>2. run.repairs[i].commit => run.repairs[i].evidence /\ run.repairs[i].state = "validating"
        BY <4>1 DEF Inv, RepairsHold, RepairsSound, ActiveStates
      <4> QED
        BY <4>1, <4>2 DEF RecoverableRepair
    <3> QED
      BY <3>2, <3>3
  <2>4. loop.pc' \in RepairPc \/ (loop.pc' \in {"recover", "recovered"} /\ loop.at' # 0) =>
          loop.at' \in DOMAIN run.repairs /\ Working'
    <3>1. CASE loop.pc \in RepairPc \/ (loop.pc = "recover" /\ loop.at # 0)
      <4>1. Working
        BY <3>1 DEF Inv, RepairsHold
      <4> QED
        BY <3>1, <4>1 DEF Move, Working, Mine, RepairPc, ActiveStates
    <3>2. CASE loop.pc = "idle" /\ loop'.pc = "recover" /\ loop'.at # 0
      <4>1. loop'.at \in DOMAIN run.repairs /\ RecoverableRepair(loop'.at)
        BY <1>1, <3>2 DEF Move
      <4>2. loop'.at \in ActiveIn(run.repairs)
        BY <4>1 DEF RecoverableRepair, ActiveIn, ActiveStates
      <4>3. /\ run.state = "repairing" /\ run.repairs[loop'.at].base = run.head
            /\ ~run.repairs[loop'.at].integrated
        BY <4>1, <4>2 DEF Inv, RepairsHold, RecoverableRepair
      <4>4. run.finals = <<>> /\ Len(run.head) <= 1
        <5>1. run.finals = <<>>
          BY <4>3 DEF Inv, FindingsHold, PastReview
        <5>2. Current <= 2 /\ Len(run.head) = Current - 1 /\ Current \in Nat
          BY <1>1, <4>3, RunFields DEF Inv, RoundsHold
        <5> QED
          BY <5>1, <5>2
      <4> QED
        BY <3>2, <4>1, <4>3, <4>4 DEF Working, Mine, RecoverableRepair
    <3>3. CASE ~(loop.pc \in RepairPc \/ (loop.pc = "recover" /\ loop.at # 0)) /\ loop.pc # "idle"
      BY <3>3 DEF Move, RepairPc
    <3> QED
      BY <3>1, <3>2, <3>3 DEF Move, RepairPc
  <2>5. /\ loop.pc' \in {"commit", "integrate", "complete"} => Mine'.evidence
        /\ loop.pc' \in {"integrate", "complete", "recovered"} \/ (loop.pc' = "recover" /\ loop.at' # 0) =>
             Mine'.evidence /\ Mine'.commit
        /\ loop.pc' = "recovered" => loop.at' # 0
    BY <1>1 DEF Inv, RepairsHold, Move, Mine, RecoverableRepair
  <2> QED
    BY <2>1, <2>2, <2>3, <2>4, <2>5 DEF RepairsHold
<1>4. FinalsHold'
  <2>1. FinalsSound(run)' /\ ReadySound(run)' /\ (run'.state # "completed" => run'.ready = <<>>)
    BY DEF Inv, FinalsHold
  <2>2. run'.state = "validating" =>
          /\ loop'.pc \in {"idle", "recover", "check", "checked", "finish", "unfinal"}
          /\ loop'.pc = "recover" => loop'.at = 0
    <3>1. ASSUME RecoverableRepair(loop'.at), loop'.at \in DOMAIN run.repairs
          PROVE  run.state = "repairing"
      BY <3>1 DEF RecoverableRepair, Inv, RepairsHold, ActiveIn, ActiveStates
    <3> QED
      BY <3>1 DEF Inv, FinalsHold, Move
  <2>3. loop.pc' \in {"check", "checked", "unfinal", "finish", "stale"} => loop.at' \in DOMAIN run'.finals
    BY DEF Inv, FinalsHold, Move
  <2>4. loop.pc' \in {"check", "checked", "unfinal"} =>
          \/ run'.state = "validating" /\ loop.at' \in RunningFinals'
          \/ run'.state = "cancelled" /\ run'.finals[loop.at'].state # "interrupted"
    BY DEF Inv, FinalsHold, Move, RunningFinals
  <2>5. loop.pc' = "finish" =>
          /\ \/ run'.state = "validating" /\ loop.at' \in RunningFinals'
             \/ run'.state = "reviewed" /\ run'.finals[loop.at'].state = "interrupted"
             \/ run'.state = "cancelled"
          /\ Unsettled(loop.at)' => run'.finals[loop.at'].evidence
    BY DEF Inv, FinalsHold, Move, RunningFinals, Unsettled
  <2>6. loop.pc' = "stale" =>
          run'.state \in {"reviewed", "cancelled"} /\ run'.finals[loop.at'].state = "interrupted"
    BY DEF Inv, FinalsHold, Move
  <2> QED
    BY <2>1, <2>2, <2>3, <2>4, <2>5, <2>6 DEF FinalsHold
<1>5. BranchHolds'
  <2>1. loop.pc = "recover" /\ loop.at # 0 => Mine.base = run.head
    BY DEF Inv, RepairsHold, Working
  <2> QED
    BY <2>1 DEF Inv, BranchHolds, Move
<1> QED
  BY <1>1, <1>2, <1>3, <1>4, <1>5, SameRun DEF Inv

\* The steps of the loop, of a command and of a crash that only move.
LEMMA Moves ==
  ASSUME Inv
  PROVE  /\ Leave \/ (Judge /\ run.state # "reviewing") => Inv'
         /\ RunReviewRound /\ Missing = {} => Inv'
         /\ PrepareRepairFails \/ ValidateRepair \/ RepairFails => Inv'
         /\ StartFinalValidation \/ FindStaleAttempt \/ CheckHead => Inv'
         /\ RemoveFinalWorktreeFails \/ HistoryNotMergeReady => Inv'
         /\ Resume \/ RecoverIntegrated \/ ResumeAndLaunch => Inv'
         /\ Cancel => Inv'
<1> USE DEF At, GoTo, GoWith, Others, Idle, LoopRecord, LoopPc
<1>0. /\ run \in RunRecord /\ loop \in LoopRecord /\ cancel \in Nat /\ count \in Counted
      /\ DOMAIN run.finals = 1..Len(run.finals) /\ Len(run.finals) \in Nat
      /\ DOMAIN run.repairs = 1..Len(run.repairs) /\ Len(run.repairs) \in Nat
  BY TypeParts, RunFields DEF Inv
<1>1. Leave \/ (Judge /\ run.state # "reviewing") => Inv'
  <2>1. Leave \/ (Judge /\ run.state # "reviewing") =>
          Move /\ UNCHANGED <<run, branch, pass, cancel, count>> /\ loop' \in LoopRecord
    BY <1>0 DEF Leave, Judge, Move
  <2> QED
    BY <1>0, <2>1, MoveStep
<1>2. RunReviewRound /\ Missing = {} => Inv'
  <2>1. RunReviewRound /\ Missing = {} =>
          Move /\ UNCHANGED <<run, branch, pass, cancel, count>> /\ loop' \in LoopRecord
    BY <1>0 DEF RunReviewRound, Move
  <2> QED
    BY <1>0, <2>1, MoveStep
<1>3. PrepareRepairFails \/ ValidateRepair \/ RepairFails => Inv'
  <2>1. PrepareRepairFails \/ ValidateRepair \/ RepairFails =>
          Move /\ UNCHANGED <<run, branch, pass, cancel, count>> /\ loop' \in LoopRecord
    BY <1>0 DEF PrepareRepairFails, ValidateRepair, RepairFails, Move
  <2> QED
    BY <1>0, <2>1, MoveStep
<1>4. StartFinalValidation \/ FindStaleAttempt \/ CheckHead => Inv'
  <2>1. CASE StartFinalValidation \/ CheckHead
    <3>1. Move /\ UNCHANGED <<run, branch, pass, cancel, count>> /\ loop' \in LoopRecord
      BY <1>0, <2>1 DEF StartFinalValidation, CheckHead, Move
    <3> QED
      BY <1>0, <3>1, MoveStep
  <2>2. CASE FindStaleAttempt /\ (run.state \notin {"reviewed", "validating"} \/ Stale = {})
    <3>1. Move /\ UNCHANGED <<run, branch, pass, cancel, count>> /\ loop' \in LoopRecord
      BY <1>0, <2>2 DEF FindStaleAttempt, Move
    <3> QED
      BY <1>0, <3>1, MoveStep
  <2>3. CASE FindStaleAttempt /\ run.state \in {"reviewed", "validating"} /\ Stale # {}
    <3>1. LastOf(Stale) \in Stale /\ LastOf(Stale) \in DOMAIN run.finals /\ LastOf(Stale) \in Nat
      <4>1. Stale \subseteq 1..Len(run.finals)
        BY <1>0 DEF Stale
      <4>2. LastOf(Stale) \in Stale /\ LastOf(Stale) \in 1..Len(run.finals)
        BY ONLY <1>0, <2>3, <4>1, Newest
      <4> QED
        BY <1>0, <4>2
    <3>2. run.state = "reviewed"
      BY <2>3 DEF FindStaleAttempt, Inv, FinalsHold
    <3>3. run.finals[LastOf(Stale)].state = "interrupted"
      BY <3>1, <3>2 DEF Stale, Unsettled, Inv, FinalsHold, FinalsSound
    <3>4. loop' = [loop EXCEPT !.pc = "stale", !.at = LastOf(Stale)] /\ loop.pc = "final"
          /\ UNCHANGED <<run, branch, pass, cancel, count>>
      BY <2>3 DEF FindStaleAttempt
    <3>5. Move /\ loop' \in LoopRecord
      BY <1>0, <3>1, <3>2, <3>3, <3>4 DEF Move
    <3> QED
      BY <1>0, <3>4, <3>5, MoveStep
  <2> QED
    BY <2>1, <2>2, <2>3
<1>5. RemoveFinalWorktreeFails \/ HistoryNotMergeReady => Inv'
  <2>1. RemoveFinalWorktreeFails \/ HistoryNotMergeReady =>
          Move /\ UNCHANGED <<run, branch, pass, cancel, count>> /\ loop' \in LoopRecord
    BY <1>0 DEF RemoveFinalWorktreeFails, HistoryNotMergeReady, Move
  <2> QED
    BY <1>0, <2>1, MoveStep
<1>6. Resume \/ RecoverIntegrated \/ ResumeAndLaunch => Inv'
  <2>1. CASE RecoverIntegrated \/ ResumeAndLaunch
    <3>1. Move /\ UNCHANGED <<run, branch, pass, cancel, count>> /\ loop' \in LoopRecord
      BY <1>0, <2>1 DEF RecoverIntegrated, ResumeAndLaunch, Move
    <3> QED
      BY <1>0, <3>1, MoveStep
  <2>2. CASE Resume
    <3> DEFINE found == {i \in DOMAIN run.repairs : RecoverableRepair(i)}
    <3>1. found # {} => LastOf(found) \in found /\ LastOf(found) \in Nat
      <4>1. found \subseteq 1..Len(run.repairs)
        BY <1>0
      <4> HIDE DEF found
      <4>2. found # {} => LastOf(found) \in found /\ LastOf(found) \in 1..Len(run.repairs)
        BY ONLY <1>0, <4>1, Newest
      <4> QED
        BY <1>0, <4>2
    <3>2. Move /\ UNCHANGED <<run, branch, pass, cancel, count>> /\ loop' \in LoopRecord
      <4>1. CASE found = {}
        BY <1>0, <2>2, <4>1 DEF Resume, Move
      <4>2. CASE found # {}
        BY <1>0, <2>2, <3>1, <4>2 DEF Resume, Move
      <4> QED
        BY <4>1, <4>2
    <3> QED
      BY <1>0, <3>2, MoveStep
  <2> QED
    BY <2>1, <2>2
<1>7. Cancel => Inv'
  <2>1. Cancel => UNCHANGED <<run, branch, loop, pass, count>> /\ cancel' \in Nat
    BY <1>0 DEF Cancel, Boundary
  <2> SUFFICES ASSUME Cancel PROVE Inv'
    OBVIOUS
  <2>2. TypeOK'
    BY <2>1 DEF Inv, TypeOK
  <2>3. ReviewsHold'
    BY <2>1 DEF Inv, ReviewsHold, Launched, ReportedNow, Current, Passing
  <2>4. RepairsHold'
    BY <2>1 DEF Inv, RepairsHold, Working, Mine, Current, Required
  <2>5. FinalsHold' /\ BranchHolds'
    BY <2>1 DEF Inv, FinalsHold, BranchHolds, Unsettled, RunningFinals
  <2> QED
    BY <2>1, <2>2, <2>3, <2>4, <2>5, SameRun DEF Inv
<1> QED
  BY <1>1, <1>2, <1>3, <1>4, <1>5, <1>6, <1>7

LEMMA CrashStep ==
  ASSUME Inv, Crash
  PROVE  Inv'
<1> USE DEF Crash, Idle
<1>1. TypeOK'
  <2>1. NoPass \in [Categories -> PassRecord] /\ Idle \in LoopRecord
    BY DEF NoPass, PassRecord, PassPc, LoopRecord, LoopPc
  <2>2. count' \in Counted /\ count \in Counted
    BY TypeParts DEF Inv, Counted
  <2> QED
    BY <2>1, <2>2 DEF Inv, TypeOK, PassRecord, LoopRecord, Counted
<1>2. ReviewsHold'
  <2>1. \A c \in Categories : NoPass[c].pc = "none"
    BY DEF NoPass
  <2> QED
    BY <2>1 DEF Inv, ReviewsHold, RecoveryPc, LivePass, Current
<1>3. RepairsHold'
  BY DEF Inv, RepairsHold, RecoveryPc, RepairPc, Current, Required
<1>4. FinalsHold' /\ BranchHolds'
  BY DEF Inv, FinalsHold, BranchHolds
<1> QED
  BY <1>1, <1>2, <1>3, <1>4, SameRun DEF Inv

-----------------------------------------------------------------------------
(* Reviews.                                                                *)

\* A pass that moves and writes nothing.
LEMMA PassMove ==
  ASSUME Inv, NEW c \in Categories, NEW pc \in PassPc \ {"none", "prepare"},
         pass[c].pc # "none", pass' = [pass EXCEPT ![c].pc = pc],
         pc \in LivePass => pass[c].pc \in LivePass,
         pass[c].pc \in LivePass => pc \in LivePass \/ run.state = "cancelled",
         UNCHANGED <<run, branch, loop, cancel, count>>
  PROVE  Inv'
<1>1. /\ pass \in [Categories -> PassRecord] /\ pass' \in [Categories -> PassRecord]
      /\ pass'[c].pc = pc /\ \A d \in Categories : pass'[d].at = pass[d].at
      /\ \A d \in Categories \ {c} : pass'[d] = pass[d]
  <2>1. pass \in [Categories -> PassRecord]
    BY TypeParts DEF Inv
  <2> QED
    BY <2>1 DEF PassRecord
<1>2. TypeOK'
  BY <1>1 DEF Inv, TypeOK, PassRecord
<1>3. ReviewsHold'
  <2>1. loop.pc = "passes"
    BY DEF Inv, ReviewsHold, NoPass
  <2>2. Launched' = Launched
    BY <1>1 DEF Launched
  <2>3. ReportedNow' = ReportedNow /\ Current' = Current
    BY DEF ReportedNow, Current
  <2>4. \A d \in Categories : Passing(d)' <=> Passing(d)
    BY <1>1, <2>3 DEF Passing
  <2>5. \A d \in Categories : /\ pass'[d].pc = "prepare" => pass[d].pc = "prepare"
                              /\ pass'[d].pc \in LivePass => pass[d].pc \in LivePass
    BY <1>1
  <2>6. \A d \in Categories : /\ pass'[d].pc = "prepare" => d \notin ReportedNow'
                              /\ pass'[d].pc \in LivePass => Passing(d)'
    BY <2>3, <2>4, <2>5 DEF Inv, ReviewsHold
  <2>7. \A i \in ActiveIn(run.reviews) :
          /\ run.state = "reviewing" /\ run.reviews[i].round = Current
          /\ \E d \in Categories : pass'[d].pc \in LivePass /\ pass'[d].at = i
    <3> SUFFICES ASSUME NEW i \in ActiveIn(run.reviews)
                 PROVE  /\ run.state = "reviewing" /\ run.reviews[i].round = Current
                        /\ \E d \in Categories : pass'[d].pc \in LivePass /\ pass'[d].at = i
      OBVIOUS
    <3>1. run.state = "reviewing" /\ run.reviews[i].round = Current
      BY DEF Inv, ReviewsHold
    <3>2. PICK d \in Categories : pass[d].pc \in LivePass /\ pass[d].at = i
      BY <2>1 DEF Inv, ReviewsHold, RecoveryPc
    <3> QED
      BY <1>1, <3>1, <3>2
  <2>8. /\ run.state \in {"reviewing", "cancelled"} /\ Cardinality(Launched) <= MaxWorkers
        /\ loop.todo \cap (Launched \cup ReportedNow) = {}
    BY <2>1 DEF Inv, ReviewsHold
  <2> QED
    BY <2>1, <2>2, <2>3, <2>6, <2>7, <2>8 DEF ReviewsHold
<1>4. RepairsHold'
  BY DEF Inv, RepairsHold, Working, Mine, Current, Required
<1>5. FinalsHold' /\ BranchHolds'
  BY DEF Inv, FinalsHold, BranchHolds, Unsettled, RunningFinals
<1> QED
  BY <1>2, <1>3, <1>4, <1>5, SameRun DEF Inv

\* The next passes of a round are launched when the ones before them are through.
LEMMA BatchStep ==
  ASSUME Inv, NEW todo, todo \subseteq Categories, todo \cap ReportedNow = {},
         loop.pc \notin RecoveryPc, run.state = "reviewing",
         \A c \in Categories : pass[c].pc \notin LivePass,
         Batch(todo), UNCHANGED <<run, branch, cancel, count>>
  PROVE  Inv'
<1>1. /\ First(todo) \subseteq todo /\ Cardinality(First(todo)) <= MaxWorkers
  BY FirstBounded
<1>2. /\ loop' = [loop EXCEPT !.pc = "passes", !.todo = todo \ First(todo)]
      /\ \A c \in Categories : pass'[c] = IF c \in First(todo) THEN [pc |-> "prepare", at |-> 0]
                                           ELSE [pc |-> "none", at |-> 0]
      /\ pass' \in [Categories -> PassRecord]
  BY DEF Batch, NoPass, PassRecord, PassPc
<1>3. loop \in LoopRecord /\ run \in RunRecord
  BY TypeParts DEF Inv
<1>4. loop' \in LoopRecord /\ loop'.pc = "passes" /\ loop'.todo = todo \ First(todo)
  BY <1>2, <1>3 DEF LoopRecord, LoopPc
<1>5. TypeOK'
  BY <1>2, <1>4 DEF Inv, TypeOK, LoopRecord, PassRecord
<1>6. ReviewsHold'
  <2>1. Launched' = First(todo)
    BY <1>1, <1>2 DEF Launched
  <2>2. ReportedNow' = ReportedNow /\ Current' = Current
    BY DEF ReportedNow, Current
  <2>3. ActiveIn(run.reviews) = {}
    BY DEF Inv, ReviewsHold
  <2>4. \A c \in Categories : /\ pass'[c].pc = "prepare" => c \notin ReportedNow
                              /\ pass'[c].pc \notin LivePass
    BY <1>1, <1>2 DEF LivePass
  <2> QED
    BY <1>1, <1>4, <2>1, <2>2, <2>3, <2>4 DEF ReviewsHold
<1>7. RepairsHold'
  <2>1. ActiveIn(run.repairs) = {}
    BY DEF Inv, RepairsHold
  <2> QED
    BY <1>4, <2>1 DEF Inv, RepairsHold, RepairPc
<1>8. FinalsHold' /\ BranchHolds'
  BY <1>4 DEF Inv, FinalsHold, BranchHolds
<1> QED
  BY <1>5, <1>6, <1>7, <1>8, SameRun DEF Inv

\* A write of the reviews of the current round leaves the rest of the record sound.
\* At most one review, k, becomes a report: the newest attempt of its category.
LEMMA ReviewsOnly ==
  ASSUME Inv, loop.pc = "passes", run.state = "reviewing", UNCHANGED <<loop, branch>>,
         run' \in RunRecord, run'.state = run.state, run'.head = run.head,
         run'.rounds = run.rounds, run'.repairs = run.repairs, run'.finals = run.finals,
         run'.ready = run.ready, DOMAIN run.reviews \subseteq DOMAIN run'.reviews,
         NEW k,
         \A i \in DOMAIN run'.reviews :
           k \in DOMAIN run.reviews /\ run'.reviews[i].round = run.reviews[k].round
           /\ run'.reviews[i].category = run.reviews[k].category => i <= k,
         \A i \in DOMAIN run.reviews :
           /\ run'.reviews[i].round = run.reviews[i].round
           /\ run'.reviews[i].category = run.reviews[i].category
           /\ run'.reviews[i].status = run.reviews[i].status
           /\ run'.reviews[i].by = run.reviews[i].by
           /\ i # k => (run'.reviews[i].state = "succeeded" <=> run.reviews[i].state = "succeeded")
           /\ run.reviews[i].state = "succeeded" => run'.reviews[i].state = "succeeded",
         \A i \in DOMAIN run'.reviews \ DOMAIN run.reviews :
           /\ run'.reviews[i].round = Current /\ run'.reviews[i].status = "deferred"
           /\ run'.reviews[i].state # "succeeded" /\ run'.reviews[i].category \notin ReportedNow
  PROVE  RoundsHold' /\ RepairsHold' /\ FindingsHold' /\ FinalsHold' /\ BranchHolds'
<1>0. Current' = Current /\ run \in RunRecord
  BY TypeParts DEF Current, Inv
<1>1. Current \in DOMAIN run.rounds /\ run.rounds # <<>> /\ DOMAIN run.rounds = 1..Current
      /\ Current \in Nat
  BY <1>0, RunFields DEF Inv, RoundsHold, Current
<1>2. \A n : InRound(run, n) \subseteq InRound(run', n)
             /\ Reported(run, n) \subseteq Reported(run', n)
             /\ CategoriesOf(run, Reported(run, n)) \subseteq CategoriesOf(run', Reported(run', n))
  BY DEF InRound, Reported, CategoriesOf
<1>3. \A n \in DOMAIN run.rounds : CategoriesOf(run, Reported(run, n)) = Categories =>
                                     CategoriesOf(run', Reported(run', n)) = Categories
  <2>1. run'.reviews \in Seq(Review)
    BY DEF RunRecord
  <2>2. \A i \in DOMAIN run'.reviews : run'.reviews[i].category \in Categories
    <3>1. \A i \in DOMAIN run'.reviews : run'.reviews[i] \in Review
      BY <2>1
    <3> QED
      BY <3>1 DEF Review
  <2> SUFFICES ASSUME NEW n \in DOMAIN run.rounds,
                      CategoriesOf(run, Reported(run, n)) = Categories
               PROVE  CategoriesOf(run', Reported(run', n)) = Categories
    OBVIOUS
  <2>3. CategoriesOf(run', Reported(run', n)) \subseteq Categories
    BY <2>2 DEF CategoriesOf, Reported, InRound
  <2>4. CategoriesOf(run, Reported(run, n)) \subseteq CategoriesOf(run', Reported(run', n))
    BY <1>2
  <2> QED
    BY <2>3, <2>4
<1>4. RoundsHold'
  <2>1. ASSUME NEW n \in DOMAIN run.rounds, NEW i \in InRound(run', n),
               NEW j \in InRound(run', n), i < j, run'.reviews[i].state = "succeeded",
               run'.reviews[i].category = run'.reviews[j].category
        PROVE  FALSE
    <3>1. i \in DOMAIN run.reviews /\ i \in InRound(run, n) /\ i \in DOMAIN run'.reviews
          /\ j \in DOMAIN run'.reviews /\ i \in Nat /\ j \in Nat
      BY <1>0, <2>1 DEF InRound, RunRecord
    <3>2. run.reviews[i].category = run'.reviews[j].category /\ run'.reviews[j].round = n
          /\ run.reviews[i].round = n
      BY <2>1, <3>1 DEF InRound
    <3>3. i # k
      BY <2>1, <3>1, <3>2
    <3>4. run.reviews[i].state = "succeeded"
      BY <2>1, <3>1, <3>3
    <3>5. CASE j \in DOMAIN run.reviews
      <4>1. j \in InRound(run, n) /\ run.reviews[j].category = run.reviews[i].category
        BY <3>2, <3>5 DEF InRound
      <4> QED
        BY <2>1, <3>1, <3>4, <4>1 DEF Inv, RoundsHold, RoundsSound
    <3>6. CASE j \notin DOMAIN run.reviews
      <4>1. n = Current /\ run.reviews[i].category \notin ReportedNow
        BY <3>1, <3>2, <3>6
      <4> QED
        BY <3>1, <3>4, <4>1 DEF ReportedNow, CategoriesOf, Reported
    <3> QED
      BY <3>5, <3>6
  <2>2. \A i \in DOMAIN run'.reviews : run'.reviews[i].round \in DOMAIN run.rounds
    BY <1>1 DEF Inv, RoundsHold, RoundsSound
  <2>3. RoundsSound(run')
    <3>1. \A n \in DOMAIN run.rounds :
            /\ run.rounds[n].repair # 0 => run.repairs[run.rounds[n].repair].round = n
            /\ run.rounds[n].state = "succeeded" => CategoriesOf(run', Reported(run', n)) = Categories
      BY <1>3 DEF Inv, RoundsHold, RoundsSound
    <3> QED
      BY <2>1, <2>2, <3>1 DEF RoundsSound
  <2>4. \A n \in DOMAIN run.rounds :
          /\ run.rounds[n].repair # 0 => run.rounds[n].repair \in DOMAIN run.repairs
          /\ run.rounds[n].state = "repairing" => CategoriesOf(run', Reported(run', n)) = Categories
    BY <1>3 DEF Inv, RoundsHold
  <2> QED
    BY <1>0, <1>1, <2>3, <2>4 DEF Inv, RoundsHold
<1>5. RepairsHold'
  <2>1. RepairsSound(run')
    <3>1. \A i \in DOMAIN run.repairs :
            run.repairs[i].findings # {} /\ run.repairs[i].findings \subseteq InRound(run', run.repairs[i].round)
      BY <1>2 DEF Inv, RepairsHold, RepairsSound
    <3>2. \A i \in DOMAIN run'.reviews : run'.reviews[i].status = "repaired" =>
            \E m \in DOMAIN run.repairs :
              /\ m = run'.reviews[i].by /\ i \in run.repairs[m].findings
              /\ run.repairs[m].state = "succeeded" /\ run.repairs[m].integrated
      BY DEF Inv, RepairsHold, RepairsSound
    <3> QED
      BY <3>1, <3>2 DEF Inv, RepairsHold, RepairsSound
  <2>2. ActiveIn(run.repairs) = {}
    BY DEF Inv, RepairsHold
  <2> QED
    BY <2>1, <2>2 DEF Inv, RepairsHold, RepairPc
<1>6. FindingsHold'
  <2>1. Open = {} /\ ~PastReview
    BY DEF Inv, FindingsHold
  <2>2. Open' = {} /\ ~PastReview'
    BY <2>1 DEF Open, PastReview
  <2> QED
    BY <2>2 DEF FindingsHold
<1>7. FinalsHold'
  <2>1. run.ready = <<>>
    BY DEF Inv, FinalsHold
  <2> QED
    BY <2>1 DEF Inv, FinalsHold, FinalsSound, ReadySound
<1>8. BranchHolds'
  BY DEF Inv, BranchHolds
<1> QED
  BY <1>4, <1>5, <1>6, <1>7, <1>8

\* A pass that writes the state of its attempt.
LEMMA PassWrites ==
  ASSUME Inv, NEW c \in Categories, NEW pc \in {"work", "done"}, pass[c].pc \in LivePass,
         run.state = "reviewing", pass' = [pass EXCEPT ![c].pc = pc],
         NEW state \in AttemptStates, NEW kind \in {"none", "minor", "important", "outside"},
         NEW at, at = pass[c].at,
         \/ run' = [run EXCEPT !.reviews[at].state = state] /\ kind = run.reviews[at].kind
         \/ run' = [run EXCEPT !.reviews[at].state = state, !.reviews[at].kind = kind],
         IF pc = "work" THEN state \in ActiveStates ELSE state \in {"succeeded", "failed"},
         UNCHANGED <<branch, loop, cancel, count>>
  PROVE  Inv'
<1>1. /\ run \in RunRecord /\ pass \in [Categories -> PassRecord]
      /\ DOMAIN run.reviews = 1..Len(run.reviews) /\ Len(run.reviews) \in Nat
  BY TypeParts, RunFields DEF Inv
<1>2. /\ pass' \in [Categories -> PassRecord] /\ pass'[c].pc = pc
      /\ \A d \in Categories : pass'[d].at = pass[d].at
      /\ \A d \in Categories \ {c} : pass'[d] = pass[d]
  BY <1>1 DEF PassRecord, PassPc
<1>3. loop.pc = "passes"
  BY DEF Inv, ReviewsHold, NoPass, LivePass
<1>4. /\ at \in InRound(run, Current) /\ run.reviews[at].category = c /\ at \in DOMAIN run.reviews
      /\ run.reviews[at].state \in ActiveStates /\ run.reviews[at].round = Current
      /\ \A i \in InRound(run, Current) : run.reviews[i].category = c =>
           i <= at /\ (i # at => run.reviews[i].state # "succeeded")
  BY DEF Inv, ReviewsHold, Passing, InRound
<1> DEFINE v == [run.reviews[at] EXCEPT !.state = state, !.kind = kind]
<1>5. run.reviews[at] \in Review /\ run.reviews \in Seq(Review)
  BY <1>1, <1>4, RunFields
<1>6. /\ v \in Review /\ v.round = run.reviews[at].round /\ v.category = run.reviews[at].category
      /\ v.status = run.reviews[at].status /\ v.by = run.reviews[at].by /\ v.state = state
  BY ONLY <1>5, state \in AttemptStates, kind \in {"none", "minor", "important", "outside"} DEF Review
<1>7. run' = [run EXCEPT !.reviews[at] = v]
  <2>1. CASE run' = [run EXCEPT !.reviews[at].state = state] /\ kind = run.reviews[at].kind
    <3>1. v = [run.reviews[at] EXCEPT !.state = state]
      BY <1>5, <2>1 DEF Review
    <3> QED
      BY <1>1, <2>1, <3>1 DEF RunRecord
  <2>2. CASE run' = [run EXCEPT !.reviews[at].state = state, !.reviews[at].kind = kind]
    BY <1>1, <1>4, <1>5, <2>2 DEF RunRecord
  <2> QED
    BY <2>1, <2>2
<1> HIDE DEF v
<1>8. /\ run' \in RunRecord
      /\ run'.state = run.state /\ run'.head = run.head /\ run'.rounds = run.rounds
      /\ run'.repairs = run.repairs /\ run'.finals = run.finals /\ run'.ready = run.ready
      /\ DOMAIN run'.reviews = DOMAIN run.reviews
      /\ \A i \in DOMAIN run.reviews : run'.reviews[i] = IF i = at THEN v ELSE run.reviews[i]
  BY <1>1, <1>4, <1>6, <1>7, ReviewWritten
<1>9. \A i \in DOMAIN run.reviews :
        /\ run'.reviews[i].round = run.reviews[i].round
        /\ run'.reviews[i].category = run.reviews[i].category
        /\ run'.reviews[i].status = run.reviews[i].status /\ run'.reviews[i].by = run.reviews[i].by
        /\ run'.reviews[i].state = IF i = at THEN state ELSE run.reviews[i].state
  BY ONLY <1>6, <1>8
<1>10. Current' = Current /\ \A n : InRound(run', n) = InRound(run, n)
  BY ONLY <1>8, <1>9 DEF Current, InRound
<1>11. TypeOK'
  BY <1>2, <1>8 DEF Inv, TypeOK, RunRecord, PassRecord
<1>12. RoundsHold' /\ RepairsHold' /\ FindingsHold' /\ FinalsHold' /\ BranchHolds'
  <2>1. \A i \in DOMAIN run'.reviews :
          at \in DOMAIN run.reviews /\ run'.reviews[i].round = run.reviews[at].round
          /\ run'.reviews[i].category = run.reviews[at].category => i <= at
    BY <1>4, <1>8, <1>9 DEF InRound
  <2>2. run.reviews[at].state # "succeeded"
    BY <1>4 DEF ActiveStates
  <2>3. \A i \in DOMAIN run.reviews :
          /\ run'.reviews[i].round = run.reviews[i].round
          /\ run'.reviews[i].category = run.reviews[i].category
          /\ run'.reviews[i].status = run.reviews[i].status
          /\ run'.reviews[i].by = run.reviews[i].by
          /\ i # at => (run'.reviews[i].state = "succeeded" <=> run.reviews[i].state = "succeeded")
          /\ run.reviews[i].state = "succeeded" => run'.reviews[i].state = "succeeded"
    BY <1>9, <2>2
  <2>4. DOMAIN run.reviews \subseteq DOMAIN run'.reviews /\ DOMAIN run'.reviews \ DOMAIN run.reviews = {}
    BY <1>8
  <2>5. \A i \in DOMAIN run'.reviews \ DOMAIN run.reviews :
          /\ run'.reviews[i].round = Current /\ run'.reviews[i].status = "deferred"
          /\ run'.reviews[i].state # "succeeded" /\ run'.reviews[i].category \notin ReportedNow
    BY <2>4
  <2> QED
    BY <1>3, <1>8, <2>1, <2>3, <2>4, <2>5, ReviewsOnly
<1>13. ReviewsHold'
  <2>1. Launched' = Launched
    BY <1>2 DEF Launched, LivePass
  <2>2. ReportedNow' \subseteq ReportedNow \cup {c}
    <3> SUFFICES ASSUME NEW d \in ReportedNow' PROVE d \in ReportedNow \cup {c}
      OBVIOUS
    <3>1. PICK i \in Reported(run', Current) : run'.reviews[i].category = d
      BY <1>10 DEF ReportedNow, CategoriesOf
    <3>2. i \in DOMAIN run.reviews /\ i \in InRound(run, Current) /\ run.reviews[i].category = d
          /\ (i = at \/ run.reviews[i].state = "succeeded")
      BY <1>8, <1>9, <1>10, <3>1 DEF Reported, InRound
    <3> QED
      BY <1>4, <3>2 DEF ReportedNow, CategoriesOf, Reported
  <2>3. \A d \in Categories : pass'[d].pc \in LivePass => Passing(d)'
    <3> SUFFICES ASSUME NEW d \in Categories, pass'[d].pc \in LivePass PROVE Passing(d)'
      OBVIOUS
    <3>1. Passing(d) /\ (d = c => pc = "work")
      BY <1>2 DEF Inv, ReviewsHold, LivePass
    <3>2. /\ pass[d].at \in InRound(run, Current) /\ run.reviews[pass[d].at].category = d
          /\ pass[d].at \in DOMAIN run.reviews /\ run.reviews[pass[d].at].state \in ActiveStates
          /\ \A i \in InRound(run, Current) : run.reviews[i].category = d =>
               i <= pass[d].at /\ (i # pass[d].at => run.reviews[i].state # "succeeded")
      BY <3>1 DEF Passing, InRound
    <3>3. run'.reviews[pass[d].at].state \in ActiveStates
      BY <1>4, <1>9, <3>1, <3>2
    <3>4. \A i \in InRound(run, Current) : run'.reviews[i].category = d =>
            i <= pass[d].at /\ (i # pass[d].at => run'.reviews[i].state # "succeeded")
      BY <1>4, <1>9, <3>1, <3>2 DEF InRound
    <3> QED
      BY <1>2, <1>9, <1>10, <3>2, <3>3, <3>4 DEF Passing
  <2>4. \A d \in Categories : pass'[d].pc = "prepare" => d \notin ReportedNow'
    BY <1>2, <2>2 DEF Inv, ReviewsHold
  <2>5. ASSUME NEW i \in ActiveIn(run'.reviews)
        PROVE  /\ run'.state = "reviewing" /\ run'.reviews[i].round = Current'
               /\ \E d \in Categories : pass'[d].pc \in LivePass /\ pass'[d].at = i
    <3>1. i \in ActiveIn(run.reviews) /\ i \in DOMAIN run.reviews /\ (i = at => pc = "work")
      BY <1>4, <1>8, <1>9 DEF ActiveIn, ActiveStates
    <3>2. PICK d \in Categories : pass[d].pc \in LivePass /\ pass[d].at = i
      BY <1>3, <3>1 DEF Inv, ReviewsHold, RecoveryPc
    <3>3. run.reviews[i].round = Current
      BY <3>1 DEF Inv, ReviewsHold
    <3> QED
      BY <1>2, <1>8, <1>9, <1>10, <3>1, <3>2, <3>3 DEF LivePass
  <2>6. loop.todo \cap (Launched' \cup ReportedNow') = {} /\ Cardinality(Launched') <= MaxWorkers
    <3>1. loop.todo \cap (Launched \cup ReportedNow) = {} /\ Cardinality(Launched) <= MaxWorkers
      BY <1>3 DEF Inv, ReviewsHold
    <3>2. c \in Launched
      BY DEF Launched, LivePass
    <3> QED
      BY <2>1, <2>2, <3>1, <3>2
  <2> QED
    BY <1>3, <1>8, <2>3, <2>4, <2>5, <2>6 DEF ReviewsHold
<1>14. WorkersBounded(run)'
  <2>1. ActiveIn(run'.reviews) \subseteq ActiveIn(run.reviews)
    BY <1>4, <1>8, <1>9 DEF ActiveIn
  <2>2. ActiveIn(run'.repairs) = ActiveIn(run.repairs)
    BY <1>8
  <2>3. WorkersBounded(run')
    BY <1>1, <2>1, <2>2, FewerActive DEF Inv
  <2> QED
    BY <2>3
<1> QED
  BY <1>11, <1>12, <1>13, <1>14 DEF Inv

\* A pass that reserves its attempt.
LEMMA ReserveWrites ==
  ASSUME Inv, NEW c \in Categories, pass[c].pc = "prepare", run.state = "reviewing",
         \A i \in ActiveIn(run.reviews) \cap InRound(run, Current) : run.reviews[i].category # c,
         NEW v, v = [round |-> Current, category |-> c, state |-> "prepared",
                     kind |-> "none", status |-> "deferred", by |-> 0],
         run' = [run EXCEPT !.reviews = Append(@, v)],
         pass' = [pass EXCEPT ![c] = [pc |-> "spawn", at |-> Len(run.reviews) + 1]],
         UNCHANGED <<branch, loop, cancel, count>>
  PROVE  Inv'
<1> DEFINE n == Len(run.reviews) + 1
<1>1. /\ run \in RunRecord /\ pass \in [Categories -> PassRecord]
      /\ DOMAIN run.reviews = 1..Len(run.reviews) /\ Len(run.reviews) \in Nat
      /\ run.reviews \in Seq(Review) /\ Current \in Nat
  BY TypeParts, RunFields DEF Inv
<1>2. /\ pass' \in [Categories -> PassRecord] /\ pass'[c] = [pc |-> "spawn", at |-> n]
      /\ \A d \in Categories \ {c} : pass'[d] = pass[d]
  BY <1>1 DEF PassRecord, PassPc
<1>3. loop.pc = "passes"
  BY DEF Inv, ReviewsHold, NoPass
<1>4. v \in Review
  BY <1>1 DEF Review, AttemptStates, ActiveStates
<1>5. /\ run' \in RunRecord
      /\ run'.state = run.state /\ run'.head = run.head /\ run'.rounds = run.rounds
      /\ run'.repairs = run.repairs /\ run'.finals = run.finals /\ run'.ready = run.ready
      /\ DOMAIN run'.reviews = 1..n
      /\ \A i \in DOMAIN run.reviews : run'.reviews[i] = run.reviews[i]
      /\ run'.reviews[n] = v
  <2>1. /\ Append(run.reviews, v) \in Seq(Review) /\ DOMAIN Append(run.reviews, v) = 1..n
        /\ \A i \in DOMAIN run.reviews : Append(run.reviews, v)[i] = run.reviews[i]
        /\ Append(run.reviews, v)[n] = v
    BY <1>1, <1>4, Added
  <2> DEFINE reviews == Append(run.reviews, v)
  <2>2. run' = [run EXCEPT !.reviews = reviews]
    OBVIOUS
  <2> HIDE DEF reviews
  <2>3. run' \in RunRecord /\ run'.reviews = reviews
    BY ONLY <1>1, <2>1, <2>2 DEF RunRecord, reviews
  <2>4. /\ run'.state = run.state /\ run'.head = run.head /\ run'.rounds = run.rounds
        /\ run'.repairs = run.repairs /\ run'.finals = run.finals /\ run'.ready = run.ready
    BY ONLY <1>1, <2>2 DEF RunRecord
  <2> QED
    BY ONLY <2>1, <2>3, <2>4 DEF reviews
<1>6. n \notin DOMAIN run.reviews /\ DOMAIN run'.reviews = DOMAIN run.reviews \cup {n} /\ n \in Nat
  BY <1>1, <1>5
<1> HIDE DEF n
<1>7. Current' = Current
  BY <1>5 DEF Current
<1>8. InRound(run', Current) = InRound(run, Current) \cup {n}
      /\ Reported(run', Current) = Reported(run, Current)
  <2>1. v.round = Current /\ v.state # "succeeded"
    OBVIOUS
  <2>2. InRound(run', Current) = InRound(run, Current) \cup {n}
    BY <1>5, <1>6, <2>1 DEF InRound
  <2> QED
    BY <1>5, <1>6, <2>1, <2>2 DEF Reported, InRound
<1>9. TypeOK'
  BY <1>2, <1>5 DEF Inv, TypeOK, RunRecord, PassRecord
<1>10. c \notin ReportedNow
  BY DEF Inv, ReviewsHold
<1>11. RoundsHold' /\ RepairsHold' /\ FindingsHold' /\ FinalsHold' /\ BranchHolds'
  <2>1. \A i \in DOMAIN run.reviews :
          /\ run'.reviews[i].round = run.reviews[i].round
          /\ run'.reviews[i].category = run.reviews[i].category
          /\ run'.reviews[i].status = run.reviews[i].status
          /\ run'.reviews[i].by = run.reviews[i].by
          /\ i # 0 => (run'.reviews[i].state = "succeeded" <=> run.reviews[i].state = "succeeded")
          /\ run.reviews[i].state = "succeeded" => run'.reviews[i].state = "succeeded"
    BY <1>5
  <2>2. \A i \in DOMAIN run'.reviews \ DOMAIN run.reviews :
          /\ run'.reviews[i].round = Current /\ run'.reviews[i].status = "deferred"
          /\ run'.reviews[i].state # "succeeded" /\ run'.reviews[i].category \notin ReportedNow
    BY <1>5, <1>6, <1>10
  <2>3. \A i \in DOMAIN run'.reviews :
          0 \in DOMAIN run.reviews /\ run'.reviews[i].round = run.reviews[0].round
          /\ run'.reviews[i].category = run.reviews[0].category => i <= 0
    BY <1>1
  <2>4. DOMAIN run.reviews \subseteq DOMAIN run'.reviews
    BY <1>6
  <2> QED
    BY ONLY Inv, run.state = "reviewing", UNCHANGED <<loop, branch>>,
            <1>3, <1>5, <2>1, <2>2, <2>3, <2>4, ReviewsOnly
<1>12. ReviewsHold'
  <2>1. Launched' = Launched
    BY <1>2 DEF Launched
  <2>2. ReportedNow' = ReportedNow
    <3>1. \A i \in Reported(run, Current) : run'.reviews[i] = run.reviews[i]
      BY <1>5 DEF Reported, InRound
    <3> QED
      BY ONLY <1>7, <1>8, <3>1 DEF ReportedNow, CategoriesOf
  <2>3. \A d \in Categories : pass'[d].pc \in LivePass => Passing(d)'
    <3> SUFFICES ASSUME NEW d \in Categories, pass'[d].pc \in LivePass PROVE Passing(d)'
      OBVIOUS
    <3>1. CASE d = c
      <4>1. \A i \in InRound(run, Current) : run.reviews[i].category = c =>
              i <= n /\ run.reviews[i].state # "succeeded"
        BY <1>1, <1>10 DEF ReportedNow, CategoriesOf, Reported, InRound, n
      <4>2. \A i \in InRound(run, Current) : i \in DOMAIN run.reviews /\ i # n
        BY <1>6 DEF InRound
      <4>3. v.category = c /\ v.state \in ActiveStates
        BY DEF ActiveStates
      <4>4. n <= n
        BY <1>6
      <4>5. \A i \in InRound(run, Current) :
              run'.reviews[i].category = c => i <= n /\ run'.reviews[i].state # "succeeded"
        BY <1>5, <4>1, <4>2
      <4>6. /\ pass'[c].at = n /\ run'.reviews[n] = v /\ n \in InRound(run', Current)
        BY <1>2, <1>5, <1>8
      <4> QED
        BY ONLY <1>7, <1>8, <3>1, <4>3, <4>4, <4>5, <4>6 DEF Passing
    <3>2. CASE d # c
      <4>1. Passing(d) /\ pass'[d] = pass[d]
        BY <1>2, <3>2 DEF Inv, ReviewsHold
      <4>2. \A i \in InRound(run, Current) : run'.reviews[i] = run.reviews[i]
        BY <1>5 DEF InRound
      <4>3. run'.reviews[n] = v /\ v.category = c
        BY <1>5
      <4> QED
        BY ONLY <1>5, <1>7, <1>8, <3>2, <4>1, <4>2, <4>3 DEF Passing
    <3> QED
      BY <3>1, <3>2
  <2>4. \A d \in Categories : pass'[d].pc = "prepare" => d \notin ReportedNow'
    BY <1>2, <2>2 DEF Inv, ReviewsHold
  <2>5. ASSUME NEW i \in ActiveIn(run'.reviews)
        PROVE  /\ run'.state = "reviewing" /\ run'.reviews[i].round = Current'
               /\ \E d \in Categories : pass'[d].pc \in LivePass /\ pass'[d].at = i
    <3>1. CASE i = n
      BY <1>2, <1>5, <1>7, <3>1 DEF LivePass
    <3>2. CASE i # n
      <4>1. i \in ActiveIn(run.reviews) /\ i \in DOMAIN run.reviews
        BY <1>5, <1>6, <3>2 DEF ActiveIn
      <4>2. PICK d \in Categories : pass[d].pc \in LivePass /\ pass[d].at = i
        BY <1>3, <4>1 DEF Inv, ReviewsHold, RecoveryPc
      <4>3. d # c
        BY <4>2 DEF LivePass
      <4>4. run.reviews[i].round = Current
        BY <4>1 DEF Inv, ReviewsHold
      <4> QED
        BY <1>2, <1>5, <1>7, <4>1, <4>2, <4>3, <4>4
    <3> QED
      BY <3>1, <3>2
  <2>6. loop.todo \cap (Launched \cup ReportedNow) = {} /\ Cardinality(Launched) <= MaxWorkers
    BY <1>3 DEF Inv, ReviewsHold
  <2> QED
    BY <1>3, <1>5, <2>1, <2>2, <2>3, <2>4, <2>5, <2>6 DEF ReviewsHold
<1>13. WorkersBounded(run)'
  <2> DEFINE at == [d \in Categories |-> pass'[d].at]
  <2>1. \A i \in ActiveIn(run'.reviews) : \E d \in Launched' : at[d] = i
    BY <1>3, <1>12 DEF ReviewsHold, RecoveryPc, Launched, LivePass
  <2>2. IsFiniteSet(Launched') /\ Cardinality(Launched') <= MaxWorkers
    BY <1>3, <1>12, CategoriesFinite, FS_Subset DEF ReviewsHold, Launched
  <2>3. /\ IsFiniteSet(ActiveIn(run'.reviews))
        /\ Cardinality(ActiveIn(run'.reviews)) <= Cardinality(Launched')
    <3> HIDE DEF at
    <3> QED
      BY ONLY <2>1, <2>2, PoolBounded
  <2>4. ActiveIn(run'.repairs) = {}
    BY <1>5 DEF Inv, RepairsHold
  <2>5. Cardinality(ActiveIn(run'.repairs)) = 0
    BY <2>4, FS_EmptySet
  <2>6. Cardinality(ActiveIn(run'.reviews)) \in Nat /\ Cardinality(Launched') \in Nat
    BY <2>2, <2>3, FS_CardinalityType
  <2>7. WorkersBounded(run')
    BY <2>2, <2>3, <2>5, <2>6 DEF WorkersBounded
  <2> QED
    BY <2>7
<1> QED
  BY <1>9, <1>11, <1>12, <1>13 DEF Inv

LEMMA PassSteps ==
  ASSUME Inv, NEW c \in Categories, PassStep(c)
  PROVE  Inv'
<1> USE DEF PassAt, PassTo, PassOthers
<1>0. /\ run \in RunRecord /\ pass \in [Categories -> PassRecord]
      /\ \A i \in DOMAIN run.reviews : run.reviews[i] \in Review
  BY TypeParts, RunFields DEF Inv
<1>1. CASE ReservePass(c)
  <2> DEFINE free == run.state = "reviewing"
                     /\ \A i \in ActiveIn(run.reviews) \cap InRound(run, Current) : run.reviews[i].category # c
  <2>1. CASE free
    BY <1>1, <2>1, ReserveWrites DEF ReservePass
  <2>2. CASE ~free
    <3>1. PICK pc \in {"rejected", "done"} : pass' = [pass EXCEPT ![c].pc = pc]
      BY <1>1, <2>2 DEF ReservePass
    <3>2. pass[c].pc = "prepare" /\ UNCHANGED <<run, branch, loop, cancel, count>>
      BY <1>1, <2>2 DEF ReservePass
    <3>3. pc \in PassPc \ {"none", "prepare"} /\ pc \notin LivePass /\ pass[c].pc \notin LivePass
      BY <3>1, <3>2 DEF PassPc, LivePass
    <3> QED
      BY <3>1, <3>2, <3>3, PassMove DEF LivePass
  <2> QED
    BY <2>1, <2>2
<1>2. CASE PreparePassFails(c)
  <2>1. pass[c].pc = "prepare" /\ pass' = [pass EXCEPT ![c].pc = "rejected"]
        /\ UNCHANGED <<run, branch, loop, cancel, count>>
    BY <1>2 DEF PreparePassFails
  <2> QED
    BY <2>1, PassMove DEF PassPc, LivePass
<1>3. CASE EndPass(c)
  <2>1. PICK pc \in {"report", "fail"} : pass' = [pass EXCEPT ![c].pc = pc]
    BY <1>3 DEF EndPass
  <2>2. pass[c].pc \in {"spawn", "work"} /\ UNCHANGED <<run, branch, loop, cancel, count>>
    BY <1>3 DEF EndPass
  <2>3. pc \in PassPc \ {"none", "prepare"} /\ pc \in LivePass /\ pass[c].pc \in LivePass
        /\ pass[c].pc # "none"
    BY <2>2 DEF PassPc, LivePass
  <2> QED
    BY <2>1, <2>2, <2>3, PassMove
<1>4. ASSUME SpawnPass(c) \/ RecordReport(c) \/ RecordPassFailure(c), run.state = "cancelled"
      PROVE  Inv'
  <2>1. PICK pc \in {"done"} : pass' = [pass EXCEPT ![c].pc = pc]
    BY <1>4 DEF SpawnPass, RecordReport, RecordPassFailure
  <2>2. pass[c].pc \in LivePass /\ UNCHANGED <<run, branch, loop, cancel, count>>
    BY <1>4 DEF SpawnPass, RecordReport, RecordPassFailure, Kept, LivePass
  <2>3. pc \in PassPc \ {"none", "prepare"} /\ pass[c].pc # "none" /\ pc \notin LivePass
    BY <2>2 DEF PassPc, LivePass
  <2> QED
    BY <1>4, <2>1, <2>2, <2>3, PassMove
<1>5. ASSUME SpawnPass(c) \/ RecordReport(c) \/ RecordPassFailure(c), run.state # "cancelled"
      PROVE  Inv'
  <2>1. pass[c].pc \in LivePass /\ UNCHANGED <<branch, loop, cancel, count>>
    BY <1>5 DEF SpawnPass, RecordReport, RecordPassFailure, LivePass
  <2>2. run.state = "reviewing" /\ pass[c].at \in DOMAIN run.reviews
    <3>1. loop.pc = "passes"
      BY <2>1 DEF Inv, ReviewsHold, NoPass, LivePass
    <3> QED
      BY <1>5, <2>1, <3>1 DEF Inv, ReviewsHold, Passing, InRound
  <2>3. run.reviews[pass[c].at].kind \in {"none", "minor", "important", "outside"}
    BY <1>0, <2>2 DEF Review
  <2>4. CASE SpawnPass(c)
    <3>1. run' = [run EXCEPT !.reviews[pass[c].at].state = "running"]
          /\ pass' = [pass EXCEPT ![c].pc = "work"]
      BY <1>5, <2>4 DEF SpawnPass, Kept
    <3>2. "running" \in ActiveStates /\ "running" \in AttemptStates
      BY DEF AttemptStates, ActiveStates
    <3> QED
      BY <2>1, <2>2, <2>3, <3>1, <3>2, PassWrites
  <2>5. CASE RecordPassFailure(c)
    <3>1. run' = [run EXCEPT !.reviews[pass[c].at].state = "failed"]
          /\ pass' = [pass EXCEPT ![c].pc = "done"]
      BY <1>5, <2>5 DEF RecordPassFailure, Kept
    <3>2. "failed" \in AttemptStates
      BY DEF AttemptStates
    <3> QED
      BY <2>1, <2>2, <2>3, <3>1, <3>2, PassWrites
  <2>6. CASE RecordReport(c)
    <3>1. PICK kind \in Kinds[c] :
            run' = [run EXCEPT !.reviews[pass[c].at].state = "succeeded",
                               !.reviews[pass[c].at].kind = kind]
      BY <1>5, <2>6 DEF RecordReport, Kept
    <3>2. pass' = [pass EXCEPT ![c].pc = "done"]
      BY <2>6 DEF RecordReport
    <3>3. "succeeded" \in AttemptStates /\ kind \in {"none", "minor", "important", "outside"}
      BY Constants DEF AttemptStates
    <3> QED
      BY <2>1, <2>2, <3>1, <3>2, <3>3, PassWrites
  <2> QED
    BY <1>5, <2>4, <2>5, <2>6
<1> QED
  BY <1>1, <1>2, <1>3, <1>4, <1>5 DEF PassStep

\* A run that fails in its reviews.
LEMMA ReviewFails ==
  ASSUME Inv, run.state = "reviewing", \A c \in Categories : pass[c].pc \notin LivePass,
         loop.pc \notin RecoveryPc, NEW q, q \in RunRecord, q.state = run.state,
         q.head = run.head, q.rounds = run.rounds, q.repairs = run.repairs,
         q.finals = run.finals, q.ready = run.ready,
         DOMAIN q.reviews = DOMAIN run.reviews,
         \A i \in DOMAIN run.reviews :
           /\ q.reviews[i].round = run.reviews[i].round
           /\ q.reviews[i].category = run.reviews[i].category
           /\ q.reviews[i].state = run.reviews[i].state /\ q.reviews[i].by = run.reviews[i].by
           /\ q.reviews[i].status = "repaired" => run.reviews[i].status = "repaired",
         run' = FailRound(q), loop' = [loop EXCEPT !.pc = "review"], pass' = NoPass,
         UNCHANGED <<branch, cancel, count>>
  PROVE  Inv'
<1>1. run \in RunRecord /\ Current # 0 /\ run.rounds # <<>> /\ loop \in LoopRecord
      /\ DOMAIN run.rounds = 1..Current /\ Current \in Nat
  BY TypeParts, RunFields DEF Inv, RoundsHold, Current
<1>2. /\ run' \in RunRecord
      /\ run'.state = "failed" /\ run'.head = run.head
      /\ run'.reviews = q.reviews /\ run'.repairs = run.repairs
      /\ run'.finals = run.finals /\ run'.ready = run.ready
      /\ DOMAIN run'.rounds = DOMAIN run.rounds
      /\ \A n \in DOMAIN run.rounds :
           /\ run'.rounds[n].base = run.rounds[n].base
           /\ run'.rounds[n].repair = run.rounds[n].repair
           /\ run'.rounds[n].state \in {run.rounds[n].state, "failed"}
  BY <1>1, RoundFailed
<1>3. \A n : /\ InRound(run', n) = InRound(run, n) /\ Reported(run', n) = Reported(run, n)
             /\ CategoriesOf(run', Reported(run', n)) = CategoriesOf(run, Reported(run, n))
  <2>1. \A n : /\ InRound(run', n) = InRound(run, n) /\ Reported(run', n) = Reported(run, n)
    BY ONLY <1>2, DOMAIN q.reviews = DOMAIN run.reviews,
            \A i \in DOMAIN run.reviews : q.reviews[i].round = run.reviews[i].round
                                          /\ q.reviews[i].state = run.reviews[i].state
       DEF InRound, Reported
  <2>2. \A i \in DOMAIN run.reviews : run'.reviews[i].category = run.reviews[i].category
    BY <1>2
  <2>3. ASSUME NEW n
        PROVE  CategoriesOf(run', Reported(run', n)) = CategoriesOf(run, Reported(run, n))
    <3>1. \A i \in Reported(run, n) : run'.reviews[i].category = run.reviews[i].category
      BY <2>2 DEF Reported, InRound
    <3>2. Reported(run', n) = Reported(run, n)
      BY <2>1
    <3> QED
      BY ONLY <3>1, <3>2 DEF CategoriesOf
  <2> QED
    BY <2>1, <2>3
<1>4. TypeOK'
  <2>1. loop' \in LoopRecord /\ NoPass \in [Categories -> PassRecord]
    BY <1>1 DEF LoopRecord, LoopPc, NoPass, PassRecord, PassPc
  <2> QED
    BY <1>2, <2>1 DEF Inv, TypeOK, RunRecord, LoopRecord, PassRecord
<1>5. ActiveIn(run.reviews) = {} /\ ActiveIn(run.repairs) = {}
      /\ ActiveIn(run'.reviews) = {} /\ ActiveIn(run'.repairs) = {}
  <2>1. ActiveIn(run.reviews) = {} /\ ActiveIn(run.repairs) = {}
    BY DEF Inv, ReviewsHold, RepairsHold
  <2> QED
    BY <1>2, <2>1 DEF ActiveIn
<1>6. ReviewsHold'
  <2>1. \A c \in Categories : NoPass[c].pc = "none"
    BY DEF NoPass
  <2> QED
    BY <1>1, <1>5, <2>1 DEF ReviewsHold, LivePass, LoopRecord
<1>7. RoundsHold'
  <2>1. Current' = Current
    BY <1>1, <1>2 DEF Current, RunRecord
  <2>2. RoundsSound(run')
    <3>1. \A i \in DOMAIN run.reviews : /\ run'.reviews[i].category = run.reviews[i].category
                                        /\ run'.reviews[i].state = run.reviews[i].state
                                        /\ run'.reviews[i].round = run.reviews[i].round
      BY <1>2
    <3>2. \A n \in DOMAIN run.rounds : \A i, j \in InRound(run, n) :
            i < j /\ run'.reviews[i].state = "succeeded" => run'.reviews[i].category # run'.reviews[j].category
      BY <3>1 DEF InRound, Inv, RoundsHold, RoundsSound
    <3>3. \A n \in DOMAIN run.rounds :
            /\ run.rounds[n].repair # 0 => run.repairs[run.rounds[n].repair].round = n
            /\ run.rounds[n].state = "succeeded" => CategoriesOf(run, Reported(run, n)) = Categories
      BY DEF Inv, RoundsHold, RoundsSound
    <3>4. \A i \in DOMAIN run.reviews : run.reviews[i].round \in DOMAIN run.rounds
      BY DEF Inv, RoundsHold, RoundsSound
    <3> QED
      BY <1>2, <1>3, <3>1, <3>2, <3>3, <3>4 DEF RoundsSound
  <2>3. run'.rounds # <<>>
    BY <1>1, <1>2
  <2>4. \A n \in DOMAIN run'.rounds :
          /\ run'.rounds[n].repair # 0 => run'.rounds[n].repair \in DOMAIN run'.repairs
          /\ run'.rounds[n].state = "repairing" => CategoriesOf(run', Reported(run', n)) = Categories
    BY <1>2, <1>3 DEF Inv, RoundsHold
  <2>5. Len(run.head) = Current - 1 /\ run'.rounds[Current].base = run.head /\ Len(run.head) <= 2
    BY <1>1, <1>2 DEF Inv, RoundsHold
  <2> QED
    BY <1>2, <2>1, <2>2, <2>3, <2>4, <2>5 DEF RoundsHold
<1>8. RepairsHold'
  <2>1. RepairsSound(run')
    <3>1. \A i \in DOMAIN run'.reviews : run'.reviews[i].status = "repaired" =>
            \E k \in DOMAIN run.repairs :
              /\ k = run'.reviews[i].by /\ i \in run.repairs[k].findings
              /\ run.repairs[k].state = "succeeded" /\ run.repairs[k].integrated
      BY <1>2 DEF Inv, RepairsHold, RepairsSound
    <3> QED
      BY <1>2, <1>3, <3>1 DEF Inv, RepairsHold, RepairsSound
  <2> QED
    BY <1>1, <1>2, <1>5, <2>1 DEF Inv, RepairsHold, RepairPc, LoopRecord
<1>9. FindingsHold'
  <2>1. run.finals = <<>>
    BY DEF Inv, FindingsHold, PastReview
  <2> QED
    BY <1>2, <2>1 DEF FindingsHold, PastReview
<1>10. FinalsHold'
  <2>1. run.ready = <<>> /\ run.finals = <<>>
    BY DEF Inv, FinalsHold, FindingsHold, PastReview
  <2> QED
    BY <1>1, <1>2, <2>1 DEF Inv, FinalsHold, FinalsSound, ReadySound, LoopRecord
<1>11. BranchHolds'
  BY <1>1, <1>2 DEF Inv, BranchHolds, LoopRecord
<1>12. WorkersBounded(run)'
  <2>1. WorkersBounded(run')
    BY <1>1, <1>5, FewerActive DEF Inv
  <2> QED
    BY <2>1
<1> QED
  BY <1>4, <1>6, <1>7, <1>8, <1>9, <1>10, <1>11, <1>12 DEF Inv

LEMMA RoundSteps ==
  ASSUME Inv, RunReviewRound \/ BatchSettled
  PROVE  Inv'
<1> USE DEF At, GoTo
<1>0. run \in RunRecord /\ loop \in LoopRecord /\ Missing = Categories \ ReportedNow
  BY TypeParts DEF Inv, Missing, ReportedNow
<1>1. CASE RunReviewRound
  <2>1. CASE Missing = {}
    BY <1>1, <2>1, Moves
  <2>2. CASE Missing # {}
    <3>1. loop.pc \notin RecoveryPc /\ run.state = "reviewing" /\ Batch(Missing)
          /\ UNCHANGED <<run, branch, cancel, count>>
      BY <1>1, <2>2 DEF RunReviewRound, RecoveryPc
    <3>2. \A c \in Categories : pass[c].pc \notin LivePass
      BY <1>1 DEF RunReviewRound, Inv, ReviewsHold, NoPass, LivePass
    <3> QED
      BY <1>0, <3>1, <3>2, BatchStep
  <2> QED
    BY <2>1, <2>2
<1>2. CASE BatchSettled
  <2>1. /\ loop.pc = "passes" /\ UNCHANGED <<branch, cancel, count>>
        /\ \A c \in Categories : pass[c].pc \notin LivePass
        /\ loop.pc \notin RecoveryPc /\ run.state \in {"reviewing", "cancelled"}
        /\ loop.todo \subseteq Categories /\ loop.todo \cap ReportedNow = {}
    BY <1>0, <1>2 DEF BatchSettled, LivePass, RecoveryPc, Inv, ReviewsHold, LoopRecord
  <2>2. ASSUME UNCHANGED run, pass' = NoPass, NEW pc \in {"review", "judge"},
               loop' = [loop EXCEPT !.pc = pc]
        PROVE  Inv'
    <3>1. loop' \in LoopRecord /\ loop'.pc = pc
      BY <1>0, <2>2 DEF LoopRecord, LoopPc
    <3>2. TypeOK'
      BY <2>1, <2>2, <3>1 DEF Inv, TypeOK, NoPass, PassRecord, PassPc, LoopRecord
    <3>3. ActiveIn(run.reviews) = {} /\ ActiveIn(run.repairs) = {}
      BY <2>1 DEF Inv, ReviewsHold, RepairsHold
    <3>4. ReviewsHold'
      BY <2>2, <3>1, <3>3 DEF ReviewsHold, NoPass, LivePass
    <3>5. RepairsHold'
      BY <2>2, <3>1, <3>3 DEF Inv, RepairsHold, RepairPc
    <3>6. FinalsHold' /\ BranchHolds'
      BY <2>1, <2>2, <3>1 DEF Inv, FinalsHold, BranchHolds
    <3> QED
      BY <2>1, <2>2, <3>2, <3>4, <3>5, <3>6, SameRun DEF Inv
  <2>3. CASE \/ \E c \in Categories : PassAt(c, "rejected")
             \/ \E i \in InRound(run, Current) : run.reviews[i].state = "failed"
    <3>1. run' = Kept(FailRound(run)) /\ pass' = NoPass /\ loop' = [loop EXCEPT !.pc = "review"]
      BY <1>2, <2>3 DEF BatchSettled
    <3>2. CASE run.state = "cancelled"
      BY <2>2, <3>1, <3>2 DEF Kept
    <3>3. CASE run.state # "cancelled"
      <4>1. run' = FailRound(run) /\ run.state = "reviewing"
        BY <2>1, <3>1, <3>3 DEF Kept
      <4> QED
        BY <1>0, <2>1, <3>1, <4>1, ReviewFails
    <3> QED
      BY <3>2, <3>3
  <2>4. CASE ~ \/ \E c \in Categories : PassAt(c, "rejected")
               \/ \E i \in InRound(run, Current) : run.reviews[i].state = "failed"
    <3>1. /\ UNCHANGED run
          /\ \/ \E pc \in {"review", "judge"} : loop' = [loop EXCEPT !.pc = pc] /\ pass' = NoPass
             \/ run.state = "reviewing" /\ Batch(loop.todo)
      BY <1>2, <2>4 DEF BatchSettled
    <3> QED
      BY <1>0, <2>1, <2>2, <3>1, BatchStep
  <2> QED
    BY <2>3, <2>4
<1> QED
  BY <1>1, <1>2

\* The policy on a complete round: its findings go to a repair, or the run is reviewed.
LEMMA Judged ==
  ASSUME Inv, run.state = "reviewing", loop.pc = "judge",
         Cardinality(Reported(run, Current)) = Len(REVIEW_CATEGORIES), branch = run.head,
         NEW state \in {"repairing", "reviewed"}, NEW roundState,
         IF Important(run, Current) # {} THEN state = "repairing" /\ roundState = "repairing" /\ Current <= 2
                                         ELSE state = "reviewed" /\ roundState = "succeeded",
         run' = [run EXCEPT !.reviews = Prioritized({}), !.state = state,
                            !.rounds[Current].state = roundState],
         loop' = [loop EXCEPT !.pc = "review"], UNCHANGED <<branch, pass, cancel, count>>
  PROVE  Inv'
<1> DEFINE w == [run.rounds[Current] EXCEPT !.state = roundState]
           reviews == Prioritized({})
<1>1. /\ run \in RunRecord /\ Current \in DOMAIN run.rounds /\ run.rounds # <<>>
      /\ loop \in LoopRecord /\ run.rounds[Current] \in Round /\ run.rounds \in Seq(Round)
      /\ DOMAIN run.rounds = 1..Current /\ Current \in Nat
      /\ \A i \in DOMAIN run.reviews : run.reviews[i] \in Review
  BY TypeParts, RunFields DEF Inv, RoundsHold, Current
<1>2. /\ w \in Round /\ w.base = run.rounds[Current].base /\ w.repair = run.rounds[Current].repair
      /\ w.state = roundState
  BY <1>1 DEF Round
<1>3. /\ reviews \in Seq(Review) /\ DOMAIN reviews = DOMAIN run.reviews
      /\ \A i \in DOMAIN run.reviews :
           /\ reviews[i].round = run.reviews[i].round
           /\ reviews[i].category = run.reviews[i].category
           /\ reviews[i].state = run.reviews[i].state /\ reviews[i].by = run.reviews[i].by
           /\ IF i \notin Reported(run, Current) THEN reviews[i].status = run.reviews[i].status
              ELSE reviews[i].status = IF i \in Important(run, Current) THEN "repair_required" ELSE "deferred"
  BY <1>1, PrioritizedWritten
<1>4. run' = [run EXCEPT !.reviews = reviews, !.state = state,
                         !.rounds = [run.rounds EXCEPT ![Current] = w]]
  BY DEF RunRecord
<1> HIDE DEF w, reviews
<1>5. /\ [run.rounds EXCEPT ![Current] = w] \in Seq(Round)
      /\ Len([run.rounds EXCEPT ![Current] = w]) = Current
  BY <1>1, <1>2, Rewritten DEF Current
<1>6. /\ run' \in RunRecord /\ run'.state = state /\ run'.reviews = reviews
      /\ run'.rounds = [run.rounds EXCEPT ![Current] = w]
  BY <1>1, <1>3, <1>4, <1>5 DEF RunRecord, RunStates
<1>7. /\ run'.repairs = run.repairs /\ run'.head = run.head
      /\ run'.finals = run.finals /\ run'.ready = run.ready
  BY <1>4 DEF RunRecord
<1>8. /\ DOMAIN run'.rounds = DOMAIN run.rounds /\ Current' = Current
      /\ run'.rounds[Current] = w
      /\ \A n \in DOMAIN run.rounds : n # Current => run'.rounds[n] = run.rounds[n]
  BY <1>1, <1>5, <1>6 DEF Current
<1>9. \A n : InRound(run', n) = InRound(run, n) /\ Reported(run', n) = Reported(run, n)
  BY ONLY <1>3, <1>6 DEF InRound, Reported
<1>10. ASSUME NEW n
       PROVE  CategoriesOf(run', Reported(run', n)) = CategoriesOf(run, Reported(run, n))
  <2>1. \A i \in Reported(run, n) : run'.reviews[i].category = run.reviews[i].category
    BY <1>3, <1>6 DEF Reported, InRound
  <2>2. Reported(run', n) = Reported(run, n)
    BY <1>9
  <2> QED
    BY ONLY <2>1, <2>2 DEF CategoriesOf
<1>11. ReportedNow = Categories
  BY <1>1, AllReported DEF Inv, RoundsHold
<1>12. ActiveIn(run.reviews) = {} /\ ActiveIn(run.repairs) = {}
       /\ ActiveIn(run'.reviews) = {} /\ ActiveIn(run'.repairs) = {}
  <2>1. \A c \in Categories : pass[c].pc = "none"
    BY DEF Inv, ReviewsHold, NoPass
  <2>2. ActiveIn(run.reviews) = {} /\ ActiveIn(run.repairs) = {}
    BY <2>1 DEF Inv, ReviewsHold, RepairsHold, LivePass, RecoveryPc
  <2> QED
    BY <1>3, <1>6, <1>7, <2>2 DEF ActiveIn
<1>13. TypeOK'
  <2>1. loop' \in LoopRecord
    BY <1>1 DEF LoopRecord, LoopPc
  <2> QED
    BY <1>6, <2>1 DEF Inv, TypeOK, RunRecord, LoopRecord
<1>14. ReviewsHold'
  <2>1. pass = NoPass /\ \A c \in Categories : NoPass[c].pc = "none"
    BY DEF Inv, ReviewsHold, NoPass
  <2> QED
    BY <1>1, <1>12, <2>1 DEF ReviewsHold, LivePass, LoopRecord
<1>15. RoundsHold'
  <2>1. RoundsSound(run')
    <3>1. \A i \in DOMAIN run.reviews : /\ run'.reviews[i].category = run.reviews[i].category
                                        /\ run'.reviews[i].state = run.reviews[i].state
                                        /\ run'.reviews[i].round = run.reviews[i].round
      BY <1>3, <1>6
    <3>2. \A n \in DOMAIN run.rounds : \A i, j \in InRound(run, n) :
            i < j /\ run'.reviews[i].state = "succeeded" => run'.reviews[i].category # run'.reviews[j].category
      BY <3>1 DEF InRound, Inv, RoundsHold, RoundsSound
    <3>3. \A n \in DOMAIN run.rounds :
            /\ run'.rounds[n].repair # 0 => run.repairs[run'.rounds[n].repair].round = n
            /\ run'.rounds[n].state = "succeeded" => CategoriesOf(run, Reported(run, n)) = Categories
      BY <1>1, <1>2, <1>8, <1>11 DEF Inv, RoundsHold, RoundsSound, ReportedNow
    <3>4. \A i \in DOMAIN run.reviews : run.reviews[i].round \in DOMAIN run.rounds
      BY DEF Inv, RoundsHold, RoundsSound
    <3>5. DOMAIN run'.reviews = DOMAIN run.reviews
      BY <1>3, <1>6
    <3> QED
      BY <1>7, <1>8, <1>9, <1>10, <3>1, <3>2, <3>3, <3>4, <3>5 DEF RoundsSound
  <2>2. run'.rounds # <<>>
    BY <1>1, <1>8
  <2>3. \A n \in DOMAIN run'.rounds :
          /\ run'.rounds[n].repair # 0 => run'.rounds[n].repair \in DOMAIN run'.repairs
          /\ run'.rounds[n].state = "repairing" => CategoriesOf(run', Reported(run', n)) = Categories
    BY <1>1, <1>2, <1>7, <1>8, <1>10, <1>11 DEF Inv, RoundsHold, ReportedNow
  <2>4. Len(run.head) = Current - 1 /\ run'.rounds[Current].base = run.head /\ Len(run.head) <= 2
    BY <1>1, <1>2, <1>8 DEF Inv, RoundsHold
  <2> QED
    BY <1>2, <1>6, <1>7, <1>8, <2>1, <2>2, <2>3, <2>4 DEF RoundsHold
<1>16. RepairsHold'
  <2>1. RepairsSound(run')
    <3>1. \A i \in DOMAIN run'.reviews : run'.reviews[i].status = "repaired" =>
            \E k \in DOMAIN run.repairs :
              /\ k = run'.reviews[i].by /\ i \in run.repairs[k].findings
              /\ run.repairs[k].state = "succeeded" /\ run.repairs[k].integrated
      BY <1>3, <1>6 DEF Inv, RepairsHold, RepairsSound
    <3> QED
      BY <1>7, <1>9, <3>1 DEF Inv, RepairsHold, RepairsSound
  <2> QED
    BY <1>1, <1>7, <1>12, <2>1 DEF Inv, RepairsHold, RepairPc, LoopRecord
<1>17. FindingsHold'
  <2>1. run.finals = <<>> /\ Open = {}
    BY DEF Inv, FindingsHold, PastReview
  <2>2. Open' = Important(run, Current)
    <3>1. \A i \in DOMAIN run.reviews : i \in Open' <=> i \in Important(run, Current)
      BY <1>3, <1>6, <2>1 DEF Open, Important
    <3> QED
      BY <1>3, <1>6, <3>1 DEF Open, Important, Reported, InRound
  <2>3. Required' = Important(run, Current)
    <3>1. \A i \in InRound(run, Current) : run'.reviews[i].status = "repair_required" <=> i \in Important(run, Current)
      BY <1>3, <1>6, <2>1 DEF Open, Important, InRound
    <3> QED
      BY <1>8, <1>9, <3>1 DEF Required, Important, Reported
  <2> QED
    BY <1>1, <1>2, <1>6, <1>7, <1>8, <2>1, <2>2, <2>3 DEF FindingsHold, PastReview
<1>18. FinalsHold'
  <2>1. run.ready = <<>> /\ run.finals = <<>>
    BY DEF Inv, FinalsHold, FindingsHold, PastReview
  <2>2. FinalsSound(run') /\ ReadySound(run')
    <3>1. FinalsSound(run)
      BY DEF Inv, FinalsHold
    <3>2. run'.state \notin {"validating", "completed", "failed", "cancelled"}
      BY <1>6
    <3> DEFINE R == {i \in DOMAIN run'.finals : run'.finals[i].state = "running"}
    <3>3. R = {} /\ DOMAIN run'.finals = {}
      BY <1>7, <2>1
    <3>4. FinalsSound(run')
      <4>1. Cardinality(R) <= 1 /\ ((run'.state = "validating") <=> R # {})
        BY ONLY <3>2, <3>3, FS_EmptySet
      <4> QED
        BY ONLY <3>3, <4>1 DEF FinalsSound
    <3>5. ReadySound(run')
      BY <1>7, <2>1, <3>2 DEF ReadySound
    <3> QED
      BY <3>4, <3>5
  <2>3. loop'.pc = "review"
    BY <1>1 DEF LoopRecord
  <2> QED
    BY <1>6, <1>7, <2>1, <2>2, <2>3 DEF FinalsHold
<1>19. BranchHolds'
  BY <1>1, <1>7 DEF BranchHolds, LoopRecord
<1>20. WorkersBounded(run)'
  <2>1. WorkersBounded(run')
    BY <1>1, <1>12, FewerActive DEF Inv
  <2> QED
    BY <2>1
<1> QED
  BY <1>13, <1>14, <1>15, <1>16, <1>17, <1>18, <1>19, <1>20 DEF Inv

LEMMA JudgeStep ==
  ASSUME Inv, Judge
  PROVE  Inv'
<1> USE DEF At, GoTo, Others
<1>0. run \in RunRecord /\ loop \in LoopRecord /\ loop.pc = "judge"
      /\ loop' = [loop EXCEPT !.pc = "review"] /\ UNCHANGED <<branch, pass, cancel, count>>
  BY TypeParts DEF Inv, Judge
<1>1. CASE run.state # "reviewing"
  BY <1>1, Moves
<1>2. CASE run.state = "reviewing"
  <2>1. run' = Judgement
    BY <1>2 DEF Judge
  <2>2. /\ pass' = NoPass /\ \A c \in Categories : pass[c].pc \notin LivePass
        /\ loop.pc \notin RecoveryPc
    BY <1>0 DEF Inv, ReviewsHold, NoPass, LivePass, RecoveryPc
  <2>3. CASE run' = FailRound(run)
    BY <1>0, <1>2, <2>2, <2>3, ReviewFails
  <2>4. ASSUME NEW found, run' = Unresolved(found)
        PROVE  Inv'
    <3> DEFINE q == [run EXCEPT !.reviews = Prioritized(found)]
    <3>1. /\ Prioritized(found) \in Seq(Review)
          /\ DOMAIN Prioritized(found) = DOMAIN run.reviews
          /\ \A i \in DOMAIN run.reviews :
               /\ Prioritized(found)[i].round = run.reviews[i].round
               /\ Prioritized(found)[i].category = run.reviews[i].category
               /\ Prioritized(found)[i].state = run.reviews[i].state
               /\ Prioritized(found)[i].by = run.reviews[i].by
               /\ Prioritized(found)[i].status = "repaired" => run.reviews[i].status = "repaired"
      BY <1>0, PrioritizedWritten
    <3>2. run' = FailRound(q)
      BY <2>4 DEF Unresolved
    <3>3. /\ q \in RunRecord /\ q.reviews = Prioritized(found)
          /\ q.state = run.state /\ q.head = run.head /\ q.rounds = run.rounds
          /\ q.repairs = run.repairs /\ q.finals = run.finals /\ q.ready = run.ready
      BY <1>0, <3>1 DEF RunRecord
    <3> HIDE DEF q
    <3> QED
      BY <1>0, <1>2, <2>2, <3>1, <3>2, <3>3, ReviewFails
  <2>5. CASE ~(Cardinality(Reported(run, Current)) # Len(REVIEW_CATEGORIES) \/ branch # run.head)
             /\ OutOfScope(run, Current) = {} /\ ~(Important(run, Current) # {} /\ Current > 2)
    <3> DEFINE state == IF Important(run, Current) # {} THEN "repairing" ELSE "reviewed"
               roundState == IF Important(run, Current) # {} THEN "repairing" ELSE "succeeded"
    <3>1. run' = [run EXCEPT !.reviews = Prioritized({}), !.state = state,
                             !.rounds[Current].state = roundState]
      BY <2>1, <2>5 DEF Judgement
    <3>2. /\ state \in {"repairing", "reviewed"}
          /\ IF Important(run, Current) # {}
             THEN state = "repairing" /\ roundState = "repairing" /\ Current <= 2
             ELSE state = "reviewed" /\ roundState = "succeeded"
      <4>1. Current \in Nat
        BY <1>0, RunFields
      <4> QED
        BY <2>5, <4>1
    <3> HIDE DEF state, roundState
    <3> QED
      BY <1>0, <1>2, <2>5, <3>1, <3>2, Judged
  <2> QED
    BY <2>1, <2>3, <2>4, <2>5 DEF Judgement
<1> QED
  BY <1>1, <1>2

LEMMA BeginStep ==
  ASSUME Inv, BeginReview
  PROVE  Inv'
<1> USE DEF At, Others
<1>1. /\ run \in RunRecord /\ loop.pc = "review" /\ run.state = "integrating"
      /\ UNCHANGED <<loop, branch, pass, cancel, count>>
      /\ run' = [run EXCEPT !.state = "reviewing", !.rounds = IF @ = <<>> THEN <<NewRound(run.head)>> ELSE @]
  BY TypeParts DEF Inv, BeginReview
<1>2. run.rounds = <<>> /\ run.reviews = <<>> /\ run.head = <<>>
  BY <1>1 DEF Inv, RoundsHold
<1> DEFINE w == NewRound(run.head)
<1>3. w \in Round /\ w.base = run.head /\ w.repair = 0 /\ w.state = "running"
  BY <1>1, RunFields DEF Round, NewRound
<1>4. run' = [run EXCEPT !.state = "reviewing", !.rounds = <<w>>]
  BY <1>1, <1>2
<1> HIDE DEF w
<1>5. <<w>> \in Seq(Round) /\ Len(<<w>>) = 1 /\ <<w>>[1] = w /\ DOMAIN <<w>> = {1} /\ <<w>> # <<>>
  BY <1>3
<1>6. /\ run' \in RunRecord /\ run'.state = "reviewing" /\ run'.rounds = <<w>>
      /\ run'.reviews = run.reviews /\ run'.repairs = run.repairs /\ run'.head = run.head
      /\ run'.finals = run.finals /\ run'.ready = run.ready
  BY <1>1, <1>4, <1>5 DEF RunRecord, RunStates
<1>7. Current' = 1 /\ DOMAIN run'.reviews = {}
  BY <1>2, <1>5, <1>6 DEF Current
<1>8. TypeOK'
  BY <1>1, <1>6 DEF Inv, TypeOK, RunRecord
<1>9. ActiveIn(run'.reviews) = {} /\ ActiveIn(run'.repairs) = {} /\ DOMAIN run.repairs = {}
  <2>1. \A i \in DOMAIN run.repairs : run.repairs[i].findings # {}
                                      /\ run.repairs[i].findings \subseteq InRound(run, run.repairs[i].round)
    BY DEF Inv, RepairsHold, RepairsSound
  <2>2. \A n : InRound(run, n) = {}
    BY <1>6, <1>7 DEF InRound
  <2>3. DOMAIN run.repairs = {}
    BY <2>1, <2>2
  <2> QED
    BY <1>6, <1>7, <2>3 DEF ActiveIn
<1>10. ReviewsHold'
  BY <1>1, <1>9 DEF Inv, ReviewsHold, NoPass, LivePass
<1>11. RoundsHold'
  <2>1. RoundsSound(run')
    <3>1. \A n : InRound(run', n) = {}
      BY <1>7 DEF InRound
    <3> QED
      BY <1>3, <1>5, <1>6, <1>7, <3>1 DEF RoundsSound
  <2>2. Len(run.head) = 0
    BY <1>2
  <2> QED
    BY <1>3, <1>5, <1>6, <1>7, <2>1, <2>2 DEF RoundsHold
<1>12. RepairsHold'
  <2>1. RepairsSound(run')
    BY <1>2, <1>6, <1>7, <1>9 DEF Inv, RepairsHold, RepairsSound
  <2> QED
    BY <1>1, <1>6, <1>9, <2>1 DEF Inv, RepairsHold, RepairPc
<1>13. FindingsHold'
  <2>1. run.finals = <<>>
    BY <1>1 DEF Inv, FindingsHold, PastReview
  <2> QED
    BY <1>6, <1>7, <2>1 DEF FindingsHold, PastReview, Open
<1>14. FinalsHold'
  <2>1. run.ready = <<>> /\ FinalsSound(run)
    BY <1>1 DEF Inv, FinalsHold
  <2> QED
    BY <1>1, <1>6, <2>1 DEF Inv, FinalsHold, FinalsSound, ReadySound
<1>15. BranchHolds'
  BY <1>1, <1>6 DEF Inv, BranchHolds
<1>16. WorkersBounded(run)'
  <2>1. WorkersBounded(run')
    BY <1>1, <1>9, FewerActive DEF Inv
  <2> QED
    BY <2>1
<1> QED
  BY <1>8, <1>10, <1>11, <1>12, <1>13, <1>14, <1>15, <1>16 DEF Inv

-----------------------------------------------------------------------------
(* Repairs.                                                                *)

LEMMA ReserveRepairStep ==
  ASSUME Inv, ReserveRepair
  PROVE  Inv'
<1> USE DEF At, Others, GoWith
<1> DEFINE n == Len(run.repairs) + 1
           v == [round |-> Current, state |-> "prepared", findings |-> Required,
                 base |-> run.head, evidence |-> FALSE, commit |-> FALSE, integrated |-> FALSE]
           w == [run.rounds[Current] EXCEPT !.repair = n]
           repairs == Append(run.repairs, v)
           rounds == [run.rounds EXCEPT ![Current] = w]
<1>1. /\ run \in RunRecord /\ loop.pc = "review" /\ run.state = "repairing" /\ Required # {}
      /\ run' = [run EXCEPT !.repairs = repairs, !.rounds[Current].repair = n]
      /\ loop' = [loop EXCEPT !.pc = "spawn", !.at = n]
      /\ UNCHANGED <<branch, pass, cancel, count>> /\ loop \in LoopRecord
  BY TypeParts DEF Inv, ReserveRepair
<1>2. /\ Current \in DOMAIN run.rounds /\ run.rounds # <<>>
      /\ run.rounds[Current] \in Round /\ run.rounds \in Seq(Round)
      /\ DOMAIN run.rounds = 1..Current /\ Current \in Nat
      /\ run.head \in Heads /\ run.repairs \in Seq(Repair)
      /\ DOMAIN run.repairs = 1..Len(run.repairs) /\ Len(run.repairs) \in Nat
      /\ DOMAIN run.reviews = 1..Len(run.reviews)
  BY <1>1, RunFields DEF Inv, RoundsHold, Current
<1>3. v \in Repair
  BY <1>2 DEF Repair, AttemptStates, ActiveStates, Required, InRound
<1>4. /\ w \in Round /\ w.base = run.rounds[Current].base /\ w.repair = n
      /\ w.state = run.rounds[Current].state
  <2>1. n \in Nat
    BY <1>2
  <2> HIDE DEF n
  <2> QED
    BY <1>2, <2>1 DEF Round
<1>5. run' = [run EXCEPT !.repairs = repairs, !.rounds = rounds]
  BY <1>1 DEF RunRecord
<1> HIDE DEF w, repairs, rounds
<1>6. /\ repairs \in Seq(Repair) /\ DOMAIN repairs = 1..n /\ repairs[n] = v /\ Len(repairs) = n
      /\ \A i \in DOMAIN run.repairs : repairs[i] = run.repairs[i]
  BY <1>2, <1>3, Added DEF repairs
<1>7. /\ rounds \in Seq(Round) /\ Len(rounds) = Current /\ DOMAIN rounds = DOMAIN run.rounds
      /\ rounds[Current] = w /\ \A m \in DOMAIN run.rounds : m # Current => rounds[m] = run.rounds[m]
  BY <1>2, <1>4, Rewritten DEF rounds, Current
<1>8. /\ run' \in RunRecord /\ run'.repairs = repairs /\ run'.rounds = rounds
      /\ run'.state = run.state /\ run'.head = run.head /\ run'.reviews = run.reviews
      /\ run'.finals = run.finals /\ run'.ready = run.ready
  BY <1>1, <1>5, <1>6, <1>7 DEF RunRecord
<1>9. /\ n \notin DOMAIN run.repairs /\ DOMAIN run'.repairs = DOMAIN run.repairs \cup {n}
      /\ n \in Nat /\ n # 0
  <2>1. Len(run.repairs) \in Nat /\ DOMAIN run.repairs = 1..Len(run.repairs) /\ DOMAIN run'.repairs = 1..n
    BY <1>2, <1>6, <1>8
  <2> QED
    BY ONLY <2>1
<1>10. v.round = Current /\ v.state = "prepared" /\ v.findings = Required /\ v.base = run.head
       /\ v.evidence = FALSE /\ v.commit = FALSE /\ v.integrated = FALSE
  OBVIOUS
<1> HIDE DEF n, v
<1>11. Current' = Current /\ Required' = Required /\ \A m : InRound(run', m) = InRound(run, m)
       /\ Reported(run', m) = Reported(run, m)
       /\ CategoriesOf(run', Reported(run', m)) = CategoriesOf(run, Reported(run, m))
  <2>1. Current' = Current
    BY <1>7, <1>8 DEF Current
  <2> QED
    BY <1>8, <2>1 DEF Required, InRound, Reported, CategoriesOf
<1>12. loop' \in LoopRecord /\ loop'.pc = "spawn" /\ loop'.at = n
  BY <1>1, <1>9 DEF LoopRecord, LoopPc
<1>13. TypeOK'
  BY <1>1, <1>8, <1>12 DEF Inv, TypeOK, RunRecord, LoopRecord
<1>14. ActiveIn(run.reviews) = {} /\ ActiveIn(run.repairs) = {} /\ ActiveIn(run'.repairs) = {n}
  <2>1. ActiveIn(run.reviews) = {} /\ ActiveIn(run.repairs) = {}
    BY <1>1 DEF Inv, ReviewsHold, RepairsHold, RepairPc, RecoveryPc
  <2>2. \A i \in DOMAIN run'.repairs : i \in ActiveIn(run'.repairs) <=> i = n
    BY <1>6, <1>8, <1>9, <1>10, <2>1 DEF ActiveIn, ActiveStates
  <2> QED
    BY <1>9, <2>1, <2>2 DEF ActiveIn
<1>15. ReviewsHold'
  <2>1. pass = NoPass /\ \A c \in Categories : NoPass[c].pc = "none"
    BY <1>1 DEF Inv, ReviewsHold, NoPass
  <2> QED
    BY <1>1, <1>8, <1>12, <1>14, <2>1 DEF ReviewsHold, LivePass
<1>16. RoundsHold'
  <2>1. RoundsSound(run')
    <3>1. \A m \in DOMAIN run.rounds : \A i, j \in InRound(run, m) :
            i < j /\ run.reviews[i].state = "succeeded" => run.reviews[i].category # run.reviews[j].category
      BY DEF Inv, RoundsHold, RoundsSound
    <3>2. \A m \in DOMAIN run.rounds :
            /\ rounds[m].repair # 0 => repairs[rounds[m].repair].round = m
            /\ rounds[m].state = "succeeded" => CategoriesOf(run, Reported(run, m)) = Categories
      <4>1. repairs[n].round = Current
        BY <1>6, <1>10
      <4>2. \A m \in DOMAIN run.rounds :
              /\ run.rounds[m].repair # 0 => /\ run.rounds[m].repair \in DOMAIN run.repairs
                                             /\ run.repairs[run.rounds[m].repair].round = m
              /\ run.rounds[m].state = "succeeded" => CategoriesOf(run, Reported(run, m)) = Categories
        BY DEF Inv, RoundsHold, RoundsSound
      <4> QED
        BY ONLY <1>4, <1>6, <1>7, <4>1, <4>2
    <3>3. \A i \in DOMAIN run.reviews : run.reviews[i].round \in DOMAIN run.rounds
      BY DEF Inv, RoundsHold, RoundsSound
    <3> QED
      BY <1>7, <1>8, <1>11, <3>1, <3>2, <3>3 DEF RoundsSound
  <2>2. rounds # <<>>
    BY <1>2, <1>7
  <2>3. \A m \in DOMAIN run.rounds :
          /\ rounds[m].repair # 0 => rounds[m].repair \in DOMAIN run'.repairs
          /\ rounds[m].state = "repairing" => CategoriesOf(run, Reported(run, m)) = Categories
    BY <1>2, <1>4, <1>7, <1>9 DEF Inv, RoundsHold
  <2>4. Len(run.head) = Current - 1 /\ rounds[Current].base = run.head /\ Len(run.head) <= 2
        /\ Current <= 2 /\ rounds[Current].state = "repairing"
    BY <1>1, <1>2, <1>4, <1>7 DEF Inv, RoundsHold
  <2> QED
    BY <1>1, <1>7, <1>8, <1>11, <2>1, <2>2, <2>3, <2>4 DEF RoundsHold
<1>17. RepairsHold'
  <2>1. RepairsSound(run')
    <3>1. Required \subseteq InRound(run, Current)
      BY DEF Required
    <3>2. \A i \in DOMAIN run'.repairs :
            /\ repairs[i].findings # {} /\ repairs[i].findings \subseteq InRound(run, repairs[i].round)
            /\ repairs[i].commit => repairs[i].evidence
            /\ repairs[i].integrated => repairs[i].commit
            /\ repairs[i].state = "succeeded" => repairs[i].integrated
      <4>1. \A i \in DOMAIN run.repairs :
              /\ run.repairs[i].findings # {}
              /\ run.repairs[i].findings \subseteq InRound(run, run.repairs[i].round)
              /\ run.repairs[i].commit => run.repairs[i].evidence
              /\ run.repairs[i].integrated => run.repairs[i].commit
              /\ run.repairs[i].state = "succeeded" => run.repairs[i].integrated
        BY DEF Inv, RepairsHold, RepairsSound
      <4> SUFFICES ASSUME NEW i \in DOMAIN run'.repairs
                   PROVE  /\ repairs[i].findings # {}
                          /\ repairs[i].findings \subseteq InRound(run, repairs[i].round)
                          /\ repairs[i].commit => repairs[i].evidence
                          /\ repairs[i].integrated => repairs[i].commit
                          /\ repairs[i].state = "succeeded" => repairs[i].integrated
        OBVIOUS
      <4>2. CASE i = n
        BY ONLY <1>1, <1>6, <1>10, <3>1, <4>2
      <4>3. CASE i # n
        <5>1. i \in DOMAIN run.repairs /\ repairs[i] = run.repairs[i]
          BY <1>6, <1>9, <4>3
        <5> QED
          BY ONLY <4>1, <5>1
      <4> QED
        BY <4>2, <4>3
    <3>3. {i \in DOMAIN run'.repairs : repairs[i].integrated} = {i \in DOMAIN run.repairs : run.repairs[i].integrated}
      BY <1>6, <1>9, <1>10
    <3>4. Range(run.head) = {i \in DOMAIN run.repairs : run.repairs[i].integrated}
      BY DEF Inv, RepairsHold, RepairsSound
    <3>5. \A m \in DOMAIN run.head : run.head[m] \in DOMAIN run.repairs
      BY <3>4 DEF Range
    <3>6. \A m \in DOMAIN run.head : repairs[run.head[m]].base = SubSeq(run.head, 1, m - 1)
      BY <1>6, <3>5 DEF Inv, RepairsHold, RepairsSound
    <3>7. \A m, k \in DOMAIN run.head : m < k => run.head[m] < run.head[k]
      BY DEF Inv, RepairsHold, RepairsSound
    <3>8. \A i \in DOMAIN run.reviews : run.reviews[i].status = "repaired" =>
            \E k \in DOMAIN run'.repairs :
              /\ k = run.reviews[i].by /\ i \in repairs[k].findings
              /\ repairs[k].state = "succeeded" /\ repairs[k].integrated
      BY <1>6, <1>9 DEF Inv, RepairsHold, RepairsSound
    <3> QED
      BY <1>8, <1>11, <3>2, <3>3, <3>4, <3>6, <3>7, <3>8 DEF RepairsSound
  <2>2. \A i \in DOMAIN run'.repairs :
          /\ repairs[i].integrated <=> repairs[i].state = "succeeded"
          /\ repairs[i].commit => repairs[i].state \notin {"prepared", "running", "interrupted"}
    BY <1>6, <1>9, <1>10 DEF Inv, RepairsHold
  <2>3. Working'
    <3>1. run.finals = <<>>
      BY <1>1 DEF Inv, FindingsHold, PastReview
    <3>2. Len(run.head) <= 1
      BY <1>1, <1>2 DEF Inv, RoundsHold
    <3> QED
      BY <1>1, <1>6, <1>8, <1>9, <1>10, <1>12, <3>1, <3>2 DEF Working, Mine
  <2> QED
    BY <1>1, <1>6, <1>8, <1>10, <1>11, <1>12, <1>14, <2>1, <2>2, <2>3
       DEF RepairsHold, RepairPc, RecoveryPc
<1>18. FindingsHold'
  <2>1. Open' = Open
    BY <1>8 DEF Open
  <2>2. Open = Required /\ run.finals = <<>>
    BY <1>1 DEF Inv, FindingsHold, PastReview
  <2> QED
    BY <1>1, <1>8, <1>11, <2>1, <2>2 DEF FindingsHold, PastReview
<1>19. FinalsHold'
  <2>1. FinalsSound(run') /\ run.ready = <<>>
    BY <1>1, <1>8 DEF Inv, FinalsHold, FinalsSound
  <2> QED
    BY <1>1, <1>8, <1>12, <2>1 DEF FinalsHold, ReadySound
<1>20. BranchHolds'
  BY <1>1, <1>6, <1>8, <1>9, <1>12 DEF Inv, BranchHolds
<1>21. WorkersBounded(run)'
  <2>1. Cardinality(ActiveIn(run'.repairs)) = 1 /\ Cardinality(ActiveIn(run'.reviews)) = 0
    BY <1>8, <1>14, FS_Singleton, FS_EmptySet
  <2>2. WorkersBounded(run')
    BY <2>1 DEF WorkersBounded
  <2> QED
    BY <2>2
<1> QED
  BY <1>13, <1>15, <1>16, <1>17, <1>18, <1>19, <1>20, <1>21 DEF Inv

\* A write that leaves what the attempts are about, and makes no new report or repair of
\* them: the rounds and the repairs stay sound, and count for the same.
LEMMA Rewrite ==
  ASSUME Inv, run' \in RunRecord, run'.head = run.head,
         DOMAIN run'.rounds = DOMAIN run.rounds,
         \A n \in DOMAIN run.rounds :
           /\ run'.rounds[n].base = run.rounds[n].base /\ run'.rounds[n].repair = run.rounds[n].repair
           /\ run'.rounds[n].state \in {run.rounds[n].state, "failed", "cancelled"},
         DOMAIN run'.reviews = DOMAIN run.reviews,
         \A i \in DOMAIN run.reviews :
           /\ run'.reviews[i].round = run.reviews[i].round
           /\ run'.reviews[i].category = run.reviews[i].category
           /\ run'.reviews[i].status = run.reviews[i].status
           /\ run'.reviews[i].by = run.reviews[i].by
           /\ run'.reviews[i].state = "succeeded" <=> run.reviews[i].state = "succeeded",
         DOMAIN run'.repairs = DOMAIN run.repairs,
         \A i \in DOMAIN run.repairs :
           /\ run'.repairs[i].round = run.repairs[i].round
           /\ run'.repairs[i].findings = run.repairs[i].findings
           /\ run'.repairs[i].base = run.repairs[i].base
           /\ run'.repairs[i].integrated = run.repairs[i].integrated
           /\ run'.repairs[i].state = "succeeded" <=> run.repairs[i].state = "succeeded"
           /\ run'.repairs[i].commit => run'.repairs[i].evidence
           /\ run.repairs[i].commit => run'.repairs[i].commit
  PROVE  /\ RoundsSound(run') /\ RepairsSound(run')
         /\ Current' = Current /\ Required' = Required /\ Open' = Open
         /\ Reported(run', Current) = Reported(run, Current)
         /\ Risks(run') = Risks(run) /\ FinalRound(run') = FinalRound(run)
         /\ run'.rounds = <<>> <=> run.rounds = <<>>
         /\ run.reviews = <<>> => run'.reviews = <<>>
         /\ \A n \in DOMAIN run'.rounds :
              /\ run'.rounds[n].repair # 0 => run'.rounds[n].repair \in DOMAIN run'.repairs
              /\ run'.rounds[n].state = "repairing" => CategoriesOf(run', Reported(run', n)) = Categories
<1>1. run \in RunRecord /\ DOMAIN run.rounds = 1..Current /\ Current \in Nat
      /\ DOMAIN run.reviews = 1..Len(run.reviews) /\ Len(run.reviews) \in Nat
      /\ run.rounds \in Seq(Round) /\ run.reviews \in Seq(Review)
  BY TypeParts, RunFields DEF Inv
<1>2. /\ run'.rounds \in Seq(Round) /\ run'.reviews \in Seq(Review)
      /\ Current' = Current
      /\ run'.rounds = <<>> <=> run.rounds = <<>>
      /\ run.reviews = <<>> => run'.reviews = <<>>
  <2>1. run'.rounds \in Seq(Round) /\ run'.reviews \in Seq(Review)
    BY DEF RunRecord
  <2>2. Len(run'.rounds) = Len(run.rounds)
    BY <1>1, <2>1
  <2>3. run'.rounds = <<>> <=> run.rounds = <<>>
    BY <1>1, <2>1, <2>2
  <2>4. run.reviews = <<>> => run'.reviews = <<>>
    <3>1. Len(run'.reviews) = Len(run.reviews)
      BY <1>1, <2>1
    <3> QED
      BY <1>1, <2>1, <3>1
  <2> QED
    BY <2>1, <2>2, <2>3, <2>4 DEF Current
<1>3. \A n : InRound(run', n) = InRound(run, n) /\ Reported(run', n) = Reported(run, n)
  <2>1. \A i \in DOMAIN run.reviews :
          /\ run'.reviews[i].round = run.reviews[i].round
          /\ run'.reviews[i].state = "succeeded" <=> run.reviews[i].state = "succeeded"
    OBVIOUS
  <2> QED
    BY ONLY <2>1, DOMAIN run'.reviews = DOMAIN run.reviews DEF InRound, Reported
<1>4. ASSUME NEW n
      PROVE  CategoriesOf(run', Reported(run', n)) = CategoriesOf(run, Reported(run, n))
  <2>1. \A i \in Reported(run, n) : run'.reviews[i].category = run.reviews[i].category
    BY DEF Reported, InRound
  <2>2. Reported(run', n) = Reported(run, n)
    BY <1>3
  <2> QED
    BY ONLY <2>1, <2>2 DEF CategoriesOf
<1>5. Required' = Required /\ Open' = Open
  <2>1. \A i \in DOMAIN run.reviews : run'.reviews[i].status = run.reviews[i].status
    OBVIOUS
  <2>2. InRound(run', Current) = InRound(run, Current) /\ InRound(run, Current) \subseteq DOMAIN run.reviews
    BY <1>3 DEF InRound
  <2>3. Required' = {i \in InRound(run', Current) : run'.reviews[i].status = "repair_required"}
    BY <1>2 DEF Required
  <2>4. Required' = Required
    BY ONLY <2>1, <2>2, <2>3 DEF Required
  <2>5. Open' = Open
    BY ONLY <2>1, DOMAIN run'.reviews = DOMAIN run.reviews DEF Open
  <2> QED
    BY <2>4, <2>5
<1>6. Risks(run') = Risks(run) /\ FinalRound(run') = FinalRound(run)
      /\ Reported(run', Current) = Reported(run, Current)
  <2>1. FinalRound(run') = FinalRound(run) /\ Reported(run', Current) = Reported(run, Current)
    BY <1>2, <1>3 DEF FinalRound, Current
  <2>2. \A i \in FinalRound(run) : run'.reviews[i].status = run.reviews[i].status
    BY DEF FinalRound, Reported, InRound
  <2> QED
    BY <2>1, <2>2 DEF Risks
<1>7. RoundsSound(run')
  <2>1. \A n \in DOMAIN run.rounds : \A i, j \in InRound(run, n) :
          i < j /\ run'.reviews[i].state = "succeeded" => run'.reviews[i].category # run'.reviews[j].category
    <3>1. \A n \in DOMAIN run.rounds : \A i, j \in InRound(run, n) :
            i < j /\ run.reviews[i].state = "succeeded" => run.reviews[i].category # run.reviews[j].category
      BY DEF Inv, RoundsHold, RoundsSound
    <3>2. \A n : InRound(run, n) \subseteq DOMAIN run.reviews
      BY DEF InRound
    <3> QED
      BY <3>1, <3>2
  <2>2. \A n \in DOMAIN run.rounds :
          /\ run'.rounds[n].repair # 0 => run'.repairs[run'.rounds[n].repair].round = n
          /\ run'.rounds[n].state = "succeeded" => CategoriesOf(run, Reported(run, n)) = Categories
    BY DEF Inv, RoundsHold, RoundsSound
  <2>3. \A i \in DOMAIN run.reviews : run'.reviews[i].round \in DOMAIN run.rounds
    BY DEF Inv, RoundsHold, RoundsSound
  <2> QED
    BY <1>3, <1>4, <2>1, <2>2, <2>3 DEF RoundsSound
<1>8. RepairsSound(run')
  <2>1. \A i \in DOMAIN run.repairs :
          /\ run'.repairs[i].findings # {}
          /\ run'.repairs[i].findings \subseteq InRound(run, run'.repairs[i].round)
          /\ run'.repairs[i].commit => run'.repairs[i].evidence
          /\ run'.repairs[i].integrated => run'.repairs[i].commit
          /\ run'.repairs[i].state = "succeeded" => run'.repairs[i].integrated
    BY DEF Inv, RepairsHold, RepairsSound
  <2>2. Range(run.head) = {i \in DOMAIN run'.repairs : run'.repairs[i].integrated}
    <3>1. Range(run.head) = {i \in DOMAIN run.repairs : run.repairs[i].integrated}
      BY DEF Inv, RepairsHold, RepairsSound
    <3>2. \A i \in DOMAIN run.repairs : run'.repairs[i].integrated = run.repairs[i].integrated
      OBVIOUS
    <3> QED
      BY ONLY <3>1, <3>2, DOMAIN run'.repairs = DOMAIN run.repairs
  <2>3. \A m, k \in DOMAIN run.head : m < k => run.head[m] < run.head[k]
    BY DEF Inv, RepairsHold, RepairsSound
  <2>4. \A m \in DOMAIN run.head : run'.repairs[run.head[m]].base = SubSeq(run.head, 1, m - 1)
    <3>1. \A m \in DOMAIN run.head : run.head[m] \in DOMAIN run.repairs
      BY DEF Inv, RepairsHold, RepairsSound, Range
    <3> QED
      BY <3>1 DEF Inv, RepairsHold, RepairsSound
  <2>5. \A i \in DOMAIN run.reviews : run'.reviews[i].status = "repaired" =>
          \E k \in DOMAIN run.repairs :
            /\ k = run'.reviews[i].by /\ i \in run'.repairs[k].findings
            /\ run'.repairs[k].state = "succeeded" /\ run'.repairs[k].integrated
    BY DEF Inv, RepairsHold, RepairsSound
  <2> QED
    BY <1>3, <2>1, <2>2, <2>3, <2>4, <2>5 DEF RepairsSound
<1>9. \A n \in DOMAIN run'.rounds :
        /\ run'.rounds[n].repair # 0 => run'.rounds[n].repair \in DOMAIN run'.repairs
        /\ run'.rounds[n].state = "repairing" => CategoriesOf(run', Reported(run', n)) = Categories
  BY <1>4 DEF Inv, RoundsHold
<1> QED
  BY <1>2, <1>5, <1>6, <1>7, <1>8, <1>9

\* The loop writes what it learnt of the repair it works on.
LEMMA RepairWrites ==
  ASSUME Inv, loop.pc \in {"spawn", "work", "evidence", "commit"},
         NEW v \in Repair, v.round = Mine.round, v.findings = Mine.findings,
         v.base = Mine.base, v.integrated = Mine.integrated,
         v.state # "succeeded", v.commit => v.evidence,
         Mine.commit => v.commit,
         IF run.state = "cancelled" THEN v.state = Mine.state
         ELSE v.state \in IF loop.pc = "spawn" THEN {"running"} ELSE {"validating"},
         v.commit => v.state \notin {"prepared", "running", "interrupted"},
         loop.pc \in {"spawn", "work"} => run.state = "repairing",
         run' = [run EXCEPT !.repairs[loop.at] = v],
         NEW pc, loop' = [loop EXCEPT !.pc = pc],
         \/ loop.pc = "spawn" /\ pc = "work"
         \/ loop.pc = "work" /\ pc = "validate"
         \/ loop.pc = "evidence" /\ pc = "commit" /\ v.evidence
         \/ loop.pc = "commit" /\ pc = "integrate" /\ v.evidence /\ v.commit,
         UNCHANGED <<branch, pass, cancel, count>>
  PROVE  Inv'
<1>1. /\ run \in RunRecord /\ loop \in LoopRecord /\ Working /\ Mine \in Repair
      /\ loop.at \in DOMAIN run.repairs /\ DOMAIN run.repairs = 1..Len(run.repairs)
      /\ Len(run.repairs) \in Nat
  <2>1. run \in RunRecord /\ loop \in LoopRecord /\ Working
    BY TypeParts DEF Inv, RepairsHold, RepairPc
  <2> QED
    BY <2>1, RunFields DEF Working, Mine
<1>2. /\ run' \in RunRecord
      /\ run'.state = run.state /\ run'.head = run.head /\ run'.rounds = run.rounds
      /\ run'.reviews = run.reviews /\ run'.finals = run.finals /\ run'.ready = run.ready
      /\ DOMAIN run'.repairs = DOMAIN run.repairs
      /\ \A i \in DOMAIN run.repairs : run'.repairs[i] = IF i = loop.at THEN v ELSE run.repairs[i]
  BY <1>1, RepairWritten
<1>3. loop' \in LoopRecord /\ loop'.pc = pc /\ loop'.at = loop.at /\ pc \in RepairPc
  BY <1>1 DEF LoopRecord, LoopPc, RepairPc
<1>4. TypeOK'
  BY <1>2, <1>3 DEF Inv, TypeOK, RunRecord, LoopRecord
<1>5. Mine.state # "succeeded"
  BY <1>1 DEF Working, Inv, RepairsHold, Mine
<1>6. /\ RoundsSound(run') /\ RepairsSound(run')
      /\ Current' = Current /\ Required' = Required /\ Open' = Open
      /\ Risks(run') = Risks(run) /\ FinalRound(run') = FinalRound(run)
      /\ \A n \in DOMAIN run'.rounds :
           /\ run'.rounds[n].repair # 0 => run'.rounds[n].repair \in DOMAIN run'.repairs
           /\ run'.rounds[n].state = "repairing" => CategoriesOf(run', Reported(run', n)) = Categories
  <2>1. \A i \in DOMAIN run.repairs : run.repairs[i].commit => run.repairs[i].evidence
    BY DEF Inv, RepairsHold, RepairsSound
  <2>2. \A i \in DOMAIN run.repairs :
          /\ run'.repairs[i].round = run.repairs[i].round
          /\ run'.repairs[i].findings = run.repairs[i].findings
          /\ run'.repairs[i].base = run.repairs[i].base
          /\ run'.repairs[i].integrated = run.repairs[i].integrated
          /\ run'.repairs[i].state = "succeeded" <=> run.repairs[i].state = "succeeded"
          /\ run'.repairs[i].commit => run'.repairs[i].evidence
          /\ run.repairs[i].commit => run'.repairs[i].commit
    BY <1>2, <1>5, <2>1 DEF Mine
  <2> QED
    BY <1>2, <2>2, Rewrite
<1>7. \A i \in ActiveIn(run'.repairs) : i \in ActiveIn(run.repairs) /\ i = loop.at
  <2>1. \A i \in ActiveIn(run.repairs) : i = loop.at
    BY <1>3 DEF Inv, RepairsHold, RecoveryPc, RepairPc
  <2>2. v.state \in ActiveStates => Mine.state \in ActiveStates
    BY <1>1 DEF Working, ActiveStates
  <2> QED
    BY <1>1, <1>2, <2>1, <2>2 DEF ActiveIn, Mine
<1>8. ReviewsHold'
  <2>1. pass = NoPass /\ \A c \in Categories : NoPass[c].pc = "none"
    BY DEF Inv, ReviewsHold, NoPass
  <2>2. ActiveIn(run.reviews) = {}
    BY <2>1 DEF Inv, ReviewsHold, LivePass, RecoveryPc
  <2> QED
    BY <1>2, <1>3, <2>1, <2>2 DEF ReviewsHold, LivePass, RepairPc
<1>9. RoundsHold'
  BY <1>2, <1>6 DEF Inv, RoundsHold
<1>10. RepairsHold'
  <2>1. \A i \in DOMAIN run'.repairs :
          /\ run'.repairs[i].integrated <=> run'.repairs[i].state = "succeeded"
          /\ run'.repairs[i].commit => run'.repairs[i].state \notin {"prepared", "running", "interrupted"}
    <3>1. ~Mine.integrated
      BY <1>1 DEF Working
    <3> QED
      BY <1>1, <1>2, <3>1 DEF Inv, RepairsHold, Mine
  <2>2. \A i \in ActiveIn(run'.repairs) :
          /\ run'.state = "repairing" /\ i = Len(run'.repairs)
          /\ run'.repairs[i].round = Current' /\ run'.repairs[i].base = run'.head
          /\ run'.repairs[i].findings = Required'
          /\ loop'.pc \in RepairPc /\ loop'.at = i
    <3>1. Len(run'.repairs) = Len(run.repairs)
      BY <1>1, <1>2 DEF RunRecord
    <3>2. \A i \in ActiveIn(run.repairs) :
            /\ run.state = "repairing" /\ i = Len(run.repairs)
            /\ run.repairs[i].round = Current /\ run.repairs[i].base = run.head
            /\ run.repairs[i].findings = Required
      BY DEF Inv, RepairsHold
    <3> QED
      BY <1>1, <1>2, <1>3, <1>6, <1>7, <3>1, <3>2 DEF Mine
  <2>3. Working'
    <3>1. Mine' = v
      BY <1>1, <1>2, <1>3 DEF Mine
    <3> QED
      BY <1>1, <1>2, <1>3, <3>1 DEF Working
  <2>4. Mine' = v
    BY <1>1, <1>2, <1>3 DEF Mine
  <2>5. loop'.pc \in {"commit", "integrate", "complete"} => Mine'.evidence
    BY <1>3, <2>4
  <2>6. loop'.pc \in {"integrate", "complete", "recovered"} \/ (loop'.pc = "recover" /\ loop'.at # 0) =>
          Mine'.evidence /\ Mine'.commit
    BY <1>3, <2>4
  <2> QED
    BY <1>3, <1>6, <2>1, <2>2, <2>3, <2>5, <2>6 DEF RepairsHold, RepairPc, RecoveryPc
<1>11. FindingsHold'
  BY <1>2, <1>6 DEF Inv, FindingsHold, PastReview
<1>12. FinalsHold'
  <2>1. FinalsSound(run') /\ ReadySound(run')
    BY <1>2, <1>6 DEF Inv, FinalsHold, FinalsSound, ReadySound
  <2>2. run.state # "validating"
    BY DEF Inv, FinalsHold
  <2> QED
    BY <1>2, <1>3, <2>1, <2>2 DEF Inv, FinalsHold
<1>13. BranchHolds'
  <2>1. Mine.commit => v.commit
    OBVIOUS
  <2> QED
    BY <1>2, <1>3, <2>1 DEF Inv, BranchHolds, Mine
<1>14. WorkersBounded(run)'
  <2>1. WorkersBounded(run')
    BY <1>1, <1>2, <1>7, FewerActive DEF Inv
  <2> QED
    BY <2>1
<1> QED
  BY <1>4, <1>8, <1>9, <1>10, <1>11, <1>12, <1>13, <1>14 DEF Inv

\* The commit of a repair reaches the branch.
LEMMA BranchMoves ==
  ASSUME Inv, NEW pc, NEW next, IntegrateRepair(pc, next),
         \/ pc = "integrate" /\ next = "complete"
         \/ pc = "recover" /\ next = "recovered" /\ loop.at # 0
  PROVE  Inv'
<1>1. /\ loop.pc = pc /\ branch = Mine.base /\ branch' = Append(branch, loop.at)
      /\ loop' = [loop EXCEPT !.pc = next] /\ UNCHANGED <<run, pass, cancel, count>>
  BY DEF IntegrateRepair, At, GoTo
<1>2. run \in RunRecord /\ loop \in LoopRecord /\ branch \in Heads
  BY TypeParts DEF Inv
<1>3. loop' \in LoopRecord /\ loop'.pc = next /\ loop'.at = loop.at
  BY <1>1, <1>2 DEF LoopRecord, LoopPc
<1>4. Working /\ Mine.commit /\ Mine.evidence
  BY <1>1 DEF Inv, RepairsHold, RepairPc
<1>5. TypeOK'
  <2>1. branch' \in Heads
    <3>1. loop.at \in Nat
      BY <1>2 DEF LoopRecord
    <3> QED
      BY <1>1, <1>2, <3>1 DEF Heads
  <2> QED
    BY <1>1, <1>3, <2>1 DEF Inv, TypeOK, LoopRecord
<1>6. ReviewsHold'
  <2>1. pc \notin RecoveryPc \/ next \in RecoveryPc
    BY DEF RecoveryPc
  <2> QED
    BY <1>1, <1>3, <2>1 DEF Inv, ReviewsHold, Launched, ReportedNow, Current, Passing
<1>7. RoundsHold'
  BY <1>1 DEF Inv, RoundsHold, Current
<1>8. RepairsHold'
  <2>1. Working'
    BY <1>1, <1>3, <1>4 DEF Working, Mine
  <2>2. Mine' = Mine
    BY <1>1, <1>3 DEF Mine
  <2> QED
    BY <1>1, <1>3, <1>4, <2>1, <2>2 DEF Inv, RepairsHold, RepairPc, RecoveryPc, Current, Required
<1>9. FindingsHold'
  <2>1. run.state \in {"repairing", "cancelled"} /\ run.finals = <<>>
    BY <1>4 DEF Working
  <2>2. ~PastReview
    BY <2>1 DEF PastReview
  <2> QED
    BY <1>1, <2>2 DEF Inv, FindingsHold, PastReview, Open, Required, Current
<1>10. FinalsHold'
  <2>1. run.state # "validating"
    BY <1>4 DEF Working
  <2> QED
    BY <1>1, <1>3, <2>1 DEF Inv, FinalsHold
<1>11. BranchHolds'
  BY <1>1, <1>3, <1>4 DEF BranchHolds, Working, Mine
<1>12. WorkersBounded(run)'
  BY <1>1 DEF Inv
<1> QED
  BY <1>5, <1>6, <1>7, <1>8, <1>9, <1>10, <1>11, <1>12 DEF Inv

\* A repair that failed, and the run with it.
LEMMA RepairFailStep ==
  ASSUME Inv, Working,
         run' = WithoutRound \/ (Current # 0 /\ run' = WithRound),
         loop' \in LoopRecord, loop'.pc \in {"review", "idle"}, loop.pc # "passes",
         UNCHANGED <<branch, pass, cancel, count>>
  PROVE  Inv'
<1> DEFINE v == [Mine EXCEPT !.state = "failed"]
<1>1. /\ run \in RunRecord /\ Mine \in Repair /\ loop.at \in DOMAIN run.repairs
  <2>1. run \in RunRecord
    BY TypeParts DEF Inv
  <2> QED
    BY <2>1, RunFields DEF Working, Mine
<1>2. /\ run' \in RunRecord
      /\ run'.state = "failed" /\ run'.head = run.head
      /\ run'.reviews = run.reviews /\ run'.finals = run.finals /\ run'.ready = run.ready
      /\ DOMAIN run'.rounds = DOMAIN run.rounds
      /\ \A n \in DOMAIN run.rounds :
           /\ run'.rounds[n].base = run.rounds[n].base /\ run'.rounds[n].repair = run.rounds[n].repair
           /\ run'.rounds[n].state \in {run.rounds[n].state, "failed"}
      /\ DOMAIN run'.repairs = DOMAIN run.repairs
      /\ \A i \in DOMAIN run.repairs : run'.repairs[i] = IF i = loop.at THEN v ELSE run.repairs[i]
  BY <1>1, RepairFailed
<1>3. /\ v.round = Mine.round /\ v.findings = Mine.findings /\ v.base = Mine.base
      /\ v.integrated = Mine.integrated /\ v.commit = Mine.commit /\ v.evidence = Mine.evidence
      /\ v.state = "failed"
  BY <1>1 DEF Repair
<1> HIDE DEF v
<1>4. TypeOK'
  BY <1>2 DEF Inv, TypeOK, RunRecord, LoopRecord
<1>5. ~Mine.integrated /\ Mine.state # "succeeded"
  BY <1>1 DEF Working, Inv, RepairsHold, Mine
<1>6. /\ RoundsSound(run') /\ RepairsSound(run')
      /\ Current' = Current /\ Required' = Required /\ Open' = Open
      /\ run'.rounds = <<>> <=> run.rounds = <<>>
      /\ \A n \in DOMAIN run'.rounds :
           /\ run'.rounds[n].repair # 0 => run'.rounds[n].repair \in DOMAIN run'.repairs
           /\ run'.rounds[n].state = "repairing" => CategoriesOf(run', Reported(run', n)) = Categories
  <2>1. \A i \in DOMAIN run.repairs : run.repairs[i].commit => run.repairs[i].evidence
    BY DEF Inv, RepairsHold, RepairsSound
  <2>2. \A i \in DOMAIN run.repairs :
          /\ run'.repairs[i].round = run.repairs[i].round
          /\ run'.repairs[i].findings = run.repairs[i].findings
          /\ run'.repairs[i].base = run.repairs[i].base
          /\ run'.repairs[i].integrated = run.repairs[i].integrated
          /\ run'.repairs[i].state = "succeeded" <=> run.repairs[i].state = "succeeded"
          /\ run'.repairs[i].commit => run'.repairs[i].evidence
          /\ run.repairs[i].commit => run'.repairs[i].commit
    BY <1>2, <1>3, <1>5, <2>1 DEF Mine
  <2>3. \A n \in DOMAIN run.rounds :
          /\ run'.rounds[n].base = run.rounds[n].base /\ run'.rounds[n].repair = run.rounds[n].repair
          /\ run'.rounds[n].state \in {run.rounds[n].state, "failed", "cancelled"}
    BY <1>2
  <2>4. \A i \in DOMAIN run.reviews :
          /\ run'.reviews[i].round = run.reviews[i].round
          /\ run'.reviews[i].category = run.reviews[i].category
          /\ run'.reviews[i].status = run.reviews[i].status
          /\ run'.reviews[i].by = run.reviews[i].by
          /\ run'.reviews[i].state = "succeeded" <=> run.reviews[i].state = "succeeded"
    BY <1>2
  <2>5. DOMAIN run'.reviews = DOMAIN run.reviews
    BY <1>2
  <2> QED
    BY ONLY Inv, <1>2, <2>2, <2>3, <2>4, <2>5, Rewrite
<1>7. ActiveIn(run.reviews) = {} /\ ActiveIn(run'.repairs) = {}
  <2>1. ActiveIn(run.reviews) = {}
    BY DEF Inv, ReviewsHold, Working
  <2>2. ActiveIn(run.repairs) \subseteq {loop.at}
    <3>1. CASE run.state = "cancelled"
      BY <3>1 DEF Inv, RepairsHold
    <3>2. CASE run.state # "cancelled"
      <4>1. loop.at \in ActiveIn(run.repairs)
        BY <1>1, <3>2 DEF Working, ActiveIn, ActiveStates, Mine
      <4> QED
        BY <4>1 DEF Inv, RepairsHold
    <3> QED
      BY <3>1, <3>2
  <2> QED
    BY <1>2, <1>3, <2>1, <2>2 DEF ActiveIn, ActiveStates
<1>8. ReviewsHold'
  <2>1. pass = NoPass /\ \A c \in Categories : NoPass[c].pc = "none"
    BY DEF Inv, ReviewsHold, NoPass
  <2> QED
    BY <1>2, <1>7, <2>1 DEF ReviewsHold, LivePass
<1>9. RoundsHold'
  BY <1>2, <1>6 DEF Inv, RoundsHold, Current
<1>10. RepairsHold'
  <2>1. \A i \in DOMAIN run'.repairs :
          /\ run'.repairs[i].integrated <=> run'.repairs[i].state = "succeeded"
          /\ run'.repairs[i].commit => run'.repairs[i].state \notin {"prepared", "running", "interrupted"}
    BY <1>2, <1>3, <1>5 DEF Inv, RepairsHold
  <2> QED
    BY <1>6, <1>7, <2>1 DEF RepairsHold, RepairPc
<1>11. FindingsHold'
  <2>1. run.finals = <<>>
    BY DEF Working
  <2> QED
    BY <1>2, <2>1 DEF FindingsHold, PastReview
<1>12. FinalsHold'
  <2>1. run.ready = <<>> /\ run.finals = <<>> /\ FinalsSound(run) /\ run.state # "validating"
    BY DEF Inv, FinalsHold, Working
  <2> QED
    BY <1>2, <2>1 DEF FinalsHold, FinalsSound, ReadySound
<1>13. BranchHolds'
  BY <1>2, <1>3 DEF Inv, BranchHolds, Mine
<1>14. WorkersBounded(run)'
  <2>1. ActiveIn(run'.reviews) \subseteq ActiveIn(run.reviews) /\ ActiveIn(run'.repairs) \subseteq ActiveIn(run.repairs)
    BY <1>2, <1>7
  <2>2. WorkersBounded(run')
    BY <1>1, <2>1, FewerActive DEF Inv
  <2> QED
    BY <2>2
<1> QED
  BY <1>4, <1>8, <1>9, <1>10, <1>11, <1>12, <1>13, <1>14 DEF Inv

\* The head of a run with one more repair.
\* What a head is to the one before its last repair.
Grown(head, k, h) ==
  /\ h \in Heads /\ Len(h) = Len(head) + 1 /\ DOMAIN h = 1..(Len(head) + 1)
  /\ DOMAIN head = 1..Len(head) /\ Len(head) \in Nat
  /\ \A m \in DOMAIN head : h[m] = head[m]
  /\ h[Len(head) + 1] = k
  /\ Range(h) = Range(head) \cup {k}
  /\ SubSeq(h, 1, Len(head)) = head
  /\ \A m \in DOMAIN head : SubSeq(h, 1, m - 1) = SubSeq(head, 1, m - 1)

\* The head of a run with one more repair.
LEMMA HeadGrows ==
  ASSUME NEW head \in Heads, NEW k \in Nat
  PROVE  Grown(head, k, Append(head, k))
<1> DEFINE h == Append(head, k)
<1>1. /\ h \in Heads /\ Len(h) = Len(head) + 1 /\ DOMAIN h = 1..(Len(head) + 1)
      /\ DOMAIN head = 1..Len(head) /\ Len(head) \in Nat
      /\ \A m \in DOMAIN head : h[m] = head[m]
      /\ h[Len(head) + 1] = k
  BY AppendProperties DEF Heads
<1>2. Range(h) = Range(head) \cup {k}
  <2>1. DOMAIN h = DOMAIN head \cup {Len(head) + 1}
    BY <1>1
  <2> QED
    BY <1>1, <2>1 DEF Range
<1>3. ASSUME NEW m \in 0..Len(head)
      PROVE  SubSeq(h, 1, m) = SubSeq(head, 1, m)
  <2>1. m <= Len(h) /\ m <= Len(head) /\ m \in Nat
    BY <1>1
  <2>2. /\ SubSeq(h, 1, m) = [i \in 1..m |-> h[i]]
        /\ SubSeq(head, 1, m) = [i \in 1..m |-> head[i]]
    BY <1>1, <2>1 DEF Heads
  <2>3. \A i \in 1..m : h[i] = head[i]
    BY <1>1, <2>1
  <2> QED
    BY <2>2, <2>3
<1>4. SubSeq(head, 1, Len(head)) = head
  BY <1>1 DEF Heads
<1>5. \A m \in DOMAIN head : m - 1 \in 0..Len(head)
  BY <1>1
<1>6. Len(head) \in 0..Len(head)
  BY <1>1
<1>7. Grown(head, k, h)
  BY <1>1, <1>2, <1>3, <1>4, <1>5, <1>6 DEF Grown
<1> QED
  BY <1>7

LEMMA CompleteStep ==
  ASSUME Inv, loop.pc \in {"complete", "recovered"}, Completable, run' = Complete,
         loop' \in LoopRecord,
         \/ loop'.pc = "review"
         \/ loop'.pc = "recover" /\ loop'.at = 0,
         UNCHANGED <<branch, pass, cancel, count>>
  PROVE  Inv'
<1>1. /\ run \in RunRecord /\ Working /\ Mine \in Repair /\ loop.at \in DOMAIN run.repairs
      /\ DOMAIN run.repairs = 1..Len(run.repairs) /\ Len(run.repairs) \in Nat
      /\ run.head \in Heads /\ loop.at \in Nat
      /\ \A i \in DOMAIN run.repairs : run.repairs[i] \in Repair
      /\ \A i \in DOMAIN run.reviews : run.reviews[i] \in Review
      /\ DOMAIN run.rounds = 1..Current /\ Current \in Nat
  <2>1. run \in RunRecord /\ Working
    BY TypeParts DEF Inv, RepairsHold, RepairPc
  <2> QED
    BY <2>1, RunFields DEF Working, Mine
<1>2. /\ run.state = "repairing" /\ Mine.state = "validating" /\ ~Mine.integrated /\ Mine.commit
      /\ Mine.base = run.head /\ run.finals = <<>>
  BY <1>1 DEF Completable, Working
<1>3. /\ loop.at \in ActiveIn(run.repairs) /\ loop.at = Len(run.repairs)
      /\ Mine.round = Current /\ Mine.findings = Required
      /\ ActiveIn(run.repairs) \subseteq {loop.at} /\ ActiveIn(run.reviews) = {}
  <2>1. loop.at \in ActiveIn(run.repairs)
    BY <1>1, <1>2 DEF ActiveIn, ActiveStates, Mine
  <2> QED
    BY <1>1, <1>2, <2>1 DEF Inv, RepairsHold, ReviewsHold, Mine
<1>4. Current # 0 /\ Current <= 2 /\ Current \in DOMAIN run.rounds /\ run.rounds # <<>>
      /\ Len(run.head) = Current - 1 /\ run.rounds[Current].state = "repairing"
      /\ CategoriesOf(run, Reported(run, Current)) = Categories
  <2>1. run.rounds # <<>>
    BY <1>2 DEF Inv, RoundsHold
  <2>2. Current # 0
    BY <1>1, <2>1, RunFields DEF Current
  <2> QED
    BY <1>1, <1>2, <2>1, <2>2 DEF Inv, RoundsHold
<1> DEFINE v == [Mine EXCEPT !.state = "succeeded", !.integrated = TRUE]
<1>5. /\ run' \in RunRecord
      /\ run'.state = "reviewing" /\ run'.head = Append(run.head, loop.at)
      /\ run'.finals = run.finals /\ run'.ready = run.ready
      /\ DOMAIN run'.rounds = 1..(Current + 1) /\ Len(run'.rounds) = Current + 1
      /\ run'.rounds[Current + 1] = NewRound(run'.head)
      /\ \A n \in DOMAIN run.rounds :
           /\ run'.rounds[n].base = run.rounds[n].base /\ run'.rounds[n].repair = run.rounds[n].repair
           /\ run'.rounds[n].state = IF n = Current THEN "succeeded" ELSE run.rounds[n].state
      /\ DOMAIN run'.repairs = DOMAIN run.repairs
      /\ \A i \in DOMAIN run.repairs : run'.repairs[i] = IF i = loop.at THEN v ELSE run.repairs[i]
      /\ DOMAIN run'.reviews = DOMAIN run.reviews
      /\ \A i \in DOMAIN run.reviews :
           /\ run'.reviews[i].round = run.reviews[i].round
           /\ run'.reviews[i].category = run.reviews[i].category
           /\ run'.reviews[i].state = run.reviews[i].state
           /\ IF i \in Mine.findings THEN run'.reviews[i].status = "repaired" /\ run'.reviews[i].by = loop.at
              ELSE run'.reviews[i].status = run.reviews[i].status /\ run'.reviews[i].by = run.reviews[i].by
  BY <1>1, <1>3, <1>4, Completed
<1>6. /\ v.round = Mine.round /\ v.findings = Mine.findings /\ v.base = Mine.base
      /\ v.integrated = TRUE /\ v.commit = Mine.commit /\ v.evidence = Mine.evidence
      /\ v.state = "succeeded"
  BY <1>1 DEF Repair
<1> HIDE DEF v
<1>7. /\ Current' = Current + 1 /\ DOMAIN run'.rounds = DOMAIN run.rounds \cup {Current + 1}
      /\ Current + 1 \notin DOMAIN run.rounds /\ run'.rounds # <<>>
  <2>1. DOMAIN run'.rounds = DOMAIN run.rounds \cup {Current + 1} /\ Current + 1 \notin DOMAIN run.rounds
    BY <1>1, <1>5
  <2>2. run'.rounds # <<>>
    BY <2>1
  <2> QED
    BY <1>5, <2>1, <2>2 DEF Current
<1>8. \A n : InRound(run', n) = InRound(run, n) /\ Reported(run', n) = Reported(run, n)
  BY ONLY <1>5 DEF InRound, Reported
<1>9. ASSUME NEW n
      PROVE  CategoriesOf(run', Reported(run', n)) = CategoriesOf(run, Reported(run, n))
  <2>1. \A i \in Reported(run, n) : run'.reviews[i].category = run.reviews[i].category
    BY <1>5 DEF Reported, InRound
  <2>2. Reported(run', n) = Reported(run, n)
    BY <1>8
  <2> QED
    BY ONLY <2>1, <2>2 DEF CategoriesOf
<1>10. /\ run'.head \in Heads /\ Len(run'.head) = Len(run.head) + 1
       /\ DOMAIN run'.head = 1..(Len(run.head) + 1)
       /\ DOMAIN run.head = 1..Len(run.head) /\ Len(run.head) \in Nat
       /\ \A m \in DOMAIN run.head : run'.head[m] = run.head[m]
       /\ run'.head[Len(run.head) + 1] = loop.at
       /\ Range(run'.head) = Range(run.head) \cup {loop.at}
       /\ SubSeq(run'.head, 1, Len(run.head)) = run.head
       /\ \A m \in DOMAIN run.head : SubSeq(run'.head, 1, m - 1) = SubSeq(run.head, 1, m - 1)
  <2>1. run.head \in Heads /\ loop.at \in Nat /\ run'.head = Append(run.head, loop.at)
    BY <1>1, <1>5
  <2>2. Grown(run.head, loop.at, run'.head)
    BY ONLY <2>1, HeadGrows
  <2> QED
    BY ONLY <2>2 DEF Grown
<1>11. TypeOK'
  BY <1>5 DEF Inv, TypeOK, RunRecord, LoopRecord
<1>12. ActiveIn(run'.reviews) = {} /\ ActiveIn(run'.repairs) = {}
  <2>1. \A i \in DOMAIN run.reviews : run.reviews[i].state \notin ActiveStates
    BY <1>3 DEF ActiveIn
  <2>2. \A i \in DOMAIN run.repairs : i # loop.at => run.repairs[i].state \notin ActiveStates
    BY <1>3 DEF ActiveIn
  <2>3. \A i \in DOMAIN run'.reviews : run'.reviews[i].state \notin ActiveStates
    BY <1>5, <2>1
  <2>4. v.state \notin ActiveStates
    BY <1>6 DEF ActiveStates
  <2>5. \A i \in DOMAIN run'.repairs : run'.repairs[i].state \notin ActiveStates
    BY ONLY <1>5, <2>2, <2>4
  <2> QED
    BY ONLY <2>3, <2>5 DEF ActiveIn
<1>13. ReviewsHold'
  <2>1. pass = NoPass /\ \A c \in Categories : NoPass[c].pc = "none"
    BY DEF Inv, ReviewsHold, NoPass
  <2> QED
    BY <1>12, <2>1 DEF ReviewsHold, LivePass
<1>14. RoundsHold'
  <2>1. RoundsSound(run')
    <3>1. \A n \in DOMAIN run.rounds : \A i, j \in InRound(run, n) :
            i < j /\ run'.reviews[i].state = "succeeded" => run'.reviews[i].category # run'.reviews[j].category
      BY <1>5 DEF InRound, Inv, RoundsHold, RoundsSound
    <3>2. InRound(run, Current + 1) = {}
      BY <1>7 DEF InRound, Inv, RoundsHold, RoundsSound
    <3>3. \A n \in DOMAIN run.rounds :
            /\ run'.rounds[n].repair # 0 => run'.repairs[run'.rounds[n].repair].round = n
            /\ run'.rounds[n].state = "succeeded" => CategoriesOf(run, Reported(run, n)) = Categories
      <4> SUFFICES ASSUME NEW n \in DOMAIN run.rounds
                   PROVE  /\ run'.rounds[n].repair # 0 => run'.repairs[run'.rounds[n].repair].round = n
                          /\ run'.rounds[n].state = "succeeded" => CategoriesOf(run, Reported(run, n)) = Categories
        OBVIOUS
      <4>1. /\ run.rounds[n].repair # 0 => run.repairs[run.rounds[n].repair].round = n
            /\ run.rounds[n].state = "succeeded" => CategoriesOf(run, Reported(run, n)) = Categories
            /\ run.rounds[n].repair # 0 => run.rounds[n].repair \in DOMAIN run.repairs
        BY DEF Inv, RoundsHold, RoundsSound
      <4>2. \A i \in DOMAIN run.repairs : run'.repairs[i].round = run.repairs[i].round
        BY ONLY <1>5, <1>6 DEF Mine
      <4>3. run'.rounds[n].repair = run.rounds[n].repair
            /\ run'.rounds[n].state = IF n = Current THEN "succeeded" ELSE run.rounds[n].state
        BY <1>5
      <4> QED
        BY ONLY <1>4, <4>1, <4>2, <4>3
    <3>4. run'.rounds[Current + 1].repair = 0 /\ run'.rounds[Current + 1].state = "running"
      BY <1>5 DEF NewRound
    <3>5. \A i \in DOMAIN run'.reviews : run'.reviews[i].round \in DOMAIN run'.rounds
      BY <1>5, <1>7 DEF Inv, RoundsHold, RoundsSound
    <3>6. \A n \in DOMAIN run'.rounds :
            /\ \A i, j \in InRound(run', n) :
                 i < j /\ run'.reviews[i].state = "succeeded" => run'.reviews[i].category # run'.reviews[j].category
            /\ run'.rounds[n].repair # 0 => run'.repairs[run'.rounds[n].repair].round = n
            /\ run'.rounds[n].state = "succeeded" => CategoriesOf(run', Reported(run', n)) = Categories
      BY <1>7, <1>8, <1>9, <3>1, <3>2, <3>3, <3>4
    <3> QED
      BY <3>5, <3>6 DEF RoundsSound
  <2>2. run'.rounds[Current + 1].repair = 0 /\ run'.rounds[Current + 1].state = "running"
        /\ run'.rounds[Current + 1].base = run'.head
    BY <1>5 DEF NewRound
  <2>3. \A n \in DOMAIN run'.rounds :
          /\ run'.rounds[n].repair # 0 => run'.rounds[n].repair \in DOMAIN run'.repairs
          /\ run'.rounds[n].state = "repairing" => CategoriesOf(run', Reported(run', n)) = Categories
    <3> SUFFICES ASSUME NEW n \in DOMAIN run'.rounds
                 PROVE  /\ run'.rounds[n].repair # 0 => run'.rounds[n].repair \in DOMAIN run'.repairs
                        /\ run'.rounds[n].state = "repairing" => CategoriesOf(run', Reported(run', n)) = Categories
      OBVIOUS
    <3>1. CASE n \in DOMAIN run.rounds
      <4>1. /\ run.rounds[n].repair # 0 => run.rounds[n].repair \in DOMAIN run.repairs
            /\ run.rounds[n].state = "repairing" => CategoriesOf(run, Reported(run, n)) = Categories
        BY <3>1 DEF Inv, RoundsHold
      <4>2. /\ run'.rounds[n].repair = run.rounds[n].repair
            /\ run'.rounds[n].state \in {"succeeded", run.rounds[n].state}
            /\ DOMAIN run'.repairs = DOMAIN run.repairs
        BY <1>5, <3>1
      <4> QED
        BY ONLY <1>9, <4>1, <4>2
    <3>2. CASE n = Current + 1
      BY <2>2, <3>2
    <3> QED
      BY <1>7, <3>1, <3>2
  <2>4. Len(run'.head) = Current' - 1 /\ run'.rounds[Current'].base = run'.head /\ Len(run'.head) <= 2
    BY <1>1, <1>4, <1>7, <1>10, <2>2
  <2> QED
    BY <1>5, <1>7, <2>1, <2>3, <2>4 DEF RoundsHold
<1>15. RepairsHold'
  <2>1. \A i \in DOMAIN run'.repairs :
          /\ run'.repairs[i].findings # {}
          /\ run'.repairs[i].findings \subseteq InRound(run, run'.repairs[i].round)
          /\ run'.repairs[i].commit => run'.repairs[i].evidence
          /\ run'.repairs[i].integrated => run'.repairs[i].commit
          /\ run'.repairs[i].state = "succeeded" => run'.repairs[i].integrated
          /\ run'.repairs[i].integrated => run'.repairs[i].state = "succeeded"
          /\ run'.repairs[i].commit => run'.repairs[i].state \notin {"prepared", "running", "interrupted"}
    <3>1. \A i \in DOMAIN run.repairs :
            /\ run.repairs[i].findings # {}
            /\ run.repairs[i].findings \subseteq InRound(run, run.repairs[i].round)
            /\ run.repairs[i].commit => run.repairs[i].evidence
            /\ run.repairs[i].integrated => run.repairs[i].commit
            /\ run.repairs[i].state = "succeeded" => run.repairs[i].integrated
            /\ run.repairs[i].integrated => run.repairs[i].state = "succeeded"
            /\ run.repairs[i].commit => run.repairs[i].state \notin {"prepared", "running", "interrupted"}
      BY DEF Inv, RepairsHold, RepairsSound
    <3> SUFFICES ASSUME NEW i \in DOMAIN run.repairs
                 PROVE  /\ run'.repairs[i].findings # {}
                        /\ run'.repairs[i].findings \subseteq InRound(run, run'.repairs[i].round)
                        /\ run'.repairs[i].commit => run'.repairs[i].evidence
                        /\ run'.repairs[i].integrated => run'.repairs[i].commit
                        /\ run'.repairs[i].state = "succeeded" => run'.repairs[i].integrated
                        /\ run'.repairs[i].integrated => run'.repairs[i].state = "succeeded"
                        /\ run'.repairs[i].commit =>
                             run'.repairs[i].state \notin {"prepared", "running", "interrupted"}
      BY <1>5
    <3>2. CASE i = loop.at
      <4>1. run'.repairs[i] = v /\ run.repairs[i] = Mine
        BY <1>5, <3>2 DEF Mine
      <4> QED
        BY ONLY <1>2, <1>6, <3>1, <4>1
    <3>3. CASE i # loop.at
      <4>1. run'.repairs[i] = run.repairs[i]
        BY <1>5, <3>3
      <4> QED
        BY ONLY <3>1, <4>1
    <3> QED
      BY <3>2, <3>3
  <2>2. Range(run'.head) = {i \in DOMAIN run'.repairs : run'.repairs[i].integrated}
    <3>1. Range(run.head) = {i \in DOMAIN run.repairs : run.repairs[i].integrated}
      BY DEF Inv, RepairsHold, RepairsSound
    <3> QED
      BY ONLY <1>1, <1>5, <1>6, <1>10, <3>1
  <2>3. \A m \in DOMAIN run.head : run.head[m] \in DOMAIN run.repairs /\ run.head[m] # loop.at
                                   /\ run.head[m] < loop.at
    <3>1. \A m \in DOMAIN run.head : run.head[m] \in DOMAIN run.repairs
                                     /\ run.repairs[run.head[m]].integrated
      BY DEF Inv, RepairsHold, RepairsSound, Range
    <3>2. \A m \in DOMAIN run.head : run.head[m] # loop.at
      BY <1>2, <3>1 DEF Mine
    <3> QED
      BY <1>1, <1>3, <3>1, <3>2
  <2>4. \A m, k \in DOMAIN run'.head : m < k => run'.head[m] < run'.head[k]
    <3>1. \A m, k \in DOMAIN run.head : m < k => run.head[m] < run.head[k]
      BY DEF Inv, RepairsHold, RepairsSound
    <3>2. \A k \in DOMAIN run'.head : k \in DOMAIN run.head \/ k = Len(run.head) + 1
      BY <1>10
    <3>3. \A k \in DOMAIN run'.head : k \in Nat /\ k <= Len(run.head) + 1
      BY <1>10
    <3> QED
      BY ONLY <1>10, <2>3, <3>1, <3>2, <3>3
  <2>5. \A m \in DOMAIN run'.head : run'.repairs[run'.head[m]].base = SubSeq(run'.head, 1, m - 1)
    <3> SUFFICES ASSUME NEW m \in DOMAIN run'.head
                 PROVE  run'.repairs[run'.head[m]].base = SubSeq(run'.head, 1, m - 1)
      OBVIOUS
    <3>1. CASE m \in DOMAIN run.head
      <4>1. run.repairs[run.head[m]].base = SubSeq(run.head, 1, m - 1)
        BY <3>1 DEF Inv, RepairsHold, RepairsSound
      <4>2. run'.repairs[run.head[m]] = run.repairs[run.head[m]]
        BY <1>5, <2>3, <3>1
      <4> QED
        BY <1>10, <3>1, <4>1, <4>2
    <3>2. CASE m = Len(run.head) + 1
      <4>1. run'.repairs[loop.at] = v /\ v.base = run.head
        BY <1>1, <1>2, <1>5, <1>6
      <4>2. m - 1 = Len(run.head)
        BY <1>10, <3>2
      <4> QED
        BY <1>10, <3>2, <4>1, <4>2
    <3> QED
      BY <1>10, <3>1, <3>2
  <2>6. \A i \in DOMAIN run'.reviews : run'.reviews[i].status = "repaired" =>
          \E k \in DOMAIN run'.repairs :
            /\ k = run'.reviews[i].by /\ i \in run'.repairs[k].findings
            /\ run'.repairs[k].state = "succeeded" /\ run'.repairs[k].integrated
    <3> SUFFICES ASSUME NEW i \in DOMAIN run.reviews, run'.reviews[i].status = "repaired"
                 PROVE  \E k \in DOMAIN run.repairs :
                          /\ k = run'.reviews[i].by /\ i \in run'.repairs[k].findings
                          /\ run'.repairs[k].state = "succeeded" /\ run'.repairs[k].integrated
      BY <1>5
    <3>1. CASE i \in Mine.findings
      BY <1>1, <1>5, <1>6, <3>1
    <3>2. CASE i \notin Mine.findings
      <4>1. PICK k \in DOMAIN run.repairs :
              /\ k = run.reviews[i].by /\ i \in run.repairs[k].findings
              /\ run.repairs[k].state = "succeeded" /\ run.repairs[k].integrated
        BY <1>5, <3>2 DEF Inv, RepairsHold, RepairsSound
      <4>2. k # loop.at
        BY <1>2, <4>1 DEF Mine
      <4> QED
        BY <1>5, <3>2, <4>1, <4>2
    <3> QED
      BY <3>1, <3>2
  <2>7. RepairsSound(run')
    BY <1>8, <2>1, <2>2, <2>4, <2>5, <2>6 DEF RepairsSound
  <2> QED
    BY <1>12, <2>1, <2>7 DEF RepairsHold, RepairPc
<1>16. FindingsHold'
  <2>1. Open = Required
    BY <1>2 DEF Inv, FindingsHold
  <2>2. Open' = {}
    BY <1>3, <1>5, <2>1 DEF Open
  <2> QED
    BY <1>2, <1>5, <2>2 DEF FindingsHold, PastReview
<1>17. FinalsHold'
  <2>1. run.ready = <<>> /\ FinalsSound(run)
    BY <1>2 DEF Inv, FinalsHold
  <2> QED
    BY <1>2, <1>5, <2>1 DEF FinalsHold, FinalsSound, ReadySound
<1>18. BranchHolds'
  BY <1>5 DEF Inv, BranchHolds
<1>19. WorkersBounded(run)'
  <2>1. WorkersBounded(run')
    BY <1>1, <1>12, FewerActive DEF Inv
  <2> QED
    BY <2>1
<1> QED
  BY <1>11, <1>13, <1>14, <1>15, <1>16, <1>17, <1>18, <1>19 DEF Inv

\* The steps of runRepairAttempt on an attempt it has reserved.
LEMMA RepairSteps ==
  ASSUME Inv
  PROVE  /\ SpawnRepair \/ EndRepair => Inv'
         /\ RecordRepairEvidence \/ RecordRepairCommit => Inv'
         /\ completeRepairIntegration \/ RecordRepairFailure => Inv'
         /\ RecordRecoveredRepair \/ RecoverRepairFails => Inv'
<1> USE DEF At, GoTo, GoWith, Others
<1>0. /\ run \in RunRecord /\ loop \in LoopRecord /\ cancel \in Nat /\ count \in Counted
  BY TypeParts DEF Inv
<1>1. \A pc \in LoopPc : [loop EXCEPT !.pc = pc] \in LoopRecord
                         /\ [loop EXCEPT !.pc = pc].pc = pc /\ [loop EXCEPT !.pc = pc].at = loop.at
  BY <1>0 DEF LoopRecord
<1>2. /\ {"review", "work", "validate", "commit", "integrate", "unrepair", "abandon",
        "recover"} \subseteq LoopPc
      /\ [loop EXCEPT !.pc = "recover", !.at = 0] \in LoopRecord /\ Idle \in LoopRecord
      /\ [loop EXCEPT !.pc = "recover", !.at = 0].pc = "recover"
      /\ [loop EXCEPT !.pc = "recover", !.at = 0].at = 0 /\ Idle.pc = "idle"
  BY <1>0 DEF LoopPc, LoopRecord, Idle
<1>3. ASSUME Working
      PROVE  /\ loop.at \in DOMAIN run.repairs /\ Mine \in Repair
             /\ Mine.commit => Mine.evidence /\ Mine.state \notin {"prepared", "running", "interrupted"}
             /\ \A state \in AttemptStates :
                  LET v == [Mine EXCEPT !.state = state]
                  IN /\ v \in Repair /\ v.state = state /\ v.round = Mine.round
                     /\ v.findings = Mine.findings /\ v.base = Mine.base
                     /\ v.integrated = Mine.integrated /\ v.evidence = Mine.evidence
                     /\ v.commit = Mine.commit
                     /\ SetMine(state) = [run EXCEPT !.repairs[loop.at] = v]
  <2>1. loop.at \in DOMAIN run.repairs
    BY <1>3 DEF Working
  <2>2. /\ Mine \in Repair
        /\ \A state \in AttemptStates :
             LET v == [Mine EXCEPT !.state = state]
             IN v \in Repair /\ SetMine(state) = [run EXCEPT !.repairs[loop.at] = v]
    BY <1>0, <2>1, MineWritten
  <2>3. Mine.commit => Mine.evidence /\ Mine.state \notin {"prepared", "running", "interrupted"}
    BY <2>1 DEF Inv, RepairsHold, RepairsSound, Mine
  <2>4. \A state \in AttemptStates :
          LET v == [Mine EXCEPT !.state = state]
          IN /\ v.state = state /\ v.round = Mine.round
             /\ v.findings = Mine.findings /\ v.base = Mine.base
             /\ v.integrated = Mine.integrated /\ v.evidence = Mine.evidence
             /\ v.commit = Mine.commit
    BY <2>2 DEF Repair
  <2> QED
    BY <2>1, <2>2, <2>3, <2>4
<1>4. SpawnRepair \/ EndRepair => Inv'
  <2> SUFFICES ASSUME NEW pc \in {"spawn", "work"}, NEW next, NEW state, loop.pc = pc,
                      next = IF pc = "spawn" THEN "work" ELSE "validate",
                      state = IF pc = "spawn" THEN "running" ELSE "validating",
                      run' = Kept(SetMine(state)),
                      loop' = [loop EXCEPT !.pc = IF run.state = "cancelled" THEN "review" ELSE next],
                      UNCHANGED <<branch, pass, cancel, count>>
               PROVE  Inv'
    BY DEF SpawnRepair, EndRepair
  <2>1. Working /\ state \in AttemptStates
    BY DEF Inv, RepairsHold, RepairPc, AttemptStates, ActiveStates
  <2>2. CASE run.state = "cancelled"
    <3>1. Move /\ run' = run /\ loop' \in LoopRecord
      BY <1>1, <1>2, <2>2 DEF Move, Kept
    <3> QED
      BY <1>0, <3>1, MoveStep
  <2>3. CASE run.state # "cancelled"
    <3> DEFINE v == [Mine EXCEPT !.state = state]
    <3>1. /\ loop.at \in DOMAIN run.repairs /\ Mine \in Repair
          /\ Mine.commit => Mine.evidence /\ Mine.state \notin {"prepared", "running", "interrupted"}
          /\ v \in Repair /\ v.state = state /\ v.round = Mine.round
          /\ v.findings = Mine.findings /\ v.base = Mine.base
          /\ v.integrated = Mine.integrated /\ v.evidence = Mine.evidence /\ v.commit = Mine.commit
          /\ SetMine(state) = [run EXCEPT !.repairs[loop.at] = v]
      BY <1>3, <2>1
    <3>2. /\ run.state = "repairing" /\ Mine.state = IF pc = "spawn" THEN "prepared" ELSE "running"
      BY <2>1, <2>3 DEF Working
    <3>3. run' = [run EXCEPT !.repairs[loop.at] = v] /\ loop' = [loop EXCEPT !.pc = next]
      BY <2>3, <3>1 DEF Kept
    <3> HIDE DEF v
    <3>4. ~v.commit /\ v.state # "succeeded"
      BY <3>1, <3>2
    <3>5. \/ loop.pc = "spawn" /\ next = "work"
          \/ loop.pc = "work" /\ next = "validate"
      <4>1. CASE pc = "spawn"
        BY <4>1
      <4>2. CASE pc = "work"
        BY <4>2
      <4> QED
        BY <4>1, <4>2
    <3>0. loop.pc \in {"spawn", "work"}
      OBVIOUS
    <3>6. state = IF loop.pc = "spawn" THEN "running" ELSE "validating"
      OBVIOUS
    <3> QED
      BY ONLY Inv, <2>3, <3>1, <3>2, <3>3, <3>4, <3>5, <3>6, <3>0, RepairWrites, UNCHANGED <<branch, pass, cancel, count>>
  <2> QED
    BY <2>2, <2>3
<1>5. RecordRepairEvidence => Inv'
  <2> SUFFICES ASSUME RecordRepairEvidence PROVE Inv'
    OBVIOUS
  <2> DEFINE v == [Mine EXCEPT !.evidence = TRUE]
  <2>1. loop.pc = "evidence" /\ loop' = [loop EXCEPT !.pc = "commit"]
        /\ UNCHANGED <<branch, pass, cancel, count>>
    BY DEF RecordRepairEvidence
  <2>2. Working /\ Mine.state \in {"cancelled", "validating"}
        /\ IF run.state = "cancelled" THEN Mine.state = "cancelled" ELSE Mine.state = "validating"
    BY <2>1 DEF Inv, RepairsHold, RepairPc, Working
  <2>3. run' = [run EXCEPT !.repairs[loop.at] = v] /\ v \in Repair
    BY <1>0, <1>3, <2>2, MineWritten DEF RecordRepairEvidence
  <2>4. /\ v.round = Mine.round /\ v.findings = Mine.findings /\ v.base = Mine.base
        /\ v.integrated = Mine.integrated /\ v.evidence /\ v.commit = Mine.commit
        /\ v.state = Mine.state
    BY <1>3, <2>2 DEF Repair
  <2> HIDE DEF v
  <2>5. /\ v.state # "succeeded" /\ v.state \notin {"prepared", "running", "interrupted"}
        /\ IF run.state = "cancelled" THEN v.state = Mine.state ELSE v.state \in {"validating"}
    BY <2>2, <2>4
  <2> QED
    BY ONLY Inv, <2>1, <2>3, <2>4, <2>5, RepairWrites
<1>6. RecordRepairCommit => Inv'
  <2> SUFFICES ASSUME RecordRepairCommit PROVE Inv'
    OBVIOUS
  <2> DEFINE v == [Mine EXCEPT !.commit = TRUE]
  <2>1. loop.pc = "commit" /\ loop' = [loop EXCEPT !.pc = "integrate"]
        /\ UNCHANGED <<branch, pass, cancel, count>>
    BY DEF RecordRepairCommit
  <2>2. Working /\ Mine.state \in {"cancelled", "validating"} /\ Mine.evidence
        /\ IF run.state = "cancelled" THEN Mine.state = "cancelled" ELSE Mine.state = "validating"
    BY <2>1 DEF Inv, RepairsHold, RepairPc, Working
  <2>3. run' = [run EXCEPT !.repairs[loop.at] = v] /\ v \in Repair
    BY <1>0, <1>3, <2>2, MineWritten DEF RecordRepairCommit
  <2>4. /\ v.round = Mine.round /\ v.findings = Mine.findings /\ v.base = Mine.base
        /\ v.integrated = Mine.integrated /\ v.evidence = Mine.evidence /\ v.commit
        /\ v.state = Mine.state
    BY <1>3, <2>2 DEF Repair
  <2> HIDE DEF v
  <2>5. /\ v.state # "succeeded" /\ v.state \notin {"prepared", "running", "interrupted"}
        /\ IF run.state = "cancelled" THEN v.state = Mine.state ELSE v.state \in {"validating"}
        /\ v.evidence
    BY <2>2, <2>4
  <2> QED
    BY ONLY Inv, <2>1, <2>3, <2>4, <2>5, RepairWrites
<1>7. completeRepairIntegration => Inv'
  <2> SUFFICES ASSUME completeRepairIntegration PROVE Inv'
    OBVIOUS
  <2>1. loop.pc = "complete" /\ UNCHANGED <<branch, pass, cancel, count>>
        /\ IF Completable THEN run' = Complete /\ loop' = [loop EXCEPT !.pc = "review"]
           ELSE loop' = [loop EXCEPT !.pc = "abandon"] /\ run' = run
    BY DEF completeRepairIntegration
  <2>0. \A pc \in {"review", "abandon"} :
          /\ [loop EXCEPT !.pc = pc] \in LoopRecord
          /\ [loop EXCEPT !.pc = pc].pc = pc /\ [loop EXCEPT !.pc = pc].at = loop.at
    BY <1>1, <1>2
  <2>2. CASE Completable
    <3>1. run' = Complete /\ loop' \in LoopRecord /\ loop'.pc = "review"
      BY <2>0, <2>1, <2>2
    <3> QED
      BY <2>1, <2>2, <3>1, CompleteStep
  <2>3. CASE ~Completable
    <3>1. /\ loop'.pc = "abandon" /\ loop'.at = loop.at /\ loop' \in LoopRecord
          /\ UNCHANGED <<run, branch, pass, cancel, count>>
      BY <2>0, <2>1, <2>3
    <3>2. Move
      BY <2>1, <3>1 DEF Move
    <3> QED
      BY <1>0, <3>1, <3>2, MoveStep
  <2> QED
    BY <2>2, <2>3
<1>8. RecordRepairFailure => Inv'
  <2> SUFFICES ASSUME RecordRepairFailure PROVE Inv'
    OBVIOUS
  <2>1. /\ loop.pc \in {"unrepair", "abandon"} /\ UNCHANGED <<branch, pass, cancel, count>>
        /\ loop' \in LoopRecord /\ loop'.pc = "review" /\ run' = Kept(WithRound)
    BY <1>1, <1>2 DEF RecordRepairFailure, WithRound
  <2>2. Working
    BY <2>1 DEF Inv, RepairsHold, RepairPc
  <2>3. CASE run.state = "cancelled"
    <3>1. Move /\ UNCHANGED <<run, branch, pass, cancel, count>>
      BY <2>1, <2>3 DEF Move, Kept
    <3> QED
      BY <1>0, <2>1, <3>1, MoveStep
  <2>4. CASE run.state # "cancelled"
    <3>1. run' = WithRound /\ run.state = "repairing"
      BY <2>1, <2>2, <2>4 DEF Kept, Working
    <3>2. run.rounds # <<>>
      BY <3>1 DEF Inv, RoundsHold
    <3>3. Current # 0
      BY <1>0, <3>2, RunFields DEF Current
    <3> QED
      BY <2>1, <2>2, <3>1, <3>3, RepairFailStep
  <2> QED
    BY <2>3, <2>4
<1>9. RecordRecoveredRepair => Inv'
  BY <1>2, CompleteStep DEF RecordRecoveredRepair
<1>10. RecoverRepairFails => Inv'
  <2> SUFFICES ASSUME RecoverRepairFails PROVE Inv'
    OBVIOUS
  <2>1. /\ loop.pc \in {"recover", "recovered"} /\ loop.at # 0
        /\ UNCHANGED <<branch, pass, cancel, count>>
        /\ loop' \in LoopRecord /\ loop'.pc = "idle" /\ run' = WithoutRound
    BY <1>2 DEF RecoverRepairFails, WithoutRound
  <2>2. Working
    BY <2>1 DEF Inv, RepairsHold
  <2> QED
    BY <2>1, <2>2, RepairFailStep
<1> QED
  BY <1>4, <1>5, <1>6, <1>7, <1>8, <1>9, <1>10

-----------------------------------------------------------------------------
(* The final validation.                                                   *)

\* A final validation written in place, with the state of the run.
WithFinal(state, k, v) == [run EXCEPT !.state = state, !.finals[k] = v]

LEMMA FinalWritten ==
  ASSUME run \in RunRecord, NEW k \in DOMAIN run.finals, NEW v \in Final,
         NEW state \in RunStates, NEW r, r = WithFinal(state, k, v)
  PROVE  /\ r \in RunRecord
         /\ r.state = state /\ r.head = run.head /\ r.rounds = run.rounds
         /\ r.reviews = run.reviews /\ r.repairs = run.repairs /\ r.ready = run.ready
         /\ DOMAIN r.finals = DOMAIN run.finals /\ r.finals # <<>>
         /\ \A i \in DOMAIN run.finals : r.finals[i] = IF i = k THEN v ELSE run.finals[i]
<1>1. run.finals \in Seq(Final)
  BY RunFields
<1>2. [run.finals EXCEPT ![k] = v] \in Seq(Final)
  BY <1>1, Rewritten
<1>3. r = [run EXCEPT !.state = state, !.finals = [run.finals EXCEPT ![k] = v]]
  BY DEF RunRecord, WithFinal
<1>4. /\ r \in RunRecord /\ r.finals = [run.finals EXCEPT ![k] = v]
      /\ r.state = state /\ r.head = run.head /\ r.rounds = run.rounds
      /\ r.reviews = run.reviews /\ r.repairs = run.repairs /\ r.ready = run.ready
  BY <1>2, <1>3 DEF RunRecord
<1>5. /\ DOMAIN r.finals = DOMAIN run.finals
      /\ \A i \in DOMAIN run.finals : r.finals[i] = IF i = k THEN v ELSE run.finals[i]
  BY <1>1, <1>4
<1>6. r.finals # <<>>
  BY <1>5
<1> QED
  BY <1>4, <1>5, <1>6

\* The ways to write the final validation the loop works on.
LEMMA FinalValues ==
  ASSUME run \in RunRecord, loop.at \in DOMAIN run.finals
  PROVE  LET f == run.finals[loop.at]
         IN /\ f \in Final
            /\ \A state \in {"failed", "succeeded", f.state} :
                 LET v == [f EXCEPT !.state = state]
                 IN v \in Final /\ v.state = state /\ v.commit = f.commit /\ v.evidence = f.evidence
            /\ LET v == [f EXCEPT !.evidence = TRUE]
               IN v \in Final /\ v.state = f.state /\ v.commit = f.commit /\ v.evidence
<1>1. run.finals[loop.at] \in Final
  BY RunFields
<1> QED
  BY <1>1 DEF Final, AttemptStates

\* At most one final validation runs, and only while the run validates.
LEMMA OneRunning ==
  ASSUME Inv
  PROVE  /\ run.state # "validating" => RunningFinals = {}
         /\ \A k \in RunningFinals : run.state = "validating" /\ RunningFinals = {k}
<1>1. Cardinality(RunningFinals) <= 1 /\ (run.state = "validating" <=> RunningFinals # {})
  BY DEF Inv, FinalsHold, FinalsSound, RunningFinals
<1>2. IsFiniteSet(RunningFinals)
  <2>1. DOMAIN run.finals = 1..Len(run.finals) /\ Len(run.finals) \in Nat
    BY TypeParts, RunFields DEF Inv
  <2>2. IsFiniteSet(1..Len(run.finals))
    BY <2>1, FS_Interval
  <2> QED
    BY <2>1, <2>2, FS_Subset DEF RunningFinals
<1>3. ASSUME NEW k \in RunningFinals, NEW j \in RunningFinals, j # k
      PROVE  FALSE
  <2>1. {j, k} \subseteq RunningFinals
    BY <1>3
  <2>2. Cardinality({j, k}) <= Cardinality(RunningFinals) /\ IsFiniteSet({j, k})
    BY <1>2, <2>1, FS_Subset
  <2>3. Cardinality({j, k}) = 2
    <3>1. Cardinality({j}) = 1 /\ IsFiniteSet({j})
      BY FS_Singleton
    <3>2. Cardinality({j} \cup {k}) = Cardinality({j}) + 1
      BY <1>3, <3>1, FS_AddElement
    <3>3. {j, k} = {j} \cup {k}
      OBVIOUS
    <3>4. Cardinality({j, k}) = Cardinality({j}) + 1
      BY ONLY <3>2, <3>3, Zenon
    <3>5. Cardinality({j, k}) = 1 + 1
      BY ONLY <3>1, <3>4, Zenon
    <3> QED
      BY ONLY <3>5
  <2>4. Cardinality(RunningFinals) \in Nat
    BY <1>2, FS_CardinalityType
  <2> QED
    BY <1>1, <2>2, <2>3, <2>4
<1>4. \A k \in RunningFinals : run.state = "validating" /\ RunningFinals = {k}
  BY <1>1, <1>3
<1> QED
  BY <1>1, <1>4

\* What is left of the invariant is what the finals are.
LEMMA FinalsWrites ==
  ASSUME Inv, PastReview, loop.pc # "passes",
         loop' \in LoopRecord, loop'.pc \in {"idle", "final", "check", "finish"},
         run' \in RunRecord, run'.head = run.head, run'.rounds = run.rounds,
         run'.reviews = run.reviews, run'.repairs = run.repairs,
         run'.state \in {"reviewed", "validating", "completed", "failed", "cancelled"},
         UNCHANGED <<branch, pass>>, cancel' \in Nat, count' \in Counted,
         FinalsHold'
  PROVE  Inv'
<1>1. TypeOK'
  BY DEF Inv, TypeOK, RunRecord, LoopRecord, Counted
<1>2. /\ run.state \notin {"integrating", "reviewing", "repairing"}
      /\ run.rounds # <<>> /\ run.rounds[Current].state = "succeeded"
      /\ branch = run.head /\ Open = {}
  BY DEF Inv, FindingsHold
<1>3. ActiveIn(run.reviews) = {} /\ ActiveIn(run.repairs) = {}
  BY <1>2 DEF Inv, ReviewsHold, RepairsHold
<1>4. ReviewsHold'
  <2>1. pass = NoPass /\ \A c \in Categories : NoPass[c].pc = "none"
    BY DEF Inv, ReviewsHold, NoPass
  <2> QED
    BY <1>3, <2>1 DEF ReviewsHold, LivePass
<1>5. /\ RoundsSound(run') /\ RepairsSound(run') /\ Current' = Current /\ Open' = Open
      /\ \A n : CategoriesOf(run', Reported(run', n)) = CategoriesOf(run, Reported(run, n))
  BY DEF Inv, RoundsHold, RepairsHold, RoundsSound, RepairsSound, InRound, Reported, CategoriesOf,
         Current, Open
<1>6. RoundsHold'
  BY <1>2, <1>5 DEF Inv, RoundsHold
<1>7. RepairsHold'
  BY <1>3, <1>5 DEF Inv, RepairsHold, RepairPc
<1>8. FindingsHold'
  BY <1>2, <1>5 DEF FindingsHold
<1>9. BranchHolds'
  BY <1>2 DEF BranchHolds
<1>10. WorkersBounded(run)'
  BY DEF Inv, WorkersBounded
<1> QED
  BY <1>1, <1>4, <1>6, <1>7, <1>8, <1>9, <1>10 DEF Inv

LEMMA FinalsSoundly ==
  ASSUME \/ run'.state = "validating" /\ \E k : RunningFinals' = {k}
         \/ run'.state # "validating" /\ RunningFinals' = {},
         \A i \in DOMAIN run'.finals : run'.finals[i].state = "succeeded" => run'.finals[i].evidence
  PROVE  FinalsSound(run')
<1> DEFINE S == {i \in DOMAIN run'.finals : run'.finals[i].state = "running"}
<1>1. S = RunningFinals'
  BY DEF RunningFinals
<1>2. Cardinality(S) <= 1
  <2> HIDE DEF S
  <2>1. CASE S = {}
    <3>1. Cardinality(S) = 0
      BY <2>1, FS_EmptySet, Zenon
    <3> QED
      BY <3>1
  <2>2. CASE \E k : S = {k}
    <3>1. PICK k : S = {k}
      BY <2>2
    <3>2. Cardinality(S) = 1
      BY <3>1, FS_Singleton
    <3> QED
      BY <3>2
  <2> QED
    BY <1>1, <2>1, <2>2
<1>3. (run'.state = "validating") <=> S # {}
  BY <1>1
<1> QED
  BY <1>2, <1>3 DEF FinalsSound

\* The steps of runFinalValidation on an attempt, and the reservation of one.
LEMMA FinalSteps ==
  ASSUME Inv
  PROVE  /\ RemoveStaleAttempt \/ RemoveStaleAttemptFails => Inv'
         /\ ReserveFinalAttempt \/ RecordFinalEvidence => Inv'
         /\ CompleteFinalValidation \/ RecordFinalFailure => Inv'
<1> USE DEF At, GoTo, GoWith, Others
<1>0. /\ run \in RunRecord /\ loop \in LoopRecord /\ cancel \in Nat /\ count \in Counted
  BY TypeParts DEF Inv
<1>1. /\ \A pc \in {"reserve", "finish"} :
           /\ [loop EXCEPT !.pc = pc] \in LoopRecord
           /\ [loop EXCEPT !.pc = pc].pc = pc /\ [loop EXCEPT !.pc = pc].at = loop.at
      /\ Idle \in LoopRecord /\ Idle.pc = "idle"
  BY <1>0 DEF LoopPc, LoopRecord, Idle
<1>2. ASSUME loop.at \in DOMAIN run.finals
      PROVE  PastReview /\ run.finals # <<>>
  BY <1>2, <1>0, RunFields DEF PastReview
<1>3. /\ \A i \in DOMAIN run.finals : run.finals[i].state = "succeeded" => run.finals[i].evidence
      /\ run.state # "completed" => run.ready = <<>>
  BY DEF Inv, FinalsHold, FinalsSound
<1>4. RemoveStaleAttempt => Inv'
  <2> SUFFICES ASSUME RemoveStaleAttempt PROVE Inv'
    OBVIOUS
  <2>1. /\ loop.pc = "stale" /\ UNCHANGED <<branch, pass, cancel, count>>
        /\ run.finals[loop.at].state = "interrupted"
        /\ \/ run.finals[loop.at].evidence /\ loop' = [loop EXCEPT !.pc = "finish"]
           \/ loop' = [loop EXCEPT !.pc = "reserve"]
        /\ run' = run
    BY DEF RemoveStaleAttempt, Inv, FinalsHold
  <2>2. Move /\ loop' \in LoopRecord
    BY <1>1, <2>1 DEF Move
  <2> QED
    BY <1>0, <2>1, <2>2, MoveStep
<1>5. RemoveStaleAttemptFails => Inv'
  <2> SUFFICES ASSUME RemoveStaleAttemptFails PROVE Inv'
    OBVIOUS
  <2> DEFINE f == run.finals[loop.at]
             v == [f EXCEPT !.state = "failed"]
  <2>1. /\ loop.pc = "stale" /\ UNCHANGED <<branch, pass, cancel, count>> /\ loop' = Idle
        /\ loop.at \in DOMAIN run.finals /\ run.state \in {"reviewed", "cancelled"}
    BY DEF RemoveStaleAttemptFails, Inv, FinalsHold
  <2>2. v \in Final /\ v.state = "failed"
    BY <1>0, <2>1, FinalValues
  <2>3. run' = WithFinal("failed", loop.at, v)
    BY <1>0 DEF RemoveStaleAttemptFails, RunRecord, WithFinal
  <2> HIDE DEF v, f
  <2>4. /\ run' \in RunRecord
        /\ run'.state = "failed" /\ run'.head = run.head /\ run'.rounds = run.rounds
        /\ run'.reviews = run.reviews /\ run'.repairs = run.repairs /\ run'.ready = run.ready
        /\ DOMAIN run'.finals = DOMAIN run.finals
        /\ \A i \in DOMAIN run.finals : run'.finals[i] = IF i = loop.at THEN v ELSE run.finals[i]
    <3>1. "failed" \in RunStates
      BY DEF RunStates, TerminalRun
    <3> QED
      BY <1>0, <2>1, <2>2, <2>3, <3>1, FinalWritten
  <2>5. RunningFinals' = {}
    <3>1. RunningFinals = {}
      BY <2>1, OneRunning
    <3> QED
      BY <2>2, <2>4, <3>1 DEF RunningFinals
  <2>6. FinalsSound(run')
    BY <1>3, <2>2, <2>4, <2>5, FinalsSoundly
  <2>7. run'.ready = <<>>
    BY <1>3, <2>1, <2>4
  <2>8. FinalsHold'
    BY <1>1, <2>1, <2>4, <2>6, <2>7 DEF FinalsHold, ReadySound
  <2> QED
    BY <1>0, <1>1, <1>2, <2>1, <2>4, <2>8, FinalsWrites
<1>6. ReserveFinalAttempt => Inv'
  <2> SUFFICES ASSUME ReserveFinalAttempt PROVE Inv'
    OBVIOUS
  <2>1. CASE run.state # "reviewed"
    <3>1. Move /\ UNCHANGED <<run, branch, pass, cancel, count>> /\ loop' \in LoopRecord
      BY <1>1, <2>1 DEF ReserveFinalAttempt, Move
    <3> QED
      BY <1>0, <3>1, MoveStep
  <2>2. CASE run.state = "reviewed"
    <3> DEFINE v == [state |-> "running", commit |-> run.head, evidence |-> FALSE]
               k == Len(run.finals) + 1
    <3>1. /\ loop.pc = "reserve" /\ UNCHANGED <<branch, pass, cancel, count>>
          /\ run' = [run EXCEPT !.state = "validating", !.finals = Append(@, v)]
          /\ loop' = [loop EXCEPT !.pc = "check", !.at = k]
      BY <2>2 DEF ReserveFinalAttempt
    <3>2. /\ run.finals \in Seq(Final) /\ run.head \in Heads /\ DOMAIN run.finals = 1..Len(run.finals)
          /\ Len(run.finals) \in Nat
      BY <1>0, RunFields
    <3>3. v \in Final /\ v.state = "running"
      BY <3>2 DEF Final, AttemptStates, ActiveStates
    <3> HIDE DEF v
    <3>4. /\ Append(run.finals, v) \in Seq(Final) /\ DOMAIN Append(run.finals, v) = 1..k
          /\ \A i \in DOMAIN run.finals : Append(run.finals, v)[i] = run.finals[i]
          /\ Append(run.finals, v)[k] = v
      BY <3>2, <3>3, Added
    <3>5. /\ run' \in RunRecord
          /\ run'.state = "validating" /\ run'.head = run.head /\ run'.rounds = run.rounds
          /\ run'.reviews = run.reviews /\ run'.repairs = run.repairs /\ run'.ready = run.ready
          /\ run'.finals = Append(run.finals, v)
      BY <1>0, <3>1, <3>4 DEF RunRecord, RunStates
    <3>6. /\ DOMAIN run'.finals = DOMAIN run.finals \cup {k} /\ k \notin DOMAIN run.finals /\ k \in Nat
          /\ \A i \in DOMAIN run.finals : run'.finals[i] = run.finals[i]
          /\ run'.finals[k] = v
      BY <3>2, <3>4, <3>5
    <3>7. /\ loop' \in LoopRecord /\ loop'.pc = "check" /\ loop'.at = k
      BY <1>0, <3>1, <3>6 DEF LoopRecord, LoopPc
    <3> HIDE DEF k
    <3>8. RunningFinals' = {k}
      <4>1. RunningFinals = {}
        BY <2>2, OneRunning
      <4> QED
        BY <3>3, <3>6, <4>1 DEF RunningFinals
    <3>9. FinalsSound(run')
      BY <1>3, <3>3, <3>5, <3>6, <3>8, FinalsSoundly
    <3>10. run'.ready = <<>>
      BY <1>3, <2>2, <3>5
    <3>11. FinalsHold'
      BY <3>5, <3>6, <3>7, <3>8, <3>9, <3>10 DEF FinalsHold, ReadySound
    <3>12. PastReview
      BY <2>2 DEF PastReview
    <3> QED
      BY <1>0, <3>1, <3>5, <3>7, <3>11, <3>12, FinalsWrites
  <2> QED
    BY <2>1, <2>2
<1>7. RecordFinalEvidence => Inv'
  <2> SUFFICES ASSUME RecordFinalEvidence PROVE Inv'
    OBVIOUS
  <2> DEFINE f == run.finals[loop.at]
             v == [f EXCEPT !.evidence = TRUE]
  <2>1. /\ loop.pc = "checked" /\ UNCHANGED <<branch, pass, cancel, count>>
        /\ loop' = [loop EXCEPT !.pc = "finish"] /\ loop.at \in DOMAIN run.finals
        /\ \/ run.state = "validating" /\ loop.at \in RunningFinals
           \/ run.state = "cancelled" /\ run.finals[loop.at].state # "interrupted"
    BY DEF RecordFinalEvidence, Inv, FinalsHold
  <2>2. loop' \in LoopRecord /\ loop'.pc = "finish" /\ loop'.at = loop.at
    BY <1>1, <2>1
  <2>3. CASE f.state # "running"
    <3>1. run.state = "cancelled" /\ run' = run
      BY <2>1, <2>3 DEF RecordFinalEvidence, RunningFinals
    <3>2. ~Unsettled(loop.at)
      BY <2>1, <2>3, <3>1 DEF Unsettled
    <3>3. Move /\ UNCHANGED <<run, branch, pass, cancel, count>>
      BY <2>1, <2>2, <3>1, <3>2 DEF Move
    <3> QED
      BY <1>0, <2>2, <3>3, MoveStep
  <2>4. CASE f.state = "running"
    <3>1. run.state = "validating" /\ RunningFinals = {loop.at}
      BY <2>1, <2>4, OneRunning DEF RunningFinals
    <3>2. v \in Final /\ v.state = "running" /\ v.evidence
      BY <1>0, <2>1, <2>4, FinalValues
    <3>3. run' = WithFinal("validating", loop.at, v)
      BY <1>0, <2>4, <3>1 DEF RecordFinalEvidence, RunRecord, WithFinal
    <3> HIDE DEF v, f
    <3>4. /\ run' \in RunRecord
          /\ run'.state = "validating" /\ run'.head = run.head /\ run'.rounds = run.rounds
          /\ run'.reviews = run.reviews /\ run'.repairs = run.repairs /\ run'.ready = run.ready
          /\ DOMAIN run'.finals = DOMAIN run.finals
          /\ \A i \in DOMAIN run.finals : run'.finals[i] = IF i = loop.at THEN v ELSE run.finals[i]
      <4>1. "validating" \in RunStates
        BY DEF RunStates
      <4> QED
        BY <1>0, <2>1, <3>2, <3>3, <4>1, FinalWritten
    <3>5. RunningFinals' = {loop.at}
      BY <2>1, <3>1, <3>2, <3>4 DEF RunningFinals
    <3>6. FinalsSound(run')
      BY <1>3, <3>2, <3>4, <3>5, FinalsSoundly
    <3>7. run'.ready = <<>>
      BY <1>3, <3>1, <3>4
    <3>8. FinalsHold'
      BY <2>1, <2>2, <3>2, <3>4, <3>5, <3>6, <3>7 DEF FinalsHold, ReadySound, Unsettled
    <3> QED
      BY <1>0, <1>2, <2>1, <2>2, <3>4, <3>8, FinalsWrites
  <2> QED
    BY <2>3, <2>4
<1>8. CompleteFinalValidation => Inv'
  <2> SUFFICES ASSUME CompleteFinalValidation PROVE Inv'
    OBVIOUS
  <2> DEFINE f == run.finals[loop.at]
             v == [f EXCEPT !.state = "succeeded"]
             w == [head |-> run.head, reviews |-> FinalRound(run), risks |-> Risks(run)]
             s == WithFinal("completed", loop.at, v)
  <2>1. /\ loop.pc = "finish" /\ UNCHANGED <<branch, pass, cancel, count>> /\ loop' = Idle
        /\ loop.at \in DOMAIN run.finals
        /\ \/ run.state = "validating" /\ loop.at \in RunningFinals
           \/ run.state = "reviewed" /\ f.state = "interrupted"
           \/ run.state = "cancelled"
        /\ Unsettled(loop.at) => f.evidence
    BY DEF CompleteFinalValidation, Inv, FinalsHold
  <2>2. CASE ~(Finishable /\ branch = run.head)
    <3>1. Move /\ UNCHANGED <<run, branch, pass, cancel, count>> /\ loop' \in LoopRecord
      BY <1>1, <2>1, <2>2 DEF CompleteFinalValidation, Move
    <3> QED
      BY <1>0, <3>1, MoveStep
  <2>3. CASE Finishable /\ branch = run.head
    <3>1. run.state \in {"reviewed", "validating"} /\ Unsettled(loop.at) /\ f.commit = run.head
          /\ f.evidence
      BY <2>1, <2>3 DEF Finishable
    <3>2. v \in Final /\ v.state = "succeeded" /\ v.evidence /\ v.commit = run.head
      BY <1>0, <2>1, <3>1, FinalValues
    <3>3. run' = [s EXCEPT !.ready = <<w>>]
      BY <1>0, <2>3 DEF CompleteFinalValidation, RunRecord, WithFinal
    <3> HIDE DEF v, f
    <3>4. /\ s \in RunRecord
          /\ s.state = "completed" /\ s.head = run.head /\ s.rounds = run.rounds
          /\ s.reviews = run.reviews /\ s.repairs = run.repairs
          /\ DOMAIN s.finals = DOMAIN run.finals
          /\ \A i \in DOMAIN run.finals : s.finals[i] = IF i = loop.at THEN v ELSE run.finals[i]
      <4>1. "completed" \in RunStates
        BY DEF RunStates, TerminalRun
      <4> QED
        BY <1>0, <2>1, <3>2, <4>1, FinalWritten
    <3> HIDE DEF s
    <3>5. w \in Ready /\ w.head = run.head /\ w.reviews = FinalRound(run) /\ w.risks = Risks(run)
      <4>1. run.head \in Heads /\ DOMAIN run.reviews \subseteq Nat
        BY <1>0, RunFields
      <4>2. FinalRound(run) \subseteq Nat /\ Risks(run) \subseteq Nat
        BY <4>1 DEF FinalRound, Reported, InRound, Risks
      <4> QED
        BY <4>1, <4>2 DEF Ready
    <3> HIDE DEF w
    <3>6. /\ run' \in RunRecord
          /\ run'.state = "completed" /\ run'.head = run.head /\ run'.rounds = run.rounds
          /\ run'.reviews = run.reviews /\ run'.repairs = run.repairs
          /\ DOMAIN run'.finals = DOMAIN run.finals
          /\ \A i \in DOMAIN run.finals : run'.finals[i] = IF i = loop.at THEN v ELSE run.finals[i]
          /\ run'.ready = <<w>>
      <4>1. <<w>> \in Seq(Ready)
        BY <3>5
      <4> QED
        BY <3>3, <3>4, <4>1 DEF RunRecord
    <3>7. RunningFinals' = {}
      <4>1. RunningFinals \subseteq {loop.at}
        BY <2>1, OneRunning
      <4> QED
        BY <3>2, <3>6, <4>1 DEF RunningFinals
    <3>8. FinalsSound(run')
      BY <1>3, <3>2, <3>6, <3>7, FinalsSoundly
    <3>9. ReadySound(run')
      <4>1. FinalRound(run') = FinalRound(run) /\ Risks(run') = Risks(run)
        BY <3>6 DEF FinalRound, Reported, InRound, Risks
      <4>2. DOMAIN run'.ready = {1} /\ run'.ready[1] = w /\ run'.ready # <<>>
        BY <3>6
      <4>3. \E i \in DOMAIN run'.finals : run'.finals[i].state = "succeeded" /\ run'.finals[i].commit = run'.head
        BY <2>1, <3>2, <3>6
      <4> QED
        BY <3>5, <3>6, <4>1, <4>2, <4>3 DEF ReadySound
    <3>10. FinalsHold'
      BY <1>1, <2>1, <3>6, <3>8, <3>9 DEF FinalsHold
    <3> QED
      BY <1>0, <1>1, <1>2, <2>1, <3>6, <3>10, FinalsWrites
  <2> QED
    BY <2>2, <2>3
<1>9. RecordFinalFailure => Inv'
  <2> SUFFICES ASSUME RecordFinalFailure PROVE Inv'
    OBVIOUS
  <2> DEFINE f == run.finals[loop.at]
             state == IF run.state = "cancelled" THEN "cancelled" ELSE "failed"
             new == IF f.state = "running" THEN "failed" ELSE f.state
             v == [f EXCEPT !.state = new]
  <2>1. /\ loop.pc = "unfinal" /\ UNCHANGED <<branch, pass, cancel, count>> /\ loop' = Idle
        /\ loop.at \in DOMAIN run.finals
        /\ \/ run.state = "validating" /\ loop.at \in RunningFinals
           \/ run.state = "cancelled" /\ run.finals[loop.at].state # "interrupted"
    BY DEF RecordFinalFailure, Inv, FinalsHold
  <2>2. v \in Final /\ v.state = new /\ v.evidence = f.evidence
    <3>1. new \in {"failed", "succeeded", f.state}
      OBVIOUS
    <3> QED
      BY <1>0, <2>1, <3>1, FinalValues
  <2>3. run' = WithFinal(state, loop.at, v)
    BY <1>0 DEF RecordFinalFailure, RunRecord, WithFinal
  <2>4. new # "running" /\ (new = "succeeded" => f.state = "succeeded")
    OBVIOUS
  <2>5. state \in {"cancelled", "failed"} /\ state \in RunStates
    BY DEF RunStates, TerminalRun
  <2> HIDE DEF v, new, state
  <2>6. /\ run' \in RunRecord
        /\ run'.state = state /\ run'.head = run.head /\ run'.rounds = run.rounds
        /\ run'.reviews = run.reviews /\ run'.repairs = run.repairs /\ run'.ready = run.ready
        /\ DOMAIN run'.finals = DOMAIN run.finals
        /\ \A i \in DOMAIN run.finals : run'.finals[i] = IF i = loop.at THEN v ELSE run.finals[i]
    BY <1>0, <2>1, <2>2, <2>3, <2>5, FinalWritten
  <2>7. RunningFinals' = {}
    <3>1. RunningFinals \subseteq {loop.at}
      BY <2>1, OneRunning
    <3> QED
      BY <2>2, <2>4, <2>6, <3>1 DEF RunningFinals
  <2>8. FinalsSound(run')
    <3>1. \A i \in DOMAIN run'.finals : run'.finals[i].state = "succeeded" => run'.finals[i].evidence
      BY <1>3, <2>1, <2>2, <2>4, <2>6
    <3> QED
      BY <2>5, <2>6, <2>7, <3>1, FinalsSoundly
  <2>9. run'.ready = <<>>
    BY <1>3, <2>1, <2>6
  <2>10. FinalsHold'
    BY <1>1, <2>1, <2>5, <2>6, <2>8, <2>9 DEF FinalsHold, ReadySound
  <2> QED
    BY <1>0, <1>1, <1>2, <2>1, <2>5, <2>6, <2>10, FinalsWrites
<1> QED
  BY <1>4, <1>5, <1>6, <1>7, <1>8, <1>9

-----------------------------------------------------------------------------
(* A cancellation, a recovery and a retry.                                 *)

\* Every active attempt ended in one write.
LEMMA Ended ==
  ASSUME run \in RunRecord, NEW end \in {"cancelled", "interrupted"},
         NEW r, r = IF end = "cancelled" THEN CancelAttempts(run.reviews) ELSE Interrupt(run.reviews),
         NEW s, s = IF end = "cancelled" THEN CancelAttempts(run.repairs) ELSE Interrupt(run.repairs),
         NEW f, f = IF end = "cancelled" THEN CancelAttempts(run.finals) ELSE Interrupt(run.finals)
  PROVE  /\ r \in Seq(Review) /\ DOMAIN r = DOMAIN run.reviews
         /\ \A i \in DOMAIN run.reviews :
              /\ r[i].round = run.reviews[i].round /\ r[i].category = run.reviews[i].category
              /\ r[i].status = run.reviews[i].status /\ r[i].by = run.reviews[i].by
              /\ r[i].state = IF run.reviews[i].state \in ActiveStates THEN end ELSE run.reviews[i].state
         /\ s \in Seq(Repair) /\ DOMAIN s = DOMAIN run.repairs
         /\ \A i \in DOMAIN run.repairs :
              /\ s[i].round = run.repairs[i].round /\ s[i].findings = run.repairs[i].findings
              /\ s[i].base = run.repairs[i].base /\ s[i].integrated = run.repairs[i].integrated
              /\ s[i].commit = run.repairs[i].commit /\ s[i].evidence = run.repairs[i].evidence
              /\ s[i].state = IF run.repairs[i].state \in ActiveStates THEN end ELSE run.repairs[i].state
         /\ f \in Seq(Final) /\ DOMAIN f = DOMAIN run.finals
         /\ \A i \in DOMAIN run.finals :
              /\ f[i].commit = run.finals[i].commit /\ f[i].evidence = run.finals[i].evidence
              /\ f[i].state = IF run.finals[i].state \in ActiveStates THEN end ELSE run.finals[i].state
<1> DEFINE to(a) == IF a.state \in ActiveStates THEN [a EXCEPT !.state = end] ELSE a
<1>1. /\ run.reviews \in Seq(Review) /\ DOMAIN run.reviews = 1..Len(run.reviews) /\ Len(run.reviews) \in Nat
      /\ run.repairs \in Seq(Repair) /\ DOMAIN run.repairs = 1..Len(run.repairs) /\ Len(run.repairs) \in Nat
      /\ run.finals \in Seq(Final) /\ DOMAIN run.finals = 1..Len(run.finals) /\ Len(run.finals) \in Nat
      /\ \A i \in DOMAIN run.reviews : run.reviews[i] \in Review
      /\ \A i \in DOMAIN run.repairs : run.repairs[i] \in Repair
      /\ \A i \in DOMAIN run.finals : run.finals[i] \in Final
  BY RunFields
<1>2. /\ r = [i \in DOMAIN run.reviews |-> to(run.reviews[i])]
      /\ s = [i \in DOMAIN run.repairs |-> to(run.repairs[i])]
      /\ f = [i \in DOMAIN run.finals |-> to(run.finals[i])]
  <2>1. CASE end = "cancelled"
    BY <2>1 DEF CancelAttempts
  <2>2. CASE end = "interrupted"
    BY <2>2 DEF Interrupt
  <2> QED
    BY <2>1, <2>2
<1>3. \A a \in Review :
        /\ to(a) \in Review /\ to(a).round = a.round /\ to(a).category = a.category
        /\ to(a).status = a.status /\ to(a).by = a.by
        /\ to(a).state = IF a.state \in ActiveStates THEN end ELSE a.state
  BY DEF Review, AttemptStates
<1>4. \A a \in Repair :
        /\ to(a) \in Repair /\ to(a).round = a.round /\ to(a).findings = a.findings
        /\ to(a).base = a.base /\ to(a).integrated = a.integrated
        /\ to(a).commit = a.commit /\ to(a).evidence = a.evidence
        /\ to(a).state = IF a.state \in ActiveStates THEN end ELSE a.state
  BY DEF Repair, AttemptStates
<1>5. \A a \in Final :
        /\ to(a) \in Final /\ to(a).commit = a.commit /\ to(a).evidence = a.evidence
        /\ to(a).state = IF a.state \in ActiveStates THEN end ELSE a.state
  BY DEF Final, AttemptStates, ActiveStates
<1> HIDE DEF to
<1>6. r \in Seq(Review) /\ s \in Seq(Repair) /\ f \in Seq(Final)
  <2>1. r \in Seq(Review)
    <3>1. /\ DOMAIN run.reviews = 1..Len(run.reviews) /\ Len(run.reviews) \in Nat
          /\ \A i \in DOMAIN run.reviews : to(run.reviews[i]) \in Review
          /\ r = [i \in DOMAIN run.reviews |-> to(run.reviews[i])]
      BY <1>1, <1>2, <1>3
    <3> QED
      BY ONLY <3>1, IsASeq
  <2>2. s \in Seq(Repair)
    <3>1. /\ DOMAIN run.repairs = 1..Len(run.repairs) /\ Len(run.repairs) \in Nat
          /\ \A i \in DOMAIN run.repairs : to(run.repairs[i]) \in Repair
          /\ s = [i \in DOMAIN run.repairs |-> to(run.repairs[i])]
      BY <1>1, <1>2, <1>4
    <3> QED
      BY ONLY <3>1, IsASeq
  <2>3. f \in Seq(Final)
    <3>1. /\ DOMAIN run.finals = 1..Len(run.finals) /\ Len(run.finals) \in Nat
          /\ \A i \in DOMAIN run.finals : to(run.finals[i]) \in Final
          /\ f = [i \in DOMAIN run.finals |-> to(run.finals[i])]
      BY <1>1, <1>2, <1>5
    <3> QED
      BY ONLY <3>1, IsASeq
  <2> QED
    BY <2>1, <2>2, <2>3
<1>7. /\ DOMAIN r = DOMAIN run.reviews /\ \A i \in DOMAIN run.reviews : r[i] = to(run.reviews[i])
      /\ DOMAIN s = DOMAIN run.repairs /\ \A i \in DOMAIN run.repairs : s[i] = to(run.repairs[i])
      /\ DOMAIN f = DOMAIN run.finals /\ \A i \in DOMAIN run.finals : f[i] = to(run.finals[i])
  BY <1>2
<1>8. \A i \in DOMAIN run.reviews :
        /\ r[i].round = run.reviews[i].round /\ r[i].category = run.reviews[i].category
        /\ r[i].status = run.reviews[i].status /\ r[i].by = run.reviews[i].by
        /\ r[i].state = IF run.reviews[i].state \in ActiveStates THEN end ELSE run.reviews[i].state
  BY <1>1, <1>3, <1>7
<1>9. \A i \in DOMAIN run.repairs :
        /\ s[i].round = run.repairs[i].round /\ s[i].findings = run.repairs[i].findings
        /\ s[i].base = run.repairs[i].base /\ s[i].integrated = run.repairs[i].integrated
        /\ s[i].commit = run.repairs[i].commit /\ s[i].evidence = run.repairs[i].evidence
        /\ s[i].state = IF run.repairs[i].state \in ActiveStates THEN end ELSE run.repairs[i].state
  BY <1>1, <1>4, <1>7
<1>10. \A i \in DOMAIN run.finals :
        /\ f[i].commit = run.finals[i].commit /\ f[i].evidence = run.finals[i].evidence
        /\ f[i].state = IF run.finals[i].state \in ActiveStates THEN end ELSE run.finals[i].state
  BY <1>1, <1>5, <1>7
<1> QED
  BY <1>6, <1>7, <1>8, <1>9, <1>10

LEMMA RoundsCancelled ==
  ASSUME run \in RunRecord
  PROVE  LET t == CancelRounds(run.rounds)
         IN /\ t \in Seq(Round) /\ DOMAIN t = DOMAIN run.rounds
            /\ \A n \in DOMAIN run.rounds :
                 /\ t[n].base = run.rounds[n].base /\ t[n].repair = run.rounds[n].repair
                 /\ t[n].state \in {run.rounds[n].state, "cancelled"}
                 /\ run.rounds[n].state = "succeeded" => t[n].state = "succeeded"
<1> DEFINE to(a) == IF a.state \in {"running", "repairing"} THEN [a EXCEPT !.state = "cancelled"] ELSE a
           t == CancelRounds(run.rounds)
<1>1. /\ run.rounds \in Seq(Round) /\ DOMAIN run.rounds = 1..Current /\ Current \in Nat
      /\ \A n \in DOMAIN run.rounds : run.rounds[n] \in Round
  BY RunFields
<1>2. t = [n \in DOMAIN run.rounds |-> to(run.rounds[n])]
  BY DEF CancelRounds
<1>3. \A a \in Round :
        /\ to(a) \in Round /\ to(a).base = a.base /\ to(a).repair = a.repair
        /\ to(a).state \in {a.state, "cancelled"}
        /\ a.state = "succeeded" => to(a).state = "succeeded"
  BY DEF Round
<1> HIDE DEF to, t
<1>4. t \in Seq(Round)
  BY <1>1, <1>2, <1>3, IsASeq
<1>5. DOMAIN t = DOMAIN run.rounds /\ \A n \in DOMAIN run.rounds : t[n] = to(run.rounds[n])
  BY <1>2
<1>6. \A n \in DOMAIN run.rounds :
        /\ t[n].base = run.rounds[n].base /\ t[n].repair = run.rounds[n].repair
        /\ t[n].state \in {run.rounds[n].state, "cancelled"}
        /\ run.rounds[n].state = "succeeded" => t[n].state = "succeeded"
  BY <1>1, <1>3, <1>5
<1> QED
  BY <1>4, <1>5, <1>6 DEF t

LEMMA SameWork ==
  ASSUME Inv, UNCHANGED <<run, branch, loop, pass, count>>, cancel' \in Nat
  PROVE  Inv'
<1>1. TypeOK'
  BY DEF Inv, TypeOK
<1>2. ReviewsHold'
  BY DEF Inv, ReviewsHold, Launched, ReportedNow, Current, Passing
<1>3. RepairsHold'
  BY DEF Inv, RepairsHold, Working, Mine, Current, Required
<1>4. FinalsHold' /\ BranchHolds'
  BY DEF Inv, FinalsHold, BranchHolds, Unsettled, RunningFinals
<1> QED
  BY <1>1, <1>2, <1>3, <1>4, SameRun DEF Inv

\* A cancellation ends what is active, and leaves the loop to find that out.
LEMMA CancelStep ==
  ASSUME Inv, run.state \notin TerminalRun, run' = Cancelled, cancel' \in Nat,
         UNCHANGED <<branch, loop, pass, count>>
  PROVE  Inv'
<1> DEFINE r == CancelAttempts(run.reviews)
           s == CancelAttempts(run.repairs)
           f == CancelAttempts(run.finals)
           t == CancelRounds(run.rounds)
<1>0. run \in RunRecord
  BY TypeParts DEF Inv
<1>1. /\ run'.state = "cancelled" /\ run'.head = run.head /\ run'.rounds = t
      /\ run'.reviews = r /\ run'.repairs = s /\ run'.finals = f /\ run'.ready = run.ready
  BY <1>0 DEF Cancelled, RunRecord
<1>2. /\ r \in Seq(Review) /\ DOMAIN r = DOMAIN run.reviews
      /\ \A i \in DOMAIN run.reviews :
           /\ r[i].round = run.reviews[i].round /\ r[i].category = run.reviews[i].category
           /\ r[i].status = run.reviews[i].status /\ r[i].by = run.reviews[i].by
           /\ r[i].state = IF run.reviews[i].state \in ActiveStates THEN "cancelled" ELSE run.reviews[i].state
      /\ s \in Seq(Repair) /\ DOMAIN s = DOMAIN run.repairs
      /\ \A i \in DOMAIN run.repairs :
           /\ s[i].round = run.repairs[i].round /\ s[i].findings = run.repairs[i].findings
           /\ s[i].base = run.repairs[i].base /\ s[i].integrated = run.repairs[i].integrated
           /\ s[i].commit = run.repairs[i].commit /\ s[i].evidence = run.repairs[i].evidence
           /\ s[i].state = IF run.repairs[i].state \in ActiveStates THEN "cancelled" ELSE run.repairs[i].state
      /\ f \in Seq(Final) /\ DOMAIN f = DOMAIN run.finals
      /\ \A i \in DOMAIN run.finals :
           /\ f[i].commit = run.finals[i].commit /\ f[i].evidence = run.finals[i].evidence
           /\ f[i].state = IF run.finals[i].state \in ActiveStates THEN "cancelled" ELSE run.finals[i].state
  BY <1>0, Ended
<1>3. /\ t \in Seq(Round) /\ DOMAIN t = DOMAIN run.rounds
      /\ \A n \in DOMAIN run.rounds :
           /\ t[n].base = run.rounds[n].base /\ t[n].repair = run.rounds[n].repair
           /\ t[n].state \in {run.rounds[n].state, "cancelled"}
           /\ run.rounds[n].state = "succeeded" => t[n].state = "succeeded"
  BY <1>0, RoundsCancelled
<1> HIDE DEF r, s, f, t
<1>4. run' \in RunRecord
  <2>1. run' = [run EXCEPT !.state = "cancelled", !.rounds = t, !.reviews = r, !.repairs = s, !.finals = f]
    BY <1>0 DEF Cancelled, RunRecord, r, s, f, t
  <2>2. r \in Seq(Review) /\ s \in Seq(Repair) /\ f \in Seq(Final) /\ t \in Seq(Round)
    BY <1>2, <1>3
  <2>3. "cancelled" \in RunStates
    BY DEF RunStates, TerminalRun
  <2> QED
    BY ONLY <1>0, <2>1, <2>2, <2>3 DEF RunRecord
<1>5. TypeOK'
  BY <1>4 DEF Inv, TypeOK, RunRecord
<1>6. /\ RoundsSound(run') /\ RepairsSound(run')
      /\ Current' = Current /\ Required' = Required /\ Open' = Open
      /\ Reported(run', Current) = Reported(run, Current)
      /\ run'.rounds = <<>> <=> run.rounds = <<>>
      /\ run.reviews = <<>> => run'.reviews = <<>>
      /\ \A n \in DOMAIN run'.rounds :
           /\ run'.rounds[n].repair # 0 => run'.rounds[n].repair \in DOMAIN run'.repairs
           /\ run'.rounds[n].state = "repairing" => CategoriesOf(run', Reported(run', n)) = Categories
  <2>0. "succeeded" \notin ActiveStates
    BY DEF ActiveStates
  <2>1. \A i \in DOMAIN run.reviews :
          /\ run'.reviews[i].round = run.reviews[i].round
          /\ run'.reviews[i].category = run.reviews[i].category
          /\ run'.reviews[i].status = run.reviews[i].status
          /\ run'.reviews[i].by = run.reviews[i].by
          /\ run'.reviews[i].state = "succeeded" <=> run.reviews[i].state = "succeeded"
    BY ONLY <1>1, <1>2, <2>0
  <2>2. \A i \in DOMAIN run.repairs : run.repairs[i].commit => run.repairs[i].evidence
    BY DEF Inv, RepairsHold, RepairsSound
  <2>3. \A i \in DOMAIN run.repairs :
          /\ run'.repairs[i].round = run.repairs[i].round
          /\ run'.repairs[i].findings = run.repairs[i].findings
          /\ run'.repairs[i].base = run.repairs[i].base
          /\ run'.repairs[i].integrated = run.repairs[i].integrated
          /\ run'.repairs[i].state = "succeeded" <=> run.repairs[i].state = "succeeded"
          /\ run'.repairs[i].commit => run'.repairs[i].evidence
          /\ run.repairs[i].commit => run'.repairs[i].commit
    BY ONLY <1>1, <1>2, <2>0, <2>2
  <2>4. \A n \in DOMAIN run.rounds :
          /\ run'.rounds[n].base = run.rounds[n].base /\ run'.rounds[n].repair = run.rounds[n].repair
          /\ run'.rounds[n].state \in {run.rounds[n].state, "failed", "cancelled"}
    BY ONLY <1>1, <1>3
  <2>5. /\ DOMAIN run'.reviews = DOMAIN run.reviews /\ DOMAIN run'.repairs = DOMAIN run.repairs
        /\ DOMAIN run'.rounds = DOMAIN run.rounds /\ run'.head = run.head
    BY ONLY <1>1, <1>2, <1>3
  <2> QED
    BY ONLY Inv, <1>4, <2>1, <2>3, <2>4, <2>5, Rewrite
<1>7. /\ ActiveIn(run'.reviews) = {} /\ ActiveIn(run'.repairs) = {} /\ RunningFinals' = {}
  <2>1. "cancelled" \notin ActiveStates /\ "running" \in ActiveStates
    BY DEF ActiveStates
  <2>2. \A i \in DOMAIN run'.reviews : run'.reviews[i].state \notin ActiveStates
    BY ONLY <1>1, <1>2, <2>1
  <2>3. \A i \in DOMAIN run'.repairs : run'.repairs[i].state \notin ActiveStates
    BY ONLY <1>1, <1>2, <2>1
  <2>4. \A i \in DOMAIN run'.finals : run'.finals[i].state # "running"
    BY ONLY <1>1, <1>2, <2>1
  <2> QED
    BY ONLY <2>2, <2>3, <2>4 DEF ActiveIn, RunningFinals
<1>8. ReviewsHold'
  <2>1. ReportedNow' = ReportedNow
    <3>1. ReportedNow' = CategoriesOf(run', Reported(run', Current))
      BY <1>6 DEF ReportedNow
    <3>2. \A i \in Reported(run, Current) : run'.reviews[i].category = run.reviews[i].category
      BY <1>1, <1>2 DEF Reported, InRound
    <3> QED
      BY ONLY <1>6, <3>1, <3>2 DEF ReportedNow, CategoriesOf
  <2>2. InRound(run', Current) = InRound(run, Current)
    BY ONLY <1>1, <1>2 DEF InRound
  <2>3. ASSUME NEW c \in Categories, pass[c].pc \in LivePass
        PROVE  Passing(c)'
    <3> DEFINE at == pass[c].at
    <3>1. /\ at \in InRound(run, Current) /\ run.reviews[at].category = c
          /\ \A i \in InRound(run, Current) :
               run.reviews[i].category = c => i <= at /\ (i # at => run.reviews[i].state # "succeeded")
      BY <2>3 DEF Inv, ReviewsHold, Passing
    <3>2. \A i \in InRound(run, Current) :
            /\ run'.reviews[i].category = run.reviews[i].category
            /\ run'.reviews[i].state = "succeeded" => run.reviews[i].state = "succeeded"
      BY <1>1, <1>2 DEF InRound
    <3> QED
      BY <1>1, <1>6, <2>2, <3>1, <3>2 DEF Passing
  <2> QED
    BY <1>1, <1>7, <2>1, <2>3 DEF Inv, ReviewsHold, Launched
<1>9. RoundsHold'
  <2>1. run.rounds # <<>> => run'.rounds[Current].base = run.head
    <3>1. run.rounds # <<>> => Current \in DOMAIN run.rounds
      BY <1>0, RunFields DEF Current
    <3> QED
      BY <1>1, <1>3, <3>1 DEF Inv, RoundsHold
  <2> QED
    BY <1>1, <1>6, <2>1 DEF Inv, RoundsHold
<1>10. run'.finals = <<>> <=> run.finals = <<>>
  <2>1. DOMAIN run'.finals = DOMAIN run.finals /\ run'.finals \in Seq(Final) /\ run.finals \in Seq(Final)
    BY <1>0, <1>1, <1>2, RunFields
  <2> QED
    BY ONLY <2>1
<1>11. RepairsHold'
  <2>1. \A i \in DOMAIN run'.repairs :
          /\ run'.repairs[i].integrated <=> run'.repairs[i].state = "succeeded"
          /\ run'.repairs[i].commit => run'.repairs[i].state \notin {"prepared", "running", "interrupted"}
    <3>1. \A i \in DOMAIN run.repairs :
            /\ run.repairs[i].integrated <=> run.repairs[i].state = "succeeded"
            /\ run.repairs[i].commit => run.repairs[i].state \notin {"prepared", "running", "interrupted"}
      BY DEF Inv, RepairsHold
    <3>2. "succeeded" \notin ActiveStates
      BY DEF ActiveStates
    <3> QED
      BY ONLY <1>1, <1>2, <3>1, <3>2
  <2>2. ASSUME Working PROVE Working' /\ Mine'.evidence = Mine.evidence /\ Mine'.commit = Mine.commit
    <3>1. loop.at \in DOMAIN run.repairs /\ Mine.state \in ActiveStates /\ run.finals = <<>>
      BY <2>2 DEF Working, ActiveStates, TerminalRun
    <3>2. /\ Mine'.base = Mine.base /\ Mine'.integrated = Mine.integrated /\ Mine'.state = "cancelled"
          /\ Mine'.evidence = Mine.evidence /\ Mine'.commit = Mine.commit
      BY <1>1, <1>2, <3>1 DEF Mine
    <3>3. run'.finals = <<>>
      BY <1>10, <3>1
    <3> QED
      BY <1>1, <1>2, <2>2, <3>1, <3>2, <3>3 DEF Working
  <2>3. /\ loop.pc \in RepairPc \/ (loop.pc \in {"recover", "recovered"} /\ loop.at # 0) => Working'
        /\ loop.pc \in {"commit", "integrate", "complete"} => Mine'.evidence
        /\ loop.pc \in {"integrate", "complete", "recovered"} \/ (loop.pc = "recover" /\ loop.at # 0) =>
             Mine'.evidence /\ Mine'.commit
        /\ loop.pc = "recovered" => loop.at # 0
    BY <2>2 DEF Inv, RepairsHold, RepairPc
  <2> QED
    BY <1>6, <1>7, <2>1, <2>3 DEF RepairsHold
<1>12. FindingsHold'
  <2>1. PastReview' => PastReview
    BY <1>1, <1>10 DEF PastReview
  <2>2. PastReview => run'.rounds[Current].state = "succeeded"
    <3>1. run.rounds # <<>> => Current \in DOMAIN run.rounds
      BY <1>0, RunFields DEF Current
    <3> QED
      BY <1>1, <1>3, <3>1 DEF Inv, FindingsHold
  <2> QED
    BY <1>1, <1>6, <2>1, <2>2 DEF Inv, FindingsHold
<1>13. FinalsHold'
  <2>1. run'.ready = <<>>
    BY <1>1 DEF Inv, FinalsHold, TerminalRun
  <2>2. FinalsSound(run')
    <3>1. \A i \in DOMAIN run.finals : run.finals[i].state = "succeeded" => run.finals[i].evidence
      BY DEF Inv, FinalsHold, FinalsSound
    <3>2. \A i \in DOMAIN run'.finals : run'.finals[i].state = "succeeded" => run'.finals[i].evidence
      BY ONLY <1>1, <1>2, <3>1
    <3> QED
      BY <1>1, <1>7, <3>2, FinalsSoundly
  <2>3. ASSUME loop.at \in DOMAIN run.finals
        PROVE  /\ Unsettled(loop.at)' => Unsettled(loop.at)
               /\ run'.finals[loop.at].state = "interrupted" <=> run.finals[loop.at].state = "interrupted"
               /\ run'.finals[loop.at].evidence = run.finals[loop.at].evidence
    BY <1>1, <1>2, <2>3 DEF Unsettled, ActiveStates
  <2>4. /\ loop.pc \in {"check", "checked", "unfinal"} => run'.finals[loop.at].state # "interrupted"
        /\ loop.pc = "stale" => run'.finals[loop.at].state = "interrupted"
        /\ loop.pc = "finish" /\ Unsettled(loop.at)' => run'.finals[loop.at].evidence
    BY <2>3 DEF Inv, FinalsHold, RunningFinals
  <2>5. loop.pc \in {"check", "checked", "unfinal", "finish", "stale"} => loop.at \in DOMAIN run'.finals
    BY <1>1, <1>2 DEF Inv, FinalsHold
  <2> QED
    BY <1>1, <2>1, <2>2, <2>4, <2>5 DEF FinalsHold, ReadySound
<1>14. BranchHolds'
  BY <1>1, <1>2 DEF Inv, BranchHolds
<1>15. WorkersBounded(run)'
  <2>1. WorkersBounded(run')
    BY <1>0, <1>7, FewerActive DEF Inv
  <2> QED
    BY <2>1
<1> QED
  BY <1>5, <1>8, <1>9, <1>11, <1>12, <1>13, <1>14, <1>15 DEF Inv

\* A recovery with no commit of a repair left to settle ends what was active.
LEMMA RecoverStep ==
  ASSUME Inv, Recover
  PROVE  Inv'
<1> DEFINE r == Interrupt(run.reviews)
           s == Interrupt(run.repairs)
           f == Interrupt(run.finals)
           state == IF run.state = "validating" THEN "reviewed" ELSE run.state
<1>0. run \in RunRecord /\ loop \in LoopRecord /\ run.state \in RunStates
  BY TypeParts, RunFields DEF Inv
<1>1. /\ loop.pc = "recover" /\ loop.at = 0 /\ run' = recoverInterruptedRun
      /\ loop' = Idle \/ loop' = [loop EXCEPT !.pc = "resume"]
      /\ UNCHANGED <<branch, pass, cancel, count>>
  BY DEF Recover, At, GoTo, Others
<1>2. /\ r \in Seq(Review) /\ DOMAIN r = DOMAIN run.reviews
      /\ \A i \in DOMAIN run.reviews :
           /\ r[i].round = run.reviews[i].round /\ r[i].category = run.reviews[i].category
           /\ r[i].status = run.reviews[i].status /\ r[i].by = run.reviews[i].by
           /\ r[i].state = IF run.reviews[i].state \in ActiveStates THEN "interrupted" ELSE run.reviews[i].state
      /\ s \in Seq(Repair) /\ DOMAIN s = DOMAIN run.repairs
      /\ \A i \in DOMAIN run.repairs :
           /\ s[i].round = run.repairs[i].round /\ s[i].findings = run.repairs[i].findings
           /\ s[i].base = run.repairs[i].base /\ s[i].integrated = run.repairs[i].integrated
           /\ s[i].commit = run.repairs[i].commit /\ s[i].evidence = run.repairs[i].evidence
           /\ s[i].state = IF run.repairs[i].state \in ActiveStates THEN "interrupted" ELSE run.repairs[i].state
      /\ f \in Seq(Final) /\ DOMAIN f = DOMAIN run.finals
      /\ \A i \in DOMAIN run.finals :
           /\ f[i].commit = run.finals[i].commit /\ f[i].evidence = run.finals[i].evidence
           /\ f[i].state = IF run.finals[i].state \in ActiveStates THEN "interrupted" ELSE run.finals[i].state
  <2>1. "interrupted" \in {"cancelled", "interrupted"} /\ "interrupted" # "cancelled"
    OBVIOUS
  <2> QED
    BY <1>0, <2>1, Ended
<1>3. run' = [run EXCEPT !.state = state, !.reviews = r, !.repairs = s, !.finals = f]
  BY <1>0, <1>1 DEF recoverInterruptedRun, RunRecord
<1>4. state \in RunStates /\ state # "validating" /\ (run.state # "validating" => state = run.state)
      /\ (run.state = "validating" => state = "reviewed")
  BY <1>0 DEF RunStates
<1> HIDE DEF r, s, f, state
<1>5. /\ run' \in RunRecord
      /\ run'.state = state /\ run'.head = run.head /\ run'.rounds = run.rounds
      /\ run'.reviews = r /\ run'.repairs = s /\ run'.finals = f /\ run'.ready = run.ready
  <2>1. r \in Seq(Review) /\ s \in Seq(Repair) /\ f \in Seq(Final)
    BY <1>2
  <2> QED
    BY ONLY <1>0, <1>3, <1>4, <2>1 DEF RunRecord
<1>6. loop' \in LoopRecord /\ loop'.pc \in {"idle", "resume"}
  BY <1>0, <1>1 DEF LoopRecord, LoopPc, Idle
<1>7. TypeOK'
  BY <1>1, <1>5, <1>6 DEF Inv, TypeOK, RunRecord, LoopRecord
<1>8. /\ RoundsSound(run') /\ RepairsSound(run')
      /\ Current' = Current /\ Required' = Required /\ Open' = Open
      /\ Risks(run') = Risks(run) /\ FinalRound(run') = FinalRound(run)
      /\ run.reviews = <<>> => run'.reviews = <<>>
      /\ \A n \in DOMAIN run'.rounds :
           /\ run'.rounds[n].repair # 0 => run'.rounds[n].repair \in DOMAIN run'.repairs
           /\ run'.rounds[n].state = "repairing" => CategoriesOf(run', Reported(run', n)) = Categories
  <2>0. "succeeded" \notin ActiveStates
    BY DEF ActiveStates
  <2>1. \A i \in DOMAIN run.reviews :
          /\ run'.reviews[i].round = run.reviews[i].round
          /\ run'.reviews[i].category = run.reviews[i].category
          /\ run'.reviews[i].status = run.reviews[i].status
          /\ run'.reviews[i].by = run.reviews[i].by
          /\ run'.reviews[i].state = "succeeded" <=> run.reviews[i].state = "succeeded"
    BY ONLY <1>5, <1>2, <2>0
  <2>2. \A i \in DOMAIN run.repairs : run.repairs[i].commit => run.repairs[i].evidence
    BY DEF Inv, RepairsHold, RepairsSound
  <2>3. \A i \in DOMAIN run.repairs :
          /\ run'.repairs[i].round = run.repairs[i].round
          /\ run'.repairs[i].findings = run.repairs[i].findings
          /\ run'.repairs[i].base = run.repairs[i].base
          /\ run'.repairs[i].integrated = run.repairs[i].integrated
          /\ run'.repairs[i].state = "succeeded" <=> run.repairs[i].state = "succeeded"
          /\ run'.repairs[i].commit => run'.repairs[i].evidence
          /\ run.repairs[i].commit => run'.repairs[i].commit
    BY ONLY <1>5, <1>2, <2>0, <2>2
  <2>4. \A n \in DOMAIN run.rounds :
          /\ run'.rounds[n].base = run.rounds[n].base /\ run'.rounds[n].repair = run.rounds[n].repair
          /\ run'.rounds[n].state \in {run.rounds[n].state, "failed", "cancelled"}
    BY ONLY <1>5
  <2>5. /\ DOMAIN run'.reviews = DOMAIN run.reviews /\ DOMAIN run'.repairs = DOMAIN run.repairs
        /\ DOMAIN run'.rounds = DOMAIN run.rounds /\ run'.head = run.head
    BY ONLY <1>5, <1>2
  <2> QED
    BY ONLY Inv, <1>5, <2>1, <2>3, <2>4, <2>5, Rewrite
<1>9. /\ ActiveIn(run'.reviews) = {} /\ ActiveIn(run'.repairs) = {} /\ RunningFinals' = {}
  <2>1. "interrupted" \notin ActiveStates /\ "running" \in ActiveStates
    BY DEF ActiveStates
  <2>2. \A i \in DOMAIN run'.reviews : run'.reviews[i].state \notin ActiveStates
    BY ONLY <1>5, <1>2, <2>1
  <2>3. \A i \in DOMAIN run'.repairs : run'.repairs[i].state \notin ActiveStates
    BY ONLY <1>5, <1>2, <2>1
  <2>4. \A i \in DOMAIN run'.finals : run'.finals[i].state # "running"
    BY ONLY <1>5, <1>2, <2>1
  <2> QED
    BY ONLY <2>2, <2>3, <2>4 DEF ActiveIn, RunningFinals
<1>10. run'.finals = <<>> <=> run.finals = <<>>
  <2>1. DOMAIN run'.finals = DOMAIN run.finals /\ run'.finals \in Seq(Final) /\ run.finals \in Seq(Final)
    BY <1>0, <1>2, <1>5, RunFields
  <2> QED
    BY ONLY <2>1
<1>11. ReviewsHold'
  <2>1. pass = NoPass /\ \A c \in Categories : NoPass[c].pc = "none"
    BY <1>1 DEF Inv, ReviewsHold, NoPass
  <2> QED
    BY <1>1, <1>6, <1>9, <2>1 DEF ReviewsHold, LivePass
<1>12. RoundsHold'
  BY <1>4, <1>5, <1>8 DEF Inv, RoundsHold
<1>13. RepairsHold'
  <2>1. \A i \in DOMAIN run'.repairs :
          /\ run'.repairs[i].integrated <=> run'.repairs[i].state = "succeeded"
          /\ run'.repairs[i].commit => run'.repairs[i].state \notin {"prepared", "running", "interrupted"}
    <3>1. \A i \in DOMAIN run.repairs :
            /\ run.repairs[i].integrated <=> run.repairs[i].state = "succeeded"
            /\ run.repairs[i].commit => run.repairs[i].state \notin {"prepared", "running", "interrupted"}
            /\ run.repairs[i].commit => run.repairs[i].state \notin ActiveStates
      BY <1>1 DEF Inv, RepairsHold, ActiveIn
    <3>2. "succeeded" \notin ActiveStates
      BY DEF ActiveStates
    <3> QED
      BY ONLY <1>5, <1>2, <3>1, <3>2
  <2> QED
    BY <1>6, <1>8, <1>9, <2>1 DEF RepairsHold, RepairPc
<1>14. FindingsHold'
  <2>1. PastReview' => PastReview
    BY <1>4, <1>5, <1>10 DEF PastReview
  <2> QED
    BY <1>1, <1>4, <1>5, <1>8, <2>1 DEF Inv, FindingsHold
<1>15. FinalsHold'
  <2>1. FinalsSound(run')
    <3>1. \A i \in DOMAIN run.finals : run.finals[i].state = "succeeded" => run.finals[i].evidence
      BY DEF Inv, FinalsHold, FinalsSound
    <3>2. \A i \in DOMAIN run'.finals : run'.finals[i].state = "succeeded" => run'.finals[i].evidence
      BY ONLY <1>5, <1>2, <3>1
    <3> QED
      BY <1>4, <1>5, <1>9, <3>2, FinalsSoundly
  <2>2. ReadySound(run')
    <3>1. ReadySound(run)
      BY DEF Inv, FinalsHold
    <3>2. \A i \in DOMAIN run.finals :
            /\ run.finals[i].state = "succeeded" => run'.finals[i].state = "succeeded"
            /\ run'.finals[i].commit = run.finals[i].commit
      BY <1>2, <1>5 DEF ActiveStates
    <3>3. DOMAIN run'.finals = DOMAIN run.finals
      BY <1>2, <1>5
    <3>4. \A i \in DOMAIN run'.ready :
            /\ run'.ready[i].head = run'.head
            /\ run'.ready[i].reviews = FinalRound(run') /\ run'.ready[i].risks = Risks(run')
            /\ \E k \in DOMAIN run'.finals : run'.finals[k].state = "succeeded" /\ run'.finals[k].commit = run'.head
      BY <1>5, <1>8, <3>1, <3>2, <3>3 DEF ReadySound
    <3>5. /\ run'.state = "completed" => run'.ready # <<>>
          /\ run'.state \in {"failed", "cancelled"} => run'.ready = <<>>
      BY <1>4, <1>5, <3>1 DEF ReadySound
    <3> QED
      BY <3>4, <3>5 DEF ReadySound
  <2>3. run'.state # "completed" => run'.ready = <<>>
    BY <1>4, <1>5 DEF Inv, FinalsHold
  <2> QED
    BY <1>4, <1>5, <1>6, <2>1, <2>2, <2>3 DEF FinalsHold
<1>16. BranchHolds'
  BY <1>1, <1>2, <1>5, <1>6 DEF Inv, BranchHolds
<1>17. WorkersBounded(run)'
  <2>1. WorkersBounded(run')
    BY <1>0, <1>9, FewerActive DEF Inv
  <2> QED
    BY <2>1
<1> QED
  BY <1>7, <1>11, <1>12, <1>13, <1>14, <1>15, <1>16, <1>17 DEF Inv

\* What a retry takes up is past its reviews.
LEMMA RetryStep ==
  ASSUME Inv, Retry
  PROVE  Inv'
<1>0. run \in RunRecord /\ loop \in LoopRecord /\ cancel \in Nat /\ count \in Counted
  BY TypeParts DEF Inv
<1>1. /\ loop.pc = "idle" /\ run.state = "failed" /\ run.finals # <<>>
      /\ run' = [run EXCEPT !.state = "reviewed"] /\ loop' = [loop EXCEPT !.pc = "final"]
      /\ count.retries < MaxRetries /\ count' = [count EXCEPT !.retries = @ + 1]
      /\ UNCHANGED <<branch, pass, cancel>>
  BY DEF Retry, Retryable, At, GoTo, SetRun
<1>2. count' \in Counted
  BY <1>0, <1>1 DEF Counted
<1>3. loop' \in LoopRecord /\ loop'.pc = "final"
  BY <1>0, <1>1 DEF LoopRecord, LoopPc
<1>4. /\ run' \in RunRecord
      /\ run'.state = "reviewed" /\ run'.head = run.head /\ run'.rounds = run.rounds
      /\ run'.reviews = run.reviews /\ run'.repairs = run.repairs
      /\ run'.finals = run.finals /\ run'.ready = run.ready
  BY <1>0, <1>1 DEF RunRecord, RunStates
<1>5. PastReview
  BY <1>1 DEF PastReview
<1>6. FinalsHold'
  <2>1. run.ready = <<>>
    BY <1>1 DEF Inv, FinalsHold
  <2>2. RunningFinals' = {}
    <3>1. RunningFinals = {}
      BY <1>1, OneRunning
    <3> QED
      BY <1>4, <3>1 DEF RunningFinals
  <2>3. \A i \in DOMAIN run'.finals : run'.finals[i].state = "succeeded" => run'.finals[i].evidence
    BY <1>4 DEF Inv, FinalsHold, FinalsSound
  <2>4. FinalsSound(run')
    BY <1>4, <2>2, <2>3, FinalsSoundly
  <2> QED
    BY <1>3, <1>4, <2>1, <2>4 DEF FinalsHold, ReadySound
<1> QED
  BY <1>0, <1>1, <1>2, <1>3, <1>4, <1>5, <1>6, FinalsWrites

-----------------------------------------------------------------------------
(* The theorems.                                                           *)

LEMMA InitInv == Init => Inv
<1> SUFFICES ASSUME Init PROVE Inv
  OBVIOUS
<1> USE DEF Init
<1>0. /\ run.state = "integrating" /\ run.head = <<>> /\ run.rounds = <<>> /\ run.reviews = <<>>
      /\ run.repairs = <<>> /\ run.finals = <<>> /\ run.ready = <<>> /\ branch = <<>>
      /\ loop = Idle /\ pass = NoPass /\ loop.pc = "idle"
  BY DEF Idle
<1>1. TypeOK
  <2>1. run \in RunRecord /\ branch \in Heads
    BY DEF RunRecord, RunStates, Heads
  <2>2. loop \in LoopRecord /\ pass \in [Categories -> PassRecord] /\ count \in Counted
    BY DEF Idle, NoPass, LoopRecord, LoopPc, PassRecord, PassPc, Counted
  <2> QED
    BY <2>1, <2>2, TypeParts
<1>2. ReviewsHold
  BY <1>0 DEF ReviewsHold, ActiveIn, NoPass, LivePass
<1>3. RoundsHold
  BY <1>0 DEF RoundsHold, RoundsSound, InRound
<1>4. RepairsHold
  <2>1. RepairsSound(run)
    BY <1>0 DEF RepairsSound, Range
  <2> QED
    BY <1>0, <2>1 DEF RepairsHold, ActiveIn, RepairPc
<1>5. FindingsHold
  BY <1>0 DEF FindingsHold, PastReview
<1>6. FinalsHold
  <2>1. {i \in DOMAIN run.finals : run.finals[i].state = "running"} = {}
    BY <1>0
  <2>2. Cardinality({}) = 0
    BY FS_EmptySet
  <2>3. FinalsSound(run)
    BY <1>0, <2>1, <2>2 DEF FinalsSound
  <2> QED
    BY <1>0, <2>3 DEF FinalsHold, ReadySound
<1>7. BranchHolds
  BY <1>0 DEF BranchHolds
<1>8. WorkersBounded(run)
  <2>1. ActiveIn(run.reviews) = {} /\ ActiveIn(run.repairs) = {}
    BY <1>0 DEF ActiveIn
  <2>2. Cardinality({}) = 0
    BY FS_EmptySet
  <2>3. Cardinality(ActiveIn(run.reviews)) = 0 /\ Cardinality(ActiveIn(run.repairs)) = 0
    BY ONLY <2>1, <2>2, Zenon
  <2> QED
    BY ONLY <2>3, Constants DEF WorkersBounded
<1> QED
  BY <1>1, <1>2, <1>3, <1>4, <1>5, <1>6, <1>7, <1>8 DEF Inv

LEMMA InvStep == Inv /\ [Next]_vars => Inv'
<1> SUFFICES ASSUME Inv, [Next]_vars PROVE Inv'
  OBVIOUS
<1>1. CASE ReviewStep
  <2>1. Judge => Inv'
    BY JudgeStep
  <2> QED
    BY <1>1, <2>1, BeginStep, RoundSteps, Moves DEF ReviewStep
<1>2. CASE RepairStep
  <2>1. IntegrateRepair("integrate", "complete") => Inv'
    BY BranchMoves
  <2> QED
    BY <1>2, <2>1, ReserveRepairStep, RepairSteps, Moves DEF RepairStep
<1>3. CASE FinalStep
  BY <1>3, FinalSteps, Moves DEF FinalStep
<1>4. CASE RecoveryStep
  <2>1. RecoverIntegrates => Inv'
    BY BranchMoves DEF RecoverIntegrates
  <2> QED
    BY <1>4, <2>1, RepairSteps, RecoverStep, Moves DEF RecoveryStep
<1>5. CASE \E c \in Categories : PassStep(c)
  BY <1>5, PassSteps
<1>6. CASE CancelRun
  <2>1. CASE run.state \in TerminalRun
    <3>1. UNCHANGED <<run, branch, loop, pass, count>> /\ cancel' \in Nat
      BY <1>6, <2>1 DEF CancelRun
    <3> QED
      BY <3>1, SameWork
  <2>2. CASE run.state \notin TerminalRun
    <3>1. run' = Cancelled /\ UNCHANGED <<branch, loop, pass, count>> /\ cancel' \in Nat
      BY <1>6, <2>2 DEF CancelRun
    <3> QED
      BY <2>2, <3>1, CancelStep
  <2> QED
    BY <2>1, <2>2
<1>7. CASE Cancel \/ Resume \/ Retry \/ Crash
  BY <1>7, RetryStep, CrashStep, Moves
<1>8. CASE UNCHANGED vars
  <2>1. UNCHANGED <<run, branch, loop, pass, count>> /\ cancel' \in Nat
    BY <1>8, TypeParts DEF vars, Inv
  <2> QED
    BY <2>1, SameWork
<1> QED
  BY <1>1, <1>2, <1>3, <1>4, <1>5, <1>6, <1>7, <1>8 DEF Next

\* What each await of the lifecycle, a pass, a repair and a recovery relies on, whatever
\* cancellations and crashes come between.
THEOREM Invariance == Spec => []Inv
BY InitInv, InvStep, PTL DEF Spec

\* Every write of the lifecycle is one validateStoredRun takes.
THEOREM Accepted == Spec => []StoreAccepts
<1>1. Inv => StoreAccepts
  <2> SUFFICES ASSUME Inv PROVE StoreAccepts
    OBVIOUS
  <2>1. ReviewedSound(run)
    <3> SUFFICES ASSUME run.state \in {"reviewed", "validating", "completed"}
                 PROVE  /\ run.rounds # <<>> /\ Last(run.rounds).state = "succeeded"
                        /\ \A i \in DOMAIN run.reviews :
                             run.reviews[i].status \notin {"repair_required", "unresolved"}
      BY DEF ReviewedSound
    <3>1. /\ run.rounds # <<>> /\ run.rounds[Current].state = "succeeded" /\ Open = {}
      BY DEF Inv, FindingsHold, PastReview
    <3> QED
      BY <3>1 DEF Last, Current, Open
  <2> QED
    BY <2>1 DEF Inv, StoreAccepts, RoundsHold, RepairsHold, FinalsHold
<1> QED
  BY <1>1, Invariance, PTL

\* What is merged was reviewed as it is, in every category.
THEOREM Reviewed == Spec => []ReviewedAsMerged
<1>1. Inv => ReviewedAsMerged
  <2> SUFFICES ASSUME Inv, run.state \in {"reviewed", "validating", "completed"}
               PROVE  /\ Last(run.rounds).base = run.head /\ branch = run.head
                      /\ CategoriesOf(run, FinalRound(run)) = Categories
    BY DEF ReviewedAsMerged
  <2>1. run.rounds # <<>> /\ run.rounds[Current].state = "succeeded" /\ branch = run.head
    BY DEF Inv, FindingsHold, PastReview
  <2>2. Current \in DOMAIN run.rounds
    BY <2>1, TypeParts, RunFields DEF Inv, Current
  <2>3. CategoriesOf(run, Reported(run, Current)) = Categories
    BY <2>1, <2>2 DEF Inv, RoundsHold, RoundsSound
  <2>4. Last(run.rounds).base = run.head
    BY <2>1 DEF Inv, RoundsHold, Last, Current
  <2> QED
    BY <2>1, <2>3, <2>4 DEF FinalRound, Current
<1> QED
  BY <1>1, Invariance, PTL

\* A repair reaches the branch once, and at most two do.
THEOREM BranchFollows == Spec => []RepairsReachBranchOnce
<1>1. Inv => RepairsReachBranchOnce
  <2> SUFFICES ASSUME Inv PROVE RepairsReachBranchOnce
    OBVIOUS
  <2>1. /\ run.head \in Heads /\ DOMAIN run.head = 1..Len(run.head) /\ Len(run.head) \in Nat
        /\ DOMAIN run.repairs \subseteq Nat
    <3>1. run.head \in Heads /\ DOMAIN run.repairs \subseteq Nat
      BY TypeParts, RunFields DEF Inv
    <3> QED
      BY <3>1 DEF Heads
  <2>2. Len(run.head) <= 2
    BY DEF Inv, RoundsHold
  <2>3. /\ Range(run.head) = {i \in DOMAIN run.repairs : run.repairs[i].integrated}
        /\ \A m, n \in DOMAIN run.head : m < n => run.head[m] < run.head[n]
    BY DEF Inv, RepairsHold, RepairsSound
  <2>4. \A m, n \in DOMAIN run.head : run.head[m] = run.head[n] => m = n
    <3>1. \A m \in DOMAIN run.head : run.head[m] \in Nat /\ m \in Nat
      BY <2>1 DEF Heads
    <3> QED
      BY ONLY <2>3, <3>1
  <2>5. CASE branch = run.head
    BY <2>2, <2>4, <2>5 DEF RepairsReachBranchOnce, IsInjective
  <2>6. CASE branch # run.head
    <3>1. PICK i \in DOMAIN run.repairs :
            /\ branch = Append(run.head, i) /\ run.repairs[i].base = run.head
            /\ run.repairs[i].commit /\ ~run.repairs[i].integrated
            /\ Len(run.head) <= 1
      BY <2>6 DEF Inv, BranchHolds
    <3>2. Grown(run.head, i, branch)
      BY <2>1, <3>1, HeadGrows
    <3>3. /\ Len(branch) = Len(run.head) + 1 /\ DOMAIN branch = 1..(Len(run.head) + 1)
          /\ \A m \in DOMAIN run.head : branch[m] = run.head[m]
          /\ branch[Len(run.head) + 1] = i
      BY <3>2 DEF Grown
    <3>4. \A m \in DOMAIN run.head : run.head[m] # i
      BY <2>3, <3>1 DEF Range
    <3>5. \A m \in DOMAIN branch : m \in DOMAIN run.head \/ m = Len(run.head) + 1
      BY ONLY <2>1, <3>3
    <3>6. IsInjective(branch)
      BY ONLY <2>4, <3>3, <3>4, <3>5 DEF IsInjective
    <3>7. Len(branch) <= 2
      BY <2>1, <3>1, <3>3
    <3> QED
      BY <3>1, <3>6, <3>7 DEF RepairsReachBranchOnce
  <2> QED
    BY <2>5, <2>6
<1> QED
  BY <1>1, Invariance, PTL

\* What a step may make of the repairs there are: it interrupts none with a commit.
KeepsCommitted ==
  \A i \in DOMAIN run.repairs : run.repairs[i].commit => run'.repairs[i].state # "interrupted"

LEMMA CommittedKept ==
  ASSUME Inv, Next
  PROVE  KeepsCommitted
<1>0. run \in RunRecord /\ DOMAIN run.repairs = 1..Len(run.repairs) /\ Len(run.repairs) \in Nat
      /\ run.repairs \in Seq(Repair)
  BY TypeParts, RunFields DEF Inv
<1>1. \A i \in DOMAIN run.repairs : run.repairs[i].commit => run.repairs[i].state # "interrupted"
  BY DEF Inv, RepairsHold
<1>2. ASSUME run'.repairs = run.repairs PROVE KeepsCommitted
  BY <1>1, <1>2 DEF KeepsCommitted
<1>3. CASE ReviewStep
  <2>1. run'.repairs = run.repairs
    BY <1>0, <1>3 DEF ReviewStep, BeginReview, RunReviewRound, Leave, BatchSettled, Judge, Others,
       Judgement, Unresolved, FailRound, Kept, RunRecord
  <2> QED
    BY <1>2, <2>1
<1>4. CASE FinalStep
  <2>1. run'.repairs = run.repairs
    BY <1>0, <1>4 DEF FinalStep, StartFinalValidation, FindStaleAttempt, RemoveStaleAttempt,
       RemoveStaleAttemptFails, ReserveFinalAttempt, CheckHead, RecordFinalEvidence,
       RemoveFinalWorktreeFails, CompleteFinalValidation, HistoryNotMergeReady,
       RecordFinalFailure, RunRecord
  <2> QED
    BY <1>2, <2>1
<1>5. CASE \E c \in Categories : PassStep(c)
  <2>1. PICK c \in Categories : PassStep(c)
    BY <1>5
  <2>2. run'.repairs = run.repairs
    BY <1>0, <2>1 DEF PassStep, ReservePass, PreparePassFails, SpawnPass, EndPass, RecordReport,
       RecordPassFailure, Kept, RunRecord
  <2> QED
    BY <1>2, <2>2
<1>6. CASE Cancel \/ Resume \/ Retry \/ Crash
  <2>1. run'.repairs = run.repairs
    BY <1>0, <1>6 DEF Cancel, Resume, Retry, Crash, SetRun, RunRecord
  <2> QED
    BY <1>2, <2>1
<1>7. CASE CancelRun
  <2>1. CASE run.state \in TerminalRun
    BY <1>2, <1>7, <2>1 DEF CancelRun
  <2>2. CASE run.state \notin TerminalRun
    <3>1. run'.repairs = CancelAttempts(run.repairs)
      BY <1>0, <1>7, <2>2 DEF CancelRun, Cancelled, RunRecord
    <3>2. \A i \in DOMAIN run.repairs :
            CancelAttempts(run.repairs)[i].state \in {"cancelled", run.repairs[i].state}
      BY <1>0, Ended
    <3> QED
      BY <1>1, <3>1, <3>2 DEF KeepsCommitted
  <2> QED
    BY <2>1, <2>2
<1>8. CASE ReserveRepair
  <2>1. PICK v \in Repair : run'.repairs = Append(run.repairs, v)
    <3>1. run'.repairs = Append(run.repairs,
            [round |-> Current, state |-> "prepared", findings |-> Required, base |-> run.head,
             evidence |-> FALSE, commit |-> FALSE, integrated |-> FALSE])
      BY <1>0, <1>8 DEF ReserveRepair, RunRecord
    <3>2. Current \in Nat /\ run.head \in Heads /\ Required \subseteq Nat
      BY <1>0, RunFields DEF Required, InRound
    <3> QED
      BY <3>1, <3>2 DEF Repair, AttemptStates, ActiveStates
  <2>2. \A i \in DOMAIN run.repairs : run'.repairs[i] = run.repairs[i]
    BY <1>0, <2>1, Added
  <2> QED
    BY <1>1, <2>2 DEF KeepsCommitted
<1>9. ASSUME Working, NEW state \in AttemptStates \ {"interrupted"},
             run'.repairs = SetMine(state).repairs
      PROVE  KeepsCommitted
  <2>1. SetMine(state) = [run EXCEPT !.repairs[loop.at] = [Mine EXCEPT !.state = state]]
        /\ [Mine EXCEPT !.state = state] \in Repair /\ loop.at \in DOMAIN run.repairs
    BY <1>0, <1>9, MineWritten DEF Working
  <2>2. [Mine EXCEPT !.state = state].state = state
    BY <2>1 DEF Repair
  <2> QED
    BY <1>0, <1>1, <1>9, <2>1, <2>2, RepairWritten DEF KeepsCommitted
<1>10. CASE SpawnRepair \/ EndRepair \/ RecordRepairFailure \/ RecoverRepairFails
  <2>1. Working
    BY <1>10 DEF SpawnRepair, EndRepair, RecordRepairFailure, RecoverRepairFails, At, Inv, RepairsHold,
       RepairPc
  <2>2. \/ run'.repairs = run.repairs
        \/ \E state \in {"running", "validating", "failed"} : run'.repairs = SetMine(state).repairs
    BY <1>0, <1>10 DEF SpawnRepair, EndRepair, RecordRepairFailure, RecoverRepairFails, Kept, SetMine,
       RunRecord
  <2> QED
    BY <1>2, <1>9, <2>1, <2>2 DEF AttemptStates, ActiveStates
<1>11. CASE RecordRepairEvidence \/ RecordRepairCommit
  <2>1. Working /\ loop.at \in DOMAIN run.repairs
    BY <1>11 DEF RecordRepairEvidence, RecordRepairCommit, At, Inv, RepairsHold, RepairPc, Working
  <2>2. Mine.state # "interrupted"
    BY <2>1 DEF Working, ActiveStates
  <2>3. \E v \in {[Mine EXCEPT !.evidence = TRUE], [Mine EXCEPT !.commit = TRUE]} :
          run' = [run EXCEPT !.repairs[loop.at] = v]
    BY <1>0, <1>11, <2>1, MineWritten DEF RecordRepairEvidence, RecordRepairCommit
  <2>4. \A v \in {[Mine EXCEPT !.evidence = TRUE], [Mine EXCEPT !.commit = TRUE]} :
          v \in Repair /\ v.state = Mine.state
    <3>1. Mine \in Repair
      BY <1>0, <2>1, MineWritten
    <3> QED
      BY <3>1 DEF Repair
  <2>5. PICK v \in Repair : v.state = Mine.state /\ run' = [run EXCEPT !.repairs[loop.at] = v]
    BY <2>3, <2>4
  <2>6. \A i \in DOMAIN run.repairs : run'.repairs[i] = IF i = loop.at THEN v ELSE run.repairs[i]
    BY <1>0, <2>1, <2>5, RepairWritten
  <2> QED
    BY <1>1, <2>2, <2>5, <2>6 DEF KeepsCommitted
<1>12. CASE \/ PrepareRepairFails \/ ValidateRepair \/ RepairFails \/ IntegrateRepair("integrate", "complete")
            \/ RecoverIntegrated \/ RecoverIntegrates \/ ResumeAndLaunch
  <2>1. run'.repairs = run.repairs
    BY <1>12 DEF PrepareRepairFails, ValidateRepair, RepairFails, IntegrateRepair, RecoverIntegrated,
       RecoverIntegrates, ResumeAndLaunch
  <2> QED
    BY <1>2, <2>1
<1>13. CASE completeRepairIntegration \/ RecordRecoveredRepair
  <2>1. CASE run' = run
    BY <1>2, <2>1
  <2>2. CASE Completable /\ run' = Complete
    <3>1. Working
      BY <1>13 DEF completeRepairIntegration, RecordRecoveredRepair, At, Inv, RepairsHold, RepairPc
    <3>2. loop.at \in DOMAIN run.repairs /\ loop.at \in ActiveIn(run.repairs) /\ Mine \in Repair
      BY <1>0, <2>2, <3>1, RunFields DEF Working, Completable, ActiveIn, ActiveStates, Mine
    <3>3. Mine.round = Current /\ run.state = "repairing"
      BY <3>2 DEF Inv, RepairsHold, Mine
    <3>4. Current # 0
      <4>1. run.rounds # <<>>
        BY <3>3 DEF Inv, RoundsHold
      <4> QED
        BY <1>0, <4>1, RunFields DEF Current
    <3>5. \A i \in DOMAIN run.repairs :
            run'.repairs[i] = IF i = loop.at THEN [Mine EXCEPT !.state = "succeeded", !.integrated = TRUE]
                              ELSE run.repairs[i]
      BY <1>0, <2>2, <3>2, <3>3, <3>4, Completed
    <3>6. [Mine EXCEPT !.state = "succeeded", !.integrated = TRUE].state = "succeeded"
      BY <3>2 DEF Repair
    <3> QED
      BY <1>1, <3>5, <3>6 DEF KeepsCommitted
  <2> QED
    BY <1>13, <2>1, <2>2 DEF completeRepairIntegration, RecordRecoveredRepair
<1>14. CASE Recover
  <2>1. run'.repairs = Interrupt(run.repairs) /\ loop.pc = "recover" /\ loop.at = 0
    BY <1>0, <1>14 DEF Recover, recoverInterruptedRun, At, RunRecord
  <2>2. \A i \in DOMAIN run.repairs : run.repairs[i].commit => run.repairs[i].state \notin ActiveStates
    BY <2>1 DEF Inv, RepairsHold, ActiveIn
  <2>3. \A i \in DOMAIN run.repairs :
          run.repairs[i].state \notin ActiveStates => Interrupt(run.repairs)[i] = run.repairs[i]
    BY DEF Interrupt
  <2> QED
    BY <1>1, <2>1, <2>2, <2>3 DEF KeepsCommitted
<1> QED
  BY <1>3, <1>4, <1>5, <1>6, <1>7, <1>8, <1>10, <1>11, <1>12, <1>13, <1>14
     DEF Next, RepairStep, RecoveryStep

\* A repair whose commit is recorded is never interrupted away.
THEOREM CommitsKept == Spec => CommittedRepairKept
<1>1. Inv /\ [Next]_vars =>
        [\A i \in DOMAIN run.repairs :
           run.repairs[i].commit => run'.repairs[i].state # "interrupted"]_vars
  BY CommittedKept DEF KeepsCommitted
<1> QED
  BY <1>1, Invariance, PTL DEF Spec, CommittedRepairKept

=============================================================================
