--------------------------- MODULE PlanReviewProofs ---------------------------
(***************************************************************************)
(* The safety properties of PlanReview, for every number of sessions, every *)
(* set of tasks, areas, commands and limits, and every number of edits.    *)
(***************************************************************************)
EXTENDS PlanReview, FiniteSetTheorems, TLAPS

USE ReviewAssumption DEF Latest, Doc

Revision == [doc : Document, from : Nat]
Authority == [source : {"authored", "derived"}, envelope : Envelope]

RunRecord == [state : {"awaiting_approval", "running"} \cup EndStates,
              doc : Document, approved : Nat, revisions : Seq(Revision),
              authority : Authority]

SnapshotRecord == [state : {"running"} \cup EndStates, doc : Document,
                   authority : Authority, grown : SUBSET Area, steps : Nat]

Session == [pc : Pcs, base : Nat, draft : Document, edits : SUBSET Field,
            clash : SUBSET (Field \cup {"order"})]

TypeInv ==
  /\ run \in RunRecord
  /\ run.approved \in 0..Latest /\ Latest >= 1
  /\ snapshot = NoSnapshot \/ snapshot \in SnapshotRecord
  /\ reviewer \in [Reviewer -> Session]
  /\ \A r \in Reviewer : reviewer[r].base \in 1..Latest
  /\ lease \in Reviewer \cup {NoOne}
  /\ Gone \in Session

\* Where the stored run is, in its states and in its revisions.
RunAccepted ==
  /\ Fits(run.doc, run.authority.envelope) /\ run.doc = Doc(Latest)
  /\ run.authority.source = "derived" =>
       run.authority.envelope = DerivedEnvelope(run.doc)
  /\ \A n \in 1..Latest : run.revisions[n].from < n
  /\ run.state = "awaiting_approval" => run.approved = 0
  /\ run.state \in {"running", "completed"} => run.approved # 0

\* What is executed is the run as it was approved, which nothing changes.
SnapshotAccepted ==
  snapshot # NoSnapshot =>
    /\ run.approved # 0
    /\ snapshot.doc = run.doc /\ snapshot.authority = run.authority
    /\ WithinAuthority(AreasOf(snapshot.doc) \cup snapshot.grown,
           snapshot.doc.suite, snapshot.authority.envelope)
    /\ snapshot.grown # {} => snapshot.steps <= MaxPlanSteps

Consented ==
  run.approved # 0 => run.approved = consent.revision /\ consent.doc = run.doc

\* What a session holds in its terminal, while others change the run: an edit
\* against the revision it is based on, the revision it was shown, or the plan
\* of an approved run.
Holds(me) ==
  /\ me.pc \in {"saving", "reloading", "resolving", "correcting"} =>
       Changed(Doc(me.base), me.draft) \subseteq me.edits
  /\ me.pc \in {"confirming", "approving"} => me.draft = Doc(me.base)
  /\ me.pc = "preparing" => run.approved # 0 /\ me.draft = run.doc
  /\ me.pc = "executing" => snapshot # NoSnapshot

SessionsHold == \A r \in Reviewer : Holds(reviewer[r])

Inv ==
  /\ TypeInv
  /\ RunAccepted
  /\ SnapshotAccepted
  /\ Consented
  /\ SessionsHold

-----------------------------------------------------------------------------
(* Documents and envelopes.                                                 *)

LEMMA DocumentFacts ==
  ASSUME NEW doc \in Document
  PROVE  /\ AreasOf(doc) \subseteq Area
         /\ doc.suite \subseteq Command /\ doc.suite \in Suite
         /\ DerivedEnvelope(doc) \in Envelope
         /\ Fits(doc, DerivedEnvelope(doc))
<1>1. AreasOf(doc) \subseteq Area
  BY DEF AreasOf, Tasks, Document, TaskDefinition
<1>2. doc.suite \in Suite /\ doc.suite \subseteq Command
  BY DEF Document, Suite
<1>3. DerivedEnvelope(doc) \in Envelope
  BY <1>1, <1>2 DEF DerivedEnvelope, Envelope
<1>4. Fits(doc, DerivedEnvelope(doc))
  BY DEF Fits, WithinAuthority, DerivedEnvelope
<1> QED
  BY <1>1, <1>2, <1>3, <1>4

LEMMA EnvelopeFacts ==
  /\ AuthoredEnvelope \in Envelope
  /\ \A authority \in Authority, doc \in Document :
       RevisedEnvelope(authority, doc) \in Envelope
<1>1. AuthoredEnvelope \in Envelope
  <2>1. AuthoredSuite \in Suite \cup {{}}
    BY DEF Suite
  <2> QED
    BY <2>1 DEF AuthoredEnvelope, Envelope
<1> QED
  BY <1>1, DocumentFacts DEF RevisedEnvelope, Authority

\* A merge takes each field from the side that changed it, so it differs from
\* the latest revision only where the session made a change.
LEMMA MergeFacts ==
  ASSUME NEW base \in Document, NEW mine \in Document, NEW latest \in Document
  PROVE  /\ Merged(base, mine, latest) \in Document
         /\ Changed(latest, Merged(base, mine, latest)) \subseteq Changed(base, mine)
<1> DEFINE M(f) == MergedField(base, mine, latest, f)
<1>1. \A t \in Task : M(t) \in TaskDefinition \cup {Absent}
  BY DEF MergedField, Get, Document
<1>2. M("title") \in Title /\ M("suite") \in Suite /\ M("limit") \in WorkerLimit
  BY DEF MergedField, Get, Document
<1>3. Merged(base, mine, latest) =
        [title |-> M("title"), tasks |-> [t \in Task |-> M(t)],
         suite |-> M("suite"), limit |-> M("limit")]
  BY DEF Merged
<1> HIDE DEF M
<1>4. Merged(base, mine, latest) \in Document
  BY <1>1, <1>2, <1>3 DEF Document
<1>5. \A f \in Field : Get(Merged(base, mine, latest), f) = M(f)
  BY <1>3 DEF Get, Field
<1>6. \A f \in Field : M(f) # Get(latest, f) => Get(mine, f) # Get(base, f)
  BY DEF M, MergedField
<1> QED
  BY <1>4, <1>5, <1>6 DEF Changed

\* Of the documents between two, none differs from the one where the other did
\* not.
LEMMA BetweenFacts ==
  ASSUME NEW from, NEW to, NEW doc,
         \A f \in Field : Get(doc, f) \in {Get(to, f), Get(from, f)}
  PROVE  Changed(from, doc) \subseteq Changed(from, to)
BY DEF Changed

LEMMA ChangedTwice ==
  ASSUME NEW from, NEW via, NEW to
  PROVE  Changed(from, to) \subseteq Changed(from, via) \cup Changed(via, to)
BY DEF Changed

-----------------------------------------------------------------------------
(* What the sessions do to the stored run.                                  *)

\* A session that was given the latest revision appends one, or one approves
\* the plan that was not approved yet, or the run ends.
RunStep ==
  \/ run' = run
  \/ \E doc \in Document, from \in Nat :
       from <= Latest /\ Accepts(Latest, doc) /\ Revise(doc, from)
  \/ Editable /\ run' = [run EXCEPT !.state = "running", !.approved = Latest]
  \/ \E end \in EndStates :
       /\ end = "completed" => run.state = "running"
       /\ run' = [run EXCEPT !.state = end]

\* What is settled once stays so.
RunKept ==
  /\ Latest <= Len(run'.revisions)
  /\ \A n \in 1..Latest : run'.revisions[n] = run.revisions[n]
  /\ run.approved # 0 =>
       /\ run'.approved = run.approved /\ run'.authority = run.authority
       /\ run'.revisions = run.revisions /\ run'.doc = run.doc
  /\ run.authority.source = "authored" => run'.authority = run.authority

RunType == run \in RunRecord /\ run.approved \in 0..Latest /\ Latest >= 1

LEMMA RunTypeFacts ==
  ASSUME RunType
  PROVE  /\ run.revisions \in Seq(Revision) /\ Latest \in Nat
         /\ \A n \in 1..Latest : /\ run.revisions[n].doc \in Document
                                 /\ run.revisions[n].from \in Nat
         /\ run.authority \in Authority /\ run.doc \in Document
<1>1. run.revisions \in Seq(Revision) /\ run.authority \in Authority /\ run.doc \in Document
  BY DEF RunType, RunRecord
<1>2. \A n \in 1..Latest : run.revisions[n] \in Revision
  BY <1>1
<1> QED
  BY <1>1, <1>2 DEF Revision

LEMMA ReviseFacts ==
  ASSUME RunType, RunAccepted, NEW doc \in Document, NEW from \in Nat, from <= Latest,
         Accepts(Latest, doc), Revise(doc, from)
  PROVE  /\ RunType' /\ RunAccepted' /\ RunKept
         /\ Latest' = Latest + 1 /\ run'.doc = doc
<1> DEFINE new == [doc |-> doc, from |-> from]
           env == RevisedEnvelope(run.authority, doc)
<1>1. /\ run.revisions \in Seq(Revision) /\ Latest \in Nat /\ new \in Revision
      /\ run.authority \in Authority /\ env \in Envelope
      /\ run.state = "awaiting_approval" /\ run.approved = 0
      /\ Fits(doc, env)
  BY EnvelopeFacts DEF RunType, RunRecord, Revision, Accepts, Editable, RunAccepted
<1>2. /\ run' \in RunRecord
      /\ run'.state = run.state /\ run'.approved = 0 /\ run'.doc = doc
      /\ run'.revisions = Append(run.revisions, new)
      /\ run'.authority.source = run.authority.source
      /\ run'.authority.envelope = env
      /\ run'.authority = [run.authority EXCEPT !.envelope = env]
  <2>1. [run.authority EXCEPT !.envelope = env] \in Authority
    BY <1>1 DEF Authority
  <2>2. Append(run.revisions, new) \in Seq(Revision)
    BY <1>1
  <2>3. run' = [run EXCEPT !.doc = doc, !.revisions = Append(run.revisions, new),
                           !.authority = [run.authority EXCEPT !.envelope = env]]
    BY DEF Revise, RunType, RunRecord
  <2> QED
    BY <1>1, <2>1, <2>2, <2>3 DEF RunType, RunRecord, Authority
<1>3. /\ Latest' = Latest + 1
      /\ \A n \in 1..Latest : run'.revisions[n] = run.revisions[n]
      /\ run'.revisions[Latest + 1] = new
  BY <1>1, <1>2
<1>4. RunType'
  BY <1>1, <1>2, <1>3 DEF RunType
<1>5. run.authority.source = "authored" => run'.authority = run.authority
  BY <1>1, <1>2 DEF RevisedEnvelope, Authority
<1>6. run.authority.source = "derived" => env = DerivedEnvelope(doc)
  BY DEF RevisedEnvelope
<1>7. \A n \in 1..Latest + 1 : run'.revisions[n].from < n
  BY <1>1, <1>3, RunTypeFacts DEF RunAccepted
<1>8. RunAccepted'
  BY <1>1, <1>2, <1>3, <1>6, <1>7 DEF RunAccepted
<1> QED
  BY <1>1, <1>2, <1>3, <1>4, <1>5, <1>8 DEF RunKept

LEMMA RunStepFacts ==
  ASSUME RunType, RunAccepted, RunStep
  PROVE  RunType' /\ RunAccepted' /\ RunKept
<1>1. CASE run' = run
  BY <1>1 DEF RunType, RunAccepted, RunKept
<1>2. ASSUME NEW doc \in Document, NEW from \in Nat, from <= Latest, Accepts(Latest, doc),
             Revise(doc, from)
      PROVE  RunType' /\ RunAccepted' /\ RunKept
  BY <1>2, ReviseFacts
<1>3. CASE Editable /\ run' = [run EXCEPT !.state = "running", !.approved = Latest]
  <2>1. /\ run' \in RunRecord /\ run'.state = "running" /\ run'.approved = Latest
        /\ run'.doc = run.doc /\ run'.authority = run.authority
        /\ run'.revisions = run.revisions
    BY <1>3, RunTypeFacts DEF RunType, RunRecord
  <2> QED
    BY <1>3, <2>1, RunTypeFacts DEF RunType, RunAccepted, RunKept, Editable
<1>4. ASSUME NEW end \in EndStates, end = "completed" => run.state = "running",
             run' = [run EXCEPT !.state = end]
      PROVE  RunType' /\ RunAccepted' /\ RunKept
  <2>1. /\ run' \in RunRecord /\ run'.state = end /\ run'.approved = run.approved
        /\ run'.doc = run.doc /\ run'.authority = run.authority
        /\ run'.revisions = run.revisions
    BY <1>4 DEF RunType, RunRecord
  <2> QED
    BY <1>4, <2>1, RunTypeFacts DEF RunType, RunAccepted, RunKept, EndStates
<1> QED
  BY <1>1, <1>2, <1>3, <1>4 DEF RunStep

LEMMA StepRun ==
  ASSUME TypeInv, NEW r \in Reviewer, Step(r)
  PROVE  RunStep
<1>0. reviewer[r] \in Session /\ run \in RunRecord
  BY DEF TypeInv
<1>1. CASE Save(r)
  BY <1>0, <1>1 DEF Save, RunStep, Accepts, Session
<1>2. CASE Restore(r)
  <2>1. PICK n \in 1..(reviewer[r].base - 1) :
          IF Accepts(reviewer[r].base, Doc(n))
          THEN Revise(Doc(n), n) ELSE run' = run
    BY <1>2 DEF Restore
  <2>2. reviewer[r].base \in 1..Latest
    BY DEF TypeInv
  <2>3. n \in 1..Latest /\ n \in Nat
    BY <2>2
  <2>4. Doc(n) \in Document
    BY <2>3, RunTypeFacts DEF RunType, TypeInv
  <2> QED
    BY <2>1, <2>3, <2>4 DEF RunStep, Accepts
<1>3. CASE Cancel(r) \/ PrepareFails(r) \/ Settle(r)
  BY <1>3 DEF Cancel, PrepareFails, Settle, RunStep, EndStates
<1>4. CASE Approve(r)
  BY <1>4 DEF Approve, RunStep, Editable
<1>5. CASE ~Save(r) /\ ~Restore(r) /\ ~Cancel(r) /\ ~PrepareFails(r) /\ ~Settle(r) /\ ~Approve(r)
  BY <1>5 DEF Step, RunStep, Open, Leave, Edit, SaveRefused, ReloadAndMerge,
     ResolveLimit, EditJson, Continue, Decline, LaunchFails, Claim, CreateSnapshot,
     Resume, Admit, Crash, Editing
<1> QED
  BY <1>1, <1>2, <1>3, <1>4, <1>5

-----------------------------------------------------------------------------
(* What the sessions do to the snapshot.                                    *)

LEMMA StepSnapshot ==
  ASSUME Inv, NEW r \in Reviewer, Step(r)
  PROVE  \/ snapshot' = snapshot
         \/ CreateSnapshot(r)
         \/ Admit(r)
         \/ Settle(r)
BY DEF Step, Open, Leave, Edit, Save, SaveRefused, ReloadAndMerge, ResolveLimit,
   EditJson, Restore, Cancel, Continue, Decline, LaunchFails, Claim, Approve,
   PrepareFails, Resume, Crash, Editing

\* A snapshot is created of the approved run, grows inside its envelope, and
\* never goes away.
LEMMA SnapshotStep ==
  ASSUME Inv, NEW r \in Reviewer, Step(r)
  PROVE  /\ snapshot' = NoSnapshot \/ snapshot' \in SnapshotRecord
         /\ snapshot # NoSnapshot => snapshot' # NoSnapshot
         /\ CreateSnapshot(r) => snapshot' # NoSnapshot
         /\ SnapshotAccepted'
<1>0. /\ RunType /\ TypeInv /\ RunAccepted /\ SnapshotAccepted /\ Holds(reviewer[r])
      /\ reviewer[r] \in Session
  BY DEF Inv, TypeInv, RunType, SessionsHold
<1>1. RunKept /\ RunType'
  BY <1>0, RunStepFacts, StepRun
<1>2. NoSnapshot.state = "none" /\ \A s \in SnapshotRecord : s.state # "none"
  BY DEF NoSnapshot, SnapshotRecord, EndStates
<1>3. CASE snapshot' = snapshot
  BY <1>0, <1>1, <1>2, <1>3 DEF SnapshotAccepted, RunKept, TypeInv, CreateSnapshot
<1>4. CASE CreateSnapshot(r)
  <2> DEFINE doc == reviewer[r].draft
             new == [state |-> "running", doc |-> doc, authority |-> run.authority,
                     grown |-> {}, steps |-> Cardinality(Tasks(doc))]
  <2>1. snapshot' = new /\ run' = run /\ reviewer[r].pc = "preparing"
    BY <1>4 DEF CreateSnapshot, At
  <2>2. doc = run.doc /\ run.approved # 0 /\ doc \in Document
    BY <1>0, <2>1, RunTypeFacts DEF Holds
  <2>3. Cardinality(Tasks(doc)) \in Nat
    <3>1. Tasks(doc) \in SUBSET Task
      BY DEF Tasks
    <3> QED
      BY <3>1, FS_Subset, FS_CardinalityType
  <2>4. new \in SnapshotRecord
    BY <1>0, <2>2, <2>3, RunTypeFacts DEF SnapshotRecord
  <2>5. /\ new.doc = run.doc /\ new.authority = run.authority /\ new.grown = {}
        /\ WithinAuthority(AreasOf(new.doc) \cup new.grown, new.doc.suite,
               new.authority.envelope)
    BY <1>0, <2>2 DEF RunAccepted, Fits
  <2> HIDE DEF new
  <2> QED
    BY <1>2, <2>1, <2>2, <2>4, <2>5 DEF SnapshotAccepted
<1>5. CASE Admit(r)
  <2>1. PICK area \in Area :
          /\ WithinAuthority(AreasOf(snapshot.doc) \cup snapshot.grown \cup {area},
                 snapshot.doc.suite, snapshot.authority.envelope)
          /\ snapshot' = [snapshot EXCEPT !.grown = @ \cup {area}, !.steps = @ + 1]
    BY <1>5 DEF Admit
  <2>2. snapshot \in SnapshotRecord /\ snapshot # NoSnapshot /\ run' = run
        /\ snapshot.steps + 1 <= MaxPlanSteps
    BY <1>0, <1>2, <1>5 DEF Admit, TypeInv
  <2>3. /\ snapshot' \in SnapshotRecord
        /\ snapshot'.doc = snapshot.doc /\ snapshot'.authority = snapshot.authority
        /\ snapshot'.grown = snapshot.grown \cup {area}
        /\ snapshot'.steps = snapshot.steps + 1
    <3>1. /\ snapshot.grown \cup {area} \in SUBSET Area
          /\ snapshot.steps + 1 \in Nat
      BY <2>2 DEF SnapshotRecord
    <3>2. snapshot' = [snapshot EXCEPT !.grown = snapshot.grown \cup {area},
                                       !.steps = snapshot.steps + 1]
      BY <2>1, <2>2 DEF SnapshotRecord
    <3> QED
      BY <2>2, <3>1, <3>2 DEF SnapshotRecord
  <2>4. AreasOf(snapshot.doc) \cup (snapshot.grown \cup {area})
          = AreasOf(snapshot.doc) \cup snapshot.grown \cup {area}
    OBVIOUS
  <2>5. WithinAuthority(AreasOf(snapshot'.doc) \cup snapshot'.grown, snapshot'.doc.suite,
            snapshot'.authority.envelope)
    BY <2>1, <2>3, <2>4
  <2>6. ~CreateSnapshot(r)
    BY <1>5 DEF CreateSnapshot, Admit, At
  <2> QED
    BY <1>0, <1>2, <2>2, <2>3, <2>5, <2>6 DEF SnapshotAccepted
<1>6. CASE Settle(r)
  <2>1. PICK end \in {"completed", "failed"} : snapshot' = [snapshot EXCEPT !.state = end]
    BY <1>6 DEF Settle
  <2>2. snapshot # NoSnapshot /\ snapshot \in SnapshotRecord
    BY <1>0, <1>6 DEF Settle, Holds, At, TypeInv
  <2>3. /\ snapshot' \in SnapshotRecord
        /\ snapshot'.doc = snapshot.doc /\ snapshot'.authority = snapshot.authority
        /\ snapshot'.grown = snapshot.grown /\ snapshot'.steps = snapshot.steps
    BY <2>1, <2>2 DEF SnapshotRecord, EndStates
  <2> QED
    BY <1>0, <1>1, <1>2, <2>2, <2>3 DEF SnapshotAccepted, RunKept
<1> QED
  BY <1>3, <1>4, <1>5, <1>6, StepSnapshot

-----------------------------------------------------------------------------
(* What the sessions hold.                                                  *)

\* What a session holds stays true whatever the others do.
LEMMA HoldsStays ==
  ASSUME RunType, RunKept, snapshot # NoSnapshot => snapshot' # NoSnapshot,
         NEW me \in Session, me.base \in 1..Latest, Holds(me)
  PROVE  Holds(me)'
<1>1. run'.revisions[me.base] = run.revisions[me.base]
  BY DEF RunKept
<1>2. CASE me.pc = "preparing"
  BY <1>2 DEF Holds, RunKept
<1>3. CASE me.pc # "preparing"
  BY <1>1, <1>3 DEF Holds
<1> QED
  BY <1>2, <1>3

\* The new state of a session, and that it knows what it has to.
NextSession(r, me) ==
  /\ reviewer' = [reviewer EXCEPT ![r] = me]
  /\ me \in Session /\ me.base \in 1..Len(run'.revisions)
  /\ Holds(me)'

LEMMA QuietSession ==
  ASSUME TypeInv, RunType', NEW r \in Reviewer, NEW base \in 1..Len(run'.revisions),
         Choose(r, base) \/ Away(r)
  PROVE  \E me \in Session : NextSession(r, me)
<1>1. Gone.draft \in Document /\ Gone \in Session /\ Gone.base = 1 /\ Gone.pc = "away"
  BY DEF TypeInv, Gone, Session
<1>2. Len(run'.revisions) >= 1 /\ Len(run'.revisions) \in Nat
  BY RunTypeFacts DEF RunType, RunRecord
<1>3. CASE Away(r)
  <2>1. Holds(Gone)'
    BY <1>1 DEF Holds
  <2>2. reviewer' = [reviewer EXCEPT ![r] = Gone]
    BY <1>3 DEF Away
  <2>3. Gone.base \in 1..Len(run'.revisions)
    BY <1>1, <1>2
  <2>4. NextSession(r, Gone)
    BY <1>1, <2>1, <2>2, <2>3 DEF NextSession
  <2> QED
    BY <1>1, <2>4
<1>4. CASE Choose(r, base)
  <2> DEFINE me == [pc |-> "choosing", base |-> base, draft |-> Gone.draft, edits |-> {},
                clash |-> {}]
  <2>1. me \in Session
    BY <1>1, <1>2 DEF Session, Pcs
  <2>2. reviewer' = [reviewer EXCEPT ![r] = me]
    BY <1>4 DEF Choose, Set, Puts
  <2>3. Holds(me)'
    BY DEF Holds
  <2> QED
    BY <2>1, <2>2, <2>3 DEF NextSession
<1> QED
  BY <1>3, <1>4

\* A session whose new state is given, field by field.
LEMMA PutsSession ==
  ASSUME NEW r \in Reviewer, NEW pc \in Pcs, NEW base \in 1..Len(run'.revisions),
         base \in Nat, NEW draft \in Document, NEW edits \in SUBSET Field,
         NEW clash \in SUBSET (Field \cup {"order"}),
         Puts(r, pc, base, draft, edits, clash),
         Holds([pc |-> pc, base |-> base, draft |-> draft, edits |-> edits,
                clash |-> clash])'
  PROVE  \E me \in Session : NextSession(r, me)
<1> DEFINE me == [pc |-> pc, base |-> base, draft |-> draft, edits |-> edits,
                  clash |-> clash]
<1>1. me \in Session
  BY DEF Session
<1>2. NextSession(r, me)
  BY <1>1 DEF Puts, NextSession
<1> QED
  BY <1>1, <1>2

LEMMA SetSession ==
  ASSUME NEW r \in Reviewer, NEW pc \in Pcs, NEW base \in 1..Len(run'.revisions),
         base \in Nat, NEW draft \in Document, NEW edits \in SUBSET Field,
         Set(r, pc, base, draft, edits),
         Holds([pc |-> pc, base |-> base, draft |-> draft, edits |-> edits,
                clash |-> {}])'
  PROVE  \E me \in Session : NextSession(r, me)
BY PutsSession DEF Set

\* The edits a session makes against its base.
LEMMA EditorStep ==
  ASSUME TypeInv, RunAccepted, run' = run, NEW r \in Reviewer, Holds(reviewer[r]),
         Edit(r) \/ SaveRefused(r) \/ ReloadAndMerge(r) \/ ResolveLimit(r) \/ EditJson(r)
  PROVE  \E me \in Session : NextSession(r, me)
<1> PICK me : me = reviewer[r]
  OBVIOUS
<1>0. /\ me \in Session /\ me.base \in 1..Latest /\ me.base \in Nat
      /\ RunType' /\ RunType /\ Len(run'.revisions) = Latest
      /\ me.draft \in Document /\ me.edits \subseteq Field
      /\ run.revisions[me.base].doc \in Document /\ run.doc \in Document
      /\ Latest \in 1..Latest /\ Latest \in Nat
      /\ run.revisions[Latest].doc = run.doc
  BY RunTypeFacts DEF TypeInv, RunType, Session, RunAccepted
<1>1. CASE Edit(r)
  <2>1. PICK doc \in Plan :
          Set(r, "saving", me.base, doc, Changed(run.revisions[me.base].doc, doc))
    BY <1>1 DEF Edit
  <2> DEFINE edits == Changed(run.revisions[me.base].doc, doc)
  <2>2. doc \in Document /\ edits \subseteq Field
    BY DEF Plan, Changed
  <2>3. Holds([pc |-> "saving", base |-> me.base, draft |-> doc, edits |-> edits,
                clash |-> {}])'
    BY DEF Holds
  <2> HIDE DEF edits
  <2> QED
    BY <1>0, <2>1, <2>2, <2>3, SetSession DEF Pcs, edits
<1>2. CASE SaveRefused(r)
  <2>1. Set(r, "reloading", me.base, me.draft, me.edits) /\ me.pc = "saving"
    BY <1>2 DEF SaveRefused, At
  <2>2. Holds([pc |-> "reloading", base |-> me.base, draft |-> me.draft, edits |-> me.edits,
                clash |-> {}])'
    BY <2>1 DEF Holds
  <2> QED
    BY <1>0, <2>1, <2>2, SetSession DEF Pcs
<1>3. CASE ReloadAndMerge(r)
  <2> PICK base : base = run.revisions[me.base].doc
    OBVIOUS
  <2> PICK last : last = Latest
    OBVIOUS
  <2> PICK merged : merged = Merged(base, me.draft, run.doc)
    OBVIOUS
  <2> PICK clash : clash = Conflicts(base, me.draft, run.doc)
    OBVIOUS
  <2>1. PICK pc \in {"resolving", "saving", "correcting"} :
          Puts(r, pc, last, merged, me.edits, clash)
    BY <1>3 DEF ReloadAndMerge, Candidate
  <2>2. Changed(base, me.draft) \subseteq me.edits
    BY <1>3 DEF ReloadAndMerge, At, Holds
  <2>3. merged \in Document /\ Changed(run.doc, merged) \subseteq me.edits
    BY <1>0, <2>2, MergeFacts
  <2>4. Holds([pc |-> pc, base |-> last, draft |-> merged, edits |-> me.edits,
               clash |-> clash])'
    BY <1>0, <2>3 DEF Holds
  <2>5. pc \in Pcs /\ clash \subseteq Field \cup {"order"}
    BY DEF Pcs, Conflicts, Differences, Changed, Reordered
  <2> QED
    BY <1>0, <2>1, <2>3, <2>4, <2>5, PutsSession
<1>4. CASE ResolveLimit(r)
  <2>1. CASE Choose(r, me.base)
    BY <1>0, <2>1, QuietSession
  <2>2. ASSUME NEW limit \in {me.draft.limit, run.revisions[me.base].doc.limit},
               NEW doc, doc = [me.draft EXCEPT !.limit = limit],
               NEW pc \in {"resolving", "saving", "correcting"},
               NEW left, left = me.clash \ {"limit"},
               Puts(r, pc, me.base, doc, me.edits, left)
        PROVE  \E new \in Session : NextSession(r, new)
    <3>1. Changed(run.revisions[me.base].doc, me.draft) \subseteq me.edits
      BY <1>4 DEF ResolveLimit, At, Holds
    <3>2. doc \in Document
      BY <1>0, <2>2 DEF Document
    <3>3. \A f \in Field : Get(doc, f) \in {Get(me.draft, f),
                                            Get(run.revisions[me.base].doc, f)}
      BY <1>0, <2>2 DEF Document, Field, Get
    <3>4. Changed(run.revisions[me.base].doc, doc) \subseteq me.edits
      BY <3>1, <3>3, BetweenFacts
    <3>5. Holds([pc |-> pc, base |-> me.base, draft |-> doc, edits |-> me.edits,
                 clash |-> left])'
      BY <3>4 DEF Holds
    <3>6. pc \in Pcs /\ left \subseteq Field \cup {"order"}
      BY <1>0, <2>2 DEF Pcs, Session
    <3> QED
      BY <1>0, <2>2, <3>2, <3>5, <3>6, PutsSession
  <2>3. CASE ~Choose(r, me.base)
    <3>1. PICK limit \in {me.draft.limit, run.revisions[me.base].doc.limit} :
            Puts(r, IF me.clash \ {"limit"} # {} THEN "resolving"
                    ELSE Candidate([me.draft EXCEPT !.limit = limit]),
                 me.base, [me.draft EXCEPT !.limit = limit], me.edits, me.clash \ {"limit"})
      BY <1>4, <2>3 DEF ResolveLimit
    <3> DEFINE pc == IF me.clash \ {"limit"} # {} THEN "resolving"
                     ELSE Candidate([me.draft EXCEPT !.limit = limit])
    <3>2. pc \in {"resolving", "saving", "correcting"}
      BY DEF Candidate
    <3> HIDE DEF pc
    <3> QED
      BY <2>2, <3>1, <3>2 DEF pc
  <2> QED
    BY <2>1, <2>3
<1>5. CASE EditJson(r)
  <2>1. CASE Choose(r, me.base)
    BY <1>0, <2>1, QuietSession
  <2>2. ASSUME NEW doc \in Plan,
               Set(r, "saving", me.base, doc, me.edits \cup Changed(me.draft, doc))
        PROVE  \E new \in Session : NextSession(r, new)
    <3> DEFINE edits == me.edits \cup Changed(me.draft, doc)
    <3>1. Changed(run.revisions[me.base].doc, me.draft) \subseteq me.edits
      BY <1>5 DEF EditJson, At, Holds
    <3>2. Changed(run.revisions[me.base].doc, doc) \subseteq edits
      BY <3>1, ChangedTwice
    <3>3. edits \subseteq Field /\ doc \in Document
      BY <1>0 DEF Changed, Plan
    <3>4. Holds([pc |-> "saving", base |-> me.base, draft |-> doc, edits |-> edits,
                 clash |-> {}])'
      BY <3>2 DEF Holds
    <3> HIDE DEF edits
    <3> QED
      BY <1>0, <2>2, <3>3, <3>4, SetSession DEF Pcs, edits
  <2> QED
    BY <1>5, <2>1, <2>2 DEF EditJson
<1> QED
  BY <1>1, <1>2, <1>3, <1>4, <1>5

\* Every step of a session leaves it holding what it has to hold.
LEMMA OwnStep ==
  ASSUME Inv, NEW r \in Reviewer, Step(r)
  PROVE  \E me \in Session : NextSession(r, me)
<1> PICK me : me = reviewer[r]
  OBVIOUS
<1>0. /\ RunType /\ RunType' /\ RunKept /\ TypeInv /\ RunAccepted
      /\ Holds(me) /\ me \in Session /\ me.base \in 1..Latest /\ me.base \in Nat
  BY RunStepFacts, StepRun DEF Inv, TypeInv, RunType, SessionsHold
<1>1. /\ Latest \in Nat /\ Latest \in 1..Latest /\ Len(run'.revisions) \in Nat
      /\ Latest <= Len(run'.revisions)
      /\ me.base \in 1..Len(run'.revisions)
      /\ me.draft \in Document /\ run.doc \in Document /\ run'.doc \in Document
      /\ {} \in SUBSET Field
  <2>1. /\ Latest \in Nat /\ Latest \in 1..Latest /\ run.doc \in Document
        /\ me.draft \in Document
    BY <1>0, RunTypeFacts DEF RunType, Session
  <2>2. Len(run'.revisions) \in Nat /\ run'.doc \in Document
    BY <1>0 DEF RunType, RunRecord
  <2> QED
    BY <1>0, <2>1, <2>2 DEF RunKept
<1>2. CASE Open(r)
  BY <1>0, <1>1, <1>2, QuietSession DEF Open, Editing
<1>3. CASE Leave(r) \/ Cancel(r) \/ LaunchFails(r) \/ PrepareFails(r) \/ Settle(r) \/ Crash(r)
  BY <1>0, <1>1, <1>3, QuietSession DEF Leave, Cancel, LaunchFails, PrepareFails, Settle,
     Crash, Release
<1>4. CASE \/ Edit(r) \/ SaveRefused(r) \/ ReloadAndMerge(r) \/ ResolveLimit(r)
           \/ EditJson(r)
  <2>1. run' = run
    BY <1>4 DEF Edit, SaveRefused, ReloadAndMerge, ResolveLimit, EditJson, Editing
  <2> QED
    BY <1>0, <1>4, <2>1, EditorStep
<1>5. CASE Save(r)
  <2>1. CASE me.draft = run.doc
    BY <1>0, <1>1, <1>5, <2>1, QuietSession DEF Save
  <2>2. CASE me.draft # run.doc
    <3>1. /\ Accepts(me.base, me.draft) /\ Revise(me.draft, 0)
          /\ Choose(r, Latest + 1)
      BY <1>5, <2>2 DEF Save
    <3>2. Len(run'.revisions) = Latest + 1
      BY <1>0, <1>1, <3>1, ReviseFacts DEF Accepts
    <3> QED
      BY <1>0, <1>1, <3>1, <3>2, QuietSession
  <2> QED
    BY <2>1, <2>2
<1>6. CASE Restore(r)
  <2>1. PICK n \in 1..(me.base - 1) :
          IF Accepts(me.base, Doc(n))
          THEN Revise(Doc(n), n) /\ Choose(r, Latest + 1)
          ELSE Choose(r, Latest) /\ UNCHANGED run
    BY <1>6 DEF Restore
  <2>2. n \in 1..Latest /\ n \in Nat /\ run.revisions[n].doc \in Document
    BY <1>0, <1>1, RunTypeFacts
  <2>3. CASE Accepts(me.base, Doc(n))
    <3>1. Len(run'.revisions) = Latest + 1
      BY <1>0, <1>1, <2>1, <2>2, <2>3, ReviseFacts DEF Accepts
    <3> QED
      BY <1>0, <1>1, <2>1, <2>3, <3>1, QuietSession
  <2>4. CASE ~Accepts(me.base, Doc(n))
    BY <1>0, <1>1, <2>1, <2>4, QuietSession
  <2> QED
    BY <2>3, <2>4
<1>7. CASE Continue(r)
  <2>1. Set(r, "confirming", Latest, run.doc, {}) /\ run' = run
    BY <1>7 DEF Continue, Editing
  <2>2. Holds([pc |-> "confirming", base |-> Latest, draft |-> run.doc, edits |-> {},
                clash |-> {}])'
    BY <1>0, <2>1 DEF Holds, RunAccepted
  <2> QED
    BY <1>1, <2>1, <2>2, SetSession DEF Pcs
<1>8. CASE Decline(r)
  BY <1>0, <1>1, <1>8, QuietSession DEF Decline
<1>9. CASE Claim(r)
  <2> DEFINE new == [me EXCEPT !.pc = "approving"]
  <2>1. reviewer' = [reviewer EXCEPT ![r] = new] /\ run' = run /\ me.pc = "confirming"
    BY <1>0, <1>9 DEF Claim, At, TypeInv, Session
  <2>2. /\ new \in Session /\ new.base = me.base /\ new.draft = me.draft
        /\ new.pc = "approving"
    BY <1>0 DEF Session, Pcs
  <2>3. Holds(new)'
    BY <1>0, <2>1, <2>2 DEF Holds
  <2>4. NextSession(r, new)
    BY <1>1, <2>1, <2>2, <2>3 DEF NextSession
  <2> QED
    BY <2>2, <2>4
<1>10. CASE Approve(r)
  <2>1. CASE run.state = "awaiting_approval" /\ me.base = Latest
    <3> PICK doc : doc = run.doc
      OBVIOUS
    <3>1. Set(r, "preparing", me.base, doc, {})
          /\ run' = [run EXCEPT !.state = "running", !.approved = Latest]
      BY <1>10, <2>1 DEF Approve
    <3>2. run'.approved # 0 /\ run'.doc = doc
      BY <1>0, <1>1, <3>1 DEF RunType, RunRecord
    <3>3. Holds([pc |-> "preparing", base |-> me.base, draft |-> doc, edits |-> {},
                clash |-> {}])'
      BY <3>2 DEF Holds
    <3> QED
      BY <1>0, <1>1, <3>1, <3>3, SetSession DEF Pcs
  <2>2. CASE ~(run.state = "awaiting_approval" /\ me.base = Latest)
    BY <1>0, <1>1, <1>10, <2>2, QuietSession DEF Approve, Release
  <2> QED
    BY <2>1, <2>2
<1>11. CASE CreateSnapshot(r)
  <2>1. Set(r, "executing", me.base, Gone.draft, {})
    BY <1>11 DEF CreateSnapshot
  <2>2. Gone.draft \in Document
    BY <1>0 DEF TypeInv, Session
  <2>3. snapshot' # NoSnapshot
    BY <1>11, SnapshotStep
  <2>4. Holds([pc |-> "executing", base |-> me.base, draft |-> Gone.draft, edits |-> {},
                clash |-> {}])'
    BY <2>3 DEF Holds
  <2> QED
    BY <1>0, <1>1, <2>1, <2>2, <2>4, SetSession DEF Pcs
<1>12. CASE Resume(r)
  <2>1. /\ run' = run /\ snapshot' = snapshot /\ run.approved # 0
        /\ run.approved \in 1..Latest /\ run.approved \in Nat /\ Gone.draft \in Document
    BY <1>0, <1>1, <1>12 DEF Resume, RunAccepted, RunType, TypeInv, Session
  <2>2. CASE snapshot = NoSnapshot
    <3>1. Set(r, "preparing", run.approved, run.doc, {})
      BY <1>12, <2>2 DEF Resume
    <3>2. Holds([pc |-> "preparing", base |-> run.approved, draft |-> run.doc,
                 edits |-> {},
                clash |-> {}])'
      BY <2>1 DEF Holds
    <3> QED
      BY <1>1, <2>1, <3>1, <3>2, SetSession DEF Pcs
  <2>3. CASE snapshot # NoSnapshot
    <3>1. Set(r, "executing", run.approved, Gone.draft, {})
      BY <1>12, <2>3 DEF Resume
    <3>2. Holds([pc |-> "executing", base |-> run.approved, draft |-> Gone.draft,
                 edits |-> {},
                clash |-> {}])'
      BY <2>1, <2>3 DEF Holds
    <3> QED
      BY <1>1, <2>1, <3>1, <3>2, SetSession DEF Pcs
  <2> QED
    BY <2>2, <2>3
<1>13. CASE Admit(r)
  <2>1. run' = run /\ reviewer' = [reviewer EXCEPT ![r] = me]
    BY <1>0, <1>13 DEF Admit, TypeInv
  <2>2. Holds(me)'
    BY <1>0, SnapshotStep, HoldsStays
  <2>3. NextSession(r, me)
    BY <1>0, <1>1, <2>1, <2>2 DEF NextSession
  <2> QED
    BY <1>0, <2>3
<1> QED
  BY <1>2, <1>3, <1>4, <1>5, <1>6, <1>7, <1>8, <1>9, <1>10, <1>11, <1>12, <1>13 DEF Step

LEMMA SessionsStep ==
  ASSUME Inv, NEW r \in Reviewer, Step(r)
  PROVE  /\ reviewer' \in [Reviewer -> Session]
         /\ \A v \in Reviewer : reviewer'[v].base \in 1..Len(run'.revisions)
         /\ SessionsHold'
         /\ \A v \in Reviewer : v # r => reviewer'[v] = reviewer[v]
<1>0. /\ RunType /\ RunKept /\ RunType' /\ TypeInv /\ SessionsHold
      /\ snapshot # NoSnapshot => snapshot' # NoSnapshot
  BY RunStepFacts, StepRun, SnapshotStep DEF Inv, TypeInv, RunType
<1>1. PICK me \in Session : NextSession(r, me)
  BY OwnStep
<1>2. /\ reviewer' = [reviewer EXCEPT ![r] = me]
      /\ me.base \in 1..Len(run'.revisions) /\ Holds(me)'
  BY <1>1 DEF NextSession
<1>3. Latest <= Len(run'.revisions) /\ Latest \in Nat /\ Len(run'.revisions) \in Nat
  BY <1>0, RunTypeFacts DEF RunKept, RunType
<1>4. ASSUME NEW v \in Reviewer
      PROVE  /\ reviewer'[v].base \in 1..Len(run'.revisions)
             /\ Holds(reviewer[v])'
  <2>1. CASE v = r
    <3>1. reviewer'[v] = me
      BY <1>0, <1>2, <2>1 DEF TypeInv
    <3> QED
      BY <1>2, <3>1 DEF Holds
  <2>2. CASE v # r
    <3>1. PICK other : other = reviewer[v]
      OBVIOUS
    <3>2. /\ reviewer'[v] = other /\ Holds(other) /\ other \in Session
          /\ other.base \in 1..Latest
      BY <1>0, <1>2, <2>2, <3>1 DEF TypeInv, SessionsHold
    <3>3. Holds(other)'
      BY <1>0, <3>2, HoldsStays
    <3>4. other.base \in 1..Len(run'.revisions)
      BY <1>3, <3>2
    <3> QED
      BY <3>2, <3>3, <3>4 DEF Holds
  <2> QED
    BY <2>1, <2>2
<1> QED
  BY <1>0, <1>2, <1>4 DEF TypeInv, SessionsHold

-----------------------------------------------------------------------------
(* The invariant.                                                           *)

\* The consent is that of the session that approves, which was shown the latest
\* revision and was still shown it when it approved.
LEMMA ConsentStep ==
  ASSUME Inv, NEW r \in Reviewer, Step(r)
  PROVE  Consented'
<1>0. /\ RunType /\ RunKept /\ TypeInv /\ RunAccepted /\ Consented
      /\ Holds(reviewer[r]) /\ RunStep
  BY RunStepFacts, StepRun DEF Inv, TypeInv, RunType, SessionsHold
<1>1. CASE Approve(r)
  <2>1. CASE run.state = "awaiting_approval" /\ reviewer[r].base = Latest
    <3>1. /\ run' = [run EXCEPT !.state = "running", !.approved = Latest]
          /\ consent' = [revision |-> reviewer[r].base, doc |-> reviewer[r].draft]
          /\ reviewer[r].pc = "approving"
      BY <1>1, <2>1 DEF Approve, At
    <3>2. run'.approved = Latest /\ run'.doc = run.doc
      BY <1>0, <3>1 DEF RunType, RunRecord
    <3>3. reviewer[r].draft = run.doc
      BY <1>0, <2>1, <3>1 DEF Holds, RunAccepted
    <3> QED
      BY <2>1, <3>1, <3>2, <3>3 DEF Consented
  <2>2. CASE ~(run.state = "awaiting_approval" /\ reviewer[r].base = Latest)
    BY <1>0, <1>1, <2>2 DEF Approve, Consented
  <2> QED
    BY <2>1, <2>2
<1>2. CASE ~Approve(r)
  <2>1. consent' = consent
    BY <1>2 DEF Step, Open, Leave, Edit, Save, SaveRefused, ReloadAndMerge,
       ResolveLimit, EditJson, Restore, Cancel, Continue, Decline, LaunchFails,
       Claim, CreateSnapshot, PrepareFails, Resume, Admit, Settle, Crash, Editing
  <2>2. run.approved = 0 => run'.approved = 0
    <3>1. CASE Save(r) \/ Restore(r)
      BY <1>0, <3>1 DEF Save, Restore, Revise, RunType, RunRecord
    <3>2. CASE Cancel(r) \/ PrepareFails(r) \/ Settle(r)
      BY <1>0, <3>2 DEF Cancel, PrepareFails, Settle, RunType, RunRecord
    <3>3. CASE run' = run
      BY <3>3
    <3> QED
      BY <1>2, <3>1, <3>2, <3>3 DEF Step, Open, Leave, Edit, SaveRefused, ReloadAndMerge,
         ResolveLimit, EditJson, Continue, Decline, LaunchFails, Claim,
         CreateSnapshot, Resume, Admit, Crash, Editing
  <2> QED
    BY <1>0, <2>1, <2>2 DEF Consented, RunKept
<1> QED
  BY <1>1, <1>2

LEMMA InitInv == Init => Inv
<1> SUFFICES ASSUME Init
             PROVE  Inv
  OBVIOUS
<1>1. PICK source \in {"authored", "derived"}, doc \in Plan : run = Created(source, doc)
  BY DEF Init
<1> DEFINE env == IF source = "authored" THEN AuthoredEnvelope ELSE DerivedEnvelope(doc)
<1>2. doc \in Document /\ env \in Envelope /\ Plan # {}
  BY EnvelopeFacts, DocumentFacts DEF Plan
<1>3. /\ run.state = "awaiting_approval" /\ run.doc = doc /\ run.approved = 0
      /\ run.revisions = <<[doc |-> doc, from |-> 0]>>
      /\ run.authority = [source |-> source, envelope |-> env]
      /\ run = [state |-> "awaiting_approval", doc |-> doc, approved |-> 0,
                revisions |-> <<[doc |-> doc, from |-> 0]>>,
                authority |-> [source |-> source, envelope |-> env]]
  BY <1>1 DEF Created
<1> HIDE DEF env
<1>4. /\ run.revisions \in Seq(Revision) /\ Len(run.revisions) = 1
      /\ run.revisions[1] = [doc |-> doc, from |-> 0]
  BY <1>2, <1>3 DEF Revision
<1>5. run \in RunRecord
  <2>1. [source |-> source, envelope |-> env] \in Authority
    BY <1>2 DEF Authority
  <2> QED
    BY <1>2, <1>3, <1>4, <2>1 DEF RunRecord
<1>6. Gone \in Session /\ Gone.base = 1 /\ Gone.pc = "away"
  <2>1. (CHOOSE d \in Plan : TRUE) \in Document
    BY <1>2 DEF Plan
  <2> QED
    BY <2>1 DEF Gone, Session, Pcs
<1>7. TypeInv
  BY <1>3, <1>4, <1>5, <1>6 DEF Init, TypeInv
<1>8. RunAccepted
  BY <1>3, <1>4 DEF Init, RunAccepted, env
<1>9. SnapshotAccepted /\ Consented
  BY <1>3 DEF Init, SnapshotAccepted, Consented
<1>10. SessionsHold
  BY <1>6 DEF Init, SessionsHold, Holds
<1> QED
  BY <1>7, <1>8, <1>9, <1>10 DEF Inv

LEMMA InvStep == Inv /\ [Next]_vars => Inv'
<1> SUFFICES ASSUME Inv, [Next]_vars
             PROVE  Inv'
  OBVIOUS
<1>1. ASSUME NEW r \in Reviewer, Step(r)
      PROVE  Inv'
  <2>1. RunType' /\ RunAccepted'
    BY <1>1, RunStepFacts, StepRun DEF Inv, TypeInv, RunType
  <2>2. lease' \in Reviewer \cup {NoOne}
    BY <1>1 DEF Inv, TypeInv, Step, Open, Leave, Edit, Save, SaveRefused, ReloadAndMerge,
       ResolveLimit, EditJson, Restore, Cancel, Continue, Decline, LaunchFails,
       Claim, Approve, CreateSnapshot, PrepareFails, Resume, Admit, Settle, Crash,
       Editing, Release
  <2>3. TypeInv'
    BY <1>1, <2>1, <2>2, SnapshotStep, SessionsStep DEF Inv, TypeInv, RunType
  <2> QED
    BY <1>1, <2>1, <2>3, SnapshotStep, SessionsStep, ConsentStep DEF Inv
<1>2. CASE UNCHANGED vars
  BY <1>2 DEF vars, Inv, TypeInv, RunAccepted, SnapshotAccepted, Consented, SessionsHold,
     Holds
<1> QED
  BY <1>1, <1>2 DEF Next

THEOREM Invariance == Spec => []Inv
BY InitInv, InvStep, PTL DEF Spec

LEMMA InvType == Inv => TypeOK
<1> SUFFICES ASSUME Inv
             PROVE  TypeOK
  OBVIOUS
<1>1. /\ run.state \in {"awaiting_approval", "running"} \cup EndStates
      /\ run.authority.envelope \in Envelope
  BY DEF Inv, TypeInv, RunRecord, Authority
<1>2. reviewer \in [Reviewer -> [pc : Pcs, base : 1..Latest,
                       draft : Document, edits : SUBSET Field,
                       clash : SUBSET (Field \cup {"order"})]]
  BY DEF Inv, TypeInv, Session
<1> QED
  BY <1>1, <1>2 DEF Inv, TypeInv, TypeOK

\* Every record that any session writes is one the stores accept.
THEOREM Accepted == Spec => []RecordsAccepted
<1>1. Inv => RecordsAccepted
  BY InvType DEF Inv, RunAccepted, SnapshotAccepted, RecordsAccepted
<1> QED
  BY <1>1, Invariance, PTL

\* What executes is what the user who approved it was shown.
THEOREM Shown == Spec => []ApprovedAsShown
<1>1. Inv => ApprovedAsShown
  BY DEF Inv, SnapshotAccepted, Consented, ApprovedAsShown
<1> QED
  BY <1>1, Invariance, PTL

\* A saved edit differs from what was there only where its session edited.
THEOREM EditsKept == Spec => NoEditLost
<1>1. Inv /\ [Next]_vars =>
        [\A r \in Reviewer : At(r, "saving") /\ Len(run'.revisions) > Latest
              /\ run'.revisions[Latest + 1].from = 0
              /\ reviewer'[r] # reviewer[r] =>
                Changed(run.doc, run'.doc) \subseteq reviewer[r].edits]_vars
  <2> SUFFICES ASSUME Inv, Next, NEW r \in Reviewer,
                      At(r, "saving"), Len(run'.revisions) > Latest,
                      reviewer'[r] # reviewer[r]
               PROVE  Changed(run.doc, run'.doc) \subseteq reviewer[r].edits
    BY DEF vars
  <2>1. Step(r)
    BY SessionsStep DEF Next
  <2>2. Latest \in Nat /\ RunAccepted /\ RunType
    BY RunTypeFacts DEF Inv, TypeInv, RunType
  <2>3. CASE Save(r)
    <3>1. /\ Accepts(Latest, reviewer[r].draft) /\ Revise(reviewer[r].draft, 0)
          /\ reviewer[r].base = Latest
      BY <2>2, <2>3 DEF Save, Accepts
    <3>2. run'.doc = reviewer[r].draft
      BY <2>2, <3>1 DEF Revise, RunType, RunRecord
    <3>3. Changed(Doc(Latest), reviewer[r].draft) \subseteq reviewer[r].edits
      BY <3>1 DEF Inv, SessionsHold, Holds, At
    <3> QED
      BY <2>2, <3>2, <3>3 DEF RunAccepted
  <2>4. CASE ~Save(r)
    <3>1. run' = run
      BY <2>1, <2>4 DEF Step, At, Open, Leave, Edit, SaveRefused, ReloadAndMerge,
         ResolveLimit, EditJson, Restore, Cancel, Continue, Decline, LaunchFails,
         Claim, Approve, CreateSnapshot, PrepareFails, Resume, Admit, Settle, Crash, Editing
    <3> QED
      BY <2>2, <3>1
  <2> QED
    BY <2>3, <2>4
<1> QED
  BY <1>1, Invariance, PTL DEF Spec, NoEditLost

\* Revisions are only appended, and an approved plan and its envelope are final.
THEOREM History == Spec => HistoryKept
<1>1. Inv /\ [Next]_vars =>
        [/\ Latest <= Len(run'.revisions)
         /\ \A n \in 1..Latest : run'.revisions[n] = run.revisions[n]
         /\ run.approved # 0 =>
              /\ run'.approved = run.approved /\ run'.authority = run.authority
              /\ run'.revisions = run.revisions
         /\ run.authority.source = "authored" =>
              run'.authority = run.authority]_vars
  <2> SUFFICES ASSUME Inv, Next
               PROVE  RunKept
    BY DEF RunKept, vars
  <2> QED
    BY RunStepFacts, StepRun DEF Next, Inv, TypeInv, RunType
<1> QED
  BY <1>1, Invariance, PTL DEF Spec, HistoryKept
=============================================================================
