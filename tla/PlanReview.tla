----------------------------- MODULE PlanReview -----------------------------
(****************************************************************************)
(* From a proposed plan to an approved one that executes: several sessions  *)
(* review the same stored run, each in the plan editor of its own terminal  *)
(* (src/planning/plan-editor.ts, reviewAndLaunchRun in src/extension.ts);   *)
(* revisions are appended to the run (src/domain/run.ts), every one of them *)
(* inside the authority envelope the run was frozen under                   *)
(* (src/security/authority.ts, envelope.ts); one session approves the       *)
(* revision it was shown and executes it, and the running steps may propose *)
(* further ones (src/engine/admission.ts).                                  *)
(*                                                                          *)
(* A plan document is what the editor merges field by field: the title,     *)
(* each task with the area it asks to change and the tasks it depends on,   *)
(* the suite of final validation commands and the worker limit; the order   *)
(* of the tasks changes with the tasks there are.  Paths are areas, a       *)
(* withheld path an area outside the envelope.  Every task is a change step *)
(* with the full capabilities of its kind, as the translation of task plans *)
(* makes it.                                                                *)
(****************************************************************************)
EXTENDS Naturals, Sequences, FiniteSets

CONSTANTS
    Reviewer,        \* sessions that review the run
    Task,            \* task identifiers
    Title,           \* titles of a plan
    Area,            \* what a task may ask to change
    Command,         \* final validation commands
    WorkerLimit,     \* values of maxConcurrentWorkers
    Absent,          \* a task the document does not have
    NoOne,           \* nobody holds the lifecycle lease
    AuthoredAreas,   \* what an authored envelope allows to change
    AuthoredSuite,   \* the validation an authored envelope requires
    MaxPlanSteps,    \* MAX_WORKFLOW_PLAN_STEPS
    MaxEdits,        \* bound: edits and restores that are asked for
    MaxChanges,      \* bound: fields one edit changes
    MaxCrashes       \* bound: sessions that die

ASSUME ReviewAssumption ==
    /\ Absent \notin [area : Area, needs : SUBSET Task]
    /\ IsFiniteSet(Task) /\ Task \cap {"title", "suite", "limit", "order"} = {}
    /\ NoOne \notin Reviewer
    /\ AuthoredAreas \subseteq Area
    /\ AuthoredSuite \subseteq Command

VARIABLES run, snapshot, reviewer, lease, consent, count

vars == <<run, snapshot, reviewer, lease, consent, count>>

Suite == (SUBSET Command) \ {{}}

TaskDefinition == [area : Area, needs : SUBSET Task]

Document == [title : Title, tasks : [Task -> TaskDefinition \cup {Absent}],
             suite : Suite, limit : WorkerLimit]

Tasks(doc) == {t \in Task : doc.tasks[t] # Absent}

\* validateTaskPlan: there is a task, and each depends on tasks of the plan, in
\* no circle.
Valid(doc) ==
    /\ Tasks(doc) # {}
    /\ \A t \in Tasks(doc) : doc.tasks[t].needs \subseteq Tasks(doc)
    /\ \A some \in SUBSET Tasks(doc) : some # {} =>
         \E t \in some : doc.tasks[t].needs \cap some = {}
Plan == {doc \in Document : Valid(doc)}

Field == Task \cup {"title", "suite", "limit"}
Get(doc, f) == IF f \in Task THEN doc.tasks[f] ELSE doc[f]
Changed(from, to) == {f \in Field : Get(from, f) # Get(to, f)}

-----------------------------------------------------------------------------
(* Authority.                                                               *)

AreasOf(doc) == {doc.tasks[t].area : t \in Tasks(doc)}

\* deriveAuthorityEnvelope: what the plan already asks for.
DerivedEnvelope(doc) == [areas |-> AreasOf(doc), required |-> doc.suite]

AuthoredEnvelope == [areas |-> AuthoredAreas, required |-> AuthoredSuite]

\* planAuthorityIssues finds nothing: every path is granted, and the plan runs
\* every required command.
WithinAuthority(areas, suite, envelope) ==
    areas \subseteq envelope.areas /\ envelope.required \subseteq suite

Fits(doc, envelope) == WithinAuthority(AreasOf(doc), doc.suite, envelope)

\* No envelope ever follows the plan.
KeepEnvelope(authority, doc) == authority.envelope

\* reviseRunAuthority: an authored envelope stays, a derived one follows.
RevisedEnvelope(authority, doc) ==
    IF authority.source = "authored" THEN authority.envelope
                                     ELSE DerivedEnvelope(doc)

-----------------------------------------------------------------------------
(* The stored run and its revisions.                                        *)

EndStates == {"completed", "failed", "cancelled"}
NoSnapshot == [state |-> "none"]

Doc(n) == run.revisions[n].doc
Latest == Len(run.revisions)

\* createOrchestrationRun; a plan outside an authored envelope is no run.
Created(source, doc) ==
    [state |-> "awaiting_approval", doc |-> doc, approved |-> 0,
     revisions |-> <<[doc |-> doc, from |-> 0]>>,
     authority |-> [source |-> source,
        envelope |-> IF source = "authored" THEN AuthoredEnvelope
                                            ELSE DerivedEnvelope(doc)]]

Gone == [pc |-> "away", base |-> 1, draft |-> CHOOSE doc \in Plan : TRUE,
         edits |-> {}, clash |-> {}]

Init ==
    /\ run \in {Created(s, d) : s \in {"authored", "derived"}, d \in Plan}
    /\ Fits(run.doc, run.authority.envelope)
    /\ snapshot = NoSnapshot
    /\ reviewer = [r \in Reviewer |-> Gone]
    /\ lease = NoOne
    /\ consent = [revision |-> 0, doc |-> Gone.draft]
    /\ count = [edits |-> 0, crashes |-> 0]

\* A plan that can be revised until the run ends.
EditableUntilEnd == run.state \notin EndStates

\* assertPlanEditable: nothing of an execution exists before the approval.
Editable == run.state = "awaiting_approval"

\* A new revision, with the envelope that goes with it.
Revise(doc, from) ==
    run' = [run EXCEPT !.doc = doc,
              !.revisions = Append(@, [doc |-> doc, from |-> from]),
              !.authority.envelope = RevisedEnvelope(run.authority, doc)]

\* reviseRunPlan and restoreRunPlanRevision accept the document.
Accepts(base, doc) ==
    /\ Editable /\ base = Latest
    /\ Fits(doc, RevisedEnvelope(run.authority, doc))

-----------------------------------------------------------------------------
(* The plan editor.  A reviewer's base is the revision its snapshot shows,  *)
(* its draft the document it wants saved, its edits the fields it changed   *)
(* itself since the snapshot it started from, its clash the conflicts it    *)
(* still has to decide.                                                     *)

At(r, pc) == reviewer[r].pc = pc
Puts(r, pc, base, draft, edits, clash) ==
    reviewer' = [reviewer EXCEPT
        ![r] = [pc |-> pc, base |-> base, draft |-> draft, edits |-> edits,
                clash |-> clash]]
Set(r, pc, base, draft, edits) == Puts(r, pc, base, draft, edits, {})
Choose(r, base) == Set(r, "choosing", base, Gone.draft, {})
Away(r) == reviewer' = [reviewer EXCEPT ![r] = Gone]

Editing == UNCHANGED <<run, snapshot, lease, consent, count>>

CountEdit == count.edits < MaxEdits /\ count' = [count EXCEPT !.edits = @ + 1]

\* A new run is reviewed at once, a persisted one by /orchestrate-resume.
Open(r) ==
    /\ At(r, "away") /\ Editable /\ Choose(r, Latest) /\ Editing

Leave(r) ==
    /\ At(r, "choosing") /\ Away(r) /\ Editing

\* A menu entry, or the whole plan as JSON; an invalid candidate goes back to
\* the user until it is valid.
Edit(r) ==
    /\ At(r, "choosing") /\ CountEdit
    /\ \E doc \in Plan :
         LET edits == Changed(Doc(reviewer[r].base), doc)
         IN  /\ Cardinality(edits) <= MaxChanges
             /\ Set(r, "saving", reviewer[r].base, doc, edits)
    /\ UNCHANGED <<run, snapshot, lease, consent>>

\* persistence.save: an unchanged plan makes no revision.
Save(r) ==
    LET me == reviewer[r] IN
    /\ At(r, "saving") /\ Accepts(me.base, me.draft)
    /\ IF me.draft = run.doc
       THEN Choose(r, Latest) /\ UNCHANGED run
       ELSE Revise(me.draft, 0) /\ Choose(r, Latest + 1)
    /\ UNCHANGED <<snapshot, lease, consent, count>>

\* Refused: the snapshot was stale, the plan asks for more than the envelope
\* grants, or the run is no longer one to edit.
SaveRefused(r) ==
    LET me == reviewer[r] IN
    /\ At(r, "saving") /\ ~Accepts(me.base, me.draft)
    /\ Set(r, "reloading", me.base, me.draft, me.edits)
    /\ Editing

\* The draft replaces whatever was saved meanwhile.
MineField(base, mine, latest, f) == Get(mine, f)

\* mergeConcurrentCandidate: a field is taken from the side that changed it.
MergedField(base, mine, latest, f) ==
    IF Get(mine, f) = Get(base, f) THEN Get(latest, f) ELSE Get(mine, f)
Merged(base, mine, latest) ==
    LET M(f) == MergedField(base, mine, latest, f)
    IN  [title |-> M("title"), tasks |-> [t \in Task |-> M(t)],
         suite |-> M("suite"), limit |-> M("limit")]

\* The order of the tasks conflicts as well, when both sides have other tasks.
Reordered(from, to) == IF Tasks(from) # Tasks(to) THEN {"order"} ELSE {}
Differences(from, to) == Changed(from, to) \cup Reordered(from, to)
Conflicts(base, mine, latest) ==
    Differences(base, mine) \cap Differences(base, latest)
        \cap Differences(mine, latest)

\* A candidate that validateTaskPlan refuses goes back to the user.
Candidate(doc) == IF Valid(doc) THEN "saving" ELSE "correcting"

\* Without a conflict the merge is saved right away against the reloaded
\* revision, whatever the save was refused for.
ReloadAndMerge(r) ==
    LET me == reviewer[r]
        merged == Merged(Doc(me.base), me.draft, run.doc)
        clash == Conflicts(Doc(me.base), me.draft, run.doc)
    IN  /\ At(r, "reloading")
        /\ Puts(r, IF clash # {} THEN "resolving" ELSE Candidate(merged),
                Latest, merged, me.edits, clash)
        /\ Editing

\* The worker limit is the first to be decided, mine or the latest; without an
\* answer the edit is dropped.
ResolveLimit(r) ==
    LET me == reviewer[r] IN
    /\ At(r, "resolving") /\ "limit" \in me.clash
    /\ \/ Choose(r, me.base)
       \/ \E limit \in {me.draft.limit, Doc(me.base).limit} :
            LET doc == [me.draft EXCEPT !.limit = limit]
                left == me.clash \ {"limit"}
            IN  Puts(r, IF left # {} THEN "resolving" ELSE Candidate(doc),
                     me.base, doc, me.edits, left)
    /\ Editing

\* The plan as JSON, which an invalid candidate or the other conflicts bring up
\* with my values in it, until what the user makes of it is valid.
EditJson(r) ==
    LET me == reviewer[r] IN
    /\ At(r, "correcting") \/ (At(r, "resolving") /\ "limit" \notin me.clash)
    /\ \/ Choose(r, me.base)
       \/ \E doc \in Plan :
            LET edits == Changed(me.draft, doc)
            IN  /\ doc.limit = me.draft.limit /\ Cardinality(edits) <= MaxChanges
                /\ Set(r, "saving", me.base, doc, me.edits \cup edits)
    /\ Editing

\* restoreRunPlanRevision; a refusal only reloads.
Restore(r) ==
    LET me == reviewer[r] IN
    /\ At(r, "choosing") /\ CountEdit
    /\ \E n \in 1..(me.base - 1) :
         IF Accepts(me.base, Doc(n))
         THEN Revise(Doc(n), n) /\ Choose(r, Latest + 1)
         ELSE Choose(r, Latest) /\ UNCHANGED run
    /\ UNCHANGED <<snapshot, lease, consent>>

\* The editor's cancellation always goes to the orchestrator, which settles
\* the stored run.
Cancel(r) ==
    /\ At(r, "choosing") /\ Away(r)
    /\ run' = IF run.state \in EndStates THEN run
              ELSE [run EXCEPT !.state = "cancelled"]
    /\ UNCHANGED <<snapshot, lease, consent, count>>

-----------------------------------------------------------------------------
(* Approval and execution.                                                  *)

\* The run is loaded again for the approval screen, which shows its revision
\* and document.
Continue(r) ==
    /\ At(r, "choosing") /\ Set(r, "confirming", Latest, run.doc, {})
    /\ Editing

\* Declined: back to the editor with the run the screen showed.
Decline(r) ==
    /\ At(r, "confirming") /\ Choose(r, reviewer[r].base) /\ Editing

\* The repository has moved, the lease is taken, or the preflight fails: the
\* command ends with an error.
LaunchFails(r) ==
    /\ At(r, "confirming") /\ Away(r) /\ Editing

Claim(r) ==
    /\ At(r, "confirming") /\ lease = NoOne
    /\ reviewer' = [reviewer EXCEPT ![r].pc = "approving"]
    /\ lease' = r
    /\ UNCHANGED <<run, snapshot, consent, count>>

Release(r) == lease' = NoOne /\ Away(r)

\* approveRun without the revision the screen showed.
ApproveLatest(r) ==
    LET me == reviewer[r] IN
    /\ At(r, "approving")
    /\ IF run.state = "awaiting_approval"
       THEN /\ run' = [run EXCEPT !.state = "running", !.approved = Latest]
            /\ consent' = [revision |-> me.base, doc |-> me.draft]
            /\ Set(r, "preparing", me.base, run.doc, {})
            /\ UNCHANGED lease
       ELSE Release(r) /\ UNCHANGED <<run, consent>>
    /\ UNCHANGED <<snapshot, count>>

\* approveRun, with the revision the screen showed.
Approve(r) ==
    LET me == reviewer[r] IN
    /\ At(r, "approving")
    /\ IF run.state = "awaiting_approval" /\ me.base = Latest
       THEN /\ run' = [run EXCEPT !.state = "running", !.approved = Latest]
            /\ consent' = [revision |-> me.base, doc |-> me.draft]
            /\ Set(r, "preparing", me.base, run.doc, {})
            /\ UNCHANGED lease
       ELSE Release(r) /\ UNCHANGED <<run, consent>>
    /\ UNCHANGED <<snapshot, count>>

\* prepareIntegrationBranch, then the snapshot of the run as it was approved.
CreateSnapshot(r) ==
    /\ At(r, "preparing") /\ snapshot = NoSnapshot
    /\ snapshot' = [state |-> "running", doc |-> reviewer[r].draft,
                    authority |-> run.authority, grown |-> {}, steps |->
                        Cardinality(Tasks(reviewer[r].draft))]
    /\ Set(r, "executing", reviewer[r].base, Gone.draft, {})
    /\ UNCHANGED <<run, lease, consent, count>>

\* The failure is written over whatever the run has become.
PrepareFails(r) ==
    /\ At(r, "preparing") /\ Release(r)
    /\ run' = [run EXCEPT !.state = "failed"]
    /\ UNCHANGED <<snapshot, consent, count>>

\* A run that was approved by a session that died: its snapshot is created when
\* it never reached the disk.
Resume(r) ==
    /\ At(r, "away") /\ lease = NoOne /\ run.state = "running"
    /\ lease' = r
    /\ IF snapshot = NoSnapshot
       THEN Set(r, "preparing", run.approved, run.doc, {})
       ELSE Set(r, "executing", run.approved, Gone.draft, {})
    /\ UNCHANGED <<run, snapshot, consent, count>>

\* admitSteps: a running step proposes steps that change the given areas.  The
\* grown plan must fit the frozen envelope and the limit on steps.
Admit(r) ==
    /\ At(r, "executing") /\ snapshot.state = "running"
    /\ snapshot.steps + 1 <= MaxPlanSteps
    /\ \E area \in Area :
         LET areas == AreasOf(snapshot.doc) \cup snapshot.grown \cup {area}
         IN  /\ WithinAuthority(areas, snapshot.doc.suite,
                                snapshot.authority.envelope)
             /\ snapshot' = [snapshot EXCEPT !.grown = @ \cup {area},
                                             !.steps = @ + 1]
    /\ UNCHANGED <<run, reviewer, lease, consent, count>>

\* The execution ends and settles the stored run; a cancelled one stays so.
Settle(r) ==
    /\ At(r, "executing") /\ Release(r)
    /\ \E end \in {"completed", "failed"} :
         /\ snapshot' = [snapshot EXCEPT !.state = end]
         /\ run' = IF run.state = "running" THEN [run EXCEPT !.state = end]
                                            ELSE run
    /\ UNCHANGED <<consent, count>>

\* A terminal is closed or its process dies; its lease goes stale.
Crash(r) ==
    /\ ~At(r, "away") /\ count.crashes < MaxCrashes
    /\ count' = [count EXCEPT !.crashes = @ + 1]
    /\ Away(r)
    /\ lease' = IF lease = r THEN NoOne ELSE lease
    /\ UNCHANGED <<run, snapshot, consent>>

Step(r) ==
    \/ Open(r) \/ Leave(r) \/ Edit(r) \/ Save(r) \/ SaveRefused(r)
    \/ ReloadAndMerge(r) \/ ResolveLimit(r) \/ EditJson(r)
    \/ Restore(r) \/ Cancel(r) \/ Continue(r) \/ Decline(r) \/ LaunchFails(r)
    \/ Claim(r) \/ Approve(r) \/ CreateSnapshot(r) \/ PrepareFails(r)
    \/ Resume(r) \/ Admit(r) \/ Settle(r) \/ Crash(r)

Next == \E r \in Reviewer : Step(r)

Spec == Init /\ [][Next]_vars

\* The editor's own steps, which wait for nobody.
Editor(r) == Save(r) \/ SaveRefused(r) \/ ReloadAndMerge(r)

FairSpec == Spec /\ \A r \in Reviewer : WF_vars(Editor(r))

-----------------------------------------------------------------------------
(* What the review promises.                                                *)

Envelope == [areas : SUBSET Area, required : Suite \cup {{}}]
Pcs == {"away", "choosing", "saving", "reloading", "resolving", "correcting",
        "confirming", "approving", "preparing", "executing"}

TypeOK ==
    /\ run.state \in {"awaiting_approval", "running"} \cup EndStates
    /\ run.approved \in 0..Latest /\ run.authority.envelope \in Envelope
    /\ reviewer \in [Reviewer -> [pc : Pcs, base : 1..Latest,
                       draft : Document, edits : SUBSET Field,
                       clash : SUBSET (Field \cup {"order"})]]
    /\ lease \in Reviewer \cup {NoOne}

\* validateStoredRun and assertStoredAuthorityConsistency: every write of the
\* run and of its snapshot is one the stores accept, whoever writes it and
\* however the writes of the sessions interleave - the plan is the latest
\* revision, inside the frozen envelope, a derived envelope is the one its plan
\* asks for, and a plan that grew while it ran is still inside it and within the
\* limit on steps (which nothing asks of the plan it started with).
RecordsAccepted ==
    /\ TypeOK
    /\ Fits(run.doc, run.authority.envelope) /\ run.doc = Doc(Latest)
    /\ run.authority.source = "derived" =>
         run.authority.envelope = DerivedEnvelope(run.doc)
    /\ \A n \in 1..Latest : run.revisions[n].from < n
    /\ run.state = "awaiting_approval" => run.approved = 0
    /\ run.state \in {"running", "completed"} => run.approved # 0
    /\ snapshot # NoSnapshot =>
         /\ WithinAuthority(AreasOf(snapshot.doc) \cup snapshot.grown,
                snapshot.doc.suite, snapshot.authority.envelope)
         /\ snapshot.grown # {} => snapshot.steps <= MaxPlanSteps

\* What executes is what the approving user was shown: the same revision with
\* the same document, under the envelope the run is frozen with, although other
\* sessions edit, restore, cancel and approve the run at the same time.
ApprovedAsShown ==
    /\ run.approved # 0 =>
         run.approved = consent.revision /\ consent.doc = run.doc
    /\ snapshot # NoSnapshot =>
         snapshot.doc = consent.doc /\ snapshot.authority = run.authority

\* A session's edit never undoes what another session saved: a saved revision
\* differs from the one before it only in fields that the session itself
\* edited, or it restores an earlier revision.
NoEditLost ==
    [][\A r \in Reviewer : At(r, "saving") /\ Len(run'.revisions) > Latest
          /\ run'.revisions[Latest + 1].from = 0
          /\ reviewer'[r] # reviewer[r] =>
            Changed(run.doc, run'.doc) \subseteq reviewer[r].edits]_vars

\* Revisions are only appended, and after the approval neither the plan nor the
\* envelope changes; an authored envelope never does.
HistoryKept ==
    [][/\ Latest <= Len(run'.revisions)
       /\ \A n \in 1..Latest : run'.revisions[n] = run.revisions[n]
       /\ run.approved # 0 =>
            /\ run'.approved = run.approved /\ run'.authority = run.authority
            /\ run'.revisions = run.revisions
       /\ run.authority.source = "authored" =>
            run'.authority = run.authority]_vars

\* A candidate the user asked to save is saved or comes back to the user
\* (README.md:113 and 208: the editor changes the plan, a revision outside the
\* envelope is refused).
SaveComesBack ==
    \A r \in Reviewer : At(r, "saving") ~> ~(At(r, "saving") \/ At(r, "reloading"))
=============================================================================
