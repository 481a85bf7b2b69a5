--------------------------- MODULE EngineLifecycle ---------------------------
(***************************************************************************)
(* What a workflow engine run promises to the change run around it, with   *)
(* the steps of the plan forgotten: the lifecycle state of its snapshot,   *)
(* what is left of its attempts, and whether a process executes it.        *)
(*                                                                         *)
(* work is "active" while an attempt is, "interrupted" when the newest     *)
(* attempt of some step was, "failed" when a step has failed, and "none"   *)
(* otherwise; each excludes the ones after it.                             *)
(***************************************************************************)
VARIABLES life, work, on

vars == <<life, work, on>>

Life == {"running", "completed", "failed", "cancelled"}
Work == {"active", "interrupted", "failed", "none"}

Init == life = "running" /\ work = "none" /\ on = TRUE

\* Attempts start only in a running run.
NothingStarts == work' = "active" => work = "active"

\* A running run ends; it is complete only with no work left.
Ends ==
  /\ life = "running"
  /\ life' \in {"completed", "failed", "cancelled"}
  /\ life' = "completed" => work' = "none"

\* One step of the loop: work starts, ends, or ends the run.
Running == on /\ life = "running" /\ life' = "running" /\ work' \in Work
Ending == on /\ Ends /\ work' \in Work /\ NothingStarts

\* The loop of a run that stopped collects what still runs.  A failure to
\* integrate makes a cancelled run a failed one.
Stopping ==
  /\ on
  /\ life \in {"failed", "cancelled"}
  /\ life' \in {life, "failed"}
  /\ work' \in Work
  /\ NothingStarts

Execute == (Running \/ Ending \/ Stopping) /\ UNCHANGED on

\* The loop returns with nothing running and the run settled, ...
Return ==
  /\ on /\ ~on'
  /\ work # "active"
  /\ UNCHANGED work
  /\ Ends \/ (life # "running" /\ UNCHANGED life)

\* ... or its process dies.
Crash == on /\ ~on' /\ UNCHANGED <<life, work>>

\* A cancellation from outside the loop settles a running run.
Cancel == UNCHANGED <<work, on>> /\ Ends

\* Recovery settles the active attempts of a dead process, and a running run
\* goes on; a step out of its budget fails the run first.
Recover ==
  /\ ~on
  /\ NothingStarts /\ work' \in Work /\ (work # "active" => work' = work)
  /\ work' # "active"
  /\ life' = life \/ (life = "running" /\ work = "active" /\ life' = "failed")
  /\ on' => life' = "running"

\* A resume runs the interrupted steps again, a retry the failed ones.
Relaunch == ~on /\ work = "interrupted" /\ life' = "running" /\ on' /\ UNCHANGED work
Reopen == ~on /\ work = "failed" /\ life' = "running" /\ work' = "none" /\ on'

Next == Execute \/ Return \/ Crash \/ Cancel \/ Recover \/ Relaunch \/ Reopen

Spec == Init /\ [][Next]_vars
=============================================================================
