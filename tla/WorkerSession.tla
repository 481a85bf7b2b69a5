---------------------------- MODULE WorkerSession ----------------------------
(***************************************************************************)
(* The session of one step attempt with its worker: StepExecutor bounds    *)
(* the attempt and races it with its abort (engine/executor.ts),           *)
(* StepWorkerRunner spawns the worker, prompts it, watches it and stops it *)
(* (engine/steps/worker-runner.ts), and startPrompt speaks to it over one  *)
(* stream of the server (workers/server-backend.ts).                       *)
(*                                                                         *)
(* The server and the worker are external: they send what startPrompt      *)
(* handles, in any order, and may stop at any time.                        *)
(***************************************************************************)
EXTENDS Integers, Sequences

CONSTANTS Ids,                \* the ids a worker gives its UI requests
          MaxFrames,          \* bound on the events a worker sends
          MaxWire,            \* bound on the frames sent and not yet delivered
          MaxStatusFailures   \* MAX_CONSECUTIVE_STATUS_FAILURES

ASSUME SessionAssumption ==
  /\ MaxFrames \in Nat
  /\ MaxWire \in Nat
  /\ MaxStatusFailures \in Nat \ {0}

VARIABLES
  step,        \* the outcome of the attempt, as the executor settles it
  signal,      \* the abort signal of the handler
  controller,  \* the abort signal of the runner, which also aborts by itself
  runner,      \* which await of StepWorkerRunner.run the handler is at
  result,      \* what the runner returned
  polling,     \* the status poll: whether one waits, and failures in a row
  start,       \* the promise of startPrompt
  completion,  \* the promise of the execution, "none" until it is terminal
  socket,      \* the stream of startPrompt
  left,        \* frames left of the chunk that is being processed
  checking,    \* the status request after a disconnect
  failed,      \* whether the last run of the agent, or its last retry, failed
  asks,        \* the UI requests registered, and how each was resolved
  writes,      \* the answers being written
  worker,      \* the process of the worker
  wire,        \* frames the server sent and the stream has not delivered
  prompted,    \* whether the server has the prompt
  sent         \* the frames it sends only once, and how many others it sent

execution == <<step, signal, controller, runner, result, polling>>
stream == <<start, completion, socket, asks>>
reading == <<left, failed>>
server == <<worker, wire, prompted, sent>>
vars == <<execution, stream, reading, checking, writes, server>>

Frame == [kind : {"ready", "response", "agentEnd", "retryEnd"}, ok : BOOLEAN]
           \cup [kind : {"ask"}, id : Ids] \cup [kind : {"settled", "error"}]

Resolution == {"open", "answered", "timeout", "aborted", "closed"}
Outcome == {"succeeded", "failed", "cancelled"}

TypeOK ==
  /\ step \in Outcome \cup {"running"}
  /\ signal \in BOOLEAN /\ controller \in BOOLEAN
  /\ runner \in {"idle", "spawning", "unspawning", "spawned", "starting", "executing",
                 "stopping", "cleanup", "done"}
  /\ result \in Outcome \cup {"none"}
  /\ polling \in [asked : BOOLEAN, failures : 0..MaxStatusFailures]
  /\ start \in {"none", "pending", "resolved", "rejected"}
  /\ completion \in {"none", "succeeded", "failed", "aborted"}
  /\ socket \in {"none", "open", "closed"}
  /\ left \in Nat
  /\ checking \in BOOLEAN
  /\ failed \in [agent : BOOLEAN, retry : BOOLEAN]
  /\ asks \in Seq([id : Ids, how : Resolution, late : BOOLEAN])
  /\ writes \subseteq DOMAIN asks
  /\ worker \in {"none", "online", "dead", "stopped"}
  /\ wire \in Seq(Frame)
  /\ prompted \in BOOLEAN
  /\ sent \in [once : SUBSET {"ready", "response", "settled"}, others : 0..MaxFrames]

Init ==
  /\ step = "running" /\ signal = FALSE /\ controller = FALSE
  /\ runner = "idle" /\ result = "none"
  /\ polling = [asked |-> FALSE, failures |-> 0]
  /\ start = "none" /\ completion = "none" /\ socket = "none"
  /\ left = 0 /\ checking = FALSE
  /\ failed = [agent |-> FALSE, retry |-> FALSE]
  /\ asks = <<>> /\ writes = {}
  /\ worker = "none" /\ wire = <<>> /\ prompted = FALSE
  /\ sent = [once |-> {}, others |-> 0]

\* A chunk is processed to its end before anything else runs in this process.
Idle == left = 0

-----------------------------------------------------------------------------
(* The promises of startPrompt.                                            *)

Terminal == completion # "none"

Pending == {n \in DOMAIN asks : asks[n].how = "open"}

Resolve(A, how) ==
  asks' = [n \in DOMAIN asks |-> IF n \in A THEN [asks[n] EXCEPT !.how = how] ELSE asks[n]]

\* Faulty variant of FinishCompletion: what the worker asked stays pending.
FinishQuietly(to) ==
  IF Terminal THEN UNCHANGED stream
  ELSE /\ completion' = to
       /\ socket' = IF start = "resolved" THEN "closed" ELSE socket
       /\ UNCHANGED <<asks, start>>

FinishCompletion(to) ==
  IF Terminal THEN UNCHANGED stream
  ELSE /\ completion' = to
       /\ Resolve(Pending, IF to = "aborted" THEN "aborted" ELSE "closed")
       /\ socket' = IF start = "resolved" THEN "closed" ELSE socket
       /\ UNCHANGED start

RejectStart(how) ==
  /\ start' = "rejected"
  /\ completion' = IF Terminal THEN completion ELSE "failed"
  /\ Resolve(Pending, how)
  /\ socket' = "closed"

\* An error before the prompt was accepted rejects the start, a later one
\* fails the execution.
FailStart == IF start = "pending" THEN RejectStart("closed") ELSE FinishCompletion("failed")

HandleAbort == IF start = "pending" THEN RejectStart("aborted") ELSE FinishCompletion("aborted")

\* The abort of the runner reaches the stream once startPrompt was called.
AbortStream == IF start = "none" THEN UNCHANGED stream ELSE HandleAbort

-----------------------------------------------------------------------------
(* Frames, each handled to its end.                                        *)

AcceptPrompt ==
  IF start = "pending"
  THEN /\ start' = "resolved"
       /\ socket' = IF Terminal THEN "closed" ELSE socket
       /\ UNCHANGED <<completion, asks>>
  ELSE UNCHANGED stream

\* The policy of the run answers at once; the write is refused when the
\* execution is over.  A request with the id of a pending one is an error.
RegisterUiRequest(id) ==
  IF \E n \in Pending : asks[n].id = id
  THEN FailStart /\ UNCHANGED writes
  ELSE /\ asks' = Append(asks, [id |-> id, how |-> "open", late |-> Terminal])
       /\ writes' = writes \cup {Len(asks) + 1}
       /\ UNCHANGED <<start, completion, socket>>

Settle == FinishCompletion(IF failed.agent \/ failed.retry THEN "failed" ELSE "succeeded")

HandleMessage(f) ==
  /\ prompted' = (prompted \/ (f.kind = "ready" /\ f.ok /\ socket = "open"))
  /\ failed' = CASE f.kind = "agentEnd" -> [failed EXCEPT !.agent = ~f.ok]
                 [] f.kind = "retryEnd" -> [failed EXCEPT !.retry = ~f.ok]
                 [] OTHER -> failed
  /\ \/ f.kind \in {"agentEnd", "retryEnd"} /\ UNCHANGED <<stream, writes>>
     \/ f.kind = "ready" /\ (IF f.ok THEN UNCHANGED stream ELSE FailStart) /\ UNCHANGED writes
     \/ f.kind = "response" /\ (IF f.ok THEN AcceptPrompt ELSE FailStart) /\ UNCHANGED writes
     \/ f.kind = "error" /\ FailStart /\ UNCHANGED writes
     \/ f.kind = "settled" /\ Settle /\ UNCHANGED writes
     \/ f.kind = "ask" /\ RegisterUiRequest(f.id)

\* A chunk has some of the frames that were sent.  The stream may be closed by
\* one of them: the rest of the chunk is processed all the same.
Deliver ==
  /\ wire # <<>>
  /\ \/ left > 0 /\ left' = left - 1
     \/ left = 0 /\ socket = "open" /\ left' \in 0..(Len(wire) - 1)
  /\ wire' = Tail(wire)
  /\ HandleMessage(Head(wire))
  /\ UNCHANGED <<execution, checking, worker, sent>>

-----------------------------------------------------------------------------
(* What else happens to the stream.                                        *)

\* The stream ends or breaks.  What is said of an accepted prompt then waits
\* for the status of the worker.
Disconnect ==
  /\ Idle /\ socket = "open"
  /\ IF start = "pending" THEN RejectStart("closed") /\ UNCHANGED checking
     ELSE socket' = "closed" /\ checking' = TRUE /\ UNCHANGED <<start, completion, asks>>
  /\ wire' = <<>>
  /\ UNCHANGED <<execution, reading, writes, worker, prompted, sent>>

StatusAnswered ==
  /\ Idle /\ checking
  /\ checking' = FALSE
  /\ FinishCompletion("failed")
  /\ UNCHANGED <<execution, reading, writes, server>>

StartTimesOut ==
  /\ Idle /\ start = "pending"
  /\ RejectStart("closed")
  /\ UNCHANGED <<execution, reading, checking, writes, server>>

\* What the answer to request n resolves: that request, if it is still pending.
Answered(n) == {n} \cap Pending

\* Once the execution is over its requests are resolved and writes refused.
WriteDone(n) ==
  /\ Idle /\ n \in writes
  /\ ~Terminal
  /\ writes' = writes \ {n}
  /\ Resolve(Answered(n), "answered")
  /\ UNCHANGED <<execution, start, completion, socket, reading, checking, server>>

WriteFails(n) ==
  /\ Idle /\ n \in writes
  /\ writes' = writes \ {n}
  /\ IF n \in Pending THEN FailStart ELSE UNCHANGED stream
  /\ UNCHANGED <<execution, reading, checking, server>>

UiTimesOut(n) ==
  /\ Idle /\ n \in Pending
  /\ Resolve({n}, "timeout")
  /\ UNCHANGED <<execution, start, completion, socket, reading, checking, writes, server>>

-----------------------------------------------------------------------------
(* The runner.                                                             *)

RunnerStarts ==
  /\ runner = "idle"
  /\ IF signal THEN runner' = "done" /\ result' = "cancelled"
     ELSE runner' = "spawning" /\ UNCHANGED result
  /\ UNCHANGED <<step, signal, controller, polling, stream, reading, checking, writes, server>>

\* A spawn that fails may have left a worker behind.  One that was not attested
\* or configured is stopped first.
SpawnReturns ==
  /\ Idle /\ runner = "spawning"
  /\ \/ worker' = "online" /\ runner' \in {"spawned", "unspawning"} /\ UNCHANGED result
     \/ /\ worker' \in {"none", "online"}
        /\ runner' = "done"
        /\ result' = IF signal THEN "cancelled" ELSE "failed"
  /\ UNCHANGED <<step, signal, controller, polling, stream, reading, checking, writes,
                 wire, prompted, sent>>

\* The observer of spawns may throw.
SpawnObserverFails ==
  /\ runner = "spawned"
  /\ runner' = "cleanup"
  /\ UNCHANGED <<step, signal, controller, result, polling, stream, reading, checking,
                 writes, server>>

\* Faulty variant of StartPrompt: a signal that is aborted already is missed.
StartPromptUnchecked ==
  /\ runner = "spawned"
  /\ runner' = "starting"
  /\ start' = "pending" /\ socket' = "open"
  /\ UNCHANGED <<step, signal, controller, result, polling, completion, asks, reading,
                 checking, writes, server>>

StartPrompt ==
  /\ runner = "spawned"
  /\ runner' = "starting"
  /\ IF controller
     THEN start' = "rejected" /\ completion' = "failed" /\ socket' = "closed"
     ELSE start' = "pending" /\ socket' = "open" /\ UNCHANGED completion
  /\ UNCHANGED <<step, signal, controller, result, polling, asks, reading, checking,
                 writes, server>>

StartReturns ==
  /\ Idle /\ runner = "starting"
  /\ \/ start = "resolved" /\ runner' = "executing"
     \/ start = "rejected" /\ runner' = "cleanup"
  /\ UNCHANGED <<step, signal, controller, result, polling, stream, reading, checking,
                 writes, server>>

Complete ==
  /\ Idle /\ runner = "executing" /\ Terminal
  /\ runner' = "stopping"
  /\ UNCHANGED <<step, signal, controller, result, polling, stream, reading, checking,
                 writes, server>>

\* Faulty variant of Result: whether the worker was stopped does not matter.
ResultUnstopped(stopped) ==
  IF runner = "stopping" /\ completion = "succeeded" THEN "succeeded"
  ELSE IF signal THEN "cancelled" ELSE "failed"

\* What run returns, by whether the stop of its worker succeeded.
Result(stopped) ==
  IF runner = "stopping" /\ ~stopped THEN "failed"
  ELSE IF runner = "stopping" /\ completion = "succeeded" THEN "succeeded"
  ELSE IF signal THEN "cancelled" ELSE "failed"

\* The request to stop was answered or timed out; it may work either way.
StopReturns ==
  /\ Idle /\ runner \in {"unspawning", "stopping", "cleanup"}
  /\ \E stopped \in BOOLEAN :
       /\ worker' \in IF stopped THEN {"stopped"} ELSE {worker, "stopped"}
       /\ result' = Result(stopped)
  /\ runner' = "done"
  /\ UNCHANGED <<step, signal, controller, polling, stream, reading, checking, writes,
                 wire, prompted, sent>>

-----------------------------------------------------------------------------
(* The status poll of the runner.                                          *)

Poll ==
  /\ Idle /\ runner = "executing"
  /\ ~polling.asked /\ ~controller
  /\ polling' = [polling EXCEPT !.asked = TRUE]
  /\ UNCHANGED <<step, signal, controller, runner, result, stream, reading, checking,
                 writes, server>>

\* The answer may be older than the death of the worker, or than its stop.
PollAnswered ==
  /\ Idle /\ polling.asked
  /\ \/ /\ polling' = [asked |-> FALSE, failures |-> 0]
        /\ UNCHANGED <<controller, stream>>
     \/ /\ worker \in {"dead", "stopped"}
        /\ polling' = [asked |-> FALSE, failures |-> 0]
        /\ controller' = TRUE
        /\ AbortStream
  /\ UNCHANGED <<step, signal, runner, result, reading, checking, writes, server>>

PollFails ==
  /\ Idle /\ polling.asked
  /\ LET failures == polling.failures + 1
     IN /\ polling' = [asked |-> FALSE,
                       failures |-> IF failures < MaxStatusFailures THEN failures
                                    ELSE MaxStatusFailures]
        /\ IF failures >= MaxStatusFailures
           THEN controller' = TRUE /\ AbortStream
           ELSE UNCHANGED <<controller, stream>>
  /\ UNCHANGED <<step, signal, runner, result, reading, checking, writes, server>>

-----------------------------------------------------------------------------
(* The executor.                                                           *)

\* The step times out, or its run is aborted.  The executor settles the step at
\* once and leaves the handler to end by itself.
Abort(to) ==
  /\ Idle /\ step = "running"
  /\ step' = to
  /\ signal' = TRUE
  /\ IF runner \in {"idle", "done"} THEN UNCHANGED <<controller, stream>>
     ELSE controller' = TRUE /\ AbortStream
  /\ UNCHANGED <<runner, result, polling, reading, checking, writes, server>>

TimeOut == Abort("failed")
RunAborted == Abort("cancelled")

HandlerReturns ==
  /\ Idle /\ runner = "done" /\ step = "running"
  /\ step' = result
  /\ UNCHANGED <<signal, controller, runner, result, polling, stream, reading, checking,
                 writes, server>>

-----------------------------------------------------------------------------
(* The server.                                                             *)

WorkerDies ==
  /\ Idle /\ worker = "online"
  /\ worker' = "dead"
  /\ UNCHANGED <<execution, stream, reading, checking, writes, wire, prompted, sent>>

Send(f) ==
  /\ Idle /\ socket = "open" /\ worker \in {"online", "dead"}
  /\ Len(wire) < MaxWire
  /\ wire' = Append(wire, f)
  /\ UNCHANGED <<execution, stream, reading, checking, writes, worker, prompted>>

\* The stream is accepted or refused, the prompt too; the agent settles once,
\* after a run of its model.
SendOnce(kind, ok) ==
  /\ kind \notin sent.once
  /\ kind = "ready" \/ prompted
  /\ sent' = [sent EXCEPT !.once = @ \cup {kind}]
  /\ Send([kind |-> kind, ok |-> ok])

SendSettled ==
  /\ prompted /\ "settled" \notin sent.once /\ sent.others > 0
  /\ sent' = [sent EXCEPT !.once = @ \cup {"settled"}]
  /\ Send([kind |-> "settled"])

SendOther ==
  /\ prompted /\ sent.others < MaxFrames
  /\ sent' = [sent EXCEPT !.others = @ + 1]
  /\ \/ \E kind \in {"agentEnd", "retryEnd"}, ok \in BOOLEAN : Send([kind |-> kind, ok |-> ok])
     \/ \E id \in Ids : Send([kind |-> "ask", id |-> id])
     \/ Send([kind |-> "error"])

-----------------------------------------------------------------------------

RunnerStep == RunnerStarts \/ StartPrompt \/ StartReturns \/ Complete \/ StopReturns

StreamStep ==
  \/ Deliver \/ Disconnect \/ StatusAnswered \/ StartTimesOut
  \/ \E n \in DOMAIN asks : WriteDone(n) \/ WriteFails(n) \/ UiTimesOut(n)

ServerStep ==
  \/ WorkerDies
  \/ \E kind \in {"ready", "response"}, ok \in BOOLEAN : SendOnce(kind, ok)
  \/ SendSettled \/ SendOther

Next ==
  \/ RunnerStep \/ SpawnReturns \/ SpawnObserverFails \/ StreamStep \/ ServerStep
  \/ Poll \/ PollAnswered \/ PollFails
  \/ TimeOut \/ RunAborted \/ HandlerReturns

Spec == Init /\ [][Next]_vars

\* A chunk is processed to its end, timers fire, requests are answered or time
\* out, and the runner takes its next step.  A spawn has no timeout, and neither
\* the worker nor the user owes anything.
FairSpec ==
  /\ Spec
  /\ WF_vars(RunnerStep)
  /\ WF_vars(Deliver)
  /\ WF_vars(StatusAnswered)
  /\ WF_vars(StartTimesOut)
  /\ WF_vars(TimeOut)
  /\ WF_vars(HandlerReturns)

-----------------------------------------------------------------------------
(* What a session promises.                                                *)

\* A step succeeds only when its agent settled without failing, its worker was
\* stopped, and nothing aborted it before (StepExecutor.execute, run).
SuccessIsWhole ==
  step = "succeeded" => completion = "succeeded" /\ worker = "stopped" /\ ~signal

\* When an execution is over, every request of its worker is resolved but the
\* ones that came later (invalidateUiRequests).
RequestsResolved ==
  Terminal => \A n \in Pending : asks[n].late

\* A request is recorded as answered only when its own answer was written, not
\* an older one with its id (respondToUiRequest).
AnsweredIsWritten == \A n \in DOMAIN asks : asks[n].how = "answered" => n \notin writes

\* The requests of a worker: each is settled with its execution, and only by an
\* answer of its own.
RequestsSound == RequestsResolved /\ AnsweredIsWritten

\* Every worker the runner knows of is asked to stop, and its run returns
\* ("always stops the process it started", StepWorkerRunner).
WorkerIsStopped == runner = "spawned" ~> runner = "done"
=============================================================================
