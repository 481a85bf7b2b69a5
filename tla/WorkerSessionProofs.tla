------------------------- MODULE WorkerSessionProofs -------------------------
(***************************************************************************)
(* The safety properties of WorkerSession, for every number of frames and  *)
(* of status failures, and whatever the server sends.                      *)
(***************************************************************************)
EXTENDS WorkerSession, TLAPS

Ask == [id : Ids, how : Resolution, late : BOOLEAN]
Starts == {"none", "pending", "resolved", "rejected"}
Completions == {"none", "succeeded", "failed", "aborted"}
Sockets == {"none", "open", "closed"}

\* The part of TypeOK about the stream.
StreamType ==
  /\ start \in Starts /\ completion \in Completions /\ socket \in Sockets
  /\ asks \in Seq(Ask)

\* What the promises of a stream go through: a completion is final, and when it
\* is reached no request stays open.  Requests are resolved, but not answered.
StreamEffect ==
  /\ StreamType'
  /\ Terminal => completion' = completion
  /\ (start' = "none") = (start = "none")
  /\ start = "none" => socket' = socket
  /\ DOMAIN asks' = DOMAIN asks
  /\ \A n \in DOMAIN asks :
       /\ asks'[n].late = asks[n].late
       /\ asks'[n].how = asks[n].how \/ asks'[n].how \notin {"open", "answered"}
  /\ Terminal' /\ ~Terminal => \A n \in DOMAIN asks : asks'[n].how # "open"

\* Before startPrompt was called there is no stream.
NoStream ==
  /\ runner \in {"idle", "spawning", "unspawning", "spawned"} => start = "none"
  /\ start = "none" => socket = "none" /\ left = 0 /\ asks = <<>>

\* A runner that returned success had a whole one, and the signal of the handler
\* is aborted only when the executor settles the step itself.
Outcomes ==
  /\ result # "none" <=> runner = "done"
  /\ result = "succeeded" => completion = "succeeded" /\ worker = "stopped"
  /\ signal => step \notin {"running", "succeeded"}
  /\ step = "succeeded" => result = "succeeded"

Inv == TypeOK /\ NoStream /\ Outcomes /\ RequestsResolved /\ AnsweredIsWritten

-----------------------------------------------------------------------------
(* The operations of a stream.                                             *)

\* Resolve changes how a request was resolved and nothing else of it.
LEMMA ResolveFacts ==
  ASSUME asks \in Seq(Ask), NEW A, NEW how \in Resolution, Resolve(A, how)
  PROVE  /\ asks' \in Seq(Ask)
         /\ DOMAIN asks' = DOMAIN asks
         /\ \A n \in DOMAIN asks : /\ asks'[n].late = asks[n].late
                                   /\ asks'[n].id = asks[n].id
                                   /\ asks'[n].how = IF n \in A THEN how ELSE asks[n].how
<1> DEFINE g(n) == IF n \in A THEN [asks[n] EXCEPT !.how = how] ELSE asks[n]
<1>1. /\ Len(asks) \in Nat
      /\ DOMAIN asks = 1..Len(asks)
      /\ \A n \in DOMAIN asks : asks[n] \in Ask
  OBVIOUS
<1>2. asks' = [n \in 1..Len(asks) |-> g(n)]
  BY <1>1 DEF Resolve
<1>3. \A n \in DOMAIN asks : /\ g(n) \in Ask
                             /\ g(n).late = asks[n].late
                             /\ g(n).id = asks[n].id
                             /\ g(n).how = IF n \in A THEN how ELSE asks[n].how
  BY <1>1 DEF Ask
<1> HIDE DEF g
<1>4. asks' \in Seq(Ask)
  BY <1>1, <1>2, <1>3
<1> QED
  BY <1>1, <1>2, <1>3, <1>4

\* A stream that nothing touches.
LEMMA Untouched ==
  ASSUME StreamType, UNCHANGED stream
  PROVE  StreamEffect
BY DEF StreamType, StreamEffect, stream, Terminal

\* finishCompletion.
LEMMA FinishEffect ==
  ASSUME StreamType, NEW to \in Completions \ {"none"}, FinishCompletion(to)
  PROVE  StreamEffect
<1>1. CASE Terminal
  BY <1>1, Untouched DEF FinishCompletion
<1>2. CASE ~Terminal
  <2> DEFINE how == IF to = "aborted" THEN "aborted" ELSE "closed"
  <2>1. Resolve(Pending, how) /\ how \in Resolution
    BY <1>2 DEF FinishCompletion, Resolution
  <2>2. /\ completion' = to /\ UNCHANGED start
        /\ socket' = IF start = "resolved" THEN "closed" ELSE socket
    BY <1>2 DEF FinishCompletion
  <2>3. how \notin {"open", "answered"}
    OBVIOUS
  <2> HIDE DEF how
  <2>4. /\ asks' \in Seq(Ask)
        /\ DOMAIN asks' = DOMAIN asks
        /\ \A n \in DOMAIN asks : /\ asks'[n].late = asks[n].late
                                  /\ asks'[n].how = IF n \in Pending THEN how ELSE asks[n].how
    BY <2>1, ResolveFacts DEF StreamType
  <2> QED
    BY <1>2, <2>2, <2>3, <2>4 DEF StreamType, StreamEffect, Terminal, Pending, Starts,
       Completions, Sockets
<1> QED
  BY <1>1, <1>2

\* failStart before the prompt is accepted.
LEMMA RejectEffect ==
  ASSUME StreamType, start # "none", NEW how \in {"closed", "aborted"}, RejectStart(how)
  PROVE  StreamEffect
<1>1. /\ asks' \in Seq(Ask)
      /\ DOMAIN asks' = DOMAIN asks
      /\ \A n \in DOMAIN asks : /\ asks'[n].late = asks[n].late
                                /\ asks'[n].how = IF n \in Pending THEN how ELSE asks[n].how
  BY ResolveFacts DEF StreamType, RejectStart, Resolution
<1> QED
  BY <1>1 DEF RejectStart, StreamType, StreamEffect, Terminal, Pending, Starts,
     Completions, Sockets

LEMMA FailEffect ==
  ASSUME StreamType, FailStart
  PROVE  StreamEffect
BY FinishEffect, RejectEffect DEF FailStart, Completions

LEMMA AbortEffect ==
  ASSUME StreamType, AbortStream
  PROVE  StreamEffect
BY FinishEffect, RejectEffect, Untouched DEF AbortStream, HandleAbort, Completions

LEMMA AcceptEffect ==
  ASSUME StreamType, AcceptPrompt
  PROVE  StreamEffect
BY Untouched DEF AcceptPrompt, StreamType, StreamEffect, Terminal, Starts, Completions, Sockets

LEMMA SettleEffect ==
  ASSUME StreamType, Settle
  PROVE  StreamEffect
BY FinishEffect DEF Settle, Completions

\* registerUiRequest of an id that does not wait.
Registered ==
  /\ \E r \in Ask : r.how = "open" /\ r.late = Terminal /\ asks' = Append(asks, r)
  /\ writes' = writes \cup {Len(asks) + 1}
  /\ UNCHANGED <<start, completion, socket>>

MessageEffect == (StreamEffect /\ writes' \subseteq writes) \/ Registered

\* Whatever a frame does to the promises, it is one of these two.
LEMMA MessageEffects ==
  ASSUME TypeOK, NEW f \in Frame, HandleMessage(f)
  PROVE  MessageEffect
<1>1. StreamType
  BY DEF TypeOK, StreamType, Ask, Starts, Completions, Sockets
<1>2. CASE f.kind = "ask"
  <2>1. RegisterUiRequest(f.id)
    BY <1>2, Zenon DEF HandleMessage
  <2>2. f.id \in Ids
    BY <1>2 DEF Frame
  <2>3. CASE \E n \in Pending : asks[n].id = f.id
    BY <1>1, <2>1, <2>3, FailEffect DEF RegisterUiRequest, MessageEffect
  <2>4. CASE ~\E n \in Pending : asks[n].id = f.id
    <3>1. [id |-> f.id, how |-> "open", late |-> Terminal] \in Ask
      BY <2>2 DEF Ask, Resolution, Terminal
    <3> QED
      BY <2>1, <2>4, <3>1 DEF RegisterUiRequest, MessageEffect, Registered
  <2> QED
    BY <2>3, <2>4
<1>3. CASE f.kind # "ask"
  <2>1. /\ UNCHANGED writes
        /\ UNCHANGED stream \/ FailStart \/ AcceptPrompt \/ Settle
    BY <1>3 DEF HandleMessage, stream
  <2> QED
    BY <1>1, <2>1, Untouched, FailEffect, AcceptEffect, SettleEffect DEF MessageEffect
<1> QED
  BY <1>2, <1>3

\* What a frame leaves true of the stream.
LEMMA EffectFacts ==
  ASSUME TypeOK, RequestsResolved, AnsweredIsWritten, MessageEffect
  PROVE  /\ StreamType'
         /\ writes' \subseteq DOMAIN asks'
         /\ RequestsResolved'
         /\ AnsweredIsWritten'
         /\ Terminal => completion' = completion
         /\ (start' = "none") = (start = "none")
<1>1. StreamType /\ writes \subseteq DOMAIN asks
  BY DEF TypeOK, StreamType, Ask, Starts, Completions, Sockets
<1>2. CASE StreamEffect /\ writes' \subseteq writes
  <2>1. RequestsResolved'
    BY <1>2 DEF StreamEffect, RequestsResolved, Pending, Terminal
  <2>2. AnsweredIsWritten'
    BY <1>2 DEF StreamEffect, AnsweredIsWritten
  <2> QED
    BY <1>1, <1>2, <2>1, <2>2 DEF StreamEffect
<1>3. CASE Registered
  <2>1. PICK r \in Ask : r.how = "open" /\ r.late = Terminal /\ asks' = Append(asks, r)
    BY <1>3 DEF Registered
  <2>2. /\ asks \in Seq(Ask)
        /\ Len(asks) \in Nat
        /\ DOMAIN asks = 1..Len(asks)
    BY <1>1 DEF StreamType
  <2>3. /\ asks' \in Seq(Ask)
        /\ DOMAIN asks' = 1..(Len(asks) + 1)
        /\ \A n \in DOMAIN asks : asks'[n] = asks[n]
        /\ asks'[Len(asks) + 1] = r
    BY <2>1, <2>2
  <2>4. \A n \in DOMAIN asks' : n \in DOMAIN asks \/ n = Len(asks) + 1
    BY <2>2, <2>3
  <2>5. UNCHANGED <<start, completion, socket>> /\ writes' = writes \cup {Len(asks) + 1}
    BY <1>3 DEF Registered
  <2>6. RequestsResolved'
    BY <2>1, <2>3, <2>4, <2>5 DEF RequestsResolved, Pending, Terminal
  <2>7. Len(asks) + 1 \notin DOMAIN asks
    BY <2>2
  <2>8. AnsweredIsWritten'
    BY <2>1, <2>3, <2>4, <2>5, <2>7 DEF AnsweredIsWritten
  <2>9. writes' \subseteq DOMAIN asks'
    BY <1>1, <2>2, <2>3, <2>5
  <2> QED
    BY <1>1, <2>3, <2>5, <2>6, <2>8, <2>9 DEF StreamType
<1> QED
  BY <1>2, <1>3 DEF MessageEffect
-----------------------------------------------------------------------------
(* The steps.                                                              *)

\* The part of TypeOK about everything else.
RestType ==
  /\ step \in Outcome \cup {"running"}
  /\ signal \in BOOLEAN /\ controller \in BOOLEAN
  /\ runner \in {"idle", "spawning", "unspawning", "spawned", "starting", "executing",
                 "stopping", "cleanup", "done"}
  /\ result \in Outcome \cup {"none"}
  /\ polling \in [asked : BOOLEAN, failures : 0..MaxStatusFailures]
  /\ left \in Nat
  /\ checking \in BOOLEAN
  /\ failed \in [agent : BOOLEAN, retry : BOOLEAN]
  /\ worker \in {"none", "online", "dead", "stopped"}
  /\ wire \in Seq(Frame)
  /\ prompted \in BOOLEAN
  /\ sent \in [once : SUBSET {"ready", "response", "settled"}, others : 0..MaxFrames]

LEMMA TypeParts == TypeOK <=> StreamType /\ writes \subseteq DOMAIN asks /\ RestType
BY DEF TypeOK, StreamType, RestType, Ask, Starts, Completions, Sockets

\* A step needs its effect on the promises and the parts that are not theirs.
LEMMA Preserved ==
  ASSUME Inv, MessageEffect, RestType', NoStream', Outcomes'
  PROVE  Inv'
<1>1. /\ StreamType' /\ writes' \subseteq DOMAIN asks'
      /\ RequestsResolved' /\ AnsweredIsWritten'
  BY EffectFacts DEF Inv
<1>2. TypeOK' <=> StreamType' /\ writes' \subseteq DOMAIN asks' /\ RestType'
  BY DEF TypeOK, StreamType, RestType, Ask, Starts, Completions, Sockets
<1> QED
  BY <1>1, <1>2 DEF Inv

\* What a step that leaves the promises alone, ends them or fails them does.
LEMMA Effects ==
  ASSUME Inv, UNCHANGED stream \/ FailStart \/ AbortStream
                \/ \E to \in Completions \ {"none"} : FinishCompletion(to),
         writes' \subseteq writes
  PROVE  StreamEffect /\ MessageEffect
<1>1. StreamType
  BY TypeParts DEF Inv
<1> QED
  BY <1>1, Untouched, FailEffect, AbortEffect, FinishEffect DEF MessageEffect

\* processChunk.
LEMMA DeliverStep == ASSUME Inv, Deliver PROVE Inv'
<1>1. RestType /\ wire # <<>>
  BY TypeParts DEF Inv, Deliver
<1>2. Head(wire) \in Frame /\ Tail(wire) \in Seq(Frame) /\ Len(wire) \in Nat \ {0}
  BY <1>1 DEF RestType
<1>3. HandleMessage(Head(wire)) /\ wire' = Tail(wire)
      /\ UNCHANGED <<execution, checking, worker, sent>>
  BY DEF Deliver
<1>4. MessageEffect
  BY <1>2, <1>3, MessageEffects DEF Inv
<1>5. /\ Terminal => completion' = completion
      /\ (start' = "none") = (start = "none")
  BY <1>4, EffectFacts DEF Inv
<1>6. left' \in Nat
  BY <1>1, <1>2 DEF Deliver, RestType
<1>7. prompted' \in BOOLEAN /\ failed' \in [agent : BOOLEAN, retry : BOOLEAN]
  <2>1. failed' = CASE Head(wire).kind = "agentEnd" -> [failed EXCEPT !.agent = ~Head(wire).ok]
                    [] Head(wire).kind = "retryEnd" -> [failed EXCEPT !.retry = ~Head(wire).ok]
                    [] OTHER -> failed
    BY <1>3, Zenon DEF HandleMessage
  <2>2. prompted' = (prompted \/ (Head(wire).kind = "ready" /\ Head(wire).ok /\ socket = "open"))
    BY <1>3, Zenon DEF HandleMessage
  <2>3. failed \in [agent : BOOLEAN, retry : BOOLEAN] /\ prompted \in BOOLEAN
    BY <1>1 DEF RestType
  <2>4. CASE Head(wire).kind = "agentEnd"
    BY <2>1, <2>2, <2>3, <2>4
  <2>5. CASE Head(wire).kind = "retryEnd"
    BY <2>1, <2>2, <2>3, <2>5
  <2>6. CASE Head(wire).kind \notin {"agentEnd", "retryEnd"}
    BY <2>1, <2>2, <2>3, <2>6
  <2> QED
    BY <2>4, <2>5, <2>6
<1>8. RestType'
  BY <1>1, <1>2, <1>3, <1>6, <1>7 DEF RestType, execution
<1>9. start # "none"
  BY DEF Deliver, Inv, NoStream
<1>10. NoStream'
  BY <1>3, <1>5, <1>9 DEF Inv, NoStream, execution
<1>11. Outcomes'
  BY <1>3, <1>5 DEF Inv, Outcomes, execution, Terminal
<1> QED
  BY <1>4, <1>8, <1>10, <1>11, Preserved

\* The ends of a stream that no frame is the cause of.
LEMMA StreamEnds ==
  ASSUME Inv, Disconnect \/ StatusAnswered \/ StartTimesOut
  PROVE  Inv'
<1>1. RestType /\ StreamType
  BY TypeParts DEF Inv
<1>2. StreamEffect /\ writes' = writes
  <2>1. CASE Disconnect
    <3>1. CASE start = "pending"
      BY <1>1, <2>1, <3>1, RejectEffect DEF Disconnect
    <3>2. CASE start # "pending"
      BY <1>1, <2>1, <3>2 DEF Disconnect, Inv, NoStream, StreamType, StreamEffect, Terminal,
         Sockets
    <3> QED
      BY <2>1, <3>1, <3>2 DEF Disconnect
  <2>2. CASE StatusAnswered
    BY <1>1, <2>2, FinishEffect DEF StatusAnswered, Completions
  <2>3. CASE StartTimesOut
    BY <1>1, <2>3, RejectEffect DEF StartTimesOut
  <2> QED
    BY <2>1, <2>2, <2>3 DEF Disconnect, StatusAnswered, StartTimesOut
<1>3. UNCHANGED <<execution, reading, worker, prompted, sent>>
      /\ checking' \in BOOLEAN /\ wire' \in Seq(Frame)
  <2>1. CASE Disconnect
    <3>1. UNCHANGED <<execution, reading, worker, prompted, sent>> /\ wire' = <<>>
      BY <2>1 DEF Disconnect
    <3>2. checking' = checking \/ checking' = TRUE
      BY <2>1 DEF Disconnect
    <3>3. <<>> \in Seq(Frame)
      OBVIOUS
    <3> QED
      BY <1>1, <3>1, <3>2, <3>3 DEF RestType
  <2>2. CASE StatusAnswered
    BY <1>1, <2>2 DEF StatusAnswered, RestType, server
  <2>3. CASE StartTimesOut
    BY <1>1, <2>3 DEF StartTimesOut, RestType, server
  <2> QED
    BY <2>1, <2>2, <2>3
<1>4. RestType'
  BY <1>1, <1>3 DEF RestType, execution, reading
<1>5. NoStream'
  <2>1. start = "none" => UNCHANGED asks
    BY <1>1, <1>2 DEF Inv, NoStream, StreamEffect, StreamType
  <2> QED
    BY <1>2, <1>3, <2>1 DEF Inv, NoStream, StreamEffect, execution, reading
<1>6. Outcomes'
  BY <1>2, <1>3 DEF Inv, Outcomes, StreamEffect, execution, Terminal
<1> QED
  BY <1>2, <1>4, <1>5, <1>6, Preserved DEF MessageEffect
\* respondToUiRequest, and the timer of a request.
LEMMA RequestSteps ==
  ASSUME Inv, NEW n \in DOMAIN asks, WriteDone(n) \/ WriteFails(n) \/ UiTimesOut(n)
  PROVE  Inv'
<1>1. RestType /\ StreamType /\ writes \subseteq DOMAIN asks
  BY TypeParts DEF Inv
<1>2. UNCHANGED <<execution, reading, checking, server>>
  BY DEF WriteDone, WriteFails, UiTimesOut
<1>3. RestType'
  BY <1>1, <1>2 DEF RestType, execution, reading, server
<1>4. start # "none"
  BY <1>1 DEF Inv, NoStream, StreamType
<1>5. CASE WriteDone(n)
  <2>1. UNCHANGED <<start, completion, socket>> /\ writes' = writes \ {n} /\ ~Terminal
    BY <1>5 DEF WriteDone
  <2>2. /\ asks' \in Seq(Ask)
        /\ DOMAIN asks' = DOMAIN asks
        /\ \A m \in DOMAIN asks :
             asks'[m].how = IF m \in Answered(n) THEN "answered" ELSE asks[m].how
    BY <1>1, <1>5, ResolveFacts DEF WriteDone, StreamType, Resolution
  <2>3. TypeOK'
    <3>1. StreamType' /\ writes' \subseteq DOMAIN asks'
      BY <1>1, <2>1, <2>2 DEF StreamType
    <3> QED
      BY <1>3, <3>1 DEF TypeOK, RestType, StreamType, Ask, Starts, Completions, Sockets
  <2>4. RequestsResolved'
    BY <2>1 DEF RequestsResolved, Terminal
  <2>5. AnsweredIsWritten'
    BY <2>1, <2>2 DEF Inv, AnsweredIsWritten, Answered
  <2>6. NoStream'
    BY <1>2, <1>4, <2>1 DEF Inv, NoStream, execution, reading
  <2>7. Outcomes'
    BY <1>2, <2>1 DEF Inv, Outcomes, execution, server
  <2> QED
    BY <2>3, <2>4, <2>5, <2>6, <2>7 DEF Inv
<1>6. CASE WriteFails(n) \/ UiTimesOut(n)
  <2>1. StreamEffect /\ writes' \subseteq writes
    <3>1. CASE WriteFails(n)
      BY <3>1, Effects DEF WriteFails
    <3>2. CASE UiTimesOut(n)
      <4>1. /\ asks' \in Seq(Ask)
            /\ DOMAIN asks' = DOMAIN asks
            /\ \A m \in DOMAIN asks :
                 /\ asks'[m].late = asks[m].late
                 /\ asks'[m].how = IF m \in {n} THEN "timeout" ELSE asks[m].how
        BY <1>1, <3>2, ResolveFacts DEF UiTimesOut, StreamType, Resolution
      <4>2. UNCHANGED <<start, completion, socket, writes>>
        BY <3>2 DEF UiTimesOut
      <4> QED
        BY <1>1, <4>1, <4>2 DEF StreamEffect, StreamType, Terminal
    <3> QED
      BY <1>6, <3>1, <3>2
  <2>2. NoStream'
    BY <1>2, <1>4, <2>1 DEF Inv, NoStream, StreamEffect, execution, reading
  <2>3. Outcomes'
    BY <1>2, <2>1 DEF Inv, Outcomes, StreamEffect, Terminal, execution, server
  <2> QED
    BY <1>3, <2>1, <2>2, <2>3, Preserved DEF MessageEffect
<1> QED
  BY <1>5, <1>6

\* What the runner does without its worker or the stream.
LEMMA RunnerMoves ==
  ASSUME Inv, RunnerStarts \/ SpawnObserverFails \/ StartReturns \/ Complete
  PROVE  Inv'
<1>1. RestType
  BY TypeParts DEF Inv
<1>2. UNCHANGED <<step, signal, controller, polling, stream, reading, checking, writes, server>>
  BY DEF RunnerStarts, SpawnObserverFails, StartReturns, Complete
<1>3. MessageEffect
  BY <1>2, Effects
<1>4. RestType' /\ NoStream' /\ Outcomes'
  <2>1. CASE RunnerStarts
    BY <1>1, <1>2, <2>1 DEF RunnerStarts, Inv, RestType, NoStream, Outcomes, Outcome, stream,
       reading, server
  <2>2. CASE SpawnObserverFails
    BY <1>1, <1>2, <2>2 DEF SpawnObserverFails, Inv, RestType, NoStream, Outcomes, stream,
       reading, server
  <2>3. CASE StartReturns
    BY <1>1, <1>2, <2>3 DEF StartReturns, Inv, RestType, NoStream, Outcomes, stream,
       reading, server
  <2>4. CASE Complete
    BY <1>1, <1>2, <2>4 DEF Complete, Inv, RestType, NoStream, Outcomes, stream,
       reading, server
  <2> QED
    BY <2>1, <2>2, <2>3, <2>4
<1> QED
  BY <1>3, <1>4, Preserved
\* What spawn does, and what stopping a worker does.
LEMMA WorkerMoves ==
  ASSUME Inv, SpawnReturns \/ StopReturns \/ WorkerDies
  PROVE  Inv'
<1>1. RestType
  BY TypeParts DEF Inv
<1>2. UNCHANGED <<step, signal, controller, polling, stream, reading, checking, writes,
                  wire, prompted, sent>>
  BY DEF SpawnReturns, StopReturns, WorkerDies, execution
<1>3. MessageEffect
  BY <1>2, Effects
<1>4. RestType' /\ NoStream' /\ Outcomes'
  <2>1. CASE SpawnReturns
    BY <1>1, <1>2, <2>1 DEF SpawnReturns, Inv, RestType, NoStream, Outcomes, Outcome, stream,
       reading
  <2>2. CASE StopReturns
    <3>1. PICK stopped \in BOOLEAN :
            /\ worker' \in IF stopped THEN {"stopped"} ELSE {worker, "stopped"}
            /\ result' = Result(stopped)
      BY <2>2 DEF StopReturns
    <3>2. /\ Result(stopped) \in Outcome /\ Result(stopped) # "none"
          /\ Result(stopped) = "succeeded" => stopped /\ completion = "succeeded"
      BY DEF Result, Outcome
    <3>3. runner' = "done" /\ result = "none"
      BY <1>1, <2>2 DEF StopReturns, Inv, Outcomes
    <3> QED
      BY <1>1, <1>2, <3>1, <3>2, <3>3 DEF Inv, RestType, NoStream, Outcomes, stream, reading
  <2>3. CASE WorkerDies
    BY <1>1, <1>2, <2>3 DEF WorkerDies, Inv, RestType, NoStream, Outcomes, stream, reading,
       execution
  <2> QED
    BY <2>1, <2>2, <2>3
<1> QED
  BY <1>3, <1>4, Preserved

\* startPrompt, with a signal that may be aborted already.
LEMMA StartStep == ASSUME Inv, StartPrompt PROVE Inv'
<1>1. /\ RestType /\ StreamType /\ writes \subseteq DOMAIN asks
      /\ start = "none" /\ asks = <<>>
  BY TypeParts DEF Inv, StartPrompt, NoStream
<1>2. /\ UNCHANGED <<step, signal, controller, result, polling, asks, reading, checking,
                     writes, server>>
      /\ runner' = "starting"
      /\ \/ start' = "rejected" /\ completion' = "failed" /\ socket' = "closed"
         \/ start' = "pending" /\ completion' = completion /\ socket' = "open"
  BY DEF StartPrompt
<1>3. TypeOK'
  <2>1. RestType'
    BY <1>1, <1>2 DEF RestType, reading, server
  <2>2. StreamType' /\ writes' \subseteq DOMAIN asks'
    BY <1>1, <1>2 DEF StreamType, Starts, Completions, Sockets
  <2> QED
    BY <2>1, <2>2 DEF TypeOK, RestType, StreamType, Ask, Starts, Completions, Sockets
<1>4. RequestsResolved' /\ AnsweredIsWritten'
  BY <1>1, <1>2 DEF RequestsResolved, AnsweredIsWritten, Pending
<1>5. NoStream'
  BY <1>2 DEF NoStream
<1>6. Outcomes'
  BY <1>2 DEFS StartPrompt, Inv, Outcomes, server
<1> QED
  BY <1>3, <1>4, <1>5, <1>6 DEF Inv

\* startStatusPolling.
LEMMA PollSteps ==
  ASSUME Inv, Poll \/ PollAnswered \/ PollFails
  PROVE  Inv'
<1>1. RestType /\ StreamType
  BY TypeParts DEF Inv
<1>2. UNCHANGED <<step, signal, runner, result, reading, checking, writes, server>>
  BY DEF Poll, PollAnswered, PollFails
<1>3. /\ UNCHANGED stream \/ AbortStream
      /\ controller' \in BOOLEAN
      /\ polling' \in [asked : BOOLEAN, failures : 0..MaxStatusFailures]
  <2>1. controller \in BOOLEAN /\ 0 \in 0..MaxStatusFailures
    BY <1>1, SessionAssumption DEF RestType
  <2>2. CASE Poll
    BY <1>1, <2>1, <2>2 DEF Poll, RestType
  <2>3. CASE PollAnswered
    <3>1. polling' = [asked |-> FALSE, failures |-> 0]
      BY <2>3 DEF PollAnswered
    <3>2. UNCHANGED <<controller, stream>> \/ (controller' = TRUE /\ AbortStream)
      BY <2>3, Zenon DEF PollAnswered
    <3>3. polling' \in [asked : BOOLEAN, failures : 0..MaxStatusFailures]
      BY <2>1, <3>1
    <3> QED
      BY <2>1, <3>2, <3>3
  <2>4. CASE PollFails
    <3> DEFINE failures == polling.failures + 1
               capped == IF failures < MaxStatusFailures THEN failures ELSE MaxStatusFailures
    <3>1. polling' = [asked |-> FALSE, failures |-> capped]
      BY <2>4 DEF PollFails
    <3>2. UNCHANGED <<controller, stream>> \/ (controller' = TRUE /\ AbortStream)
      BY <2>4, Zenon DEF PollFails
    <3>3. capped \in 0..MaxStatusFailures
      BY <1>1, SessionAssumption DEF RestType
    <3>4. polling' \in [asked : BOOLEAN, failures : 0..MaxStatusFailures]
      BY <3>1, <3>3
    <3> QED
      BY <2>1, <3>2, <3>4
  <2> QED
    BY <2>2, <2>3, <2>4, Zenon DEF Poll, PollAnswered, PollFails
<1>4. StreamEffect /\ MessageEffect
  BY <1>2, <1>3, Effects
<1>5. RestType'
  BY <1>1, <1>2, <1>3 DEF RestType, reading, server
<1>6. NoStream'
  <2>1. start = "none" => UNCHANGED asks
    BY <1>1, <1>4 DEF Inv, NoStream, StreamEffect, StreamType
  <2> QED
    BY <1>2, <1>4, <2>1 DEF Inv, NoStream, StreamEffect, reading
<1>7. Outcomes'
  BY <1>2, <1>4 DEF Inv, Outcomes, StreamEffect, Terminal, server
<1> QED
  BY <1>4, <1>5, <1>6, <1>7, Preserved
\* StepExecutor: the timer, the abort of the run, and the race with the handler.
LEMMA ExecutorSteps ==
  ASSUME Inv, TimeOut \/ RunAborted \/ HandlerReturns
  PROVE  Inv'
<1>1. RestType /\ StreamType
  BY TypeParts DEF Inv
<1>2. UNCHANGED <<runner, result, polling, reading, checking, writes, server>>
  BY DEF TimeOut, RunAborted, Abort, HandlerReturns
<1>3. /\ UNCHANGED stream \/ AbortStream
      /\ controller' \in BOOLEAN
      /\ signal' \in BOOLEAN
      /\ \/ signal' = TRUE /\ step' \in {"failed", "cancelled"}
         \/ signal' = signal /\ step = "running" /\ step' = result /\ runner = "done"
  <2>1. CASE TimeOut \/ RunAborted
    <3>1. PICK to \in {"failed", "cancelled"} : Abort(to)
      BY <2>1 DEF TimeOut, RunAborted
    <3>2. step' = to /\ signal' = TRUE
      BY <3>1 DEF Abort
    <3>3. UNCHANGED <<controller, stream>> \/ (controller' = TRUE /\ AbortStream)
      BY <3>1, Zenon DEF Abort
    <3>4. controller \in BOOLEAN
      BY <1>1 DEF RestType
    <3> QED
      BY <3>2, <3>3, <3>4
  <2>2. CASE HandlerReturns
    BY <1>1, <2>2 DEF HandlerReturns, RestType
  <2> QED
    BY <2>1, <2>2
<1>4. StreamEffect /\ MessageEffect
  BY <1>2, <1>3, Effects
<1>5. RestType'
  <2>1. step' \in Outcome \cup {"running"}
    <3>1. runner = "done" => result \in Outcome
      BY <1>1 DEF Inv, Outcomes, RestType
    <3> QED
      BY <1>3, <3>1 DEF Outcome
  <2> QED
    BY <1>1, <1>2, <1>3, <2>1 DEF RestType, reading, server
<1>6. NoStream'
  <2>1. start = "none" => UNCHANGED asks
    BY <1>1, <1>4 DEF Inv, NoStream, StreamEffect, StreamType
  <2> QED
    BY <1>2, <1>4, <2>1 DEF Inv, NoStream, StreamEffect, reading
<1>7. Outcomes'
  BY <1>2, <1>3, <1>4 DEF Inv, Outcomes, StreamEffect, Terminal, server
<1> QED
  BY <1>4, <1>5, <1>6, <1>7, Preserved
\* The server sends.
LEMMA SendSteps ==
  ASSUME Inv, \/ \E kind \in {"ready", "response"}, ok \in BOOLEAN : SendOnce(kind, ok)
              \/ SendSettled \/ SendOther
  PROVE  Inv'
<1>1. RestType
  BY TypeParts DEF Inv
<1>2. /\ \E f \in Frame : Send(f)
      /\ sent' \in [once : SUBSET {"ready", "response", "settled"}, others : 0..MaxFrames]
  <2>1. CASE \E kind \in {"ready", "response"}, ok \in BOOLEAN : SendOnce(kind, ok)
    BY <1>1, <2>1 DEF SendOnce, Frame, RestType
  <2>2. CASE SendSettled
    BY <1>1, <2>2 DEF SendSettled, Frame, RestType
  <2>3. CASE SendOther
    <3>1. \E f \in Frame : Send(f)
      BY <2>3 DEF SendOther, Frame
    <3>2. sent' = [sent EXCEPT !.others = sent.others + 1] /\ sent.others < MaxFrames
      BY <2>3 DEF SendOther
    <3>3. sent.others + 1 \in 0..MaxFrames
      BY <1>1, <3>2, SessionAssumption DEF RestType
    <3> QED
      BY <1>1, <3>1, <3>2, <3>3 DEF RestType
  <2> QED
    BY <2>1, <2>2, <2>3
<1>3. PICK f \in Frame : Send(f)
  BY <1>2
<1>4. /\ UNCHANGED <<execution, stream, reading, checking, writes, worker, prompted>>
      /\ wire' = Append(wire, f)
  BY <1>3 DEF Send
<1>5. MessageEffect
  BY <1>4, Effects
<1>6. wire' \in Seq(Frame)
  BY <1>1, <1>4 DEF RestType
<1>7. RestType' /\ NoStream' /\ Outcomes'
  BY <1>1, <1>2, <1>4, <1>6 DEF Inv, RestType, NoStream, Outcomes, execution, stream, reading
<1> QED
  BY <1>5, <1>7, Preserved

LEMMA Stutter == ASSUME Inv, UNCHANGED vars PROVE Inv'
<1>1. /\ UNCHANGED <<stream, writes>>
      /\ UNCHANGED <<execution, reading, checking, server>>
  BY DEF vars
<1>2. RestType /\ MessageEffect
  BY <1>1, Effects, TypeParts DEF Inv
<1>3. RestType' /\ NoStream' /\ Outcomes'
  BY <1>1, <1>2 DEF Inv, RestType, NoStream, Outcomes, execution, stream, reading, server
<1> QED
  BY <1>2, <1>3, Preserved

-----------------------------------------------------------------------------
(* The theorems.                                                           *)

LEMMA Initially == Init => Inv
<1> SUFFICES ASSUME Init PROVE Inv
  OBVIOUS
<1>1. <<>> \in Seq(Frame) /\ <<>> \in Seq(Ask) /\ {} \subseteq DOMAIN <<>>
  OBVIOUS
<1>2. RestType
  <2>1. 0 \in 0..MaxStatusFailures /\ 0 \in 0..MaxFrames
    BY SessionAssumption
  <2> QED
    BY <1>1, <2>1 DEF Init, RestType
<1>3. StreamType /\ writes \subseteq DOMAIN asks
  BY <1>1 DEF Init, StreamType, Starts, Completions, Sockets
<1>4. TypeOK
  BY <1>2, <1>3, TypeParts
<1> QED
  BY <1>4 DEF Init, Inv, NoStream, Outcomes, RequestsResolved, AnsweredIsWritten, Pending,
     Terminal

\* The inductive invariant: what the promises of the stream, the runner and the
\* executor know of each other at each of their awaits.
THEOREM Invariance == Spec => []Inv
<1>1. ASSUME Inv, [Next]_vars PROVE Inv'
  <2>1. CASE RunnerStep
    BY <1>1, <2>1, RunnerMoves, StartStep, WorkerMoves DEF RunnerStep
  <2>2. CASE SpawnReturns \/ SpawnObserverFails
    BY <1>1, <2>2, RunnerMoves, WorkerMoves
  <2>3. CASE StreamStep
    BY <1>1, <2>3, DeliverStep, StreamEnds, RequestSteps DEF StreamStep
  <2>4. CASE ServerStep
    BY <1>1, <2>4, WorkerMoves, SendSteps DEF ServerStep
  <2>5. CASE Poll \/ PollAnswered \/ PollFails
    BY <1>1, <2>5, PollSteps
  <2>6. CASE TimeOut \/ RunAborted \/ HandlerReturns
    BY <1>1, <2>6, ExecutorSteps
  <2>7. CASE UNCHANGED vars
    BY <1>1, <2>7, Stutter
  <2> QED
    BY <1>1, <2>1, <2>2, <2>3, <2>4, <2>5, <2>6, <2>7 DEF Next
<1> QED
  BY <1>1, Initially, PTL DEF Spec

\* The promises, requests and frames of a session keep their types, whatever the
\* server sends.
THEOREM TypeCorrect == Spec => []TypeOK
<1>1. Inv => TypeOK
  BY DEF Inv
<1> QED
  BY <1>1, Invariance, PTL

\* A step succeeds only with a completed execution, a stopped worker and a signal
\* that nothing aborted (StepExecutor.execute, StepWorkerRunner.run).
THEOREM SuccessWhole == Spec => []SuccessIsWhole
<1>1. Inv => SuccessIsWhole
  BY DEF Inv, Outcomes, SuccessIsWhole
<1> QED
  BY <1>1, Invariance, PTL

\* No request stays open behind a finished execution but the ones that came
\* after it (invalidateUiRequests).
THEOREM EveryRequestResolved == Spec => []RequestsResolved
<1>1. Inv => RequestsResolved
  BY DEF Inv
<1> QED
  BY <1>1, Invariance, PTL

\* An answer resolves the request it was written for and no other
\* (respondToUiRequest).
THEOREM AnswersAreOwn == Spec => []AnsweredIsWritten
<1>1. Inv => AnsweredIsWritten
  BY DEF Inv
<1> QED
  BY <1>1, Invariance, PTL

\* The requests of a worker end with its execution, and only by their own answers
\* (invalidateUiRequests, respondToUiRequest).
THEOREM RequestsAreSound == Spec => []RequestsSound
<1>1. RequestsResolved /\ AnsweredIsWritten => RequestsSound
  BY DEF RequestsSound
<1> QED
  BY <1>1, EveryRequestResolved, AnswersAreOwn, PTL
==============================================================================
