----------------------------- MODULE AttemptLog -----------------------------
(***************************************************************************)
(* The journal of one attempt, storage/attempt-log-store.ts: entries are   *)
(* queued and appended one after the other, a cap ends the journal with a  *)
(* marker, a write may be torn by an error or by the death of the process, *)
(* and a viewer of another process reads the tail at any time.             *)
(*                                                                         *)
(* An entry is its number and the bytes of its line, a line of the journal *)
(* is its entry and the offset of its end; the marker is entry 0.  A line  *)
(* written behind a torn one would be no record: Corrupt.                  *)
(***************************************************************************)
EXTENDS Integers, Sequences, SequencesExt, FiniteSets

CONSTANTS MaxEntries,  \* bound on the entries of the attempt
          Sizes,       \* the bytes of a line
          MarkerBytes, \* Buffer.byteLength(TRUNCATION_LINE)
          maxLogBytes,
          tailLines,   \* the lines a viewer is shown
          MaxErrors,   \* bound on the writes that fail
          MaxCrashes   \* bound on the deaths of the process

ASSUME LogAssumption ==
  /\ {MaxEntries, MaxErrors, MaxCrashes} \subseteq Nat
  /\ {MarkerBytes, tailLines} \subseteq Nat \ {0} /\ Sizes \subseteq Nat \ {0}
  /\ maxLogBytes \in Nat /\ maxLogBytes >= MarkerBytes

VARIABLES
  file,    \* the journal: its lines, and the bytes behind the last newline
  queue,   \* the entries whose append has not ended
  pc,      \* the await of the append at the head of the queue
  memory,  \* initialized, truncated, and the error the next flush throws
  made,    \* the entries recorded so far
  lost,    \* the entries whose loss was told: an error thrown, or a dead process
  flush,   \* the last entry a flush waits for; 0 when nobody waits
  shown,   \* the tail a viewer has on its screen
  count    \* errors and crashes so far

vars == <<file, queue, pc, memory, made, lost, flush, shown, count>>

Marker == 0
Corrupt == -1
Entry == [id : 1..MaxEntries, size : Sizes]
Line == [id : {Marker, Corrupt} \cup 1..MaxEntries, end : Nat]

TypeOK ==
  /\ file \in [lines : Seq(Line), torn : BOOLEAN]
  /\ queue \in Seq(Entry) /\ made \in 0..MaxEntries /\ lost \subseteq 1..MaxEntries
  /\ pc \in {"idle", "ready", "written", "broken"}
  /\ memory \in [initialized : BOOLEAN, truncated : BOOLEAN, failed : SUBSET (1..MaxEntries)]
  /\ flush \in 0..MaxEntries /\ shown \in Seq(Line)
  /\ count \in [errors : 0..MaxErrors, crashes : 0..MaxCrashes]

Fresh == [initialized |-> FALSE, truncated |-> FALSE, failed |-> {}]

Init ==
  /\ file = [lines |-> <<>>, torn |-> FALSE]
  /\ queue = <<>> /\ pc = "idle" /\ memory = Fresh
  /\ made = 0 /\ lost = {} /\ flush = 0 /\ shown = <<>>
  /\ count = [errors |-> 0, crashes |-> 0]

Size(lines) == IF lines = <<>> THEN 0 ELSE Last(lines).end
Ids(lines) == {lines[i].id : i \in DOMAIN lines}

-----------------------------------------------------------------------------
(* record, recordTerminal and the queue.                                   *)

\* Progress may be recorded after the terminal entry; to the queue they are alike.
Record ==
  /\ made < MaxEntries /\ made' = made + 1
  /\ \E size \in Sizes : queue' = Append(queue, [id |-> made', size |-> size])
  /\ UNCHANGED <<file, pc, memory, lost, flush, shown, count>>

\* Faulty variant of prepareJournal: the whole line before the torn one goes with it.
PrepareCutsLine(contents) ==
  [lines |-> IF contents.torn /\ contents.lines # <<>> THEN Front(contents.lines) ELSE contents.lines,
   torn |-> FALSE]

\* A torn line is cut off.
prepareJournal(contents) == [contents EXCEPT !.torn = FALSE]

Initialize ==
  /\ queue # <<>> /\ pc = "idle" /\ pc' = "ready"
  /\ IF memory.initialized THEN UNCHANGED <<file, memory>>
     ELSE /\ file' = prepareJournal(file)
          /\ memory' = [memory EXCEPT !.initialized = TRUE,
                                      !.truncated = @ \/ Marker \in Ids(file.lines)]
  /\ UNCHANGED <<queue, made, lost, flush, shown, count>>

AppendLine(id, size) == \* appendDurably
  [lines |-> Append(file.lines, [id |-> IF file.torn THEN Corrupt ELSE id,
                                 end |-> Size(file.lines) + size]),
   torn |-> FALSE]

\* The marker finds its room in a journal this store wrote: the branch that cuts the
\* journal back first is dead, or the cap of JournalReadable would not hold.
appendTruncationMarker == AppendLine(Marker, MarkerBytes)

OverCap == Size(file.lines) + Head(queue).size > maxLogBytes - MarkerBytes

Pop == queue' = Tail(queue) /\ pc' = "idle"

DropBehindMarker ==
  /\ pc = "ready" /\ memory.truncated /\ Pop
  /\ UNCHANGED <<file, memory, made, lost, flush, shown, count>>

Write ==
  /\ pc = "ready" /\ ~memory.truncated /\ pc' = "written"
  /\ file' = IF OverCap THEN appendTruncationMarker ELSE AppendLine(Head(queue).id, Head(queue).size)
  /\ UNCHANGED <<queue, memory, made, lost, flush, shown, count>>

\* The disk takes a part of the line.
WriteTears ==
  /\ pc = "ready" /\ ~memory.truncated /\ pc' = "broken"
  /\ count.errors < MaxErrors /\ count' = [count EXCEPT !.errors = @ + 1]
  /\ file' = [file EXCEPT !.torn = TRUE]
  /\ UNCHANGED <<queue, memory, made, lost, flush, shown>>

Synced ==
  /\ pc = "written" /\ Pop
  /\ memory' = [memory EXCEPT !.truncated = Marker \in Ids(file.lines)]
  /\ UNCHANGED <<file, made, lost, flush, shown, count>>

\* Faulty variant of Forget: the journal is taken for whole after an error.
ForgetNothing == memory.initialized

Forget == FALSE

CanFail == pc = "broken" \/ (pc \in {"idle", "written"} /\ queue # <<>> /\ count.errors < MaxErrors)

Failing ==
  /\ CanFail
  /\ count' = [count EXCEPT !.errors = IF pc = "broken" THEN @ ELSE @ + 1]
  /\ UNCHANGED <<file, made, lost, flush, shown>>

\* Faulty variant of AppendFails: the queue waits behind the append that failed.
AppendFailsForGood ==
  /\ Failing /\ pc' = "failed"
  /\ memory' = [memory EXCEPT !.initialized = Forget, !.failed = @ \cup {Head(queue).id}]
  /\ UNCHANGED queue

\* Faulty variant of AppendFails: the error is caught and dropped.
AppendFailsQuietly ==
  /\ Failing /\ Pop
  /\ memory' = [memory EXCEPT !.initialized = Forget]

\* The preparation, the write or its sync threw.  The next append prepares the journal
\* again, and the next flush throws.
AppendFails ==
  /\ Failing /\ Pop
  /\ memory' = [memory EXCEPT !.initialized = IF pc = "idle" THEN @ ELSE Forget,
                              !.failed = @ \cup {Head(queue).id}]

-----------------------------------------------------------------------------
(* flush, readTail and the death of the process.                           *)

\* finishAttemptLog waits for what is queued by now.
Flush ==
  /\ flush = 0 /\ made > 0 /\ flush' = made
  /\ UNCHANGED <<file, queue, pc, memory, made, lost, shown, count>>

\* The first error is thrown and forgotten; one flush tells of all that failed before it.
FlushReturns ==
  /\ flush # 0 /\ \A i \in DOMAIN queue : queue[i].id > flush
  /\ flush' = 0 /\ lost' = lost \cup memory.failed
  /\ memory' = [memory EXCEPT !.failed = {}]
  /\ UNCHANGED <<file, queue, pc, made, shown, count>>

boundedTail(lines) ==
  SubSeq(lines, IF Len(lines) > tailLines THEN Len(lines) - tailLines + 1 ELSE 1, Len(lines))

\* Another process reads the complete lines of the journal as it is.
ReadTail ==
  /\ shown' = boundedTail(file.lines)
  /\ UNCHANGED <<file, queue, pc, memory, made, lost, flush, count>>

Crash ==
  /\ count.crashes < MaxCrashes /\ count' = [count EXCEPT !.crashes = @ + 1]
  /\ queue' = <<>> /\ pc' = "idle" /\ memory' = Fresh /\ flush' = 0
  /\ lost' = 1..made
  /\ UNCHANGED <<file, made, shown>>

AppendStep == Initialize \/ DropBehindMarker \/ Write \/ WriteTears \/ Synced \/ AppendFails

Next == Record \/ AppendStep \/ Flush \/ FlushReturns \/ ReadTail \/ Crash

Spec == Init /\ [][Next]_vars

\* Appends and flushes go on; nobody has to record, to read or to crash.
FairSpec == Spec /\ WF_vars(AppendStep) /\ WF_vars(FlushReturns)

-----------------------------------------------------------------------------
(* Properties.                                                             *)

\* The journal can be read whatever happened to its writer: a torn line is at its end and
\* never inside it, entries are in the order they were recorded, the cap holds, and the
\* marker is the last line.
JournalReadable ==
  /\ TypeOK /\ Corrupt \notin Ids(file.lines) /\ Size(file.lines) <= maxLogBytes
  /\ \A i, j \in DOMAIN file.lines :
       i < j => file.lines[i].id # Marker
                /\ (file.lines[j].id = Marker \/ file.lines[i].id < file.lines[j].id)

\* No entry is lost in silence: it is in the journal or on its way, the journal says that
\* it was cut short, a flush threw or will throw, or the process died.
LossIsTold ==
  \A e \in 1..made : e \in Ids(file.lines) \cup Ids(queue) \cup lost \cup memory.failed
                     \/ Marker \in Ids(file.lines)

\* What a viewer was shown stays in the journal as it was shown, whatever a later process
\* repairs there.
ShownStays ==
  \E i \in 0..Len(file.lines) - Len(shown) : shown = SubSeq(file.lines, i + 1, i + Len(shown))

\* The settlement of an attempt waits for a flush of its log, and gets it: neither a failed
\* append nor entries recorded meanwhile hold it up.
FlushEnds == flush # 0 ~> flush = 0
=============================================================================
