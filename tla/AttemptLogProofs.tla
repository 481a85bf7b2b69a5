--------------------------- MODULE AttemptLogProofs ---------------------------
(***************************************************************************)
(* The safety properties of AttemptLog, for every number of entries, every *)
(* size of a line, every cap and every number of errors and crashes.       *)
(***************************************************************************)
EXTENDS AttemptLog, SequenceTheorems, TLAPS

LEMMA Constants ==
  /\ MaxEntries \in Nat /\ MaxErrors \in Nat /\ MaxCrashes \in Nat
  /\ MarkerBytes \in Nat /\ MarkerBytes > 0 /\ tailLines \in Nat /\ tailLines > 0
  /\ Sizes \subseteq Nat
  /\ maxLogBytes \in Nat /\ maxLogBytes >= MarkerBytes
BY LogAssumption

USE Constants DEF Marker, Corrupt

HasMarker == Marker \in Ids(file.lines)

\* The journal on the disk, whatever is torn behind its last newline.  One
\* without a marker has room for it, so it never has to be cut for it.
Whole ==
  /\ Corrupt \notin Ids(file.lines)
  /\ \A i, j \in DOMAIN file.lines :
       i < j => file.lines[i].id # Marker
                /\ (file.lines[j].id = Marker \/ file.lines[i].id < file.lines[j].id)
  /\ Size(file.lines) <= IF HasMarker THEN maxLogBytes ELSE maxLogBytes - MarkerBytes

\* What the append at the head of the queue knows of the journal.
Appending ==
  /\ pc # "idle" => queue # <<>> /\ memory.initialized
  /\ memory.truncated => HasMarker
  /\ memory.initialized /\ pc \in {"idle", "ready"} =>
       ~file.torn /\ (HasMarker => memory.truncated)
  /\ pc \in {"written", "broken"} => ~memory.truncated
  /\ pc = "written" => ~file.torn /\ (HasMarker \/ queue[1].id \in Ids(file.lines))

\* The entries in the order they were recorded: the journal, then the queue.  The
\* head of the queue may be written already.
InOrder ==
  /\ \A i \in DOMAIN file.lines : file.lines[i].id <= made
  /\ \A i \in DOMAIN queue : queue[i].id <= made
  /\ \A i, j \in DOMAIN queue : i < j => queue[i].id < queue[j].id
  /\ \A i \in DOMAIN file.lines, j \in DOMAIN queue :
       \/ file.lines[i].id < queue[j].id
       \/ pc = "written" /\ j = 1 /\ file.lines[i].id = queue[1].id

Inv ==
  /\ TypeOK
  /\ Whole
  /\ Appending
  /\ InOrder
  /\ LossIsTold
  /\ ShownStays

-----------------------------------------------------------------------------
(* The journal.                                                            *)

\* The journal with one more line.
LEMMA OneMoreLine ==
  ASSUME NEW lines \in Seq(Line), NEW line \in Line
  PROVE  /\ Append(lines, line) \in Seq(Line)
         /\ Ids(Append(lines, line)) = Ids(lines) \cup {line.id}
         /\ Size(Append(lines, line)) = line.end
<1>1. /\ Append(lines, line) \in Seq(Line)
      /\ Len(Append(lines, line)) = Len(lines) + 1
      /\ \A i \in 1..Len(lines) : Append(lines, line)[i] = lines[i]
      /\ Append(lines, line)[Len(lines) + 1] = line
      /\ Append(lines, line) # <<>>
  BY AppendProperties
<1>2. /\ DOMAIN lines = 1..Len(lines) /\ Len(lines) \in Nat
      /\ DOMAIN Append(lines, line) = 1..(Len(lines) + 1)
  BY <1>1
<1>3. Ids(Append(lines, line)) = Ids(lines) \cup {line.id}
  BY <1>1, <1>2 DEF Ids
<1>4. Size(Append(lines, line)) = line.end
  BY <1>1 DEF Size, Last
<1> QED
  BY <1>1, <1>3, <1>4

LEMMA SizeType ==
  ASSUME NEW lines \in Seq(Line)
  PROVE  Size(lines) \in Nat
<1>1. CASE lines = <<>>
  BY <1>1 DEF Size
<1>2. CASE lines # <<>>
  <2>1. lines[Len(lines)] \in Line
    BY <1>2
  <2> QED
    BY <1>2, <2>1 DEF Size, Last, Line
<1> QED
  BY <1>1, <1>2

\* A write adds the entry at the head of the queue where it leaves the marker
\* its room, and the marker in that room where it does not.
LEMMA WriteAddsLine ==
  ASSUME Inv, Write
  PROVE  \E line \in Line :
           /\ file' = [lines |-> Append(file.lines, line), torn |-> FALSE]
           /\ \/ /\ line.id = Marker
                 /\ line.end <= maxLogBytes
              \/ /\ line.id = queue[1].id
                 /\ line.end <= maxLogBytes - MarkerBytes
<1>1. /\ queue # <<>> /\ Head(queue) = queue[1] /\ queue[1] \in Entry
      /\ ~file.torn /\ ~HasMarker
  BY DEF Inv, TypeOK, Appending, Write
<1>2. /\ file.lines \in Seq(Line) /\ Size(file.lines) \in Nat
      /\ Size(file.lines) <= maxLogBytes - MarkerBytes
  BY <1>1, SizeType DEF Inv, TypeOK, Whole
<1>3. CASE OverCap
  <2> DEFINE line == [id |-> Marker, end |-> Size(file.lines) + MarkerBytes]
  <2>1. line \in Line /\ line.end <= maxLogBytes
    BY <1>2 DEF Line
  <2>2. file' = [lines |-> Append(file.lines, line), torn |-> FALSE]
    BY <1>1, <1>2, <1>3 DEF Write, appendTruncationMarker, AppendLine
  <2> QED
    BY <2>1, <2>2
<1>4. CASE ~OverCap
  <2> DEFINE line == [id |-> queue[1].id, end |-> Size(file.lines) + queue[1].size]
  <2>1. queue[1].id \in 1..MaxEntries /\ queue[1].size \in Nat
    BY <1>1 DEF Entry
  <2>2. line \in Line /\ line.end <= maxLogBytes - MarkerBytes
    BY <1>1, <1>2, <1>4, <2>1 DEF Line, OverCap
  <2>3. file' = [lines |-> Append(file.lines, line), torn |-> FALSE]
    BY <1>1, <1>4 DEF Write, AppendLine
  <2> QED
    BY <2>2, <2>3
<1> QED
  BY <1>3, <1>4

\* Lines are only ever added to the journal: what is cut off, or torn, is behind
\* its last newline.
LEMMA LinesStay ==
  ASSUME Inv, [Next]_vars
  PROVE  file'.lines = file.lines \/ Write
<1>1. prepareJournal(file).lines = file.lines
  BY DEF prepareJournal, Inv, TypeOK
<1>2. [file EXCEPT !.torn = TRUE].lines = file.lines
  BY DEF Inv, TypeOK
<1> QED
  BY <1>1, <1>2 DEF Next, vars, AppendStep, Record, Initialize, DropBehindMarker, WriteTears,
     Synced, AppendFails, Failing, Flush, FlushReturns, ReadTail, Crash

-----------------------------------------------------------------------------
(* Each part of the invariant.                                             *)

LEMMA QueueFacts ==
  ASSUME TypeOK, queue # <<>>
  PROVE  /\ Head(queue) = queue[1] /\ queue[1] \in Entry
         /\ Tail(queue) \in Seq(Entry)
         /\ Len(Tail(queue)) = Len(queue) - 1
         /\ \A i \in DOMAIN Tail(queue) : i + 1 \in DOMAIN queue
                                          /\ Tail(queue)[i] = queue[i + 1]
         /\ Ids(queue) = Ids(Tail(queue)) \cup {queue[1].id}
<1>1. queue \in Seq(Entry) /\ Len(queue) \in Nat \ {0}
  BY DEF TypeOK
<1>2. /\ Head(queue) = queue[1] /\ queue[1] \in Entry
      /\ Tail(queue) \in Seq(Entry) /\ Len(Tail(queue)) = Len(queue) - 1
      /\ \A i \in 1..(Len(queue) - 1) : Tail(queue)[i] = queue[i + 1]
  BY <1>1, HeadTailProperties
<1>3. DOMAIN queue = 1..Len(queue) /\ DOMAIN Tail(queue) = 1..(Len(queue) - 1)
  BY <1>1, <1>2
<1>4. \A i \in DOMAIN queue : i = 1 \/ (i - 1 \in DOMAIN Tail(queue)
                                          /\ Tail(queue)[i - 1] = queue[i])
  BY <1>1, <1>2, <1>3
<1>5. 1 \in DOMAIN queue
  BY <1>1, <1>3
<1>6. \A i \in DOMAIN Tail(queue) : i + 1 \in DOMAIN queue /\ Tail(queue)[i] = queue[i + 1]
  BY <1>1, <1>2, <1>3
<1>7. Ids(queue) = Ids(Tail(queue)) \cup {queue[1].id}
  <2>1. \A i \in DOMAIN queue : queue[i].id \in Ids(Tail(queue)) \cup {queue[1].id}
    BY <1>4 DEF Ids
  <2>2. \A i \in DOMAIN Tail(queue) : Tail(queue)[i].id \in Ids(queue)
    BY <1>6 DEF Ids
  <2>3. queue[1].id \in Ids(queue)
    BY <1>5 DEF Ids
  <2> QED
    BY <2>1, <2>2, <2>3 DEF Ids
<1> QED
  BY <1>2, <1>6, <1>7

\* TypeOK, one variable at a time.
Counted == [errors : 0..MaxErrors, crashes : 0..MaxCrashes]
Remembered == [initialized : BOOLEAN, truncated : BOOLEAN, failed : SUBSET (1..MaxEntries)]

LEMMA TypeParts ==
  TypeOK <=> /\ file \in [lines : Seq(Line), torn : BOOLEAN]
             /\ queue \in Seq(Entry)
             /\ made \in 0..MaxEntries
             /\ lost \subseteq 1..MaxEntries
             /\ pc \in {"idle", "ready", "written", "broken"}
             /\ memory \in Remembered
             /\ flush \in 0..MaxEntries
             /\ shown \in Seq(Line)
             /\ count \in Counted
BY DEF TypeOK, Counted, Remembered

\* Lines are only ever written by Write, and the bytes behind them are torn off
\* by others.
LEMMA FileType ==
  ASSUME Inv, [Next]_vars
  PROVE  file' \in [lines : Seq(Line), torn : BOOLEAN]
<1>1. file \in [lines : Seq(Line), torn : BOOLEAN]
  BY DEF Inv, TypeOK
<1>2. CASE Write
  <2>1. file.lines \in Seq(Line)
    BY <1>1
  <2>2. PICK line \in Line : file' = [lines |-> Append(file.lines, line), torn |-> FALSE]
    BY <1>2, WriteAddsLine
  <2>3. Append(file.lines, line) \in Seq(Line)
    BY <2>1, OneMoreLine
  <2> QED
    BY <2>2, <2>3
<1>3. CASE file' = file \/ file' = prepareJournal(file) \/ file' = [file EXCEPT !.torn = TRUE]
  BY <1>1, <1>3 DEF prepareJournal
<1> QED
  BY <1>2, <1>3 DEF Next, vars, AppendStep, Record, Initialize, DropBehindMarker, WriteTears,
     Synced, AppendFails, Failing, Flush, FlushReturns, ReadTail, Crash

LEMMA CountType ==
  ASSUME count \in Counted, [Next]_vars
  PROVE  count' \in Counted
<1>1. CASE count' = count
  BY <1>1
<1>2. CASE count.errors < MaxErrors /\ count' = [count EXCEPT !.errors = @ + 1]
  BY <1>2 DEF Counted
<1>3. CASE count.crashes < MaxCrashes /\ count' = [count EXCEPT !.crashes = @ + 1]
  BY <1>3 DEF Counted
<1>4. CASE AppendFails
  <2>1. CASE pc = "broken"
    BY <1>4, <2>1 DEF AppendFails, Failing, Counted
  <2>2. CASE pc # "broken"
    BY <1>2, <1>4, <2>2 DEF AppendFails, Failing, CanFail
  <2> QED
    BY <2>1, <2>2
<1> QED
  BY <1>1, <1>2, <1>3, <1>4 DEF Next, vars, AppendStep, Record, Initialize, DropBehindMarker,
     Write, WriteTears, Synced, Flush, FlushReturns, ReadTail, Crash

LEMMA MemoryType ==
  ASSUME TypeOK, Appending, [Next]_vars
  PROVE  memory' \in Remembered
<1>1. memory \in Remembered
  BY TypeParts
<1>2. CASE memory' = memory
  BY <1>1, <1>2
<1>3. CASE Initialize
  BY <1>1, <1>3 DEF Initialize, Remembered
<1>4. CASE Synced
  <2> DEFINE marked == Marker \in Ids(file.lines)
  <2>1. marked \in BOOLEAN /\ memory' = [memory EXCEPT !.truncated = marked]
    BY <1>4 DEF Synced
  <2> HIDE DEF marked
  <2> QED
    BY <1>1, <2>1 DEF Remembered
<1>5. CASE AppendFails
  <2>1. queue # <<>>
    BY <1>5 DEF AppendFails, Failing, CanFail, Appending
  <2>2. Head(queue).id \in 1..MaxEntries
    BY <2>1, QueueFacts DEF Entry
  <2>3. memory.failed \cup {Head(queue).id} \subseteq 1..MaxEntries
    BY <1>1, <2>2 DEF Remembered
  <2>4. memory' = [memory EXCEPT !.initialized = memory'.initialized,
                                 !.failed = @ \cup {Head(queue).id}]
        /\ memory'.initialized \in BOOLEAN
    BY <1>1, <1>5 DEF AppendFails, Forget, Remembered
  <2> QED
    BY <1>1, <2>3, <2>4 DEF Remembered
<1>6. CASE FlushReturns
  BY <1>1, <1>6 DEF FlushReturns, Remembered
<1>7. CASE Crash
  BY <1>7 DEF Crash, Fresh, Remembered
<1> QED
  BY <1>2, <1>3, <1>4, <1>5, <1>6, <1>7 DEF Next, vars, AppendStep, Record, DropBehindMarker,
     Write, WriteTears, Flush, ReadTail

\* An entry leaves the queue when its append has ended, well or not.
LEMMA QueueStep ==
  ASSUME Appending, [Next]_vars
  PROVE  \/ queue' = queue
         \/ Record
         \/ queue # <<>> /\ Pop /\ (DropBehindMarker \/ Synced \/ AppendFails)
         \/ Crash
BY DEF Next, vars, AppendStep, Initialize, DropBehindMarker, Write, WriteTears, Synced,
   AppendFails, Failing, CanFail, Flush, FlushReturns, ReadTail, Appending

LEMMA TypeStep ==
  ASSUME Inv, [Next]_vars
  PROVE  TypeOK'
<1>1. TypeOK /\ Appending
  BY DEF Inv
<1>2. queue' \in Seq(Entry)
  <2>1. CASE Record
    <3>1. PICK size \in Sizes : queue' = Append(queue, [id |-> made', size |-> size])
      BY <2>1 DEF Record
    <3>2. [id |-> made', size |-> size] \in Entry
      BY <1>1, <2>1, TypeParts DEF Record, Entry
    <3> QED
      BY <1>1, <3>1, <3>2, TypeParts, AppendProperties
  <2>2. CASE Crash
    BY <2>2 DEF Crash
  <2> QED
    BY <1>1, <2>1, <2>2, QueueStep, QueueFacts, TypeParts DEF Pop
<1>3. /\ made' \in 0..MaxEntries
      /\ flush' \in 0..MaxEntries
      /\ pc' \in {"idle", "ready", "written", "broken"}
  BY <1>1, TypeParts DEF Next, vars, AppendStep, Record, Initialize, DropBehindMarker, Write,
     WriteTears, Synced, AppendFails, Failing, Pop, Flush, FlushReturns, ReadTail, Crash
<1>4. lost' \subseteq 1..MaxEntries
  <2>1. lost' = lost \/ lost' = lost \cup memory.failed \/ lost' = 1..made
    BY DEF Next, vars, AppendStep, Record, Initialize, DropBehindMarker, Write,
       WriteTears, Synced, AppendFails, Failing, Flush, FlushReturns, ReadTail, Crash
  <2>2. lost \subseteq 1..MaxEntries /\ memory.failed \subseteq 1..MaxEntries
    BY <1>1, TypeParts DEF Remembered
  <2>3. 1..made \subseteq 1..MaxEntries
    BY <1>1, TypeParts
  <2> QED
    BY <2>1, <2>2, <2>3
<1>5. shown' \in Seq(Line)
  <2>1. CASE ReadTail
    <3>1. file.lines \in Seq(Line)
      BY <1>1, TypeParts
    <3> DEFINE m == IF Len(file.lines) > tailLines THEN Len(file.lines) - tailLines + 1 ELSE 1
    <3>2. m \in 1..(Len(file.lines) + 1) /\ Len(file.lines) \in Nat
      BY <3>1
    <3>3. SubSeq(file.lines, m, Len(file.lines)) \in Seq(Line)
      BY <3>1, <3>2, SubSeqProperties
    <3> QED
      BY <2>1, <3>3 DEF ReadTail, boundedTail
  <2>2. CASE shown' = shown
    BY <1>1, <2>2, TypeParts
  <2> QED
    BY <2>1, <2>2 DEF Next, vars, AppendStep, Record, Initialize, DropBehindMarker, Write,
       WriteTears, Synced, AppendFails, Failing, Flush, FlushReturns, Crash
<1>6. memory' \in Remembered /\ count' \in Counted
  BY <1>1, MemoryType, CountType, TypeParts
<1>7. file' \in [lines : Seq(Line), torn : BOOLEAN]
  BY FileType
<1> QED
  BY <1>2, <1>3, <1>4, <1>5, <1>6, <1>7 DEF TypeOK, Counted, Remembered

LEMMA WholeStep ==
  ASSUME Inv, [Next]_vars
  PROVE  Whole'
<1>1. CASE file'.lines = file.lines
  BY <1>1 DEF Inv, Whole, HasMarker, Ids, Size
<1>2. CASE Write
  <2>1. PICK line \in Line :
          /\ file' = [lines |-> Append(file.lines, line), torn |-> FALSE]
          /\ \/ line.id = Marker /\ line.end <= maxLogBytes
             \/ line.id = queue[1].id /\ line.end <= maxLogBytes - MarkerBytes
    BY <1>2, WriteAddsLine
  <2>2. file.lines \in Seq(Line) /\ ~HasMarker /\ pc = "ready" /\ queue # <<>>
    BY <1>2 DEF Inv, TypeOK, Appending, Write
  <2>3. /\ Ids(file'.lines) = Ids(file.lines) \cup {line.id}
        /\ Size(file'.lines) = line.end
    BY <2>1, <2>2, OneMoreLine
  <2>4. queue[1].id \in 1..MaxEntries /\ 1 \in DOMAIN queue
    BY <2>2, QueueFacts DEF Inv, TypeOK, Entry
  <2>5. \A i \in DOMAIN file.lines : file.lines[i].id # Marker /\ file.lines[i].id < queue[1].id
    BY <2>2, <2>4 DEF Inv, InOrder, HasMarker, Ids
  <2>6. /\ DOMAIN file.lines = 1..Len(file.lines) /\ Len(file.lines) \in Nat
        /\ DOMAIN file'.lines = 1..(Len(file.lines) + 1)
        /\ \A i \in 1..Len(file.lines) : file'.lines[i] = file.lines[i]
        /\ file'.lines[Len(file.lines) + 1] = line
    BY <2>1, <2>2, AppendProperties
  <2>7. \A i, j \in DOMAIN file'.lines :
          i < j => file'.lines[i].id # Marker
                   /\ (file'.lines[j].id = Marker \/ file'.lines[i].id < file'.lines[j].id)
    <3> SUFFICES ASSUME NEW i \in DOMAIN file'.lines, NEW j \in DOMAIN file'.lines, i < j
                 PROVE  file'.lines[i].id # Marker
                        /\ (file'.lines[j].id = Marker \/ file'.lines[i].id < file'.lines[j].id)
      OBVIOUS
    <3>1. i \in DOMAIN file.lines /\ file'.lines[i] = file.lines[i]
      BY <2>6
    <3>2. CASE j \in DOMAIN file.lines
      BY <2>6, <3>1, <3>2 DEF Inv, Whole
    <3>3. CASE j = Len(file.lines) + 1
      BY <2>1, <2>5, <2>6, <3>1, <3>3
    <3> QED
      BY <2>6, <3>2, <3>3
  <2>8. Size(file'.lines) <= IF HasMarker' THEN maxLogBytes ELSE maxLogBytes - MarkerBytes
    BY <2>1, <2>3, <2>4 DEF HasMarker, Line
  <2>9. Corrupt \notin Ids(file'.lines)
    BY <2>1, <2>3, <2>4 DEF Inv, Whole
  <2> QED
    BY <2>7, <2>8, <2>9 DEF Whole
<1> QED
  BY <1>1, <1>2, LinesStay

\* A recorded entry goes behind all others.
LEMMA RecordAdds ==
  ASSUME TypeOK, Record
  PROVE  \E size \in Sizes :
           /\ DOMAIN queue = 1..Len(queue) /\ Len(queue) \in Nat
           /\ DOMAIN queue' = 1..(Len(queue) + 1)
           /\ \A i \in DOMAIN queue : queue'[i] = queue[i]
           /\ queue'[Len(queue) + 1] = [id |-> made + 1, size |-> size]
           /\ Ids(queue') = Ids(queue) \cup {made + 1}
<1>1. PICK size \in Sizes : queue' = Append(queue, [id |-> made + 1, size |-> size])
  BY DEF Record
<1>2. [id |-> made + 1, size |-> size] \in Entry /\ queue \in Seq(Entry)
  BY TypeParts DEF Record, Entry
<1>3. /\ DOMAIN queue = 1..Len(queue) /\ Len(queue) \in Nat
      /\ DOMAIN queue' = 1..(Len(queue) + 1)
      /\ \A i \in DOMAIN queue : queue'[i] = queue[i]
      /\ queue'[Len(queue) + 1] = [id |-> made + 1, size |-> size]
  BY <1>1, <1>2, AppendProperties
<1>4. Ids(queue') = Ids(queue) \cup {made + 1}
  BY <1>3 DEF Ids
<1> QED
  BY <1>3, <1>4

LEMMA AppendingStep ==
  ASSUME Inv, [Next]_vars
  PROVE  Appending'
<1>1. TypeOK /\ Appending /\ memory \in Remembered
  BY TypeParts DEF Inv
<1>2. file'.lines = file.lines => (HasMarker' <=> HasMarker) /\ Ids(file'.lines) = Ids(file.lines)
  BY DEF HasMarker
<1>3. CASE Record
  <2>1. queue' # <<>> /\ (queue # <<>> => queue'[1] = queue[1])
    <3>1. PICK size \in Sizes :
            /\ DOMAIN queue' = 1..(Len(queue) + 1) /\ Len(queue) \in Nat
            /\ \A i \in DOMAIN queue : queue'[i] = queue[i]
      BY <1>1, <1>3, RecordAdds
    <3>2. queue # <<>> => 1 \in DOMAIN queue
      BY <1>1, TypeParts
    <3>3. 1 \in DOMAIN queue'
      BY <3>1
    <3> QED
      BY <3>1, <3>2, <3>3
  <2> QED
    BY <1>1, <1>2, <1>3, <2>1 DEF Record, Appending
<1>4. CASE Initialize
  <2>1. file'.lines = file.lines
    BY <1>1, <1>4, TypeParts DEF Initialize, prepareJournal
  <2>2. CASE memory.initialized
    BY <1>1, <1>2, <1>4, <2>1, <2>2 DEF Initialize, Appending
  <2>3. CASE ~memory.initialized
    <3>1. ~file'.torn
      BY <1>1, <1>4, <2>3, TypeParts DEF Initialize, prepareJournal
    <3>2. memory'.initialized /\ (memory'.truncated <=> memory.truncated \/ HasMarker)
      BY <1>1, <1>4, <2>3 DEF Initialize, Remembered, HasMarker
    <3> QED
      BY <1>1, <1>2, <1>4, <2>1, <3>1, <3>2 DEF Initialize, Appending
  <2> QED
    BY <2>2, <2>3
<1>5. CASE DropBehindMarker
  BY <1>1, <1>2, <1>5 DEF DropBehindMarker, Pop, Appending
<1>6. CASE Write
  <2>1. PICK line \in Line :
          /\ file' = [lines |-> Append(file.lines, line), torn |-> FALSE]
          /\ line.id = Marker \/ line.id = queue[1].id
    BY <1>6, WriteAddsLine
  <2>2. Ids(file'.lines) = Ids(file.lines) \cup {line.id} /\ ~file'.torn
    BY <1>1, <2>1, OneMoreLine, TypeParts
  <2> QED
    BY <1>1, <1>6, <2>1, <2>2 DEF Write, Appending, HasMarker
<1>7. CASE WriteTears
  <2>1. file'.lines = file.lines
    BY <1>1, <1>7, TypeParts DEF WriteTears
  <2> QED
    BY <1>1, <1>2, <1>7, <2>1 DEF WriteTears, Appending
<1>8. CASE Synced
  <2>1. memory'.initialized = memory.initialized /\ (memory'.truncated <=> HasMarker)
    BY <1>1, <1>8 DEF Synced, Remembered, HasMarker
  <2> QED
    BY <1>1, <1>2, <1>8, <2>1 DEF Synced, Pop, Appending
<1>9. CASE AppendFails
  <2>1. /\ memory'.truncated = memory.truncated
        /\ IF pc = "idle" THEN memory'.initialized = memory.initialized
                          ELSE memory'.initialized = FALSE
    BY <1>1, <1>9 DEF AppendFails, Remembered, Forget
  <2> QED
    BY <1>1, <1>2, <1>9, <2>1 DEF AppendFails, Failing, Pop, Appending
<1>10. CASE Flush \/ ReadTail \/ UNCHANGED vars
  BY <1>1, <1>2, <1>10 DEF Flush, ReadTail, vars, Appending
<1>11. CASE FlushReturns
  <2>1. memory'.truncated = memory.truncated /\ memory'.initialized = memory.initialized
    BY <1>1, <1>11 DEF FlushReturns, Remembered
  <2> QED
    BY <1>1, <1>2, <1>11, <2>1 DEF FlushReturns, Appending
<1>12. CASE Crash
  BY <1>12 DEF Crash, Fresh, Appending
<1> QED
  BY <1>3, <1>4, <1>5, <1>6, <1>7, <1>8, <1>9, <1>10, <1>11, <1>12 DEF Next, AppendStep

LEMMA InOrderStep ==
  ASSUME Inv, [Next]_vars
  PROVE  InOrder'
<1>1. TypeOK /\ Appending /\ InOrder /\ made \in Nat
  BY TypeParts DEF Inv
<1>2. file.lines \in Seq(Line) /\ queue \in Seq(Entry)
  BY <1>1, TypeParts
<1>3. /\ \A i \in DOMAIN file.lines : file.lines[i] \in Line /\ file.lines[i].id \in Int
      /\ \A i \in DOMAIN queue : queue[i].id \in 1..MaxEntries
  <2>1. \A i \in DOMAIN file.lines : file.lines[i] \in Line
    BY <1>2
  <2>2. \A i \in DOMAIN queue : queue[i] \in Entry
    BY <1>2
  <2>3. \A line \in Line : line.id \in Int
    BY DEF Line
  <2>4. \A entry \in Entry : entry.id \in 1..MaxEntries
    BY DEF Entry
  <2> QED
    BY <2>1, <2>2, <2>3, <2>4
<1>4. CASE Record
  <2>1. PICK size \in Sizes :
          /\ DOMAIN queue = 1..Len(queue) /\ Len(queue) \in Nat
          /\ DOMAIN queue' = 1..(Len(queue) + 1)
          /\ \A i \in DOMAIN queue : queue'[i] = queue[i]
          /\ queue'[Len(queue) + 1] = [id |-> made + 1, size |-> size]
    BY <1>1, <1>4, RecordAdds
  <2>2. /\ \A i \in DOMAIN file.lines : file.lines[i].id <= made + 1
        /\ \A i \in DOMAIN queue' : queue'[i].id <= made + 1
    BY <1>1, <1>3, <2>1 DEF InOrder
  <2>3. \A i, j \in DOMAIN queue' : i < j => queue'[i].id < queue'[j].id
    BY <1>1, <1>3, <2>1 DEF InOrder
  <2>4. \A i \in DOMAIN file.lines, j \in DOMAIN queue' :
          \/ file.lines[i].id < queue'[j].id
          \/ pc = "written" /\ j = 1 /\ file.lines[i].id = queue'[1].id
    <3> SUFFICES ASSUME NEW i \in DOMAIN file.lines, NEW j \in DOMAIN queue'
                 PROVE  \/ file.lines[i].id < queue'[j].id
                        \/ pc = "written" /\ j = 1 /\ file.lines[i].id = queue'[1].id
      OBVIOUS
    <3>1. CASE j \in DOMAIN queue
      BY <1>1, <2>1, <3>1 DEF InOrder
    <3>2. CASE j = Len(queue) + 1
      BY <1>1, <1>3, <2>1, <3>2 DEF InOrder
    <3> QED
      BY <2>1, <3>1, <3>2
  <2> QED
    BY <1>4, <2>2, <2>3, <2>4 DEF Record, InOrder
<1>5. CASE Write
  <2>1. PICK line \in Line :
          /\ file' = [lines |-> Append(file.lines, line), torn |-> FALSE]
          /\ line.id = Marker \/ line.id = queue[1].id
    BY <1>5, WriteAddsLine
  <2>2. /\ DOMAIN file.lines = 1..Len(file.lines) /\ Len(file.lines) \in Nat
        /\ DOMAIN file'.lines = 1..(Len(file.lines) + 1)
        /\ \A i \in 1..Len(file.lines) : file'.lines[i] = file.lines[i]
        /\ file'.lines[Len(file.lines) + 1] = line
    BY <1>2, <2>1, AppendProperties
  <2>3. /\ pc = "ready" /\ pc' = "written" /\ UNCHANGED <<queue, made>>
        /\ queue # <<>> /\ 1 \in DOMAIN queue
    BY <1>1, <1>2, <1>5 DEF Write, Appending
  <2>4. \A i \in DOMAIN file'.lines : file'.lines[i].id <= made
    BY <1>1, <1>3, <2>1, <2>2, <2>3 DEF InOrder
  <2>5. \A i \in DOMAIN file'.lines, j \in DOMAIN queue :
          \/ file'.lines[i].id < queue[j].id
          \/ j = 1 /\ file'.lines[i].id = queue[1].id
    <3> SUFFICES ASSUME NEW i \in DOMAIN file'.lines, NEW j \in DOMAIN queue
                 PROVE  \/ file'.lines[i].id < queue[j].id
                        \/ j = 1 /\ file'.lines[i].id = queue[1].id
      OBVIOUS
    <3>1. CASE i \in DOMAIN file.lines
      BY <1>1, <2>2, <2>3, <3>1 DEF InOrder
    <3>2. CASE i = Len(file.lines) + 1
      <4>1. DOMAIN queue \subseteq Nat \ {0}
        BY <1>2
      <4>2. j = 1 \/ 1 < j
        BY <4>1
      <4>3. 1 < j => queue[1].id < queue[j].id
        BY <1>1, <2>3 DEF InOrder
      <4> QED
        BY <1>3, <2>1, <2>2, <2>3, <3>2, <4>2, <4>3
    <3> QED
      BY <2>2, <3>1, <3>2
  <2> QED
    BY <1>1, <2>3, <2>4, <2>5 DEF InOrder
<1>6. CASE queue # <<>> /\ Pop /\ (DropBehindMarker \/ Synced \/ AppendFails)
  <2>1. UNCHANGED <<file, made>> /\ queue' = Tail(queue)
    BY <1>6 DEF Pop, DropBehindMarker, Synced, AppendFails, Failing
  <2>2. \A i \in DOMAIN queue' : i + 1 \in DOMAIN queue /\ queue'[i] = queue[i + 1]
                                 /\ i \in Nat \ {0}
    BY <1>1, <1>2, <1>6, <2>1, QueueFacts
  <2> QED
    BY <1>1, <2>1, <2>2 DEF InOrder
<1>7. CASE file'.lines = file.lines /\ UNCHANGED <<queue, made>> /\ pc # "written"
  BY <1>1, <1>7 DEF InOrder
<1>8. CASE file'.lines = file.lines /\ UNCHANGED <<queue, made, pc>>
  BY <1>1, <1>8 DEF InOrder
<1>9. CASE Crash
  BY <1>1, <1>9 DEF Crash, InOrder
<1>10. Initialize => file'.lines = file.lines /\ UNCHANGED <<queue, made>> /\ pc # "written"
  BY <1>1, TypeParts DEF Initialize, prepareJournal
<1>11. WriteTears => file'.lines = file.lines /\ UNCHANGED <<queue, made>> /\ pc # "written"
  BY <1>1, TypeParts DEF WriteTears
<1>12. Flush \/ FlushReturns \/ ReadTail \/ UNCHANGED vars =>
         file'.lines = file.lines /\ UNCHANGED <<queue, made, pc>>
  BY DEF Flush, FlushReturns, ReadTail, vars
<1>13. DropBehindMarker \/ Synced \/ AppendFails => queue # <<>> /\ Pop
  BY <1>1 DEF DropBehindMarker, Synced, AppendFails, Failing, CanFail, Appending
<1> QED
  BY <1>4, <1>5, <1>6, <1>7, <1>8, <1>9, <1>10, <1>11, <1>12, <1>13 DEF Next, AppendStep

\* What the append at the head of the queue ended with is known by then: its
\* entry or the marker is in the journal, or the error waits for a flush.
LEMMA LossStep ==
  ASSUME Inv, [Next]_vars
  PROVE  LossIsTold'
<1> DEFINE Told(e) == \/ e \in Ids(file.lines) \cup Ids(queue) \cup lost \cup memory.failed
                      \/ Marker \in Ids(file.lines)
<1>1. TypeOK /\ Appending /\ memory \in Remembered
      /\ made \in Nat /\ \A e \in 1..made : Told(e)
  BY TypeParts DEF Inv, LossIsTold
<1>2. Ids(file.lines) \subseteq Ids(file'.lines)
  <2>1. CASE Write
    <3>1. PICK line \in Line : file'.lines = Append(file.lines, line)
      BY <2>1, WriteAddsLine
    <3> QED
      BY <1>1, <3>1, OneMoreLine, TypeParts
  <2> QED
    BY <2>1, LinesStay
<1>3. SUFFICES ASSUME NEW e \in 1..made'
               PROVE  Told(e)'
  BY DEF LossIsTold
<1>4. CASE Record
  <2>1. Ids(queue') = Ids(queue) \cup {made + 1}
    BY <1>1, <1>4, RecordAdds
  <2>2. e \in 1..made \/ e = made + 1
    BY <1>1, <1>4 DEF Record
  <2> QED
    BY <1>1, <1>4, <2>1, <2>2 DEF Record
<1>5. CASE Crash
  BY <1>5 DEF Crash
<1>6. ASSUME queue # <<>>, Pop, DropBehindMarker \/ Synced \/ AppendFails
      PROVE  Told(e)'
  <2>1. Ids(queue) = Ids(queue') \cup {queue[1].id} /\ Head(queue) = queue[1]
    BY <1>1, <1>6, QueueFacts DEF Pop
  <2>2. UNCHANGED <<file, made, lost>>
    BY <1>6 DEF DropBehindMarker, Synced, AppendFails, Failing
  <2>3. CASE DropBehindMarker
    BY <1>1, <2>2, <2>3 DEF DropBehindMarker, Appending, HasMarker
  <2>4. CASE Synced
    <3>1. memory'.failed = memory.failed
      BY <1>1, <2>4 DEF Synced, Remembered
    <3>2. HasMarker \/ queue[1].id \in Ids(file.lines)
      BY <1>1, <2>4 DEF Synced, Appending
    <3> QED
      BY <1>1, <2>1, <2>2, <3>1, <3>2 DEF HasMarker
  <2>5. CASE AppendFails
    <3>1. memory'.failed = memory.failed \cup {queue[1].id}
      BY <1>1, <2>1, <2>5 DEF AppendFails, Remembered
    <3> QED
      BY <1>1, <2>1, <2>2, <3>1
  <2> QED
    BY <1>6, <2>3, <2>4, <2>5
<1>7. CASE FlushReturns
  <2>1. lost' = lost \cup memory.failed
    BY <1>7 DEF FlushReturns
  <2> QED
    BY <1>1, <1>7, <2>1 DEF FlushReturns
<1>8. CASE UNCHANGED <<queue, made, lost>> /\ memory'.failed = memory.failed
  BY <1>1, <1>2, <1>8
<1>9. Initialize => UNCHANGED <<queue, made, lost>> /\ memory'.failed = memory.failed
  BY <1>1 DEF Initialize, Remembered
<1>10. Write \/ WriteTears \/ Flush \/ ReadTail \/ UNCHANGED vars =>
         UNCHANGED <<queue, made, lost, memory>>
  BY DEF Write, WriteTears, Flush, ReadTail, vars
<1>11. DropBehindMarker \/ Synced \/ AppendFails => queue # <<>> /\ Pop
  BY <1>1 DEF DropBehindMarker, Synced, AppendFails, Failing, CanFail, Appending
<1> QED
  BY <1>4, <1>5, <1>6, <1>7, <1>8, <1>9, <1>10, <1>11 DEF Next, AppendStep

\* Where a viewer's tail starts in a journal of given lines.
TailAt(lines, i) ==
  /\ i \in 0..Len(lines) - Len(shown)
  /\ shown = SubSeq(lines, i + 1, i + Len(shown))

LEMMA TailStays ==
  ASSUME NEW lines \in Seq(Line), NEW line \in Line, shown \in Seq(Line),
         NEW i, TailAt(lines, i)
  PROVE  TailAt(Append(lines, line), i)
<1> DEFINE longer == Append(lines, line)
<1>1. /\ longer \in Seq(Line) /\ Len(longer) = Len(lines) + 1
      /\ \A k \in 1..Len(lines) : longer[k] = lines[k]
  BY AppendProperties
<1>2. /\ Len(lines) \in Nat /\ Len(shown) \in Nat
      /\ i \in Nat /\ i + Len(shown) <= Len(lines)
  BY DEF TailAt
<1>3. i \in 0..Len(longer) - Len(shown)
  BY <1>1, <1>2
<1> HIDE DEF longer
<1>4. /\ SubSeq(lines, i + 1, i + Len(shown)) =
           [k \in 1..Len(shown) |-> lines[i + k]]
      /\ SubSeq(longer, i + 1, i + Len(shown)) =
           [k \in 1..Len(shown) |-> longer[i + k]]
  <2>1. i + Len(shown) - (i + 1) + 1 = Len(shown)
    BY <1>2
  <2>2. \A k \in 1..Len(shown) : (i + 1) + k - 1 = i + k
    BY <1>2
  <2> QED
    BY <1>1, <1>2, <2>1, <2>2, SubSeqProperties
<1>5. \A k \in 1..Len(shown) : longer[i + k] = lines[i + k]
  BY <1>1, <1>2
<1>6. SubSeq(longer, i + 1, i + Len(shown)) = SubSeq(lines, i + 1, i + Len(shown))
  BY <1>4, <1>5
<1> QED
  BY <1>3, <1>6 DEF TailAt, longer

LEMMA ShownStep ==
  ASSUME Inv, [Next]_vars
  PROVE  ShownStays'
<1>1. TypeOK /\ file.lines \in Seq(Line) /\ shown \in Seq(Line)
  BY TypeParts DEF Inv
<1>2. PICK i : TailAt(file.lines, i)
  BY DEF Inv, ShownStays, TailAt
<1>3. CASE ReadTail
  <2> DEFINE lines == file.lines
             m == IF Len(lines) > tailLines THEN Len(lines) - tailLines + 1 ELSE 1
  <2>1. Len(lines) \in Nat /\ m \in 1..(Len(lines) + 1) /\ m - 1 \in Nat
    BY <1>1
  <2>2. shown' = SubSeq(lines, m, Len(lines)) /\ file' = file
    BY <1>3 DEF ReadTail, boundedTail
  <2> HIDE DEF m
  <2>3. Len(shown') = Len(lines) - m + 1
    BY <1>1, <2>1, <2>2, SubSeqProperties
  <2>4. /\ m - 1 \in 0..Len(lines) - Len(shown')
        /\ (m - 1) + 1 = m /\ (m - 1) + Len(shown') = Len(lines)
    BY <2>1, <2>3
  <2> QED
    BY <2>2, <2>4 DEF ShownStays
<1>4. CASE Write
  <2>1. PICK line \in Line : file'.lines = Append(file.lines, line)
    BY <1>4, WriteAddsLine
  <2>2. TailAt(file'.lines, i) /\ shown' = shown
    BY <1>1, <1>2, <1>4, <2>1, TailStays DEF Write
  <2> QED
    BY <2>2 DEF ShownStays, TailAt
<1>5. CASE file'.lines = file.lines /\ shown' = shown
  BY <1>2, <1>5 DEF ShownStays, TailAt
<1>6. shown' = shown \/ ReadTail
  BY DEF Next, vars, AppendStep, Record, Initialize, DropBehindMarker, Write, WriteTears,
     Synced, AppendFails, Failing, Flush, FlushReturns, Crash
<1> QED
  BY <1>3, <1>4, <1>5, <1>6, LinesStay

-----------------------------------------------------------------------------
(* The theorems.                                                           *)

LEMMA InitInv == Init => Inv
<1> SUFFICES ASSUME Init PROVE Inv
  OBVIOUS
<1>1. TypeOK
  BY DEF Init, TypeOK, Fresh
<1>2. Ids(file.lines) = {} /\ Size(file.lines) = 0
  BY DEF Init, Ids, Size
<1>3. Whole
  BY <1>2 DEF Init, Whole, HasMarker
<1>4. Appending /\ InOrder /\ LossIsTold
  BY <1>2 DEF Init, Appending, InOrder, LossIsTold, Fresh
<1>5. ShownStays
  <2>1. file.lines = <<>> /\ shown = <<>>
    BY DEF Init
  <2>2. SubSeq(<<>>, 0 + 1, 0 + Len(<<>>)) = <<>> /\ 0 \in 0..Len(<<>>) - Len(<<>>)
    OBVIOUS
  <2> QED
    BY <2>1, <2>2 DEF ShownStays
<1> QED
  BY <1>1, <1>3, <1>4, <1>5 DEF Inv

\* The inductive invariant: what is on the disk, what the append at the head of
\* the queue knows of it, and the order of journal and queue, through torn
\* writes, failed appends and the death of the process.
THEOREM Invariance == Spec => []Inv
<1>1. Init => Inv
  BY InitInv
<1>2. Inv /\ [Next]_vars => Inv'
  BY TypeStep, WholeStep, AppendingStep, InOrderStep, LossStep, ShownStep DEF Inv
<1> QED
  BY <1>1, <1>2, PTL DEF Spec

\* A later process, or a viewer, can read the journal whatever happened to its
\* writer: prepareJournal finds no line that is no entry, entries are in the
\* order they were recorded, and the cap holds with the marker at the end.
THEOREM Readable == Spec => []JournalReadable
<1>1. Inv => JournalReadable
  <2> SUFFICES ASSUME Inv PROVE JournalReadable
    OBVIOUS
  <2>1. Size(file.lines) \in Nat
    BY SizeType DEF Inv, TypeOK
  <2>2. Size(file.lines) <= maxLogBytes
    BY <2>1 DEF Inv, Whole
  <2> QED
    BY <2>2 DEF Inv, Whole, JournalReadable
<1> QED
  BY <1>1, Invariance, PTL

\* Every entry that was recorded is written or on its way, or its loss can be
\* known: by the marker, by the error of a flush, or by the dead process.
THEOREM LossTold == Spec => []LossIsTold
<1>1. Inv => LossIsTold
  BY DEF Inv
<1> QED
  BY <1>1, Invariance, PTL

\* The lines a viewer read are never rewritten: neither the repair of a torn
\* journal nor its truncation takes one of them away.
THEOREM TailIsKept == Spec => []ShownStays
<1>1. Inv => ShownStays
  BY DEF Inv
<1> QED
  BY <1>1, Invariance, PTL
=============================================================================
