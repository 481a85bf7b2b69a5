---------------------------- MODULE ArtifactStore ----------------------------
(****************************************************************************)
(* The artifact store of one run (src/storage/artifact-store.ts): immutable *)
(* files named <step>.<output>.<attempt>, published by several processes    *)
(* under a lock that goes stale when its holder stalls or dies, thinned by  *)
(* an optional retention, and read without any lock.                        *)
(*                                                                          *)
(* A record is its content: kind, title and payload are compared together   *)
(* by the code and are one value here.  Every artifact has size one, so the *)
(* limit on files and the limit on bytes, which are looked at in the same   *)
(* place, are one limit.  A crash between the write of the temporary file   *)
(* and the link leaves a name no listing returns.                           *)
(****************************************************************************)
EXTENDS Naturals, FiniteSets, Functions

CONSTANTS
    Writer,            \* processes that write artifacts of the run
    Output,            \* the <step>.<output> pairs
    Content,           \* the contents a write can ask for
    NoOne,             \* the holder of a free lock
    MaxAttempt,        \* bound: attempts of an output
    MaxRunArtifacts,   \* maxRunArtifacts
    RetainedAttempts,  \* retainedAttemptsPerOutput, 0 when it is not set
    MaxWrites,         \* bound: writes that are asked for
    MaxStalls,         \* bound: times a holder stops refreshing its lock
    MaxCrashes,        \* bound: processes that die inside a write
    MaxPrunes          \* bound: removals of the whole run

ASSUME StoreAssumption ==
    /\ IsFiniteSet(Writer) /\ NoOne \notin Writer
    /\ Output # {} /\ Content # {}
    /\ MaxAttempt \in Nat \ {0}
    /\ MaxRunArtifacts \in Nat \ {0}
    /\ RetainedAttempts \in Nat

VARIABLES files, lock, writer, reader, told, count

vars == <<files, lock, writer, reader, told, count>>

ArtifactIdentity == [output : Output, attempt : 1..MaxAttempt]

WriterPc == {"idle", "waiting", "reading", "limits", "publishing",
             "reconciling", "retaining", "removing", "releasing"}

\* The places of a write that are inside the lock.
Critical(w) == writer[w].pc \notin {"idle", "waiting"}

Stored == DOMAIN files
Of(output) == {id \in Stored : id.output = output}
Newer(id) == {other \in Of(id.output) : other.attempt > id.attempt}

Older(id) == {other \in Of(id.output) : other.attempt < id.attempt}

\* The identities the retention leaves alone.
Retained(id) == RetainedAttempts = 0 \/ Cardinality(Newer(id)) < RetainedAttempts

\* A process between two writes.
Idle == [pc |-> "idle", id |-> CHOOSE id \in ArtifactIdentity : TRUE,
         content |-> CHOOSE c \in Content : TRUE, stale |-> {},
         stored |-> FALSE]

Init ==
    /\ files = [id \in {} |-> 0]
    /\ lock = [holder |-> NoOne, stale |-> FALSE]
    /\ writer = [w \in Writer |-> Idle]
    /\ reader = [id |-> {}, shown |-> [o \in Output |-> 0]]
    /\ told = [id \in ArtifactIdentity |-> {}]
    /\ count = [writes |-> 0, stalls |-> 0, crashes |-> 0, prunes |-> 0,
                overtaken |-> FALSE]

Goto(w, pc) == writer' = [writer EXCEPT ![w].pc = pc]

\* The write ends, successfully when the record is stored.
Leave(w, stored) ==
    writer' = [writer EXCEPT ![w].pc = "releasing", ![w].stored = stored]

-----------------------------------------------------------------------------
(* The lock of the run's directory.                                         *)

Request(w) ==
    /\ writer[w].pc = "idle" /\ count.writes < MaxWrites
    /\ \E id \in ArtifactIdentity, c \in Content :
         writer' = [writer EXCEPT ![w] = [pc |-> "waiting", id |-> id,
                       content |-> c, stale |-> {}, stored |-> FALSE]]
    /\ count' = [count EXCEPT !.writes = @ + 1]
    /\ UNCHANGED <<files, lock, reader, told>>

\* A stale lock is taken over, whether its holder is dead or only slow.
Acquire(w) ==
    /\ writer[w].pc = "waiting" /\ (lock.holder = NoOne \/ lock.stale)
    /\ lock' = [holder |-> w, stale |-> FALSE]
    /\ Goto(w, "reading")
    /\ count' = [count EXCEPT !.overtaken = @ \/ \E v \in Writer : Critical(v)]
    /\ UNCHANGED <<files, reader, told>>

AcquireTimesOut(w) ==
    /\ writer[w].pc = "waiting" /\ lock.holder # NoOne /\ ~lock.stale
    /\ writer' = [writer EXCEPT ![w] = Idle]
    /\ UNCHANGED <<files, lock, reader, told, count>>

\* release() removes the lock directory, also one that another process made
\* after a takeover.
Release(w) ==
    /\ writer[w].pc = "releasing"
    /\ lock' = [holder |-> NoOne, stale |-> FALSE]
    /\ told' = IF writer[w].stored
               THEN [told EXCEPT ![writer[w].id] = @ \cup {writer[w].content}]
               ELSE told
    /\ writer' = [writer EXCEPT ![w] = Idle]
    /\ UNCHANGED <<files, reader, count>>

Stall(w) ==
    /\ Critical(w) /\ lock = [holder |-> w, stale |-> FALSE]
    /\ count.stalls < MaxStalls
    /\ lock' = [lock EXCEPT !.stale = TRUE]
    /\ count' = [count EXCEPT !.stalls = @ + 1]
    /\ UNCHANGED <<files, writer, reader, told>>

Crash(w) ==
    /\ Critical(w) /\ count.crashes < MaxCrashes
    /\ writer' = [writer EXCEPT ![w] = Idle]
    /\ lock' = IF lock.holder = w THEN [lock EXCEPT !.stale = TRUE] ELSE lock
    /\ count' = [count EXCEPT !.crashes = @ + 1]
    /\ UNCHANGED <<files, reader, told>>

-----------------------------------------------------------------------------
(* The write.                                                               *)

\* reconcileExisting: only the content decides.
Same(w) == files[writer[w].id] = writer[w].content

readExisting(w) ==
    /\ writer[w].pc = "reading"
    /\ IF writer[w].id \in Stored THEN Leave(w, Same(w)) ELSE Goto(w, "limits")
    /\ UNCHANGED <<files, lock, reader, told, count>>

\* A limit that lets one artifact too many in.
LimitOffByOne(w) ==
    /\ writer[w].pc = "limits"
    /\ IF Cardinality(Stored) > MaxRunArtifacts
       THEN Leave(w, FALSE) ELSE Goto(w, "publishing")
    /\ UNCHANGED <<files, lock, reader, told, count>>

enforceRunLimits(w) ==
    /\ writer[w].pc = "limits"
    /\ IF Cardinality(Stored) + 1 > MaxRunArtifacts
       THEN Leave(w, FALSE) ELSE Goto(w, "publishing")
    /\ UNCHANGED <<files, lock, reader, told, count>>

\* A rename in place of the link: an existing file is replaced.
PublishReplaces(w) ==
    /\ writer[w].pc = "publishing"
    /\ files' = [id \in Stored \cup {writer[w].id} |->
                   IF id = writer[w].id THEN writer[w].content ELSE files[id]]
    /\ Goto(w, "retaining")
    /\ UNCHANGED <<lock, reader, told, count>>

\* The link publishes the file only when no file has its name.
publishExclusive(w) ==
    /\ writer[w].pc = "publishing"
    /\ IF writer[w].id \in Stored
       THEN Goto(w, "reconciling") /\ UNCHANGED files
       ELSE /\ files' = [id \in Stored \cup {writer[w].id} |->
                           IF id = writer[w].id THEN writer[w].content
                                                ELSE files[id]]
            /\ Goto(w, "retaining")
    /\ UNCHANGED <<lock, reader, told, count>>

\* The file system refuses a read, a write, a removal or, once the file has its
\* name, the sync of the directory.
WriteFails(w) ==
    /\ Critical(w) /\ writer[w].pc # "releasing" /\ Leave(w, FALSE)
    /\ UNCHANGED <<files, lock, reader, told, count>>

\* The file that was there is read again; the retention may have removed it.
reconcileExisting(w) ==
    /\ writer[w].pc = "reconciling"
    /\ Leave(w, writer[w].id \in Stored /\ Same(w))
    /\ UNCHANGED <<files, lock, reader, told, count>>

\* The attempts are sorted the wrong way round: the oldest are kept.
RetainOldest(w) ==
    /\ writer[w].pc = "retaining"
    /\ writer' = [writer EXCEPT
         ![w].pc = "removing",
         ![w].stale = {id \in Of(writer[w].id.output) :
             RetainedAttempts > 0 /\ Cardinality(Older(id)) >= RetainedAttempts}]
    /\ UNCHANGED <<files, lock, reader, told, count>>

\* The attempts of the output that are not among the newest ones are listed ...
applyRetention(w) ==
    /\ writer[w].pc = "retaining"
    /\ writer' = [writer EXCEPT
         ![w].pc = "removing",
         ![w].stale = {id \in Of(writer[w].id.output) : ~Retained(id)}]
    /\ UNCHANGED <<files, lock, reader, told, count>>

\* ... and removed one by one, the newer first.
RemoveStale(w) ==
    /\ writer[w].pc = "removing" /\ writer[w].stale # {}
    /\ \E id \in writer[w].stale :
         /\ \A other \in writer[w].stale : other.attempt <= id.attempt
         /\ files' = Restrict(files, Stored \ {id})
         /\ writer' = [writer EXCEPT ![w].stale = @ \ {id}]
    /\ UNCHANGED <<lock, reader, told, count>>

RetentionDone(w) ==
    /\ writer[w].pc = "removing" /\ writer[w].stale = {} /\ Leave(w, TRUE)
    /\ UNCHANGED <<files, lock, reader, told, count>>

-----------------------------------------------------------------------------
(* Readers take no lock.  latest lists the names, then reads the newest; a  *)
(* file the retention removed in between is an artifact_not_found.          *)

ListNames(output) ==
    /\ reader.id = {} /\ Of(output) # {}
    /\ reader' = [reader EXCEPT
         !.id = {id \in Of(output) : Newer(id) = {}}]
    /\ UNCHANGED <<files, lock, writer, told, count>>

ReadNewest ==
    \E id \in reader.id :
      /\ reader' = [reader EXCEPT !.id = {},
           !.shown[id.output] = IF id \in Stored THEN id.attempt ELSE @]
      /\ UNCHANGED <<files, lock, writer, told, count>>

\* The directory of a pruned run, which nothing executes any more, goes without
\* the lock: nothing that was said of its artifacts counts after that.
pruneRun ==
    /\ count.prunes < MaxPrunes /\ \A w \in Writer : writer[w] = Idle
    /\ files' = Restrict(files, {})
    /\ reader' = [reader EXCEPT !.shown = [o \in Output |-> 0]]
    /\ told' = [id \in ArtifactIdentity |-> {}]
    /\ count' = [count EXCEPT !.prunes = @ + 1]
    /\ UNCHANGED <<lock, writer>>

Write(w) ==
    \/ Request(w) \/ Acquire(w) \/ AcquireTimesOut(w) \/ Release(w)
    \/ readExisting(w) \/ enforceRunLimits(w) \/ publishExclusive(w)
    \/ WriteFails(w) \/ reconcileExisting(w) \/ applyRetention(w)
    \/ RemoveStale(w) \/ RetentionDone(w) \/ Stall(w) \/ Crash(w)

Next ==
    \/ \E w \in Writer : Write(w)
    \/ \E o \in Output : ListNames(o)
    \/ ReadNewest
    \/ pruneRun

Spec == Init /\ [][Next]_vars

-----------------------------------------------------------------------------
(* What the store promises.                                                 *)

TypeOK ==
    /\ Stored \subseteq ArtifactIdentity /\ files \in [Stored -> Content]
    /\ lock \in [holder : Writer \cup {NoOne}, stale : BOOLEAN]
    /\ writer \in [Writer -> [pc : WriterPc, id : ArtifactIdentity,
                     content : Content, stale : SUBSET ArtifactIdentity,
                     stored : BOOLEAN]]
    /\ reader \in [id : SUBSET ArtifactIdentity,
                   shown : [Output -> 0..MaxAttempt]]
    /\ told \in [ArtifactIdentity -> SUBSET Content]

\* What a write reported as stored is what a reader finds under that name, for
\* as long as the retention has not had enough newer attempts to remove it: an
\* attempt that is done again after a crash, or a second process inside a lock
\* that went stale, never replaces a content someone was told of.
KeptAsTold ==
    /\ TypeOK
    /\ \A id \in ArtifactIdentity : told[id] # {} /\ Retained(id) =>
         id \in Stored /\ told[id] = {files[id]}

\* The run never holds more artifacts than its limit; when a stalled process
\* was overtaken inside the lock, at most by what the processes that already
\* passed the check still publish.
LimitHeld ==
    Cardinality(Stored) <= MaxRunArtifacts
        + IF count.overtaken THEN Cardinality(Writer) - 1 ELSE 0

\* A consumer that asks twice for the latest artifact of an output is never
\* given an older attempt the second time, whatever is published and removed
\* between its listing and its read.
LatestMovesForward ==
    [][count'.prunes = count.prunes =>
         \A o \in Output : reader'.shown[o] >= reader.shown[o]]_vars
=============================================================================
