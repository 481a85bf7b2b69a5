-------------------------- MODULE ArtifactStoreProofs --------------------------
(***************************************************************************)
(* The safety properties of ArtifactStore, for every number of processes,  *)
(* outputs, contents and attempts, every limit and every retention, and    *)
(* whatever the lock does: none of them rests on mutual exclusion alone.   *)
(***************************************************************************)
EXTENDS ArtifactStore, FiniteSetTheorems, TLAPS

USE StoreAssumption

\* The counters the bounds of the model are held against.
Counters == [writes : Nat, stalls : Nat, crashes : Nat, prunes : Nat,
             overtaken : BOOLEAN]

\* Content c of attempt id is in its file, or the retention has enough newer
\* attempts not to care any more.
Settled(id, c) == Retained(id) => id \in Stored /\ files[id] = c

\* A writer that published content c of attempt id, or found it published, and
\* says so when it releases the lock.
Published(w, id, c) ==
  /\ writer[w].pc \in {"retaining", "removing"} \/ writer[w].stored
  /\ writer[w].id = id /\ writer[w].content = c

\* What a process decided in the lock still holds when it acts on it, inside
\* the lock or not.
StaleIsSuperseded ==
  \A w \in Writer : \A id \in writer[w].stale : ~Retained(id)

PublishedIsSettled ==
  \A w \in Writer, id \in ArtifactIdentity, c \in Content :
    Published(w, id, c) => Settled(id, c)

ToldIsSettled ==
  \A id \in ArtifactIdentity : \A c \in told[id] : Settled(id, c)

\* Nothing a reader was shown, or is about to be, is newer than what is stored.
ShownIsStored ==
  \A o \in Output :
    reader.shown[o] > 0 => \E id \in Of(o) : id.attempt >= reader.shown[o]

ListedIsNewer == \A id \in reader.id : id.attempt >= reader.shown[id.output]

TypeInv == TypeOK /\ count \in Counters /\ IsFiniteSet(Stored)

Inv ==
  /\ TypeInv
  /\ StaleIsSuperseded
  /\ PublishedIsSettled
  /\ ToldIsSettled
  /\ ShownIsStored
  /\ ListedIsNewer

-----------------------------------------------------------------------------
(* Publishing and removing.                                                 *)

\* The newer attempts of an identity are finitely many.
LEMMA NewerFinite ==
  ASSUME IsFiniteSet(Stored), NEW id
  PROVE  /\ IsFiniteSet(Newer(id))
         /\ Cardinality(Newer(id)) \in Nat
<1>1. Newer(id) \in SUBSET Stored
  BY DEF Newer, Of
<1>2. IsFiniteSet(Newer(id))
  BY <1>1, FS_Subset
<1> QED
  BY <1>2, FS_CardinalityType

\* One file more, under a name no file had; one file less.
Added(id) == files' = [x \in Stored \cup {id} |->
                         IF x = id THEN files'[id] ELSE files[x]]
Removed(id) == files' = Restrict(files, Stored \ {id})

\* The steps of the store that touch the files of a run nothing prunes.
FilesStep ==
  \/ files' = files
  \/ \E id \in ArtifactIdentity \ Stored : Added(id)
  \/ \E id \in Stored : ~Retained(id) /\ Removed(id)

\* What the retention gave up it never wants back, although the newer attempts
\* it counted are removed in turn: each of those had as many newer ones itself.
LEMMA SupersededStays ==
  ASSUME TypeInv, FilesStep, NEW id \in ArtifactIdentity, ~Retained(id)
  PROVE  ~Retained(id)'
<1> USE DEF ArtifactIdentity
<1>0. /\ RetainedAttempts > 0
      /\ Cardinality(Newer(id)) >= RetainedAttempts
      /\ IsFiniteSet(Newer(id))
  BY NewerFinite DEF TypeInv, Retained
<1>1. SUFFICES ASSUME TRUE
               PROVE  /\ IsFiniteSet(Newer(id)')
                      /\ Cardinality(Newer(id)') >= RetainedAttempts
  BY <1>0, FS_CardinalityType DEF Retained
<1>2. CASE files' = files
  BY <1>0, <1>2 DEF Newer, Of, Stored
<1>3. ASSUME NEW new \in ArtifactIdentity \ Stored, Added(new)
      PROVE  /\ IsFiniteSet(Newer(id)')
             /\ Cardinality(Newer(id)') >= RetainedAttempts
  <2>1. Stored' = Stored \cup {new}
    BY <1>3 DEF Added, Stored
  <2>2. IsFiniteSet(Stored')
    BY <2>1, FS_AddElement DEF TypeInv
  <2>3. Newer(id)' \in SUBSET Stored' /\ Newer(id) \in SUBSET Newer(id)'
    BY <2>1 DEF Newer, Of
  <2>4. IsFiniteSet(Newer(id)')
    BY <2>2, <2>3, FS_Subset
  <2>5. Cardinality(Newer(id)) <= Cardinality(Newer(id)')
    BY <2>3, <2>4, FS_Subset
  <2> QED
    BY <1>0, <2>4, <2>5, FS_CardinalityType
<1>4. ASSUME NEW old \in Stored, ~Retained(old), Removed(old)
      PROVE  /\ IsFiniteSet(Newer(id)')
             /\ Cardinality(Newer(id)') >= RetainedAttempts
  <2>1. Stored' = Stored \ {old}
    BY <1>4 DEF Removed, Restrict, Stored
  <2>2. /\ Newer(id)' = Newer(id) \ {old}
        /\ old \in ArtifactIdentity
    BY <2>1, <1>4 DEF Newer, Of, TypeInv, TypeOK
  <2>3. IsFiniteSet(Newer(id)')
    BY <1>0, <2>2, FS_RemoveElement
  <2>4. CASE old \notin Newer(id)
    <3>1. Newer(id)' = Newer(id)
      BY <2>2, <2>4
    <3> QED
      BY <1>0, <2>3, <3>1
  <2>5. CASE old \in Newer(id)
    <3>1. old.output = id.output /\ old.attempt > id.attempt
      BY <2>5 DEF Newer, Of
    <3>2. Newer(old) \in SUBSET Newer(id)'
      <4>1. \A x \in Newer(old) : /\ x \in Stored
                                  /\ x.output = id.output
                                  /\ x.attempt > old.attempt
                                  /\ x.attempt \in Nat
        BY <3>1 DEF Newer, Of, TypeInv, TypeOK
      <4>2. \A x \in Newer(old) : x # old /\ x.attempt > id.attempt
        BY <4>1, <3>1, <2>2
      <4> QED
        BY <4>1, <4>2, <2>2 DEF Newer, Of
    <3>3. Cardinality(Newer(old)) <= Cardinality(Newer(id)')
      BY <2>3, <3>2, FS_Subset
    <3>4. Cardinality(Newer(old)) >= RetainedAttempts /\ Cardinality(Newer(old)) \in Nat
      BY <1>4, NewerFinite DEF TypeInv, Retained
    <3> QED
      BY <2>3, <3>3, <3>4, FS_CardinalityType
  <2> QED
    BY <2>4, <2>5
<1> QED
  BY <1>2, <1>3, <1>4 DEF FilesStep

\* A content that is settled stays so.
LEMMA SettledStays ==
  ASSUME TypeInv, FilesStep, NEW id \in ArtifactIdentity, NEW c, Settled(id, c)
  PROVE  Settled(id, c)'
<1>1. CASE ~Retained(id)
  BY <1>1, SupersededStays DEF Settled
<1>2. CASE /\ Retained(id)
           /\ \E old \in Stored : ~Retained(old) /\ Removed(old)
  BY <1>2 DEF Settled, Removed, Restrict, Stored
<1>3. CASE /\ Retained(id)
           /\ files' = files \/ \E new \in ArtifactIdentity \ Stored : Added(new)
  BY <1>3 DEF Settled, Added, Stored
<1> QED
  BY <1>1, <1>2, <1>3 DEF FilesStep

\* The newest attempt of an output is never the one that is removed.
LEMMA NewestStays ==
  ASSUME TypeInv, FilesStep, NEW o \in Output, NEW n \in Nat,
         \E id \in Of(o) : id.attempt >= n
  PROVE  \E id \in Of(o)' : id.attempt >= n
<1>0. PICK id \in Of(o) : id.attempt >= n
  OBVIOUS
<1>1. CASE files' = files
  BY <1>0, <1>1 DEF Of, Stored
<1>2. ASSUME NEW new \in ArtifactIdentity \ Stored, Added(new)
      PROVE  id \in Of(o)'
  BY <1>2 DEF Added, Of, Stored
<1>3. ASSUME NEW old \in Stored, ~Retained(old), Removed(old)
      PROVE  \E x \in Of(o)' : x.attempt >= n
  <2>1. Stored' = Stored \ {old}
    BY <1>3 DEF Removed, Restrict, Stored
  <2>2. CASE id # old
    BY <1>0, <2>1, <2>2 DEF Of
  <2>3. CASE id = old
    <3>1. Cardinality(Newer(id)) > 0
      BY <1>3, <2>3, NewerFinite DEF TypeInv, Retained
    <3>2. PICK x \in Newer(id) : TRUE
      BY <3>1, FS_EmptySet
    <3>3. /\ x \in Stored /\ x.output = o /\ x.attempt > id.attempt
          /\ x.attempt \in Nat /\ id.attempt \in Nat
      BY <1>0 DEF Newer, Of, TypeInv, TypeOK, ArtifactIdentity
    <3>4. x \in Of(o)' /\ x.attempt >= n
      BY <1>0, <2>1, <2>3, <3>3 DEF Of
    <3> QED
      BY <3>4
  <2> QED
    BY <2>2, <2>3
<1> QED
  BY <1>0, <1>1, <1>2, <1>3 DEF FilesStep

-----------------------------------------------------------------------------
(* What the steps of the system do to the files.                            *)

LEMMA PublishStep ==
  ASSUME TypeInv, NEW w \in Writer, publishExclusive(w), writer[w].id \notin Stored
  PROVE  /\ Added(writer[w].id)
         /\ writer[w].id \in ArtifactIdentity \ Stored
         /\ files'[writer[w].id] = writer[w].content
         /\ Stored' = Stored \cup {writer[w].id}
BY DEF publishExclusive, Added, TypeInv, TypeOK, Stored

LEMMA WriteStep ==
  ASSUME TypeInv, StaleIsSuperseded, NEW w \in Writer, Write(w)
  PROVE  FilesStep
<1>1. CASE publishExclusive(w)
  BY <1>1, PublishStep DEF publishExclusive, FilesStep
<1>2. CASE RemoveStale(w)
  <2>1. PICK id \in writer[w].stale : files' = Restrict(files, Stored \ {id})
    BY <1>2 DEF RemoveStale
  <2>2. CASE id \in Stored
    BY <2>1, <2>2 DEF FilesStep, Removed, StaleIsSuperseded
  <2>3. CASE id \notin Stored
    <3>1. Stored \ {id} = DOMAIN files
      BY <2>3 DEF Stored
    <3>2. files' = files
      BY <2>1, <3>1 DEF Restrict, TypeInv, TypeOK
    <3> QED
      BY <3>2 DEF FilesStep
  <2> QED
    BY <2>2, <2>3
<1>3. CASE ~publishExclusive(w) /\ ~RemoveStale(w)
  BY <1>3 DEF Write, FilesStep, Request, Acquire, AcquireTimesOut, Release, Stall, Crash,
     readExisting, enforceRunLimits, WriteFails, reconcileExisting, applyRetention,
     RetentionDone
<1> QED
  BY <1>1, <1>2, <1>3

\* A writer's record, and the lock.
WriterType ==
  /\ lock \in [holder : Writer \cup {NoOne}, stale : BOOLEAN]
  /\ writer \in [Writer -> [pc : WriterPc, id : ArtifactIdentity,
                   content : Content, stale : SUBSET ArtifactIdentity,
                   stored : BOOLEAN]]

LEMMA IdleType ==
  /\ Idle.pc = "idle" /\ Idle.stale = {} /\ Idle.stored = FALSE
  /\ Idle \in [pc : WriterPc, id : ArtifactIdentity, content : Content,
               stale : SUBSET ArtifactIdentity, stored : BOOLEAN]
<1>1. PICK o \in Output : TRUE
  OBVIOUS
<1>2. [output |-> o, attempt |-> 1] \in ArtifactIdentity
  BY DEF ArtifactIdentity
<1>3. (CHOOSE id \in ArtifactIdentity : TRUE) \in ArtifactIdentity
  BY <1>2
<1>4. (CHOOSE c \in Content : TRUE) \in Content
  OBVIOUS
<1> QED
  BY <1>3, <1>4 DEF Idle, WriterPc

LEMMA WriterTypeStep ==
  ASSUME TypeInv, NEW w \in Writer, Write(w)
  PROVE  WriterType'
<1> DEFINE Record == [pc : WriterPc, id : ArtifactIdentity, content : Content,
                      stale : SUBSET ArtifactIdentity, stored : BOOLEAN]
<1>1. writer \in [Writer -> Record] /\ lock \in [holder : Writer \cup {NoOne}, stale : BOOLEAN]
  BY DEF TypeInv, TypeOK
<1>2. \E r \in Record : writer' = [writer EXCEPT ![w] = r]
  <2>1. writer[w] \in Record
    BY <1>1
  <2>2. \A pc \in WriterPc, b \in BOOLEAN, S \in SUBSET ArtifactIdentity :
          /\ [writer[w] EXCEPT !.pc = pc] \in Record
          /\ [writer[w] EXCEPT !.pc = pc, !.stored = b] \in Record
          /\ [writer[w] EXCEPT !.pc = pc, !.stale = S] \in Record
          /\ [writer[w] EXCEPT !.stale = S] \in Record
    BY <2>1
  <2> HIDE DEF Record
  <2>3. CASE Request(w)
    BY <2>3 DEF Request, Record, WriterPc
  <2>4. CASE AcquireTimesOut(w) \/ Release(w) \/ Crash(w)
    BY <2>4, IdleType DEF AcquireTimesOut, Release, Crash, Record
  <2>5. CASE Stall(w)
    BY <1>1, <2>1, <2>5 DEF Stall
  <2>6. CASE Acquire(w) \/ publishExclusive(w)
    BY <1>1, <2>2, <2>6 DEF Acquire, publishExclusive, Goto, WriterPc
  <2>7. CASE readExisting(w) \/ enforceRunLimits(w)
    <3>1. Same(w) \in BOOLEAN
      BY DEF Same
    <3> QED
      BY <1>1, <2>2, <2>7, <3>1 DEF readExisting, enforceRunLimits, Goto, Leave, WriterPc
  <2>8. CASE WriteFails(w) \/ reconcileExisting(w) \/ RetentionDone(w)
    <3>1. (writer[w].id \in Stored /\ Same(w)) \in BOOLEAN
      OBVIOUS
    <3> QED
      BY <1>1, <2>2, <2>8, <3>1 DEF WriteFails, reconcileExisting, RetentionDone, Leave,
         WriterPc
  <2>9. CASE applyRetention(w)
    <3>1. {id \in Of(writer[w].id.output) : ~Retained(id)} \subseteq ArtifactIdentity
      BY DEF Of, TypeInv, TypeOK
    <3> QED
      BY <1>1, <2>2, <2>9, <3>1 DEF applyRetention, WriterPc
  <2>10. CASE RemoveStale(w)
    <3>1. PICK id : writer' = [writer EXCEPT ![w].stale = @ \ {id}]
      BY <2>10 DEF RemoveStale
    <3>2. writer[w].stale \ {id} \in SUBSET ArtifactIdentity
      BY <2>1 DEF Record
    <3>3. [writer[w] EXCEPT !.stale = writer[w].stale \ {id}] \in Record
      BY <2>1, <3>2 DEF Record
    <3> QED
      BY <3>1, <3>3
  <2> QED
    BY <2>3, <2>4, <2>5, <2>6, <2>7, <2>8, <2>9, <2>10 DEF Write
<1>3. lock' \in [holder : Writer \cup {NoOne}, stale : BOOLEAN]
  <2>1. CASE Acquire(w) \/ Release(w)
    <3>1. \E x \in Writer \cup {NoOne} : lock' = [holder |-> x, stale |-> FALSE]
      BY <2>1 DEF Acquire, Release
    <3> QED
      BY <3>1
  <2>2. CASE Stall(w) \/ Crash(w)
    <3>1. [lock EXCEPT !.stale = TRUE] \in [holder : Writer \cup {NoOne}, stale : BOOLEAN]
      BY <1>1
    <3> QED
      BY <1>1, <2>2, <3>1 DEF Stall, Crash
  <2>3. CASE lock' = lock
    BY <1>1, <2>3
  <2>4. ~Acquire(w) /\ ~Release(w) /\ ~Stall(w) /\ ~Crash(w) => lock' = lock
    BY DEF Write, Request, AcquireTimesOut, readExisting, enforceRunLimits, publishExclusive,
       WriteFails, reconcileExisting, applyRetention, RetentionDone, RemoveStale
  <2> QED
    BY <2>1, <2>2, <2>3, <2>4
<1> HIDE DEF Record
<1>4. writer' \in [Writer -> Record]
  BY <1>1, <1>2
<1> QED
  BY <1>3, <1>4 DEF WriterType, Record

LEMMA FilesTypeStep ==
  ASSUME TypeInv, NEW w \in Writer, Write(w)
  PROVE  /\ Stored' \subseteq ArtifactIdentity
         /\ files' \in [Stored' -> Content]
         /\ IsFiniteSet(Stored')
<1> USE DEF TypeInv, TypeOK
<1>1. CASE publishExclusive(w) /\ writer[w].id \notin Stored
  <2>1. Stored' = Stored \cup {writer[w].id}
    BY <1>1, PublishStep
  <2>2. IsFiniteSet(Stored')
    BY <2>1, FS_AddElement
  <2> QED
    BY <1>1, <2>1, <2>2 DEF publishExclusive
<1>2. CASE RemoveStale(w)
  <2>1. PICK id \in writer[w].stale : files' = Restrict(files, Stored \ {id})
    BY <1>2 DEF RemoveStale
  <2>2. Stored' = Stored \ {id}
    BY <2>1 DEF Restrict, Stored
  <2>3. IsFiniteSet(Stored')
    BY <2>2, FS_RemoveElement
  <2> QED
    BY <2>1, <2>2, <2>3 DEF Restrict, Stored
<1>3. CASE files' = files
  BY <1>3 DEF Stored
<1> QED
  BY <1>1, <1>2, <1>3 DEF Write, Request, Acquire, AcquireTimesOut, Release, Stall, Crash,
     readExisting, enforceRunLimits, publishExclusive, WriteFails, reconcileExisting,
     applyRetention, RetentionDone

LEMMA TypeStep ==
  ASSUME TypeInv, [Next]_vars
  PROVE  TypeInv'
<1> USE DEF TypeInv, TypeOK
<1>1. ASSUME NEW w \in Writer, Write(w)
      PROVE  TypeInv'
  <2>1. reader' = reader
    BY <1>1 DEF Write, Request, Acquire, AcquireTimesOut, Release, Stall, Crash,
       readExisting, enforceRunLimits, publishExclusive, WriteFails, reconcileExisting,
       applyRetention, RetentionDone, RemoveStale
  <2>2. told' \in [ArtifactIdentity -> SUBSET Content]
    <3>1. CASE Release(w)
      <4>1. writer[w].id \in ArtifactIdentity /\ writer[w].content \in Content
        OBVIOUS
      <4> QED
        BY <3>1, <4>1 DEF Release
    <3>2. CASE told' = told
      BY <3>2
    <3>3. ~Release(w) => told' = told
      BY <1>1 DEF Write, Request, Acquire, AcquireTimesOut, Stall, Crash,
         readExisting, enforceRunLimits, publishExclusive, WriteFails, reconcileExisting,
         applyRetention, RetentionDone, RemoveStale
    <3> QED
      BY <3>1, <3>2, <3>3
  <2>3. count' \in Counters
    <3>1. CASE Request(w)
      BY <3>1 DEF Request, Counters
    <3>2. CASE Acquire(w)
      <4>1. (count.overtaken \/ \E v \in Writer : Critical(v)) \in BOOLEAN
        OBVIOUS
      <4> QED
        BY <3>2, <4>1 DEF Acquire, Counters
    <3>3. CASE Stall(w) \/ Crash(w)
      BY <3>3 DEF Stall, Crash, Counters
    <3>4. CASE count' = count
      BY <3>4
    <3>5. ~Request(w) /\ ~Acquire(w) /\ ~Stall(w) /\ ~Crash(w) => count' = count
      BY <1>1 DEF Write, AcquireTimesOut, Release, readExisting, enforceRunLimits,
         publishExclusive, WriteFails, reconcileExisting, applyRetention, RetentionDone,
         RemoveStale
    <3> QED
      BY <3>1, <3>2, <3>3, <3>4, <3>5
  <2> QED
    BY <1>1, <2>1, <2>2, <2>3, WriterTypeStep, FilesTypeStep DEF WriterType
<1>2. ASSUME NEW o \in Output, ListNames(o)
      PROVE  TypeInv'
  <2>1. {id \in Of(o) : Newer(id) = {}} \subseteq ArtifactIdentity
    BY DEF Of
  <2> QED
    BY <1>2, <2>1 DEF ListNames, Stored
<1>3. CASE ReadNewest
  <2>1. PICK id \in reader.id :
          reader' = [reader EXCEPT !.id = {},
             !.shown[id.output] = IF id \in Stored THEN id.attempt ELSE @]
    BY <1>3 DEF ReadNewest
  <2>2. id.output \in Output /\ id.attempt \in 0..MaxAttempt
    BY <2>1 DEF ArtifactIdentity
  <2>3. reader' \in [id : SUBSET ArtifactIdentity, shown : [Output -> 0..MaxAttempt]]
    BY <2>1, <2>2
  <2> QED
    BY <1>3, <2>3 DEF ReadNewest, Stored
<1>4. CASE pruneRun
  <2>1. Stored' = {} /\ files' \in [{} -> Content]
    BY <1>4 DEF pruneRun, Restrict, Stored
  <2>2. count' \in Counters
    BY <1>4 DEF pruneRun, Counters
  <2>3. reader' \in [id : SUBSET ArtifactIdentity, shown : [Output -> 0..MaxAttempt]]
    BY <1>4 DEF pruneRun
  <2>4. told' \in [ArtifactIdentity -> SUBSET Content] /\ UNCHANGED <<lock, writer>>
    BY <1>4 DEF pruneRun
  <2> QED
    BY <2>1, <2>2, <2>3, <2>4, FS_EmptySet
<1>5. CASE UNCHANGED vars
  BY <1>5 DEF vars, Stored
<1> QED
  BY <1>1, <1>2, <1>3, <1>4, <1>5 DEF Next

-----------------------------------------------------------------------------
(* What each process knows.                                                 *)

\* The record of a writer changes only in the writer's own steps.
LEMMA OthersKeep ==
  ASSUME TypeInv, NEW w \in Writer, Write(w), NEW v \in Writer, v # w
  PROVE  writer'[v] = writer[v]
BY DEF TypeInv, TypeOK, Write, Request, Acquire, AcquireTimesOut, Release, Stall, Crash,
   readExisting, enforceRunLimits, publishExclusive, WriteFails, reconcileExisting,
   applyRetention, RetentionDone, RemoveStale, Goto, Leave

\* A step of a writer leaves its content alone, unless it starts anew.
LEMMA ContentStays ==
  ASSUME TypeInv, NEW w \in Writer, Write(w)
  PROVE  \/ writer'[w].id = writer[w].id /\ writer'[w].content = writer[w].content
         \/ writer'[w].pc \in {"idle", "waiting"} /\ ~writer'[w].stored
<1> USE DEF TypeInv, TypeOK
<1>1. CASE Request(w) \/ AcquireTimesOut(w) \/ Release(w) \/ Crash(w)
  BY <1>1, IdleType DEF Request, AcquireTimesOut, Release, Crash
<1>2. CASE Acquire(w) \/ Stall(w) \/ publishExclusive(w)
  BY <1>2 DEF Acquire, Stall, publishExclusive, Goto
<1>5. CASE RemoveStale(w)
  BY <1>5 DEF RemoveStale
<1>6. CASE applyRetention(w)
  BY <1>6 DEF applyRetention
<1>3. CASE readExisting(w) \/ enforceRunLimits(w)
  BY <1>3 DEF readExisting, enforceRunLimits, Goto, Leave
<1>4. CASE WriteFails(w) \/ reconcileExisting(w) \/ RetentionDone(w)
  BY <1>4 DEF WriteFails, reconcileExisting, RetentionDone, Leave
<1> QED
  BY <1>1, <1>2, <1>3, <1>4, <1>5, <1>6 DEF Write

\* Only the retention lists names to remove.
LEMMA StaleStays ==
  ASSUME TypeInv, NEW w \in Writer, Write(w), ~applyRetention(w)
  PROVE  writer'[w].stale \subseteq writer[w].stale
<1> USE DEF TypeInv, TypeOK
<1>1. CASE Request(w) \/ AcquireTimesOut(w) \/ Release(w) \/ Crash(w)
  BY <1>1, IdleType DEF Request, AcquireTimesOut, Release, Crash
<1>2. CASE Acquire(w) \/ Stall(w) \/ publishExclusive(w)
  BY <1>2 DEF Acquire, Stall, publishExclusive, Goto
<1>5. CASE RemoveStale(w)
  BY <1>5 DEF RemoveStale
<1>3. CASE readExisting(w) \/ enforceRunLimits(w)
  BY <1>3 DEF readExisting, enforceRunLimits, Goto, Leave
<1>4. CASE WriteFails(w) \/ reconcileExisting(w) \/ RetentionDone(w)
  BY <1>4 DEF WriteFails, reconcileExisting, RetentionDone, Leave
<1> QED
  BY <1>1, <1>2, <1>3, <1>4, <1>5 DEF Write

\* A writer comes to have published by the link, or by finding the same content.
LEMMA Publishes ==
  ASSUME TypeInv, NEW w \in Writer, Write(w), NEW id, NEW c,
         Published(w, id, c)', ~Published(w, id, c)
  PROVE  /\ writer[w].id = id /\ writer[w].content = c
         /\ \/ publishExclusive(w) /\ id \notin Stored
            \/ files' = files /\ id \in Stored /\ files[id] = c
<1> USE DEF TypeInv, TypeOK, Published
<1>1. writer[w].id = id /\ writer[w].content = c
  BY ContentStays
<1>2. CASE Request(w) \/ AcquireTimesOut(w) \/ Release(w) \/ Crash(w)
  BY <1>2, IdleType DEF Request, AcquireTimesOut, Release, Crash
<1>3. CASE Acquire(w) \/ Stall(w) \/ RemoveStale(w) \/ applyRetention(w) \/ enforceRunLimits(w)
  BY <1>1, <1>3 DEF Acquire, Stall, RemoveStale, applyRetention, enforceRunLimits, Goto, Leave
<1>4. CASE publishExclusive(w)
  BY <1>1, <1>4 DEF publishExclusive, Goto
<1>5. CASE readExisting(w) \/ reconcileExisting(w)
  BY <1>1, <1>5 DEF readExisting, reconcileExisting, Goto, Leave, Same
<1>6. CASE WriteFails(w) \/ RetentionDone(w)
  BY <1>1, <1>6 DEF WriteFails, RetentionDone, Leave
<1> QED
  BY <1>1, <1>2, <1>3, <1>4, <1>5, <1>6 DEF Write

LEMMA StaleStep ==
  ASSUME Inv, NEW w \in Writer, Write(w)
  PROVE  StaleIsSuperseded'
<1>0. TypeInv /\ FilesStep
  BY WriteStep DEF Inv
<1>1. \A v \in Writer : writer[v].stale \subseteq ArtifactIdentity
  BY <1>0 DEF TypeInv, TypeOK
<1>2. \A id \in writer'[w].stale : ~Retained(id) /\ id \in ArtifactIdentity
  <2>1. CASE applyRetention(w)
    BY <1>0, <2>1 DEF applyRetention, TypeInv, TypeOK, Of
  <2>2. CASE ~applyRetention(w)
    BY <1>0, <1>1, <2>2, StaleStays DEF Inv, StaleIsSuperseded
  <2> QED
    BY <2>1, <2>2
<1>3. \A v \in Writer : \A id \in writer'[v].stale : ~Retained(id) /\ id \in ArtifactIdentity
  BY <1>0, <1>1, <1>2, OthersKeep DEF Inv, StaleIsSuperseded
<1> QED
  BY <1>0, <1>3, SupersededStays DEF StaleIsSuperseded

LEMMA PublishedStep ==
  ASSUME Inv, NEW w \in Writer, Write(w)
  PROVE  PublishedIsSettled'
<1>0. TypeInv /\ FilesStep
  BY WriteStep DEF Inv
<1> SUFFICES ASSUME NEW v \in Writer, NEW id \in ArtifactIdentity, NEW c \in Content,
                    Published(v, id, c)'
             PROVE  Settled(id, c)'
  BY DEF PublishedIsSettled
<1>1. CASE Published(v, id, c)
  BY <1>0, <1>1, SettledStays DEF Inv, PublishedIsSettled
<1>2. CASE ~Published(v, id, c)
  <2>1. v = w
    BY <1>0, <1>2, OthersKeep DEF Published
  <2>2. CASE publishExclusive(w) /\ id \notin Stored /\ writer[w].id = id /\ writer[w].content = c
    BY <1>0, <2>2, PublishStep DEF Settled
  <2>3. CASE files' = files /\ id \in Stored /\ files[id] = c
    BY <2>3 DEF Settled, Stored
  <2> QED
    BY <1>0, <1>2, <2>1, <2>2, <2>3, Publishes
<1> QED
  BY <1>1, <1>2

\* Only the release of a writer that published tells anybody of a content.
LEMMA ToldStep ==
  ASSUME Inv, NEW w \in Writer, Write(w)
  PROVE  ToldIsSettled'
<1>0. TypeInv /\ FilesStep
  BY WriteStep DEF Inv
<1> SUFFICES ASSUME NEW id \in ArtifactIdentity, NEW c \in told'[id]
             PROVE  Settled(id, c)'
  BY DEF ToldIsSettled
<1>1. CASE c \in told[id]
  BY <1>0, <1>1, SettledStays DEF Inv, ToldIsSettled
<1>2. CASE c \notin told[id]
  <2>1. Release(w)
    BY <1>2 DEF Write, Request, Acquire, AcquireTimesOut, Stall, Crash, readExisting,
       enforceRunLimits, publishExclusive, WriteFails, reconcileExisting,
       applyRetention, RetentionDone, RemoveStale
  <2>2. id = writer[w].id /\ c = writer[w].content /\ writer[w].stored /\ c \in Content
    BY <1>0, <1>2, <2>1 DEF Release, TypeInv, TypeOK
  <2>3. Settled(id, c)
    BY <2>2 DEF Inv, PublishedIsSettled, Published
  <2> QED
    BY <1>0, <2>3, SettledStays
<1> QED
  BY <1>1, <1>2

-----------------------------------------------------------------------------
(* What the readers are shown.                                              *)

\* The writers leave the readers alone and never remove the newest attempt.
LEMMA ShownStep ==
  ASSUME Inv, NEW w \in Writer, Write(w)
  PROVE  ShownIsStored' /\ ListedIsNewer' /\ reader' = reader
<1>0. TypeInv /\ FilesStep
  BY WriteStep DEF Inv
<1>1. reader' = reader
  BY DEF Write, Request, Acquire, AcquireTimesOut, Release, Stall, Crash, readExisting,
     enforceRunLimits, publishExclusive, WriteFails, reconcileExisting, applyRetention,
     RetentionDone, RemoveStale
<1>2. \A o \in Output : reader.shown[o] \in Nat
  BY <1>0 DEF TypeInv, TypeOK
<1>3. ShownIsStored'
  BY <1>0, <1>1, <1>2, NewestStays DEF Inv, ShownIsStored
<1> QED
  BY <1>1, <1>3 DEF Inv, ListedIsNewer

\* A listing names an attempt as new as any that was shown.
LEMMA ListNamesStep ==
  ASSUME Inv, NEW o \in Output, ListNames(o)
  PROVE  ShownIsStored' /\ ListedIsNewer' /\ reader'.shown = reader.shown
<1>0. TypeInv
  BY DEF Inv
<1>1. /\ reader'.shown = reader.shown /\ files' = files
      /\ reader'.id = {id \in Of(o) : Newer(id) = {}}
  BY <1>0 DEF ListNames, TypeInv, TypeOK
<1>2. ShownIsStored'
  BY <1>1 DEF Inv, ShownIsStored, Of, Stored
<1>3. ASSUME NEW id \in Of(o), Newer(id) = {}
      PROVE  id.attempt >= reader.shown[o]
  <2>1. /\ id.attempt \in Nat /\ id.output = o
        /\ reader.shown[o] \in Nat
    BY <1>0 DEF Of, TypeInv, TypeOK, ArtifactIdentity
  <2>2. CASE reader.shown[o] > 0
    <3>1. PICK x \in Of(o) : x.attempt >= reader.shown[o]
      BY <2>2 DEF Inv, ShownIsStored
    <3>2. x \notin Newer(id) /\ x \in Of(id.output) /\ x.attempt \in Nat
      BY <1>0, <1>3, <2>1 DEF Of, TypeInv, TypeOK, ArtifactIdentity
    <3>3. ~(x.attempt > id.attempt)
      BY <3>2 DEF Newer
    <3> QED
      BY <2>1, <3>1, <3>2, <3>3
  <2> QED
    BY <2>1, <2>2
<1>4. \A id \in Of(o) : id.output = o
  BY DEF Of
<1> QED
  BY <1>1, <1>2, <1>3, <1>4 DEF ListedIsNewer

LEMMA ReadNewestStep ==
  ASSUME Inv, ReadNewest
  PROVE  /\ ShownIsStored' /\ ListedIsNewer'
         /\ \A o \in Output : reader'.shown[o] >= reader.shown[o]
<1>0. TypeInv /\ files' = files
  BY DEF Inv, ReadNewest
<1>1. PICK id \in reader.id :
        reader' = [reader EXCEPT !.id = {},
             !.shown[id.output] = IF id \in Stored THEN id.attempt ELSE @]
  BY DEF ReadNewest
<1>2. /\ id \in ArtifactIdentity /\ id.output \in Output /\ id.attempt \in 1..MaxAttempt
      /\ reader.shown \in [Output -> 0..MaxAttempt]
  BY <1>0 DEF TypeInv, TypeOK, ArtifactIdentity
<1>3. /\ reader'.id = {}
      /\ \A o \in Output :
           reader'.shown[o] = IF o = id.output /\ id \in Stored THEN id.attempt
                                                               ELSE reader.shown[o]
  BY <1>0, <1>1, <1>2 DEF TypeInv, TypeOK
<1>4. id.attempt >= reader.shown[id.output]
  BY DEF Inv, ListedIsNewer
<1>5. \A o \in Output : reader'.shown[o] >= reader.shown[o]
  BY <1>2, <1>3, <1>4
<1>6. \A o \in Output : Of(o)' = Of(o)
  BY <1>0 DEF Of, Stored
<1>7. ASSUME NEW o \in Output, reader'.shown[o] > 0
      PROVE  \E x \in Of(o) : x.attempt >= reader'.shown[o]
  <2>1. CASE o = id.output /\ id \in Stored
    BY <1>2, <1>3, <2>1 DEF Of
  <2>2. CASE ~(o = id.output /\ id \in Stored)
    BY <1>3, <1>7, <2>2 DEF Inv, ShownIsStored
  <2> QED
    BY <2>1, <2>2
<1> QED
  BY <1>3, <1>5, <1>6, <1>7 DEF ShownIsStored, ListedIsNewer

-----------------------------------------------------------------------------
(* The invariant.                                                           *)

\* A run is pruned when no process is at work in it.
LEMMA PruneStep ==
  ASSUME Inv, pruneRun
  PROVE  /\ StaleIsSuperseded' /\ PublishedIsSettled' /\ ToldIsSettled'
         /\ ShownIsStored' /\ ListedIsNewer'
<1>0. TypeInv
  BY DEF Inv
<1>1. \A w \in Writer : writer'[w] = Idle
  BY DEF pruneRun
<1>2. StaleIsSuperseded' /\ PublishedIsSettled'
  BY <1>1, IdleType DEF StaleIsSuperseded, PublishedIsSettled, Published
<1>3. ToldIsSettled'
  BY DEF pruneRun, ToldIsSettled
<1>4. /\ reader'.id = reader.id
      /\ \A o \in Output : reader'.shown[o] = 0
      /\ \A id \in reader.id : id.output \in Output /\ id.attempt \in Nat
  BY <1>0 DEF pruneRun, TypeInv, TypeOK, ArtifactIdentity
<1> QED
  BY <1>2, <1>3, <1>4 DEF ShownIsStored, ListedIsNewer

LEMMA InitInv == Init => Inv
<1> SUFFICES ASSUME Init
             PROVE  Inv
  OBVIOUS
<1>1. Stored = {} /\ files \in [{} -> Content] /\ IsFiniteSet(Stored)
  BY FS_EmptySet DEF Init, Stored
<1>2. TypeOK /\ count \in Counters
  BY <1>1, IdleType DEF Init, TypeOK, Counters
<1>3. StaleIsSuperseded /\ PublishedIsSettled
  BY IdleType DEF Init, StaleIsSuperseded, PublishedIsSettled, Published
<1>4. ToldIsSettled /\ ShownIsStored /\ ListedIsNewer
  BY DEF Init, ToldIsSettled, ShownIsStored, ListedIsNewer
<1> QED
  BY <1>1, <1>2, <1>3, <1>4 DEF Inv, TypeInv

LEMMA InvStep == Inv /\ [Next]_vars => Inv'
<1> SUFFICES ASSUME Inv, [Next]_vars
             PROVE  Inv'
  OBVIOUS
<1>0. TypeInv'
  BY TypeStep DEF Inv
<1>1. ASSUME NEW w \in Writer, Write(w)
      PROVE  Inv'
  BY <1>0, <1>1, StaleStep, PublishedStep, ToldStep, ShownStep DEF Inv
<1>2. CASE UNCHANGED <<files, writer, told>>
  <2>1. StaleIsSuperseded' /\ PublishedIsSettled' /\ ToldIsSettled'
    BY <1>2 DEF Inv, StaleIsSuperseded, PublishedIsSettled, ToldIsSettled, Settled,
       Published, Retained, Newer, Of, Stored
  <2>2. CASE \E o \in Output : ListNames(o)
    BY <1>0, <2>1, <2>2, ListNamesStep DEF Inv
  <2>3. CASE ReadNewest
    BY <1>0, <2>1, <2>3, ReadNewestStep DEF Inv
  <2>4. CASE reader' = reader
    BY <1>0, <1>2, <2>1, <2>4 DEF Inv, ShownIsStored, ListedIsNewer, Of, Stored
  <2>5. CASE pruneRun
    BY <1>0, <2>5, PruneStep DEF Inv
  <2> QED
    BY <1>1, <2>2, <2>3, <2>4, <2>5 DEF Next, vars
<1>3. CASE pruneRun
  BY <1>0, <1>3, PruneStep DEF Inv
<1> QED
  BY <1>1, <1>2, <1>3 DEF Next, vars, ListNames, ReadNewest

THEOREM Invariance == Spec => []Inv
BY InitInv, InvStep, PTL DEF Spec

\* Every state of the store has its type.
THEOREM TypeCorrect == Spec => []TypeOK
<1>1. Inv => TypeOK
  BY DEF Inv, TypeInv
<1> QED
  BY <1>1, Invariance, PTL

\* What a process was told is stored is what readers find, for every number of
\* processes in the lock at once, until newer attempts supersede it.
THEOREM Kept == Spec => []KeptAsTold
<1>1. Inv => KeptAsTold
  <2> SUFFICES ASSUME Inv
               PROVE  KeptAsTold
    OBVIOUS
  <2>1. ASSUME NEW id \in ArtifactIdentity, told[id] # {}, Retained(id)
        PROVE  id \in Stored /\ told[id] = {files[id]}
    BY <2>1 DEF Inv, ToldIsSettled, Settled
  <2> QED
    BY <2>1 DEF KeptAsTold, Inv, TypeInv
<1> QED
  BY <1>1, Invariance, PTL

\* Of an output whose run is not pruned nobody is shown an older attempt after a
\* newer one.
THEOREM MovesForward == Spec => LatestMovesForward
<1>1. Inv /\ [Next]_vars =>
        [count'.prunes = count.prunes =>
           \A o \in Output : reader'.shown[o] >= reader.shown[o]]_vars
  <2> SUFFICES ASSUME Inv, Next, count'.prunes = count.prunes, NEW o \in Output
               PROVE  reader'.shown[o] >= reader.shown[o]
    BY DEF vars
  <2>0. reader.shown[o] \in Nat
    BY DEF Inv, TypeInv, TypeOK
  <2>1. CASE \E w \in Writer : Write(w)
    BY <2>0, <2>1, ShownStep
  <2>2. CASE \E p \in Output : ListNames(p)
    BY <2>0, <2>2, ListNamesStep
  <2>3. CASE ReadNewest
    BY <2>3, ReadNewestStep
  <2>4. CASE pruneRun
    BY <2>4 DEF pruneRun, Inv, TypeInv, Counters
  <2> QED
    BY <2>1, <2>2, <2>3, <2>4 DEF Next
<1> QED
  BY <1>1, Invariance, PTL DEF Spec, LatestMovesForward

-----------------------------------------------------------------------------
(* The limit of the run.                                                    *)

\* The writers that passed the limit and have not published yet.
Publishers == {w \in Writer : writer[w].pc = "publishing"}

\* A writer that passes the limit leaves room for itself, and a writer that
\* publishes fills the room it was counted with.  Alone in the lock it was alone
\* when it looked; overtaken, every other process may have looked with it.
RoomLeft ==
  /\ Cardinality(Stored) + Cardinality(Publishers)
       <= MaxRunArtifacts + (IF count.overtaken THEN Cardinality(Writer) - 1 ELSE 0)
  /\ ~count.overtaken =>
       \A v, w \in Writer : Critical(v) /\ Critical(w) => v = w

LEMMA PublishersFinite ==
  /\ IsFiniteSet(Publishers) /\ Cardinality(Publishers) \in Nat
  /\ Cardinality(Publishers) <= Cardinality(Writer)
  /\ Cardinality(Writer) \in Nat
  /\ \A w \in Writer : Cardinality(Writer) >= 1
<1>1. Publishers \in SUBSET Writer
  BY DEF Publishers
<1>2. IsFiniteSet(Publishers) /\ Cardinality(Publishers) <= Cardinality(Writer)
  BY <1>1, FS_Subset
<1>3. Cardinality(Publishers) \in Nat /\ Cardinality(Writer) \in Nat
  BY <1>2, FS_CardinalityType
<1>4. \A w \in Writer : Cardinality(Writer) # 0
  BY FS_EmptySet
<1> QED
  BY <1>2, <1>3, <1>4

\* Only the check of the limit makes a writer a publisher.
LEMMA PublishersStep ==
  ASSUME TypeInv, NEW w \in Writer, Write(w)
  PROVE  /\ Publishers' \subseteq Publishers \cup {w}
         /\ ~enforceRunLimits(w) => w \notin Publishers' \/ w \in Publishers
         /\ publishExclusive(w) => Publishers' = Publishers \ {w} /\ w \in Publishers
<1> USE DEF TypeInv, TypeOK, Publishers
<1>1. \A v \in Writer : v # w => writer'[v] = writer[v]
  BY OthersKeep
<1>2. ~enforceRunLimits(w) /\ writer'[w].pc = "publishing" => writer[w].pc = "publishing"
  <2>1. CASE Request(w) \/ AcquireTimesOut(w) \/ Release(w) \/ Crash(w)
    BY <2>1, IdleType DEF Request, AcquireTimesOut, Release, Crash
  <2>2. CASE Acquire(w) \/ Stall(w) \/ publishExclusive(w)
    BY <2>2 DEF Acquire, Stall, publishExclusive, Goto
  <2>3. CASE readExisting(w)
    BY <2>3 DEF readExisting, Goto, Leave
  <2>4. CASE WriteFails(w) \/ reconcileExisting(w) \/ RetentionDone(w)
    BY <2>4 DEF WriteFails, reconcileExisting, RetentionDone, Leave
  <2>5. CASE RemoveStale(w)
    BY <2>5 DEF RemoveStale
  <2>6. CASE applyRetention(w)
    BY <2>6 DEF applyRetention
  <2> QED
    BY <2>1, <2>2, <2>3, <2>4, <2>5, <2>6 DEF Write
<1>3. publishExclusive(w) => writer[w].pc = "publishing" /\ writer'[w].pc # "publishing"
  BY DEF publishExclusive, Goto
<1> QED
  BY <1>1, <1>2, <1>3

\* A process enters the lock by taking it over, and knows it when it does.
LEMMA CriticalStep ==
  ASSUME TypeInv, NEW w \in Writer, Write(w)
  PROVE  /\ ~Acquire(w) => count'.overtaken = count.overtaken
         /\ ~Acquire(w) => (Critical(w)' => Critical(w))
         /\ Acquire(w) => count'.overtaken = (count.overtaken \/ \E v \in Writer : Critical(v))
         /\ Acquire(w) => files' = files /\ Publishers' = Publishers
<1> USE DEF TypeInv, TypeOK
<1>1. CASE Acquire(w)
  <2>1. files' = files /\ writer[w].pc # "publishing" /\ writer'[w].pc # "publishing"
    BY <1>1 DEF Acquire, Goto
  <2>2. Publishers' = Publishers
    BY <2>1, OthersKeep DEF Publishers
  <2>3. count'.overtaken = (count.overtaken \/ \E v \in Writer : Critical(v))
    BY <1>1 DEF Acquire, Counters
  <2> QED
    BY <1>1, <2>1, <2>2, <2>3
<1>2. CASE ~Acquire(w)
  <2>1. count'.overtaken = count.overtaken
    BY <1>2 DEF Write, Request, AcquireTimesOut, Release, Stall, Crash, readExisting,
       enforceRunLimits, publishExclusive, WriteFails, reconcileExisting, applyRetention,
       RetentionDone, RemoveStale, Counters
  <2>2. CASE Request(w) \/ AcquireTimesOut(w) \/ Release(w) \/ Crash(w)
    BY <1>2, <2>1, <2>2, IdleType DEF Request, AcquireTimesOut, Release, Crash, Critical
  <2>3. CASE ~(Request(w) \/ AcquireTimesOut(w) \/ Release(w) \/ Crash(w))
    BY <1>2, <2>1, <2>3 DEF Write, Stall, readExisting, enforceRunLimits, publishExclusive,
       WriteFails, reconcileExisting, applyRetention, RetentionDone, RemoveStale, Critical
  <2> QED
    BY <2>2, <2>3
<1> QED
  BY <1>1, <1>2

\* A step that publishes nothing leaves the store no larger.
LEMMA StoredStep ==
  ASSUME TypeInv, NEW w \in Writer, Write(w)
  PROVE  \/ Stored' \subseteq Stored
         \/ publishExclusive(w) /\ Stored' = Stored \cup {writer[w].id}
<1>1. CASE publishExclusive(w)
  BY <1>1, PublishStep DEF publishExclusive, Stored
<1>2. CASE RemoveStale(w)
  BY <1>2 DEF RemoveStale, Restrict, Stored
<1>3. CASE files' = files
  BY <1>3 DEF Stored
<1> QED
  BY <1>1, <1>2, <1>3 DEF Write, Request, Acquire, AcquireTimesOut, Release, Stall, Crash,
     readExisting, enforceRunLimits, WriteFails, reconcileExisting, applyRetention,
     RetentionDone

LEMMA RoomStep ==
  ASSUME TypeInv, RoomLeft, NEW w \in Writer, Write(w)
  PROVE  RoomLeft'
<1> DEFINE P == Cardinality(Publishers)
           S == Cardinality(Stored)
<1>0. /\ count.overtaken \in BOOLEAN /\ count'.overtaken \in BOOLEAN
      /\ MaxRunArtifacts \in Nat \ {0} /\ w \in Writer
      /\ IsFiniteSet(Stored) /\ IsFiniteSet(Stored') /\ S \in Nat /\ S' \in Nat
  <2>1. TypeInv'
    BY TypeStep DEF Next
  <2> QED
    BY <2>1, FS_CardinalityType DEF TypeInv, Counters
<1>1. /\ IsFiniteSet(Publishers) /\ IsFiniteSet(Publishers') /\ P \in Nat /\ P' \in Nat
      /\ P <= Cardinality(Writer) /\ P' <= Cardinality(Writer)
      /\ Cardinality(Writer) \in Nat /\ Cardinality(Writer) >= 1
  <2>2. IsFiniteSet(Publishers') /\ P' \in Nat /\ P' <= Cardinality(Writer)
    <3>1. Publishers' \in SUBSET Writer
      BY DEF Publishers
    <3> QED
      BY <3>1, FS_Subset, FS_CardinalityType
  <2> QED
    BY <2>2, PublishersFinite
<1>2. ~count'.overtaken => \A u, v \in Writer : Critical(u)' /\ Critical(v)' => u = v
  <2> SUFFICES ASSUME ~count'.overtaken, NEW u \in Writer, NEW v \in Writer,
                      Critical(u)', Critical(v)'
               PROVE  u = v
    OBVIOUS
  <2>1. \A x \in Writer : x # w => (Critical(x)' <=> Critical(x))
    BY OthersKeep DEF Critical
  <2>2. CASE Acquire(w)
    BY <2>1, <2>2, CriticalStep
  <2>3. CASE ~Acquire(w)
    BY <2>1, <2>3, CriticalStep DEF RoomLeft
  <2> QED
    BY <2>2, <2>3
<1>3. S' + P' <= MaxRunArtifacts + (IF count'.overtaken THEN Cardinality(Writer) - 1 ELSE 0)
  <2>1. CASE Acquire(w)
    BY <1>0, <1>1, <2>1, CriticalStep DEF RoomLeft, Stored
  <2>2. CASE enforceRunLimits(w)
    <3>1. Stored' = Stored /\ count' = count
      BY <2>2 DEF enforceRunLimits, Stored
    <3>2. CASE S + 1 > MaxRunArtifacts
      <4>1. Publishers' \in SUBSET Publishers
        BY <2>2, <3>2, PublishersStep DEF enforceRunLimits, Leave, Publishers, TypeInv, TypeOK
      <4>2. P' <= P
        BY <1>1, <4>1, FS_Subset
      <4> QED
        BY <1>0, <1>1, <3>1, <4>2 DEF RoomLeft
    <3>3. CASE S + 1 <= MaxRunArtifacts /\ count.overtaken
      BY <1>0, <1>1, <3>1, <3>3
    <3>4. CASE S + 1 <= MaxRunArtifacts /\ ~count.overtaken
      <4>1. Critical(w)
        BY <2>2 DEF enforceRunLimits, Critical
      <4>2. Publishers' \in SUBSET {w}
        BY <3>4, <4>1, PublishersStep DEF RoomLeft, Critical, Publishers
      <4>3. IsFiniteSet({w}) /\ Cardinality({w}) = 1
        BY FS_Singleton
      <4>4. P' <= 1
        BY <4>2, <4>3, FS_Subset
      <4> QED
        BY <1>0, <1>1, <3>1, <3>4, <4>4
    <3> QED
      BY <1>0, <3>2, <3>3, <3>4
  <2>3. CASE publishExclusive(w)
    <3>1. Publishers' = Publishers \ {w} /\ w \in Publishers /\ count'.overtaken = count.overtaken
      BY <2>3, PublishersStep DEF publishExclusive
    <3>2. P' = P - 1
      BY <1>1, <3>1, FS_RemoveElement
    <3>3. S' <= S + 1
      <4>1. CASE Stored' \subseteq Stored
        <5>1. S' <= S
          BY <1>0, <4>1, FS_Subset
        <5> QED
          BY <1>0, <5>1
      <4>2. CASE Stored' = Stored \cup {writer[w].id}
        <5>1. Cardinality(Stored \cup {writer[w].id}) \in {S, S + 1}
          BY <1>0, FS_AddElement
        <5> QED
          BY <1>0, <4>2, <5>1
      <4> QED
        BY <4>1, <4>2, StoredStep
    <3> QED
      BY <1>0, <1>1, <3>1, <3>2, <3>3 DEF RoomLeft
  <2>4. CASE ~Acquire(w) /\ ~enforceRunLimits(w) /\ ~publishExclusive(w)
    <3>1. Stored' \in SUBSET Stored /\ Publishers' \in SUBSET Publishers
          /\ count'.overtaken = count.overtaken
      BY <2>4, StoredStep, PublishersStep, CriticalStep
    <3>2. S' <= S /\ P' <= P
      BY <1>0, <1>1, <3>1, FS_Subset
    <3> QED
      BY <1>0, <1>1, <3>1, <3>2 DEF RoomLeft
  <2> QED
    BY <2>1, <2>2, <2>3, <2>4
<1> QED
  BY <1>2, <1>3 DEF RoomLeft

\* The run is never larger than its limit, but for the processes that had looked
\* at it before another one overtook them in the lock.
THEOREM Limited == Spec => []LimitHeld
<1>1. Init => RoomLeft
  <2> SUFFICES ASSUME Init
               PROVE  RoomLeft
    OBVIOUS
  <2>1. Stored = {} /\ Publishers = {} /\ count.overtaken = FALSE
    BY IdleType DEF Init, Stored, Publishers
  <2>2. \A w \in Writer : ~Critical(w)
    BY IdleType DEF Init, Critical
  <2> QED
    BY <2>1, <2>2, FS_EmptySet DEF RoomLeft
<1>2. Inv /\ RoomLeft /\ [Next]_vars => RoomLeft'
  <2> SUFFICES ASSUME Inv, RoomLeft, [Next]_vars
               PROVE  RoomLeft'
    OBVIOUS
  <2>1. CASE \E w \in Writer : Write(w)
    BY <2>1, RoomStep DEF Inv
  <2>2. CASE UNCHANGED <<files, writer, count>>
    BY <2>2 DEF RoomLeft, Publishers, Critical, Stored
  <2>3. CASE pruneRun
    <3>1. Stored' = {} /\ Publishers' = Publishers /\ count'.overtaken = count.overtaken
      BY <2>3 DEF pruneRun, Restrict, Stored, Publishers, Inv, TypeInv, Counters
    <3>2. Cardinality(Stored') = 0 /\ Cardinality(Stored) \in Nat
      BY <3>1, FS_EmptySet, FS_CardinalityType DEF Inv, TypeInv
    <3>3. \A w \in Writer : Critical(w)' <=> Critical(w)
      BY <2>3 DEF pruneRun, Critical
    <3> QED
      BY <3>1, <3>2, <3>3, PublishersFinite DEF RoomLeft
  <2> QED
    BY <2>1, <2>2, <2>3 DEF Next, vars, ListNames, ReadNewest
<1>3. Inv /\ RoomLeft => LimitHeld
  BY PublishersFinite, FS_CardinalityType DEF Inv, TypeInv, RoomLeft, LimitHeld
<1> QED
  BY <1>1, <1>2, <1>3, Invariance, PTL DEF Spec
=============================================================================
