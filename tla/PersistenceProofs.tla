-------------------------- MODULE PersistenceProofs --------------------------
(***************************************************************************)
(* Proofs about Persistence, for every set of callers, media, contents and *)
(* workspaces and every value of the bounds.                               *)
(***************************************************************************)
EXTENDS Persistence, TLAPS

-----------------------------------------------------------------------------
(* Type correctness.                                                       *)

LEMMA IdleType == Idle \in Writers
  BY DEF Idle, Writers, NoDigests, Digests, EmptyWorkspace, Workspace

LEMMA NotCleaningType == NotCleaning \in Cleanups
  BY DEF NotCleaning, Cleanups

LEMMA NotReadingType == NotReading \in Reads
  BY DEF NotReading, Reads, NoDigests, Digests

LEMMA InitTypes == Init => Types
  BY IdleType, NotCleaningType, NotReadingType
  DEF Init, Types, EmptyWorkspace, Workspace, NoDigests, Digests

LEMMA RefusedTypes ==
    ASSUME Types, NEW c \in Callers, NEW answer \in Refusals, Refused(c, answer)
    PROVE  writer' \in [Callers -> Writers]
  <1>1. [Idle EXCEPT !.phase = answer] \in Writers
    BY IdleType DEF Idle, Writers
  <1> QED
    BY <1>1 DEF Types, Refused

LEMMA GotoTypes ==
    ASSUME Types, NEW c \in Callers, NEW p \in Active, Goto(c, p)
    PROVE  writer' \in [Callers -> Writers]
  <1>1. [writer[c] EXCEPT !.phase = p] \in Writers
    BY DEF Types, Writers
  <1> QED
    BY <1>1 DEF Types, Goto

LEMMA RowsAfterType ==
    ASSUME Types, NEW c \in Callers
    PROVE  RowsAfter(c) \in Digests
  <1>1. writer[c].additions \in Digests
    BY DEF Types, Writers
  <1> QED
    BY <1>1 DEF Types, RowsAfter, Digests, Added

LEMMA WriterTypes ==
    ASSUME Types, NEW c \in Callers, WriterNext(c)
    PROVE  Types'
  <1> USE DEF database, bucket
  <1>0. writer[c] \in Writers
    BY DEF Types
  <1>1. CASE Begin(c)
    <2> PICK e \in 0..revision, w \in Workspaces, a \in Digests :
          writer' = [writer EXCEPT ![c] =
            [phase |-> "retained", expected |-> e, workspace |-> w, additions |-> a,
             pending |-> {m \in Media : a[m] # Absent}, aged |-> {},
             created |-> {}, start |-> now]]
      BY <1>1 DEF Begin
    <2>1. [phase |-> "retained", expected |-> e, workspace |-> w, additions |-> a,
           pending |-> {m \in Media : a[m] # Absent}, aged |-> {},
           created |-> {}, start |-> now] \in Writers
      BY WorkspacesAssumption DEF Types, Writers, Active
    <2> QED
      BY <1>1, <2>1 DEF Types, Begin
  <1>2. CASE CheckRetained(c)
    <2>1. \/ \E r \in Refusals : Refused(c, r)
          \/ \E p \in Active : Goto(c, p)
      BY <1>2 DEF CheckRetained, Refusals, Active, Uploading
    <2> QED
      BY <1>2, <2>1, RefusedTypes, GotoTypes DEF Types, CheckRetained
  <1>3. ASSUME NEW m \in Media, Verified(c, m)
        PROVE  writer' \in [Callers -> Writers]
    <2>1. CASE Refused(c, "collision")
      BY <2>1, RefusedTypes DEF Refusals
    <2>2. CASE ~Refused(c, "collision")
      <3> DEFINE left == writer[c].pending \ {m}
                 next == IF left = {} THEN "lock" ELSE "head"
                 old == IF Aged(c, m) THEN writer[c].aged \cup {m} ELSE writer[c].aged
      <3>0. old \subseteq Media
        BY <1>0 DEF Writers
      <3> HIDE DEF old
      <3>1. [writer[c] EXCEPT !.pending = left, !.phase = next, !.aged = old] \in Writers
        BY <1>0, <3>0 DEF Writers, Active, Uploading
      <3>2. writer' = [writer EXCEPT ![c] =
              [writer[c] EXCEPT !.pending = left, !.phase = next, !.aged = old]]
        BY <1>3, <2>2 DEF Types, Verified, old
      <3> QED
        BY <3>1, <3>2 DEF Types
    <2> QED
      BY <2>1, <2>2
  <1>4. ASSUME NEW m \in Media, PutHead(c, m)
        PROVE  Types'
    <2>1. writer' \in [Callers -> Writers]
      BY <1>3, <1>4, GotoTypes DEF PutHead, Active, Uploading
    <2> QED
      BY <1>4, <2>1 DEF Types, PutHead
  <1>5. ASSUME NEW m \in Media, PutObject(c, m)
        PROVE  Types'
    <2>1. writer' \in [Callers -> Writers]
      BY <1>5, GotoTypes DEF PutObject, Active, Uploading
    <2>2. stored' \in Digests /\ modified' \in [Media -> Nat]
      BY <1>0, <1>5 DEF Types, PutObject, Writers, Digests
    <2> QED
      BY <1>5, <2>1, <2>2 DEF Types, PutObject
  <1>6. ASSUME NEW m \in Media, PutVerify(c, m)
        PROVE  Types'
    <2>1. writer' \in [Callers -> Writers]
      BY <1>3, <1>6, RefusedTypes DEF PutVerify, Refusals
    <2> QED
      BY <1>6, <2>1 DEF Types, PutVerify
  <1>7. CASE Lock(c)
    <2>1. writer' \in [Callers -> Writers]
      BY <1>7, RefusedTypes, GotoTypes
      DEF Lock, RollBack, Refusals, Active, InTransaction
    <2>2. lock' \in Callers \cup {NoOne}
      BY <1>7 DEF Types, Lock, RollBack, TakeLock
    <2> QED
      BY <1>7, <2>1, <2>2 DEF Types, Lock
  <1>8. CASE WriteRows(c)
    <2>1. CASE Refused(c, "missing") /\ lock' = NoOne
      BY <1>8, <2>1, RefusedTypes DEF Types, WriteRows, Refusals
    <2>2. CASE ~(Refused(c, "missing") /\ lock' = NoOne)
      <3>1. [writer[c] EXCEPT !.phase = "commit", !.created = CreatedReferences(c)]
              \in Writers
        BY <1>0 DEF Writers, Active, InTransaction, CreatedReferences, Workspace
      <3> QED
        BY <1>8, <2>2, <3>1 DEF Types, WriteRows
    <2> QED
      BY <2>1, <2>2
  <1>9. CASE Commit(c)
    <2>1. [Idle EXCEPT !.phase = "committed", !.expected = writer[c].expected,
                       !.created = writer[c].created] \in Writers
      BY <1>0, IdleType DEF Writers, Idle
    <2>2. writer' \in [Callers -> Writers]
      BY <1>9, <2>1 DEF Types, Commit, Acknowledged
    <2> QED
      BY <1>0, <1>9, <2>2, RowsAfterType DEF Types, Commit, Install, Writers, Workspace
  <1>10. CASE CommitUnacknowledged(c)
    <2>1. writer' \in [Callers -> Writers]
      BY <1>10, RefusedTypes DEF CommitUnacknowledged, Refusals
    <2> QED
      BY <1>0, <1>10, <2>1, RowsAfterType
      DEF Types, CommitUnacknowledged, Install, Writers, Workspace, Fault
  <1>11. CASE Fail(c)
    <2>1. writer' \in [Callers -> Writers]
      BY <1>11, RefusedTypes DEF Fail, Refusals
    <2> QED
      BY <1>11, <2>1 DEF Types, Fail, Fault
  <1> QED
    BY <1>1, <1>2, <1>4, <1>5, <1>6, <1>7, <1>8, <1>9, <1>10, <1>11 DEF WriterNext

LEMMA ReaderTypes ==
    ASSUME Types, NEW r \in Readers, ReaderNext(r)
    PROVE  Types'
  <1> USE DEF database, bucket
  <1>1. reader[r] \in Reads
    BY DEF Types
  <1>2. reader' \in [Readers -> Reads]
    <2>1. ASSUME NEW m \in Media, OpenMedia(r, m)
          PROVE  reader' \in [Readers -> Reads]
      BY <2>1 DEF Types, OpenMedia, Reads, Digests, NoDigests
    <2>2. CASE OpenExport(r)
      BY <2>2 DEF Types, OpenExport, Reads, Digests
    <2>3. ASSUME NEW m \in Media, Fetch(r, m)
          PROVE  reader' \in [Readers -> Reads]
      <3>1. [reader[r] EXCEPT !.wanted[m] = Absent] \in Reads
        BY <1>1 DEF Reads, Digests
      <3>2. [phase |-> "failed",
             wanted |-> [NoDigests EXCEPT ![m] = reader[r].wanted[m]]] \in Reads
        BY <1>1 DEF Reads, Digests, NoDigests
      <3> QED
        BY <2>3, <3>1, <3>2 DEF Types, Fetch
    <2>4. CASE FinishRead(r)
      BY <2>4, NotReadingType DEF Types, FinishRead
    <2> QED
      BY <2>1, <2>2, <2>3, <2>4 DEF ReaderNext
  <1> QED
    BY <1>2 DEF ReaderNext, Types, OpenMedia, OpenExport, Fetch, FinishRead

LEMMA CleanerTypes ==
    ASSUME Types, CleanerNext
    PROVE  Types'
  <1> USE DEF database, bucket
  <1>1. cleaner' \in Cleanups
    <2>1. CASE CleanupSnapshot
      BY <2>1, NotCleaningType DEF Types, CleanupSnapshot, Cleanups, NotCleaning, Named
    <2>2. CASE CleanupCutoff
      <3>1. now - Grace \in Int
        BY BoundsAssumption DEF Types
      <3>2. [cleaner EXCEPT !.phase = "list", !.cutoff = now - Grace] \in Cleanups
        BY <3>1 DEF Types, Cleanups
      <3> QED
        BY <2>2, <3>2 DEF CleanupCutoff
    <2>3. CASE CleanupList
      <3>1. Page \subseteq Media
        BY DEF Page, After
      <3> QED
        BY <2>3, <3>1 DEF Types, CleanupList, Cleanups
    <2>4. ASSUME NEW m \in Media, CleanupDelete(m) \/ CleanupSkip(m)
          PROVE  cleaner' \in Cleanups
      BY <2>4 DEF Types, CleanupDelete, CleanupSkip, Cleanups
    <2>5. CASE CleanupFinish \/ CleanupFail
      BY <2>5, NotCleaningType DEF CleanupFinish, CleanupFail
    <2> QED
      BY <2>1, <2>2, <2>3, <2>4, <2>5 DEF CleanerNext, CleanupStep
  <1> QED
    BY <1>1 DEF CleanerNext, CleanupStep, Types, CleanupSnapshot, CleanupCutoff,
         CleanupList, CleanupDelete, CleanupFinish, CleanupSkip, CleanupFail,
         Digests, Fault

LEMMA NextTypes == Types /\ [Next]_vars => Types'
  <1> SUFFICES ASSUME Types, [Next]_vars
               PROVE  Types'
    OBVIOUS
  <1>1. CASE Tick
    BY <1>1 DEF Types, Tick, database, bucket
  <1>2. CASE UNCHANGED vars
    BY <1>2 DEF Types, vars, database, bucket
  <1> QED
    BY <1>1, <1>2, WriterTypes, ReaderTypes, CleanerTypes DEF Next

\* Every behaviour keeps the types of its variables.
THEOREM TypesCorrect == Spec => []Types
  <1> QED
    BY InitTypes, NextTypes, PTL DEF Spec

-----------------------------------------------------------------------------
(* The transaction: one writer at a time, on the revision it expected.     *)

\* What the row lock and the conflict check give a call in each phase.
CallInv(c) ==
    /\ writer[c].phase \in Active =>
         writer[c].expected <= revision /\ writer[c].expected < MaxRevision
    /\ writer[c].phase \in InTransaction =>
         lock = c /\ writer[c].expected = revision
    /\ writer[c].phase = "commit" =>
         /\ writer[c].workspace.media \subseteq Named \cup Added(c)
         /\ writer[c].created = CreatedReferences(c)
    /\ writer[c].phase = "committed" => writer[c].expected < revision

TransactionInv ==
    /\ \A c \in Callers : CallInv(c)
    /\ revision <= MaxRevision
    /\ RowsMatchWorkspace
    /\ AcknowledgedOncePerRevision

LEMMA InitTransaction == Init => TransactionInv
  BY BoundsAssumption
  DEF Init, TransactionInv, CallInv, RowsMatchWorkspace, AcknowledgedOncePerRevision,
      Idle, Active, Uploading, InTransaction, Named, NoDigests, EmptyWorkspace

\* A step of one call leaves the record of every other call alone.
LEMMA WriterFrame ==
    ASSUME Types, NEW c \in Callers, NEW d \in Callers, c # d, WriterNext(c)
    PROVE  writer'[d] = writer[d]
  BY DEF Types, WriterNext, Begin, CheckRetained, PutHead, PutObject, PutVerify, Verified,
         Lock, RollBack, WriteRows, Commit, CommitUnacknowledged, Fail, Goto, Refused,
         Acknowledged

\* The shared database state changes only under the lock.
LEMMA DatabaseFrame ==
    ASSUME Types, NEW c \in Callers, WriterNext(c)
    PROVE  \/ UNCHANGED <<revision, workspace, rows, agedRows, lock>>
           \/ lock = NoOne /\ lock' = c /\ UNCHANGED <<revision, workspace, rows, agedRows>>
           \/ /\ lock' = NoOne /\ UNCHANGED <<revision, workspace, rows, agedRows>>
              /\ lock = c \/ lock = NoOne \/ writer[c].phase \in InTransaction
           \/ Install(c)
  BY DEF WriterNext, Begin, CheckRetained, PutHead, PutObject, PutVerify, Verified,
         Lock, RollBack, TakeLock, WriteRows, Commit, CommitUnacknowledged, Fail,
         database, InTransaction

LEMMA GotoFields ==
    ASSUME Types, NEW c \in Callers, NEW p, Goto(c, p)
    PROVE  /\ writer'[c].phase = p
           /\ writer'[c].expected = writer[c].expected
           /\ writer'[c].workspace = writer[c].workspace
           /\ writer'[c].additions = writer[c].additions
           /\ writer'[c].pending = writer[c].pending
           /\ writer'[c].aged = writer[c].aged
           /\ writer'[c].created = writer[c].created
           /\ writer'[c].start = writer[c].start
  <1>1. writer[c] \in Writers /\ writer'[c] = [writer[c] EXCEPT !.phase = p]
    BY DEF Types, Goto
  <1> QED
    BY <1>1 DEF Writers

LEMMA VerifiedFields ==
    ASSUME Types, NEW c \in Callers, NEW m \in Media, Verified(c, m)
    PROVE  \/ Refused(c, "collision")
           \/ /\ stored[m] = writer[c].additions[m]
              /\ writer'[c].pending = writer[c].pending \ {m}
              /\ \/ writer'[c].phase = "head"
                 \/ writer'[c].phase = "lock" /\ writer[c].pending \ {m} = {}
              /\ writer'[c].expected = writer[c].expected
              /\ writer'[c].workspace = writer[c].workspace
              /\ writer'[c].additions = writer[c].additions
              /\ writer'[c].created = writer[c].created
              /\ writer'[c].start = writer[c].start
              /\ writer'[c].aged = IF Aged(c, m) THEN writer[c].aged \cup {m}
                                   ELSE writer[c].aged
  <1> DEFINE left == writer[c].pending \ {m}
             next == IF left = {} THEN "lock" ELSE "head"
             old == IF Aged(c, m) THEN writer[c].aged \cup {m} ELSE writer[c].aged
  <1>1. writer[c] \in Writers
    BY DEF Types
  <1>2. CASE stored[m] = writer[c].additions[m]
    <2>1. writer'[c] = [writer[c] EXCEPT !.pending = left, !.phase = next, !.aged = old]
      BY <1>2 DEF Types, Verified
    <2> HIDE DEF old
    <2>2. /\ writer'[c].pending = left /\ writer'[c].phase = next
          /\ writer'[c].aged = old
          /\ writer'[c].expected = writer[c].expected
          /\ writer'[c].workspace = writer[c].workspace
          /\ writer'[c].additions = writer[c].additions
          /\ writer'[c].created = writer[c].created
          /\ writer'[c].start = writer[c].start
      BY <1>1, <2>1 DEF Writers
    <2> QED
      BY <1>2, <2>2 DEF old
  <1> QED
    BY <1>2 DEF Verified

LEMMA OtherCalls ==
    ASSUME Types, TransactionInv, NEW c \in Callers, NEW d \in Callers, c # d,
           WriterNext(c)
    PROVE  CallInv(d)'
  <1> USE WorkspacesAssumption
  <1>1. writer'[d] = writer[d] /\ CallInv(d) /\ CallInv(c)
    BY WriterFrame DEF TransactionInv
  <1>2. CASE UNCHANGED <<revision, workspace, rows, lock>>
    BY <1>1, <1>2 DEF CallInv, Named, Added, CreatedReferences
  <1>3. CASE lock = NoOne /\ lock' = c /\ UNCHANGED <<revision, workspace, rows>>
    BY <1>1, <1>3 DEF CallInv, Named, Added, CreatedReferences
  <1>4. CASE /\ lock' = NoOne /\ UNCHANGED <<revision, workspace, rows>>
             /\ lock = c \/ lock = NoOne \/ writer[c].phase \in InTransaction
    <2>1. writer[d].phase \notin InTransaction
      BY <1>1, <1>4 DEF CallInv
    <2> QED
      BY <1>1, <1>4, <2>1 DEF CallInv, InTransaction
  <1>5. CASE Install(c)
    <2>1. writer[d].phase \notin InTransaction
      BY <1>1, <1>5 DEF CallInv, Install, InTransaction
    <2>2. revision' = revision + 1 /\ writer[d].expected \in Nat /\ revision \in Nat
      BY <1>5 DEF Install, Types, Writers
    <2> QED
      BY <1>1, <2>1, <2>2 DEF CallInv, InTransaction
  <1> QED
    BY <1>2, <1>3, <1>4, <1>5, DatabaseFrame

LEMMA OwnCall ==
    ASSUME Types, TransactionInv, NEW c \in Callers, WriterNext(c)
    PROVE  CallInv(c)'
  <1> USE DEF Active, Uploading, InTransaction
  <1>0. /\ CallInv(c) /\ writer[c] \in Writers /\ writer[c].expected \in Nat
        /\ revision \in Nat /\ MaxRevision \in Nat
    BY BoundsAssumption DEF TransactionInv, Types, Writers
  <1>1. ASSUME NEW answer \in Refusals, Refused(c, answer)
        PROVE  CallInv(c)'
    <2>1. writer'[c].phase = answer
      BY <1>1 DEF Types, Refused, Idle
    <2> QED
      BY <2>1 DEF CallInv, Refusals
  <1>2. ASSUME NEW p \in {"head", "put", "verify", "lock"},
               UNCHANGED revision, writer[c].phase \in Active,
               writer'[c].phase = p, writer'[c].expected = writer[c].expected
        PROVE  CallInv(c)'
    BY <1>0, <1>2 DEF CallInv
  <1>3. CASE Begin(c)
    <2> PICK e \in 0..revision, w \in Workspaces, a \in Digests :
          writer' = [writer EXCEPT ![c] =
            [phase |-> "retained", expected |-> e, workspace |-> w, additions |-> a,
             pending |-> {m \in Media : a[m] # Absent}, aged |-> {},
             created |-> {}, start |-> now]]
      BY <1>3 DEF Begin
    <2>1. writer'[c].phase = "retained" /\ writer'[c].expected = e
      BY DEF Types
    <2> QED
      BY <1>0, <1>3, <2>1 DEF CallInv, Begin, database
  <1>4. CASE CheckRetained(c)
    <2>1. \/ \E r \in Refusals : Refused(c, r)
          \/ \E p \in {"head", "lock"} : Goto(c, p)
      BY <1>4 DEF CheckRetained, Refusals
    <2> QED
      BY <1>1, <1>2, <1>4, <2>1, GotoFields DEF CheckRetained, database
  <1>5. ASSUME NEW m \in Media, Verified(c, m), UNCHANGED revision,
               writer[c].phase \in Active
        PROVE  CallInv(c)'
    <2>1. CASE Refused(c, "collision")
      BY <1>1, <2>1 DEF Refusals
    <2>2. CASE ~Refused(c, "collision")
      BY <1>2, <1>5, <2>2, VerifiedFields
    <2> QED
      BY <2>1, <2>2
  <1>6. ASSUME NEW m \in Media, PutHead(c, m)
        PROVE  CallInv(c)'
    BY <1>2, <1>5, <1>6, GotoFields DEF PutHead, database
  <1>7. ASSUME NEW m \in Media, PutObject(c, m)
        PROVE  CallInv(c)'
    BY <1>2, <1>7, GotoFields DEF PutObject, database
  <1>8. ASSUME NEW m \in Media, PutVerify(c, m)
        PROVE  CallInv(c)'
    BY <1>1, <1>5, <1>8 DEF PutVerify, Types, database, Refusals
  <1>9. CASE Lock(c)
    <2>1. CASE Stale(c)
      BY <1>1, <1>9, <2>1 DEF Lock, RollBack, Refusals
    <2>2. CASE ~Stale(c)
      <3>1. writer'[c].phase = "write" /\ writer'[c].expected = writer[c].expected
        BY <1>9, <2>2, GotoFields DEF Lock
      <3> QED
        BY <1>0, <1>9, <2>2, <3>1 DEF Lock, TakeLock, Stale, CallInv
    <2> QED
      BY <2>1, <2>2
  <1>10. CASE WriteRows(c)
    <2>1. CASE writer[c].workspace.media \subseteq Named \cup Added(c)
      <3>1. writer'[c] = [writer[c] EXCEPT !.phase = "commit",
                                           !.created = CreatedReferences(c)]
        BY <1>10, <2>1 DEF WriteRows, Types
      <3>2. /\ writer'[c].phase = "commit" /\ writer'[c].expected = writer[c].expected
            /\ writer'[c].workspace = writer[c].workspace
            /\ writer'[c].additions = writer[c].additions
            /\ writer'[c].created = CreatedReferences(c)
        BY <1>0, <3>1 DEF Writers
      <3> QED
        BY <1>0, <1>10, <2>1, <3>2
        DEF WriteRows, CallInv, Named, Added, CreatedReferences
    <2>2. CASE ~(writer[c].workspace.media \subseteq Named \cup Added(c))
      BY <1>1, <1>10, <2>2 DEF WriteRows, Refusals
    <2> QED
      BY <2>1, <2>2
  <1>11. CASE Commit(c)
    <2>1. writer'[c].phase = "committed" /\ writer'[c].expected = writer[c].expected
      BY <1>11 DEF Commit, Acknowledged, Types, Idle
    <2> QED
      BY <1>0, <1>11, <2>1 DEF Commit, Install, CallInv
  <1>12. CASE CommitUnacknowledged(c) \/ Fail(c)
    BY <1>1, <1>12 DEF CommitUnacknowledged, Fail, Refusals
  <1> QED
    BY <1>3, <1>4, <1>6, <1>7, <1>8, <1>9, <1>10, <1>11, <1>12 DEF WriterNext

LEMMA OnlyCommitAcknowledges ==
    ASSUME Types, NEW c \in Callers, WriterNext(c), ~Commit(c)
    PROVE  writer'[c].phase # "committed"
  <1>1. ASSUME NEW answer \in Refusals, Refused(c, answer)
        PROVE  writer'[c].phase # "committed"
    BY <1>1 DEF Types, Refused, Idle, Refusals
  <1>2. ASSUME NEW p \in {"head", "put", "verify", "lock", "write"}, Goto(c, p)
        PROVE  writer'[c].phase # "committed"
    BY <1>2, GotoFields
  <1>3. ASSUME NEW m \in Media, Verified(c, m)
        PROVE  writer'[c].phase # "committed"
    BY <1>1, <1>3, VerifiedFields DEF Refusals
  <1>4. CASE Begin(c)
    BY <1>4 DEF Begin, Types
  <1>5. CASE CheckRetained(c)
    BY <1>1, <1>2, <1>5 DEF CheckRetained, Refusals
  <1>6. ASSUME NEW m \in Media, PutHead(c, m) \/ PutObject(c, m) \/ PutVerify(c, m)
        PROVE  writer'[c].phase # "committed"
    BY <1>1, <1>2, <1>3, <1>6 DEF PutHead, PutObject, PutVerify, Refusals
  <1>7. CASE Lock(c)
    BY <1>1, <1>2, <1>7 DEF Lock, RollBack, Refusals
  <1>8. CASE WriteRows(c)
    <2>1. CASE Refused(c, "missing")
      BY <1>1, <2>1 DEF Refusals
    <2>2. CASE ~Refused(c, "missing")
      <3>1. writer[c] \in Writers /\ writer'[c] =
              [writer[c] EXCEPT !.phase = "commit", !.created = CreatedReferences(c)]
        BY <1>8, <2>2 DEF WriteRows, Types
      <3> QED
        BY <3>1 DEF Writers
    <2> QED
      BY <2>1, <2>2
  <1>9. CASE CommitUnacknowledged(c) \/ Fail(c)
    BY <1>1, <1>9 DEF CommitUnacknowledged, Fail, Refusals
  <1> QED
    BY <1>4, <1>5, <1>6, <1>7, <1>8, <1>9 DEF WriterNext

LEMMA NextTransaction == Types /\ TransactionInv /\ [Next]_vars => TransactionInv'
  <1> SUFFICES ASSUME Types, TransactionInv, [Next]_vars
               PROVE  TransactionInv'
    OBVIOUS
  <1>1. ASSUME NEW c \in Callers, WriterNext(c)
        PROVE  TransactionInv'
    <2>1. \A d \in Callers : CallInv(d)'
      BY <1>1, OtherCalls, OwnCall
    <2>2. CASE Install(c)
      <3>1. /\ CallInv(c) /\ writer[c] \in Writers
            /\ writer[c].expected \in Nat /\ MaxRevision \in Nat /\ revision \in Nat
        BY BoundsAssumption DEF TransactionInv, Types, Writers
      <3>2. (revision <= MaxRevision)'
        BY <2>2, <3>1 DEF Install, CallInv, Active, InTransaction
      <3>3. RowsMatchWorkspace'
        BY <2>2, <3>1
        DEF Install, CallInv, RowsMatchWorkspace, RowsAfter, Named, Added, Writers, Workspace
      <3>4. AcknowledgedOncePerRevision'
        <4>1. ASSUME NEW a \in Callers, NEW b \in Callers, a # b,
                     writer'[a].phase = "committed", writer'[b].phase = "committed"
              PROVE  writer'[a].expected # writer'[b].expected
          <5>1. /\ writer[c].expected = revision
                /\ writer'[c].phase = "committed" => writer'[c].expected = revision
            BY <1>1, <2>2, <3>1
            DEF Install, CallInv, WriterNext, InTransaction, Begin, CheckRetained, PutHead,
                PutObject, PutVerify, Lock, WriteRows, Fail, Active, Uploading,
                Commit, CommitUnacknowledged, Acknowledged, Refused, Types, Idle
          <5>2. \A d \in Callers \ {c} : writer'[d] = writer[d]
            BY <1>1, WriterFrame
          <5>3. \A d \in Callers : writer[d].phase = "committed"
                                     => writer[d].expected < revision
            BY DEF TransactionInv, CallInv
          <5>4. \A d \in Callers : writer[d].expected \in Nat
            BY DEF Types, Writers
          <5> QED
            BY <3>1, <4>1, <5>1, <5>2, <5>3, <5>4
            DEF TransactionInv, AcknowledgedOncePerRevision
        <4> QED
          BY <2>1, <4>1 DEF AcknowledgedOncePerRevision, CallInv
      <3> QED
        BY <2>1, <3>2, <3>3, <3>4 DEF TransactionInv
    <2>3. CASE ~Install(c)
      <3>1. UNCHANGED <<revision, workspace, rows>>
        BY <1>1, <2>3, DatabaseFrame
      <3>2. writer'[c].phase # "committed"
        BY <1>1, <2>3, OnlyCommitAcknowledges DEF Commit
      <3>3. AcknowledgedOncePerRevision'
        BY <1>1, <2>1, <3>2, WriterFrame
        DEF TransactionInv, AcknowledgedOncePerRevision, CallInv
      <3> QED
        BY <2>1, <3>1, <3>3 DEF TransactionInv, RowsMatchWorkspace, Named
    <2> QED
      BY <2>2, <2>3
  <1>2. CASE UNCHANGED <<database, writer>>
    BY <1>2 DEF TransactionInv, CallInv, RowsMatchWorkspace, AcknowledgedOncePerRevision,
                Named, Added, CreatedReferences, database
  <1>3. ASSUME NEW r \in Readers, ReaderNext(r)
        PROVE  UNCHANGED <<database, writer>>
    BY <1>3 DEF ReaderNext, OpenMedia, OpenExport, Fetch, FinishRead
  <1>4. CleanerNext \/ Tick \/ UNCHANGED vars => UNCHANGED <<database, writer>>
    BY DEF CleanerNext, CleanupStep, CleanupSnapshot, CleanupCutoff, CleanupList,
           CleanupDelete, CleanupFinish, CleanupSkip, CleanupFail, Tick, vars
  <1> QED
    BY <1>1, <1>2, <1>3, <1>4 DEF Next

\* The revision bound, one row per referenced id and no lost update, in every
\* reachable state.
THEOREM TransactionCorrect == Spec => [](Types /\ TransactionInv)
  <1> QED
    BY InitTypes, NextTypes, InitTransaction, NextTransaction, PTL DEF Spec

\* The type invariant of the runs.
THEOREM TypeCorrect == Spec => []TypeOK
  <1>1. Types /\ TransactionInv => TypeOK
    BY DEF TransactionInv, TypeOK
  <1> QED
    BY <1>1, TransactionCorrect, PTL

\* media_objects names exactly the media of the committed workspace.
THEOREM RowsMatch == Spec => []RowsMatchWorkspace
  <1>1. TransactionInv => RowsMatchWorkspace
    BY DEF TransactionInv
  <1> QED
    BY <1>1, TransactionCorrect, PTL

\* No two acknowledged calls replaced the same revision.
THEOREM NoLostUpdate == Spec => []AcknowledgedOncePerRevision
  <1>1. TransactionInv => AcknowledgedOncePerRevision
    BY DEF TransactionInv
  <1> QED
    BY <1>1, TransactionCorrect, PTL

-----------------------------------------------------------------------------
(* The objects.  An object is in danger once a cleanup that read           *)
(* media_objects before its row was there can count it as expired.  An     *)
(* upload of the running call is too young for that, and an object with a  *)
(* row is in every snapshot taken since.                                   *)

\* Too young for any cleanup that starts while the call is running.
Young(c, m) == writer[c].start + CommitBound + QueryBound <= modified[m] + Grace

\* A row that does not rest on an object adopted when Aged.
Protected(m) == rows[m] # Absent /\ m \notin agedRows

\* What a running call has verified, but for the Aged, is there to stay.  A
\* call that is stale by now is refused anyway.
UploadInv(c) ==
    writer[c].phase \in Active =>
      /\ writer[c].start <= now /\ now <= writer[c].start + CommitBound
      /\ writer[c].pending \subseteq Added(c)
      /\ writer[c].phase = "retained" => writer[c].pending = Added(c)
      /\ writer[c].phase \in {"lock"} \cup InTransaction => writer[c].pending = {}
      /\ writer[c].expected = revision =>
           \A m \in Added(c) \ (writer[c].pending \cup writer[c].aged) :
             /\ stored[m] = writer[c].additions[m]
             /\ Young(c, m) \/ Protected(m)

\* What the cleanup's snapshot still says about the database, and how old
\* what it has selected is.
CleanupInv ==
    /\ cleaner.phase # "idle" =>
         /\ cleaner.at <= now
         /\ \A m \in Media \ cleaner.snapshot :
              Protected(m) => cleaner.at + QueryBound <= modified[m] + Grace
    /\ cleaner.phase = "cutoff" => now <= cleaner.at + QueryBound
    /\ cleaner.phase = "list" => cleaner.cutoff <= cleaner.at + QueryBound - Grace
    /\ \A m \in cleaner.candidates :
         /\ stored[m] # Absent /\ ~Protected(m)
         /\ cleaner.at <= now
         /\ modified[m] + Grace < cleaner.at + QueryBound

StorageInv == UploadsStayStored /\ (\A c \in Callers : UploadInv(c)) /\ CleanupInv

LEMMA InitStorage == Init => StorageInv
  BY DEF Init, StorageInv, UploadInv, CleanupInv, UploadsStayStored,
         NoDigests, NotCleaning, Idle, Active, Uploading, InTransaction

\* Nothing a call relies on is a cleanup candidate.
LEMMA ReliedNotCandidate ==
    ASSUME Types, StorageInv, NEW c \in Callers, writer[c].phase \in Active,
           NEW m \in Media, Young(c, m) \/ Protected(m)
    PROVE  m \notin cleaner.candidates
  <1>1. /\ writer[c].start \in Nat /\ now \in Nat /\ modified[m] \in Nat
        /\ cleaner.at \in Nat
    BY DEF Types, Writers, Cleanups
  <1>2. now <= writer[c].start + CommitBound
    BY DEF StorageInv, UploadInv
  <1> SUFFICES ASSUME m \in cleaner.candidates
               PROVE  FALSE
    OBVIOUS
  <1>3. /\ ~Protected(m) /\ cleaner.at <= now
        /\ modified[m] + Grace < cleaner.at + QueryBound
    BY DEF StorageInv, CleanupInv
  <1> QED
    BY <1>1, <1>2, <1>3, BoundsAssumption DEF Young

\* With a grace period that covers a call and the SELECT, what a call uploads
\* or another uploads while it runs is never Aged: only adopted objects are.
LEMMA UploadsNotAged ==
    ASSUME Types, CommitBound + QueryBound <= Grace, NEW c \in Callers, NEW m \in Media,
           writer[c].start <= modified[m]
    PROVE  ~Aged(c, m)
  <1>1. writer[c].start \in Nat /\ modified[m] \in Nat
    BY DEF Types, Writers
  <1> QED
    BY <1>1, BoundsAssumption DEF Aged

LEMMA BeginStorage ==
    ASSUME Types, StorageInv, NEW c \in Callers, Begin(c)
    PROVE  StorageInv'
  <1>1. UNCHANGED <<revision, rows, agedRows, stored, modified, cleaner, now>>
    BY DEF Begin, database, bucket
  <1>2. UploadsStayStored' /\ CleanupInv'
    BY <1>1 DEF StorageInv, CleanupInv, UploadsStayStored, Protected
  <1>3. UploadInv(c)'
    <2> PICK e \in 0..revision, w \in Workspaces, a \in Digests :
          writer' = [writer EXCEPT ![c] =
            [phase |-> "retained", expected |-> e, workspace |-> w, additions |-> a,
             pending |-> {m \in Media : a[m] # Absent}, aged |-> {},
             created |-> {}, start |-> now]]
      BY DEF Begin
    <2>1. /\ writer'[c].phase = "retained" /\ writer'[c].start = now
          /\ writer'[c].additions = a /\ writer'[c].aged = {}
          /\ writer'[c].pending = {m \in Media : a[m] # Absent}
      BY DEF Types
    <2>2. Added(c)' = writer'[c].pending
      BY <2>1 DEF Added
    <2>3. now \in Nat /\ now <= now + CommitBound
      BY BoundsAssumption DEF Types
    <2> QED
      BY <1>1, <2>1, <2>2, <2>3 DEF UploadInv, InTransaction
  <1>4. ASSUME NEW d \in Callers, d # c
        PROVE  UploadInv(d)'
    <2>1. writer'[d] = writer[d] /\ UploadInv(d)
      BY <1>4, WriterFrame DEF WriterNext, StorageInv
    <2> QED
      BY <1>1, <2>1 DEF UploadInv, Added, Young, Protected
  <1> QED
    BY <1>2, <1>3, <1>4 DEF StorageInv

\* A running call's uploads can only be removed by the cleanup, and another
\* commit makes the call stale.
LEMMA OtherUploads ==
    ASSUME Types, TransactionInv, StorageInv, NEW c \in Callers, NEW d \in Callers,
           c # d, WriterNext(c), ~Begin(c)
    PROVE  UploadInv(d)'
  <1>1. /\ writer'[d] = writer[d] /\ UploadInv(d) /\ writer[d] \in Writers
        /\ Added(d)' = Added(d)
    BY WriterFrame DEF StorageInv, Types, Added
  <1>2. now' = now
    BY DEF WriterNext, CheckRetained, PutHead, PutObject, PutVerify, Lock, WriteRows,
           Commit, CommitUnacknowledged, Install, Fail
  <1>3. CASE Install(c)
    <2>1. writer[d].phase \in Active => writer[d].expected # revision'
      <3>1. revision' = revision + 1 /\ revision \in Nat /\ writer[d].expected \in Nat
        BY <1>1, <1>3 DEF Install, Types, Writers
      <3>2. writer[d].phase \in Active => writer[d].expected <= revision
        BY DEF TransactionInv, CallInv
      <3> QED
        BY <3>1, <3>2
    <2> QED
      BY <1>1, <1>2, <2>1 DEF UploadInv
  <1>4. CASE ~Install(c)
    <2>1. UNCHANGED <<revision, rows, agedRows>>
      BY <1>4, DatabaseFrame
    <2>2. \A m \in Media : stored[m] # Absent =>
            stored'[m] = stored[m] /\ modified'[m] = modified[m]
      BY <1>4 DEF WriterNext, CheckRetained, PutHead, PutObject, PutVerify, Lock,
         WriteRows, Commit, CommitUnacknowledged, Fail, bucket, Types, Digests
    <2>3. \A m \in Added(d) : m \in Media /\ writer[d].additions[m] # Absent
      BY DEF Added
    <2> QED
      BY <1>1, <1>2, <2>1, <2>2, <2>3 DEF UploadInv, Young, Protected
  <1> QED
    BY <1>3, <1>4

LEMMA OwnUploads ==
    ASSUME Types, StorageInv, NEW c \in Callers, WriterNext(c), ~Begin(c)
    PROVE  UploadInv(c)'
  <1> USE DEF Active, Uploading, InTransaction
  <1>0. UploadInv(c) /\ writer[c] \in Writers
    BY DEF StorageInv, Types
  <1>1. ASSUME writer'[c].phase \notin Active
        PROVE  UploadInv(c)'
    BY <1>1 DEF UploadInv
  <1>2. ASSUME NEW answer \in Refusals, Refused(c, answer)
        PROVE  UploadInv(c)'
    <2>1. writer'[c].phase = answer
      BY <1>2 DEF Types, Refused, Idle
    <2> QED
      BY <1>1, <2>1 DEF Refusals
  <1>3. ASSUME writer'[c].additions = writer[c].additions
        PROVE  Added(c)' = Added(c)
    BY <1>3 DEF Added
  <1>4. ASSUME UNCHANGED <<now, revision, rows, agedRows>>,
               writer[c].phase \in Active, writer[c].phase # "retained",
               \A m \in Media : stored[m] # Absent =>
                 stored'[m] = stored[m] /\ modified'[m] = modified[m],
               writer'[c].phase \in {"put", "verify", "write", "commit"},
               writer'[c].phase \in InTransaction => writer[c].pending = {},
               writer'[c].expected = writer[c].expected,
               writer'[c].additions = writer[c].additions,
               writer'[c].pending = writer[c].pending,
               writer'[c].aged = writer[c].aged,
               writer'[c].start = writer[c].start
        PROVE  UploadInv(c)'
    <2>1. \A m \in Added(c) : m \in Media /\ writer[c].additions[m] # Absent
      BY DEF Added
    <2> QED
      BY <1>0, <1>3, <1>4, <2>1 DEF UploadInv, Young, Protected
  <1>5. CASE CheckRetained(c)
    <2>1. \/ \E r \in Refusals : Refused(c, r)
          \/ Goto(c, "head")
          \/ Goto(c, "lock") /\ Added(c) = {}
      BY <1>5 DEF CheckRetained, Refusals
    <2>2. UNCHANGED <<now, revision, rows, agedRows, bucket>> /\ writer[c].phase = "retained"
      BY <1>5 DEF CheckRetained, database
    <2> QED
      BY <1>0, <1>2, <1>3, <2>1, <2>2, GotoFields DEF UploadInv
  <1>6. ASSUME NEW m \in Media, Verified(c, m), UNCHANGED <<now, bucket, database>>,
               writer[c].phase \in Uploading
        PROVE  UploadInv(c)'
    <2>1. CASE Refused(c, "collision")
      BY <1>2, <2>1 DEF Refusals
    <2>2. CASE ~Refused(c, "collision")
      <3> DEFINE left == writer[c].pending \ {m}
      <3>1. /\ stored[m] = writer[c].additions[m]
            /\ writer'[c].pending = left
            /\ writer'[c].phase = "head" \/ (writer'[c].phase = "lock" /\ left = {})
            /\ writer'[c].expected = writer[c].expected
            /\ writer'[c].additions = writer[c].additions
            /\ writer'[c].start = writer[c].start
            /\ writer[c].aged \subseteq writer'[c].aged
            /\ Aged(c, m) => m \in writer'[c].aged
        BY <1>6, <2>2, VerifiedFields
      <3>2. ~Aged(c, m) => Young(c, m) \/ Protected(m)
        <4>1. /\ writer[c].start \in Nat /\ modified[m] \in Nat
          BY <1>0 DEF Types, Writers
        <4> QED
          BY <4>1, BoundsAssumption DEF Aged, Young, Protected
      <3>3. /\ UNCHANGED <<now, revision, rows, agedRows, stored, modified>>
            /\ Added(c)' = Added(c)
        BY <1>3, <1>6, <3>1 DEF bucket, database
      <3>4. \A n \in Media : (Young(c, n) \/ Protected(n))' = (Young(c, n) \/ Protected(n))
        BY <3>1, <3>3 DEF Young, Protected
      <3>5. ASSUME writer[c].expected = revision,
                   NEW n \in Added(c) \ (left \cup writer'[c].aged)
            PROVE  /\ stored[n] = writer[c].additions[n]
                   /\ Young(c, n) \/ Protected(n)
        BY <1>0, <1>6, <3>1, <3>2, <3>5 DEF UploadInv
      <3> QED
        BY <1>0, <1>6, <3>1, <3>3, <3>4, <3>5 DEF UploadInv, Added
    <2> QED
      BY <2>1, <2>2
  <1>7. ASSUME NEW m \in Media, PutHead(c, m)
        PROVE  UploadInv(c)'
    <2>1. CASE Goto(c, "put")
      BY <1>4, <1>7, <2>1, GotoFields DEF PutHead, bucket, database
    <2>2. CASE Verified(c, m)
      BY <1>6, <1>7, <2>2 DEF PutHead
    <2> QED
      BY <1>7, <2>1, <2>2 DEF PutHead
  <1>8. ASSUME NEW m \in Media, PutObject(c, m)
        PROVE  UploadInv(c)'
    <2>1. \A n \in Media : stored[n] # Absent =>
            stored'[n] = stored[n] /\ modified'[n] = modified[n]
      BY <1>8 DEF PutObject, bucket, Types, Digests
    <2> QED
      BY <1>4, <1>8, <2>1, GotoFields DEF PutObject, database
  <1>9. ASSUME NEW m \in Media, PutVerify(c, m)
        PROVE  UploadInv(c)'
    BY <1>2, <1>6, <1>9 DEF PutVerify, Refusals
  <1>10. CASE Lock(c)
    <2>1. CASE RollBack(c)
      BY <1>2, <2>1 DEF RollBack, Refusals
    <2>2. CASE ~RollBack(c)
      BY <1>0, <1>4, <1>10, <2>2, GotoFields DEF Lock, UploadInv, bucket
    <2> QED
      BY <2>1, <2>2
  <1>11. CASE WriteRows(c)
    <2>1. CASE Refused(c, "missing")
      BY <1>2, <2>1 DEF Refusals
    <2>2. CASE ~Refused(c, "missing")
      <3>1. writer'[c] =
              [writer[c] EXCEPT !.phase = "commit", !.created = CreatedReferences(c)]
        BY <1>11, <2>2 DEF WriteRows, Types
      <3>2. /\ writer'[c].phase = "commit" /\ writer'[c].start = writer[c].start
            /\ writer'[c].additions = writer[c].additions
            /\ writer'[c].expected = writer[c].expected
            /\ writer'[c].pending = writer[c].pending
            /\ writer'[c].aged = writer[c].aged
        BY <1>0, <3>1 DEF Writers
      <3> QED
        BY <1>0, <1>4, <1>11, <3>2 DEF WriteRows, UploadInv, bucket
    <2> QED
      BY <2>1, <2>2
  <1>12. CASE Commit(c)
    BY <1>1, <1>12 DEF Commit, Acknowledged, Types, Idle
  <1>13. CASE CommitUnacknowledged(c) \/ Fail(c)
    BY <1>2, <1>13 DEF CommitUnacknowledged, Fail, Refusals
  <1> QED
    BY <1>5, <1>7, <1>8, <1>9, <1>10, <1>11, <1>12, <1>13 DEF WriterNext

\* A row the commit leaves protected was protected before, or is one the call
\* adds over an object that is young, or was protected all along.
LEMMA InstallStorage ==
    ASSUME Types, TransactionInv, StorageInv, NEW c \in Callers, Install(c)
    PROVE  UploadsStayStored' /\ CleanupInv'
  <1>1. /\ writer[c].phase = "commit" /\ rows' = RowsAfter(c)
        /\ UNCHANGED <<stored, modified, now, cleaner>>
        /\ agedRows' = {m \in writer[c].workspace.media :
             IF m \in Added(c) THEN m \in writer[c].aged ELSE m \in agedRows}
    BY DEF Install, bucket
  <1>2. ASSUME NEW m \in Media, Protected(m)'
        PROVE  \/ /\ m \in Added(c) \ writer[c].aged
                  /\ rows'[m] = writer[c].additions[m]
               \/ Protected(m) /\ rows'[m] = rows[m]
    BY <1>1, <1>2 DEF RowsAfter, Protected
  <1>3. ASSUME NEW m \in Added(c) \ writer[c].aged
        PROVE  /\ m \in Media /\ stored[m] = writer[c].additions[m]
               /\ Young(c, m) \/ Protected(m)
    <2>1. writer[c].expected = revision /\ writer[c].phase \in Active
      BY <1>1 DEF TransactionInv, CallInv, InTransaction, Active
    <2> QED
      BY <1>1, <1>3, <2>1 DEF StorageInv, UploadInv, Added, InTransaction
  <1>4. UploadsStayStored'
    BY <1>1, <1>2, <1>3 DEF StorageInv, UploadsStayStored, Protected
  <1>5. ASSUME NEW m \in Media, Protected(m)'
        PROVE  Protected(m) \/ Young(c, m)
    BY <1>2, <1>3, <1>5
  <1>6. writer[c].phase \in Active
    BY <1>1 DEF Active, InTransaction
  <1>7. ASSUME NEW m \in cleaner.candidates
        PROVE  ~Protected(m)'
    <2>1. m \in Media
      BY DEF Types, Cleanups
    <2> QED
      BY <1>5, <1>6, <1>7, <2>1, ReliedNotCandidate
  <1>8. ASSUME cleaner.phase # "idle", NEW m \in Media \ cleaner.snapshot,
               Protected(m)'
        PROVE  cleaner.at + QueryBound <= modified[m] + Grace
    <2>1. CASE Protected(m)
      BY <1>8, <2>1 DEF StorageInv, CleanupInv
    <2>2. CASE Young(c, m)
      <3>1. /\ cleaner.at <= now /\ now <= writer[c].start + CommitBound
            /\ cleaner.at \in Nat /\ now \in Nat /\ writer[c].start \in Nat
            /\ modified[m] \in Nat
        BY <1>6, <1>8 DEF StorageInv, CleanupInv, UploadInv, Types, Cleanups, Writers
      <3> QED
        BY <2>2, <3>1, BoundsAssumption DEF Young
    <2> QED
      BY <1>5, <1>8, <2>1, <2>2
  <1>9. CleanupInv'
    BY <1>1, <1>7, <1>8 DEF StorageInv, CleanupInv
  <1> QED
    BY <1>4, <1>9

LEMMA WriterStorage ==
    ASSUME Types, TransactionInv, StorageInv, NEW c \in Callers, WriterNext(c)
    PROVE  StorageInv'
  <1>1. CASE Begin(c)
    BY <1>1, BeginStorage
  <1>2. CASE ~Begin(c)
    <2>1. \A d \in Callers : UploadInv(d)'
      BY <1>2, OwnUploads, OtherUploads
    <2>2. CASE Install(c)
      BY <2>1, <2>2, InstallStorage DEF StorageInv
    <2>3. CASE ~Install(c)
      <3>1. UNCHANGED <<rows, agedRows, now, cleaner>>
        BY <1>2, <2>3 DEF WriterNext, CheckRetained, PutHead, PutObject, PutVerify, Lock,
             WriteRows, Commit, CommitUnacknowledged, Fail, database
      <3>2. \A m \in Media : stored[m] # Absent =>
              stored'[m] = stored[m] /\ modified'[m] = modified[m]
        BY <1>2, <2>3 DEF WriterNext, CheckRetained, PutHead, PutObject, PutVerify, Lock,
             WriteRows, Commit, CommitUnacknowledged, Fail, bucket, Types, Digests
      <3>3. \A m \in Media : Protected(m)' = Protected(m)
                             /\ (Protected(m) => stored[m] # Absent /\ stored[m] = rows[m])
        BY <3>1 DEF Protected, StorageInv, UploadsStayStored
      <3>4. cleaner.candidates \subseteq Media
        BY DEF Types, Cleanups
      <3>5. CleanupInv'
        BY <3>1, <3>2, <3>3, <3>4 DEF StorageInv, CleanupInv
      <3>6. UploadsStayStored'
        BY <3>1, <3>2, <3>3 DEF StorageInv, UploadsStayStored, Protected
      <3> QED
        BY <2>1, <3>5, <3>6 DEF StorageInv
    <2> QED
      BY <2>2, <2>3
  <1> QED
    BY <1>1, <1>2

\* A run selects only what no protected row, and no upload, needs: the cutoff
\* it computed lies at least a grace period before its SELECT could end.
LEMMA ListStorage ==
    ASSUME Types, StorageInv, CleanupList
    PROVE  CleanupInv'
  <1> DEFINE found == {m \in Page : Unreferenced(m) /\ Expired(m)}
  <1>1. /\ cleaner.phase = "list"
        /\ UNCHANGED <<rows, agedRows, stored, modified, now>>
        /\ cleaner'.phase \in {"list", "delete"} /\ cleaner'.at = cleaner.at
        /\ cleaner'.snapshot = cleaner.snapshot /\ cleaner'.cutoff = cleaner.cutoff
        /\ cleaner'.candidates = cleaner.candidates \cup found
    BY DEF CleanupList, database, bucket, Types, Cleanups
  <1>2. ASSUME NEW m \in found
        PROVE  /\ stored[m] # Absent /\ ~Protected(m) /\ cleaner.at <= now
               /\ modified[m] + Grace < cleaner.at + QueryBound
    <2>1. /\ m \in Media /\ stored[m] # Absent /\ m \notin cleaner.snapshot
          /\ modified[m] < cleaner.cutoff
      BY DEF Page, After, Unreferenced, Expired
    <2>2. /\ cleaner.cutoff <= cleaner.at + QueryBound - Grace /\ cleaner.at <= now
          /\ cleaner.at \in Nat /\ cleaner.cutoff \in Int /\ modified[m] \in Nat
      BY <1>1, <2>1 DEF StorageInv, CleanupInv, Types, Cleanups
    <2>3. modified[m] + Grace < cleaner.at + QueryBound
      BY <2>1, <2>2, BoundsAssumption
    <2>4. ~Protected(m)
      <3>1. Protected(m) => cleaner.at + QueryBound <= modified[m] + Grace
        BY <1>1, <2>1 DEF StorageInv, CleanupInv
      <3> QED
        BY <2>2, <2>3, <3>1, BoundsAssumption
    <2> QED
      BY <2>1, <2>2, <2>3, <2>4
  <1> HIDE DEF found
  <1>3. \A m \in Media : Protected(m)' = Protected(m)
    BY <1>1 DEF Protected
  <1>4. cleaner.candidates \cup found \subseteq Media
    BY DEF Types, Cleanups, found, Page, After
  <1> QED
    BY <1>1, <1>2, <1>3, <1>4 DEF StorageInv, CleanupInv

LEMMA DeleteStorage ==
    ASSUME Types, StorageInv, NEW m \in Media, CleanupDelete(m)
    PROVE  StorageInv'
  <1>1. /\ cleaner.phase = "delete" /\ m \in cleaner.candidates
        /\ stored' = [stored EXCEPT ![m] = Absent]
        /\ cleaner' = [cleaner EXCEPT !.candidates = cleaner.candidates \ {m}]
        /\ UNCHANGED <<revision, rows, agedRows, modified, now, writer>>
    BY DEF CleanupDelete, database
  <1>2. ~Protected(m) /\ \A n \in Media : Protected(n)' = Protected(n)
    BY <1>1 DEF StorageInv, CleanupInv, Protected
  <1>3. UploadsStayStored'
    BY <1>1, <1>2 DEF StorageInv, UploadsStayStored, Protected, Types, Digests
  <1>4. CleanupInv'
    <2>1. /\ cleaner'.phase = cleaner.phase /\ cleaner'.at = cleaner.at
          /\ cleaner'.snapshot = cleaner.snapshot /\ cleaner'.cutoff = cleaner.cutoff
          /\ cleaner'.candidates = cleaner.candidates \ {m}
          /\ cleaner.candidates \subseteq Media
      BY <1>1 DEF Types, Cleanups
    <2>2. \A n \in Media \ {m} : stored'[n] = stored[n]
      BY <1>1 DEF Types, Digests
    <2> QED
      BY <1>1, <1>2, <2>1, <2>2 DEF StorageInv, CleanupInv
  <1>5. ASSUME NEW c \in Callers
        PROVE  UploadInv(c)'
    <2>1. CASE writer[c].phase \notin Active
      BY <1>1, <2>1 DEF UploadInv
    <2>2. CASE writer[c].phase \in Active
      <3>1. ~(Young(c, m) \/ Protected(m))
        BY <1>1, <2>2, ReliedNotCandidate
      <3>2. UploadInv(c) /\ Added(c) \subseteq Media /\ Added(c)' = Added(c)
        BY <1>1 DEF StorageInv, Added
      <3>3. \A n \in Media : (Young(c, n) \/ Protected(n))' = (Young(c, n) \/ Protected(n))
        BY <1>1, <1>2 DEF Young
      <3> QED
        BY <1>1, <3>1, <3>2, <3>3 DEF UploadInv, Types, Digests
    <2> QED
      BY <2>1, <2>2
  <1> QED
    BY <1>3, <1>4, <1>5 DEF StorageInv

LEMMA CleanerStorage ==
    ASSUME Types, StorageInv, CleanerNext
    PROVE  StorageInv'
  <1>1. ASSUME NEW m \in Media, CleanupDelete(m)
        PROVE  StorageInv'
    BY <1>1, DeleteStorage
  <1>2. CASE UNCHANGED <<revision, rows, agedRows, bucket, writer, now>>
    <2>1. UploadsStayStored' /\ \A c \in Callers : UploadInv(c)'
      BY <1>2 DEF StorageInv, UploadInv, Added, UploadsStayStored, Young, Protected, bucket
    <2>0. \A m \in Media : Protected(m)' = Protected(m)
      BY <1>2 DEF Protected
    <2>2. ASSUME CleanupSnapshot
          PROVE  CleanupInv'
      <3>1. /\ cleaner'.phase = "cutoff" /\ cleaner'.at = now
            /\ cleaner'.snapshot = Named /\ cleaner'.candidates = {}
        BY <2>2 DEF CleanupSnapshot, NotCleaning
      <3>2. \A m \in Media \ Named : ~Protected(m)
        BY DEF Named, Protected
      <3>3. now <= now + QueryBound /\ now \in Nat
        BY BoundsAssumption DEF Types
      <3> QED
        BY <1>2, <2>0, <3>1, <3>2, <3>3 DEF CleanupInv
    <2>3. ASSUME CleanupCutoff
          PROVE  CleanupInv'
      <3>1. now <= cleaner.at + QueryBound /\ cleaner.at \in Nat /\ now \in Nat
        BY <2>3 DEF CleanupCutoff, StorageInv, CleanupInv, Types, Cleanups
      <3>2. now - Grace <= cleaner.at + QueryBound - Grace
        BY <3>1, BoundsAssumption
      <3>3. /\ cleaner'.phase = "list" /\ cleaner'.cutoff = now - Grace
            /\ cleaner'.at = cleaner.at /\ cleaner'.snapshot = cleaner.snapshot
            /\ cleaner'.candidates = cleaner.candidates /\ cleaner.phase = "cutoff"
        BY <2>3 DEF CleanupCutoff, Types, Cleanups
      <3>4. cleaner.candidates \subseteq Media
        BY DEF Types, Cleanups
      <3> QED
        BY <1>2, <2>0, <3>2, <3>3, <3>4 DEF StorageInv, CleanupInv, bucket
    <2>4. ASSUME CleanupList
          PROVE  CleanupInv'
      BY <2>4, ListStorage
    <2>5. ASSUME NEW m \in Media, CleanupSkip(m)
          PROVE  CleanupInv'
      BY <1>2, <2>0, <2>5 DEF CleanupSkip, StorageInv, CleanupInv, Types, Cleanups, bucket
    <2>6. ASSUME CleanupFinish \/ CleanupFail
          PROVE  CleanupInv'
      BY <2>6 DEF CleanupFinish, CleanupFail, CleanupInv, NotCleaning
    <2>7. CleanupInv' \/ \E m \in Media : CleanupDelete(m)
      BY <2>2, <2>3, <2>4, <2>5, <2>6 DEF CleanerNext, CleanupStep
    <2> QED
      BY <1>1, <2>1, <2>7 DEF StorageInv
  <1> QED
    BY <1>1, <1>2 DEF CleanerNext, CleanupStep, CleanupSnapshot, CleanupCutoff,
         CleanupList, CleanupSkip, CleanupFinish, CleanupFail, database

LEMMA TickStorage ==
    ASSUME Types, StorageInv, Tick
    PROVE  StorageInv'
  <1>1. /\ now' = now + 1 /\ now \in Nat
        /\ UNCHANGED <<revision, rows, agedRows, stored, modified, writer, cleaner>>
    BY DEF Tick, Types, database, bucket
  <1>2. UploadsStayStored' /\ \A m \in Media : Protected(m)' = Protected(m)
    BY <1>1 DEF StorageInv, UploadsStayStored, Protected
  <1>3. ASSUME NEW c \in Callers
        PROVE  UploadInv(c)'
    <2>1. UploadInv(c) /\ writer[c].start \in Nat /\ Added(c)' = Added(c)
      BY <1>1 DEF StorageInv, Types, Writers, Added
    <2>2. writer[c].phase \in Active =>
            now + 1 <= writer[c].start + CommitBound /\ writer[c].start <= now + 1
      BY <1>1, <2>1, BoundsAssumption DEF Tick, UploadInv
    <2>3. \A n \in Media : (Young(c, n) \/ Protected(n))' = (Young(c, n) \/ Protected(n))
      BY <1>1, <1>2 DEF Young
    <2>4. Added(c) \subseteq Media
      BY DEF Added
    <2> QED
      BY <1>1, <2>1, <2>2, <2>3, <2>4 DEF UploadInv
  <1>4. CleanupInv'
    <2>1. cleaner.at \in Nat /\ cleaner.candidates \subseteq Media
      BY DEF Types, Cleanups
    <2>2. cleaner.phase = "cutoff" => now + 1 <= cleaner.at + QueryBound
      BY <1>1, <2>1, BoundsAssumption DEF Tick
    <2>3. cleaner.at <= now => cleaner.at <= now + 1
      BY <1>1, <2>1
    <2> QED
      BY <1>1, <1>2, <2>1, <2>2, <2>3 DEF StorageInv, CleanupInv
  <1> QED
    BY <1>2, <1>3, <1>4 DEF StorageInv

LEMMA NextStorage == Types /\ TransactionInv /\ StorageInv /\ [Next]_vars => StorageInv'
  <1> SUFFICES ASSUME Types, TransactionInv, StorageInv, [Next]_vars
               PROVE  StorageInv'
    OBVIOUS
  <1>1. CASE UNCHANGED <<revision, rows, agedRows, bucket, writer, cleaner, now>>
    BY <1>1 DEF StorageInv, UploadInv, CleanupInv, UploadsStayStored, Young, Protected,
                Added, bucket
  <1>2. ASSUME NEW r \in Readers, ReaderNext(r)
        PROVE  UNCHANGED <<revision, rows, agedRows, bucket, writer, cleaner, now>>
    BY <1>2 DEF ReaderNext, OpenMedia, OpenExport, Fetch, FinishRead, database
  <1>3. UNCHANGED vars
          => UNCHANGED <<revision, rows, agedRows, bucket, writer, cleaner, now>>
    BY DEF vars, database
  <1> QED
    BY <1>1, <1>2, <1>3, WriterStorage, CleanerStorage, TickStorage DEF Next

LEMMA StorageCorrect == Spec => [](Types /\ TransactionInv /\ StorageInv)
  <1> QED
    BY InitTypes, NextTypes, InitTransaction, NextTransaction, InitStorage, NextStorage,
       PTL DEF Spec

\* Whatever commits, failed uploads, retries and cleanup runs interleave, a
\* row has its verified object in the bucket, unless the commit that added it
\* adopted an object that was about to outlive its grace period.
THEOREM ObjectsStored == Spec => []UploadsStayStored
  <1>1. StorageInv => UploadsStayStored
    BY DEF StorageInv
  <1> QED
    BY <1>1, StorageCorrect, PTL

-----------------------------------------------------------------------------
(* Reads.                                                                  *)

LEMMA FailingRead ==
    ASSUME Types, TransactionInv, StorageInv, [Next]_vars, NEW r \in Readers,
           reader'[r] # reader[r], reader'[r].phase = "failed",
           NEW m \in Media, reader'[r].wanted[m] # Absent
    PROVE  rows[m] # reader'[r].wanted[m] \/ m \in agedRows
  <1>1. PICK q \in Readers : ReaderNext(q)
    BY DEF Next, WriterNext, Begin, CheckRetained, PutHead, PutObject, PutVerify, Lock,
           WriteRows, Commit, CommitUnacknowledged, Install, Fail, CleanerNext,
           CleanupStep, CleanupSnapshot, CleanupCutoff, CleanupList, CleanupDelete,
           CleanupFinish, CleanupSkip, CleanupFail, Tick, vars
  <1>2. q = r
    BY <1>1 DEF ReaderNext, OpenMedia, OpenExport, Fetch, FinishRead, Types
  <1>3. workspace.media \subseteq Named
    BY DEF TransactionInv, RowsMatchWorkspace
  <1>4. PICK n \in Media : Fetch(r, n)
    BY <1>1, <1>2, <1>3
    DEF ReaderNext, OpenMedia, OpenExport, FinishRead, Types, NotReading
  <1>5. stored[n] # reader[r].wanted[n]
    BY <1>4 DEF Fetch, Types, Reads, Digests
  <1>6. reader'[r].wanted = [NoDigests EXCEPT ![n] = reader[r].wanted[n]]
    BY <1>4, <1>5 DEF Fetch, Types
  <1>7. m = n /\ reader'[r].wanted[m] = reader[r].wanted[m]
    BY <1>6 DEF NoDigests
  <1> QED
    BY <1>5, <1>7 DEF StorageInv, UploadsStayStored

\* A read that cannot fetch an object it found a row for has lost it to a
\* commit that dropped the row, or to the cleanup of an adopted object.
THEOREM FailedReadsExplained == Spec => FailedReadWasRemoved
  <1>1. /\ Types /\ TransactionInv /\ StorageInv /\ [Next]_vars
        => [\A r \in Readers :
              reader'[r] # reader[r] /\ reader'[r].phase = "failed" =>
                \A m \in Media : reader'[r].wanted[m] # Absent =>
                  rows[m] # reader'[r].wanted[m] \/ m \in agedRows]_vars
    BY FailingRead
  <1> QED
    BY <1>1, StorageCorrect, PTL DEF Spec, FailedReadWasRemoved

-----------------------------------------------------------------------------
(* Refinement of WorkspaceStore.                                           *)

LEMMA InitStore == Init => Store!Init
  BY DEF Init, Store!Init, Store!EmptyWorkspace, Store!NoCall, CallView, EmptyWorkspace,
         Store!NoDigests,
         Idle, NoDigests, Active, Uploading, InTransaction

\* What a caller sees does not change while its call makes progress inside.
LEMMA SameView ==
    ASSUME Types, NEW c \in Callers, WriterNext(c),
           writer[c].phase \in Active, writer'[c].phase \in Active,
           writer'[c].expected = writer[c].expected,
           writer'[c].workspace = writer[c].workspace,
           writer'[c].additions = writer[c].additions
    PROVE  CallView' = CallView
  BY WriterFrame DEF CallView

LEMMA FunctionUpdate ==
    ASSUME NEW S, NEW f, NEW g, NEW c \in S, NEW v,
           f = [x \in S |-> f[x]], g = [x \in S |-> g[x]],
           g[c] = v, \A d \in S \ {c} : g[d] = f[d]
    PROVE  g = [f EXCEPT ![c] = v]
  OBVIOUS

LEMMA CallViewFunction ==
    /\ CallView = [c \in Callers |-> CallView[c]]
    /\ CallView' = [c \in Callers |-> CallView'[c]]
  BY DEF CallView

LEMMA RefusedRefines ==
    ASSUME Types, NEW c \in Callers, WriterNext(c), writer[c].phase \in Active,
           NEW answer \in Refusals, Refused(c, answer)
    PROVE  /\ CallView[c].status = "open"
           /\ Store!Refused(c, answer)
  <1> USE DEF Active, Uploading, InTransaction
  <1>1. CallView[c].status = "open"
    BY DEF CallView
  <1>2. writer'[c] = [Idle EXCEPT !.phase = answer] /\ answer \notin Active
    BY DEF Refused, Types, Refusals
  <1>3. CallView'[c] = [Store!NoCall EXCEPT !.status = answer]
    BY <1>2 DEF CallView, Idle, NoDigests, EmptyWorkspace, Store!NoCall, Store!EmptyWorkspace, Store!NoDigests
  <1>4. \A d \in Callers \ {c} : CallView'[d] = CallView[d]
    BY WriterFrame DEF CallView
  <1>5. CallView' = [CallView EXCEPT ![c] = [Store!NoCall EXCEPT !.status = answer]]
    BY <1>3, <1>4, CallViewFunction, FunctionUpdate
  <1> QED
    BY <1>1, <1>5 DEF Store!Refused

LEMMA InstallRefines ==
    ASSUME Types, TransactionInv, NEW c \in Callers, Install(c)
    PROVE  Store!Replace(c) /\ CallView[c].status = "open"
  <1> USE DEF Active, Uploading, InTransaction
  <1>1. /\ writer[c].phase = "commit" /\ CallInv(c)
        /\ writer[c] \in Writers
    BY DEF Install, TransactionInv, Types
  <1>2. /\ CallView[c].status = "open" /\ CallView[c].expected = writer[c].expected
        /\ CallView[c].workspace = writer[c].workspace
        /\ CallView[c].additions = writer[c].additions
    BY <1>1 DEF CallView
  <1>3. writer[c].workspace.media \subseteq Media
    BY <1>1 DEF Writers, Workspace
  <1>4. \A m \in writer[c].workspace.media :
          rows[m] # Absent \/ writer[c].additions[m] # Absent
    BY <1>1, <1>3 DEF CallInv, Named, Added
  <1>5. RowsAfter(c) = Store!Installed(CallView[c].workspace, CallView[c].additions)
    BY <1>2 DEF RowsAfter, Store!Installed, Added
  <1> QED
    BY <1>1, <1>2, <1>4, <1>5 DEF Store!Replace, Install, CallInv

LEMMA WriterRefines ==
    ASSUME Types, TransactionInv, NEW c \in Callers, WriterNext(c)
    PROVE  Store!Next \/ UNCHANGED Store!vars
  <1> USE DEF Active, Uploading, InTransaction
  <1>0. writer[c] \in Writers /\ CallInv(c)
    BY DEF Types, TransactionInv
  <1>1. ASSUME NEW answer \in Refusals, Refused(c, answer), writer[c].phase \in Active,
               UNCHANGED <<revision, workspace, rows>>,
               answer = "conflict" => writer[c].expected # revision
        PROVE  Store!Next
    <2>1. CallView[c].status = "open" /\ Store!Refused(c, answer)
      BY <1>1, RefusedRefines
    <2>2. CallView[c].expected = writer[c].expected
      BY DEF CallView
    <2>3. Store!Refuse(c)
      BY <1>1, <2>1, <2>2 DEF Store!Refuse, Store!Refusals, Refusals
    <2> QED
      BY <2>3 DEF Store!Next
  <1>2. ASSUME UNCHANGED <<revision, workspace, rows>>,
               writer[c].phase \in Active, writer'[c].phase \in Active,
               writer'[c].expected = writer[c].expected,
               writer'[c].workspace = writer[c].workspace,
               writer'[c].additions = writer[c].additions
        PROVE  UNCHANGED Store!vars
    BY <1>2, SameView DEF Store!vars
  <1>3. ASSUME NEW p \in Active, Goto(c, p), UNCHANGED <<revision, workspace, rows>>,
               writer[c].phase \in Active
        PROVE  UNCHANGED Store!vars
    BY <1>2, <1>3, GotoFields
  <1>4. ASSUME NEW m \in Media, Verified(c, m), UNCHANGED <<revision, workspace, rows>>,
               writer[c].phase \in Active
        PROVE  Store!Next \/ UNCHANGED Store!vars
    <2>1. CASE Refused(c, "collision")
      BY <1>1, <1>4, <2>1 DEF Refusals
    <2>2. CASE ~Refused(c, "collision")
      BY <1>2, <1>4, <2>2, VerifiedFields
    <2> QED
      BY <2>1, <2>2
  <1>5. CASE Begin(c)
    <2> PICK e \in 0..revision, w \in Workspaces, a \in Digests :
          writer' = [writer EXCEPT ![c] =
            [phase |-> "retained", expected |-> e, workspace |-> w, additions |-> a,
             pending |-> {m \in Media : a[m] # Absent}, aged |-> {},
             created |-> {}, start |-> now]]
      BY <1>5 DEF Begin
    <2>1. /\ writer'[c].phase = "retained" /\ writer'[c].expected = e
          /\ writer'[c].workspace = w /\ writer'[c].additions = a
      BY DEF Types
    <2>2. CallView'[c] = [status |-> "open", expected |-> e, workspace |-> w,
                          additions |-> a, created |-> {}]
      BY <2>1 DEF CallView
    <2>3. \A d \in Callers \ {c} : CallView'[d] = CallView[d]
      BY WriterFrame DEF CallView
    <2>4. CallView' = [CallView EXCEPT ![c] =
            [status |-> "open", expected |-> e, workspace |-> w,
             additions |-> a, created |-> {}]]
      BY <2>2, <2>3, CallViewFunction, FunctionUpdate
    <2>5. CallView[c].status # "open"
      BY <1>0, <1>5 DEF CallView, Begin, Writers, Refusals
    <2>6. Store!Request(c)
      BY <1>5, <2>4, <2>5 DEF Store!Request, Store!Digests, Digests, Begin, database
    <2> QED
      BY <2>6 DEF Store!Next
  <1>6. CASE CheckRetained(c)
    <2>1. \/ Refused(c, "missing") \/ Refused(c, "invalid")
          \/ Goto(c, "lock") \/ Goto(c, "head")
      BY <1>6 DEF CheckRetained
    <2> QED
      BY <1>1, <1>3, <1>6, <2>1 DEF CheckRetained, Refusals, database
  <1>7. ASSUME NEW m \in Media, PutHead(c, m) \/ PutObject(c, m) \/ PutVerify(c, m)
        PROVE  Store!Next \/ UNCHANGED Store!vars
    BY <1>1, <1>3, <1>4, <1>7 DEF PutHead, PutObject, PutVerify, Refusals, database
  <1>8. CASE Lock(c)
    BY <1>1, <1>3, <1>8 DEF Lock, RollBack, Stale, Refusals
  <1>9. CASE WriteRows(c)
    <2>1. CASE Refused(c, "missing")
      BY <1>1, <1>9, <2>1 DEF WriteRows, Refusals
    <2>2. CASE ~Refused(c, "missing")
      <3>1. writer'[c] =
              [writer[c] EXCEPT !.phase = "commit", !.created = CreatedReferences(c)]
        BY <1>9, <2>2 DEF WriteRows, Types
      <3>2. /\ writer'[c].phase = "commit" /\ writer'[c].expected = writer[c].expected
            /\ writer'[c].workspace = writer[c].workspace
            /\ writer'[c].additions = writer[c].additions
        BY <1>0, <3>1 DEF Writers
      <3> QED
        BY <1>2, <1>9, <3>2 DEF WriteRows
    <2> QED
      BY <2>1, <2>2
  <1>10. CASE Commit(c)
    <2>1. writer'[c] = [Idle EXCEPT !.phase = "committed",
                          !.expected = writer[c].expected, !.created = writer[c].created]
      BY <1>10 DEF Commit, Acknowledged, Types
    <2>2. CallView'[c] = [status |-> "committed", expected |-> writer[c].expected,
                          workspace |-> EmptyWorkspace, additions |-> NoDigests,
                          created |-> writer[c].created]
      <3>1. /\ writer'[c].phase = "committed"
            /\ writer'[c].expected = writer[c].expected
            /\ writer'[c].created = writer[c].created
            /\ writer'[c].workspace = EmptyWorkspace
            /\ writer'[c].additions = NoDigests
        BY <2>1 DEF Idle
      <3> QED
        BY <3>1 DEF CallView
    <2>3. \A d \in Callers \ {c} : CallView'[d] = CallView[d]
      BY WriterFrame DEF CallView
    <2>4. /\ CallView[c].expected = writer[c].expected
          /\ CallView[c].workspace = writer[c].workspace
          /\ writer[c].created = writer[c].workspace.references \ workspace.references
      BY <1>0, <1>10 DEF CallView, Commit, Install, CallInv, CreatedReferences
    <2> DEFINE created == CallView[c].workspace.references \ workspace.references
               answer == [status |-> "committed", expected |-> CallView[c].expected,
                          workspace |-> EmptyWorkspace, additions |-> NoDigests,
                          created |-> created]
    <2>5. Store!Acknowledged(c, created)
      <3>1. CallView'[c] = answer
        BY <2>2, <2>4
      <3>2. CallView' = [CallView EXCEPT ![c] = answer]
        <4> HIDE DEF answer
        <4> QED
          BY <2>3, <3>1, CallViewFunction, FunctionUpdate
      <3> QED
        BY <3>2 DEF Store!Acknowledged, NoDigests, EmptyWorkspace, Store!NoDigests,
                    Store!EmptyWorkspace
    <2>6. Store!Accept(c)
      BY <1>10, <2>5, InstallRefines DEF Commit, Store!Accept
    <2> QED
      BY <2>6 DEF Store!Next
  <1>11. CASE CommitUnacknowledged(c)
    <2>1. Refused(c, "failed") /\ Install(c) /\ writer[c].phase \in Active
      BY <1>11 DEF CommitUnacknowledged, Install
    <2>2. Store!Refused(c, "failed")
      BY <2>1, RefusedRefines DEF Refusals
    <2>3. Store!AcceptUnacknowledged(c)
      BY <2>1, <2>2, InstallRefines DEF Store!AcceptUnacknowledged
    <2> QED
      BY <2>3 DEF Store!Next
  <1>12. CASE Fail(c)
    BY <1>1, <1>12 DEF Fail, Refusals
  <1> QED
    BY <1>5, <1>6, <1>7, <1>8, <1>9, <1>10, <1>11, <1>12 DEF WriterNext

LEMMA NextStore ==
    Types /\ TransactionInv /\ [Next]_vars => [Store!Next]_Store!vars
  <1> SUFFICES ASSUME Types, TransactionInv, [Next]_vars
               PROVE  Store!Next \/ UNCHANGED Store!vars
    OBVIOUS
  <1>1. CASE UNCHANGED <<database, writer>>
    BY <1>1 DEF Store!vars, CallView, database
  <1>2. ASSUME NEW r \in Readers, ReaderNext(r)
        PROVE  UNCHANGED <<database, writer>>
    BY <1>2 DEF ReaderNext, OpenMedia, OpenExport, Fetch, FinishRead
  <1>3. CleanerNext \/ Tick \/ UNCHANGED vars => UNCHANGED <<database, writer>>
    BY DEF CleanerNext, CleanupStep, CleanupSnapshot, CleanupCutoff, CleanupList,
           CleanupDelete, CleanupFinish, CleanupSkip, CleanupFail, Tick, vars
  <1> QED
    BY <1>1, <1>2, <1>3, WriterRefines DEF Next

\* The commit protocol, with its uploads, lock, failures, reads and cleanup,
\* implements the atomic, revisioned store.
THEOREM StoreImplemented == Spec => ImplementsStore
  <1> QED
    BY InitStore, NextStore, TransactionCorrect, PTL
    DEF Spec, ImplementsStore, Store!Spec

=============================================================================
