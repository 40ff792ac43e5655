----------------------------- MODULE Persistence -----------------------------
(***************************************************************************)
(* PostgresWorkspaceRepository over S3MediaStore.  A commit writes its new *)
(* media to S3 first, outside any transaction, and then replaces the whole *)
(* workspace in one transaction that locks the workspace_state row.  The   *)
(* periodic cleanup deletes old objects that no media_objects row names,   *)
(* working from one SELECT and one listing.  Reads take their metadata     *)
(* from the database and then fetch the bytes.  Every await between two    *)
(* effects is a step boundary here, and every awaited service call may     *)
(* fail, MaxFaults times.                                                  *)
(*                                                                         *)
(* Time is counted in units of the clock S3's LastModified and the         *)
(* server's Date.now() share.  Two waits are given a length: a commit call *)
(* lasts at most CommitBound and the cleanup's SELECT returns within       *)
(* QueryBound.  The code bounds neither.  An id may be added at any age:   *)
(* new, retried, deleted and added again, or restored from a backup.       *)
(* There is one cleanup at a time, that of the one server process.         *)
(***************************************************************************)
EXTENDS Integers, FiniteSets

CONSTANTS
    Callers,        \* concurrent commit calls, of any process
    Readers,        \* concurrent media reads and backup exports
    Media,          \* media ids, ordered as S3 lists their keys
    Contents,       \* the bytes of a media object, up to their digest
    Absent,         \* no object, no row, no addition
    References,     \* Reference ids
    Workspaces,     \* the workspaces the callers submit
    NoOne,          \* no transaction holds the row lock
    Grace,          \* orphanGraceMs
    CleanupLimit,   \* objects one cleanup run examines
    PageSize,       \* objects one ListObjectsV2 page returns (1000)
    CommitBound, QueryBound,        \* the longest commit call, and cleanup SELECT
    MaxRevision, MaxTime, MaxFaults     \* bounds of the model

Workspace == [references : SUBSET References, media : SUBSET Media]
EmptyWorkspace == [references |-> {}, media |-> {}]
Digests == [Media -> Contents \cup {Absent}]
NoDigests == [m \in Media |-> Absent]

ASSUME WorkspacesAssumption ==
    /\ Workspaces \subseteq Workspace
    /\ Absent \notin Contents
    /\ NoOne \notin Callers
    /\ Media \subseteq Nat

ASSUME BoundsAssumption ==
    /\ Grace \in Nat /\ CleanupLimit \in Nat /\ PageSize \in Nat \ {0}
    /\ CommitBound \in Nat /\ QueryBound \in Nat
    /\ MaxRevision \in Nat /\ MaxTime \in Nat /\ MaxFaults \in Nat

VARIABLES
    \* PostgreSQL
    revision, workspace,    \* the committed workspace_state and domain rows
    rows,                   \* media_objects: id -> sha256, or Absent
    lock,                   \* the transaction holding the FOR UPDATE lock
    \* S3
    stored,                 \* object under media/<id>: its digest, or Absent
    modified,               \* its LastModified
    \* the processes
    writer,                 \* one record per commit call
    reader,                 \* one record per read
    cleaner,                \* the cleanup run
    \* the environment
    now, faults,
    \* history
    agedRows                \* rows that rest on an object adopted when Aged

database == <<revision, workspace, rows, lock, agedRows>>
bucket == <<stored, modified>>
vars == <<database, bucket, writer, reader, cleaner, now, faults>>

Refusals == {"conflict", "missing", "collision", "invalid", "failed"}
Uploading == {"head", "put", "verify"}
InTransaction == {"write", "commit"}
Active == {"retained"} \cup Uploading \cup {"lock"} \cup InTransaction

Idle == [phase |-> "idle", expected |-> 0, workspace |-> EmptyWorkspace,
         additions |-> NoDigests, pending |-> {}, aged |-> {}, created |-> {},
         start |-> 0]

NotCleaning == [phase |-> "idle", at |-> 0, snapshot |-> {}, cutoff |-> 0,
                listed |-> {}, candidates |-> {}]

NotReading == [phase |-> "idle", wanted |-> NoDigests]

Init ==
    /\ revision = 0 /\ workspace = EmptyWorkspace
    /\ rows = NoDigests /\ lock = NoOne
    /\ stored = NoDigests /\ modified = [m \in Media |-> 0]
    /\ writer = [c \in Callers |-> Idle]
    /\ reader = [r \in Readers |-> NotReading]
    /\ cleaner = NotCleaning
    /\ now = 0 /\ faults = 0 /\ agedRows = {}

Added(c) == {m \in Media : writer[c].additions[m] # Absent}
Named == {m \in Media : rows[m] # Absent}

Goto(c, phase) == writer' = [writer EXCEPT ![c].phase = phase]

\* The call ends and is forgotten, but for its answer.
Refused(c, answer) == writer' = [writer EXCEPT ![c] = [Idle EXCEPT !.phase = answer]]

\* An acknowledged call keeps what its caller knows: base revision, creations.
Acknowledged(c, created) ==
    writer' = [writer EXCEPT ![c] =
      [Idle EXCEPT !.phase = "committed", !.expected = writer[c].expected,
                    !.created = created]]

Fault == faults < MaxFaults /\ faults' = faults + 1

-----------------------------------------------------------------------------
(* The commit call.                                                        *)

\* The caller enters commit with the revision it loaded earlier.  The ids it
\* adds may be of any age: commit and importBackup only read them.
Begin(c) ==
    /\ writer[c].phase \notin Active
    /\ revision < MaxRevision
    /\ \E e \in 0..revision, w \in Workspaces, a \in Digests :
         writer' = [writer EXCEPT ![c] =
           [phase |-> "retained", expected |-> e, workspace |-> w, additions |-> a,
            pending |-> {m \in Media : a[m] # Absent}, aged |-> {},
            created |-> {}, start |-> now]]
    /\ UNCHANGED <<database, bucket, reader, cleaner, now, faults>>

\* Ids the workspace names and the call does not add must have a row.
RetainedHaveRows(c) == writer[c].workspace.media \ Added(c) \subseteq Named

\* validateAdditions refuses media the workspace does not name.
AdditionsNamed(c) == Added(c) \subseteq writer[c].workspace.media

CheckRetained(c) ==
    /\ writer[c].phase = "retained"
    /\ IF ~RetainedHaveRows(c) THEN Refused(c, "missing")
       ELSE IF ~AdditionsNamed(c) THEN Refused(c, "invalid")
       ELSE Goto(c, IF Added(c) = {} THEN "lock" ELSE "head")
    /\ UNCHANGED <<database, bucket, reader, cleaner, now, faults>>

\* The object the call found could be collected while the call is running:
\* it is, or soon will be, past the grace period, and no row protects it.
\* An object the call uploads is not, as long as the grace period covers the
\* call and the SELECT.
Aged(c, m) ==
    /\ modified[m] + Grace < writer[c].start + CommitBound + QueryBound
    /\ rows[m] = Absent \/ m \in agedRows

\* HEAD answered with an object: the addition is done if it matches.
Verified(c, m) ==
    IF stored[m] # writer[c].additions[m]
    THEN Refused(c, "collision")
    ELSE LET left == writer[c].pending \ {m} IN
         writer' = [writer EXCEPT ![c].pending = left,
                      ![c].phase = IF left = {} THEN "lock" ELSE "head",
                      ![c].aged = IF Aged(c, m) THEN @ \cup {m} ELSE @]

\* The current addition: put handles the array front to back, and the order
\* of the array is immaterial, so it is the smallest id left.
Current(c, m) == m \in writer[c].pending /\ \A n \in writer[c].pending : m <= n

PutHead(c, m) ==
    /\ writer[c].phase = "head" /\ Current(c, m)
    /\ IF stored[m] = Absent THEN Goto(c, "put") ELSE Verified(c, m)
    /\ UNCHANGED <<database, bucket, reader, cleaner, now, faults>>

\* PutObject with IfNoneMatch: a 412 leaves the object of another caller.
PutObject(c, m) ==
    /\ writer[c].phase = "put" /\ Current(c, m)
    /\ IF stored[m] = Absent
       THEN /\ stored' = [stored EXCEPT ![m] = writer[c].additions[m]]
            /\ modified' = [modified EXCEPT ![m] = now]
       ELSE UNCHANGED bucket
    /\ Goto(c, "verify")
    /\ UNCHANGED <<database, reader, cleaner, now, faults>>

PutVerify(c, m) ==
    /\ writer[c].phase = "verify" /\ Current(c, m)
    /\ IF stored[m] = Absent THEN Refused(c, "failed") ELSE Verified(c, m)
    /\ UNCHANGED <<database, bucket, reader, cleaner, now, faults>>

NeverStale(c) == writer[c].expected > revision                  \* mutant
Stale(c) == writer[c].expected # revision

TakeLock(c) == lock' = c

KeepTransaction(c) == Refused(c, "conflict") /\ lock' = c       \* mutant
RollBack(c) == Refused(c, "conflict") /\ UNCHANGED lock

\* BEGIN; SELECT revision ... FOR UPDATE.  A mismatch rolls back at once.
Lock(c) ==
    /\ writer[c].phase = "lock" /\ lock = NoOne
    /\ IF Stale(c) THEN RollBack(c) ELSE Goto(c, "write") /\ TakeLock(c)
    /\ UNCHANGED <<revision, workspace, rows, agedRows, bucket, reader, cleaner, now, faults>>

CreatedReferences(c) == writer[c].workspace.references \ workspace.references

\* The rows are written inside the transaction: nobody else sees them yet.
\* The created References and the absent media come from locked state.
WriteRows(c) ==
    /\ writer[c].phase = "write"
    /\ IF writer[c].workspace.media \subseteq Named \cup Added(c)
       THEN /\ writer' = [writer EXCEPT ![c].phase = "commit",
                 ![c].created = CreatedReferences(c)]
            /\ UNCHANGED lock
       ELSE Refused(c, "missing") /\ lock' = NoOne
    /\ UNCHANGED <<revision, workspace, rows, agedRows, bucket, reader, cleaner, now, faults>>

RowsNeverDeleted(c) ==                                          \* mutant
    [m \in Media |-> IF m \in Added(c) THEN writer[c].additions[m] ELSE rows[m]]

\* media_objects after the transaction: additions are upserted, and rows no
\* asset names are deleted.
RowsAfter(c) ==
    [m \in Media |->
       CASE m \notin writer[c].workspace.media -> Absent
         [] m \in writer[c].workspace.media /\ m \in Added(c)
              -> writer[c].additions[m]
         [] OTHER -> rows[m]]

Install(c) ==
    /\ writer[c].phase = "commit"
    /\ revision' = revision + 1
    /\ workspace' = writer[c].workspace
    /\ rows' = RowsAfter(c)
    /\ lock' = NoOne
    /\ agedRows' = {m \in writer[c].workspace.media :
                     IF m \in Added(c) THEN m \in writer[c].aged ELSE m \in agedRows}
    /\ UNCHANGED <<bucket, reader, cleaner, now>>

Commit(c) ==
    /\ Install(c)
    /\ Acknowledged(c, writer[c].created)
    /\ UNCHANGED faults

\* COMMIT took effect but its answer was lost: the caller sees a failure.
CommitUnacknowledged(c) ==
    /\ Install(c)
    /\ Refused(c, "failed")
    /\ Fault

\* A service call failed, or the process died: the transaction is rolled
\* back, the objects already uploaded stay.
Fail(c) ==
    /\ writer[c].phase \in Active
    /\ Refused(c, "failed")
    /\ lock' = IF lock = c THEN NoOne ELSE lock
    /\ Fault
    /\ UNCHANGED <<revision, workspace, rows, agedRows, bucket, reader, cleaner, now>>

-----------------------------------------------------------------------------
(* Reads.                                                                  *)

\* mediaInfo: the row of an id some asset names.
OpenMedia(r, m) ==
    /\ reader[r].phase # "fetch"
    /\ m \in workspace.media /\ rows[m] # Absent
    /\ reader' = [reader EXCEPT ![r] =
         [phase |-> "fetch", wanted |-> [NoDigests EXCEPT ![m] = rows[m]]]]
    /\ UNCHANGED <<database, bucket, writer, cleaner, now, faults>>

\* exportBackup: the rows of every id, from one snapshot, closed before the
\* first fetch.  An id without a row fails the export.
OpenExport(r) ==
    /\ reader[r].phase # "fetch"
    /\ reader' = [reader EXCEPT ![r] =
         [phase |-> IF workspace.media \subseteq Named THEN "fetch" ELSE "failed",
          wanted |-> [m \in Media |-> IF m \in workspace.media THEN rows[m] ELSE Absent]]]
    /\ UNCHANGED <<database, bucket, writer, cleaner, now, faults>>

\* GetObject and the digest check: a missing or different object fails it.
\* What is still wanted then names the ids that could not be read.
Fetch(r, m) ==
    /\ reader[r].phase = "fetch" /\ reader[r].wanted[m] # Absent
    /\ reader' = IF stored[m] = reader[r].wanted[m]
                 THEN [reader EXCEPT ![r].wanted[m] = Absent]
                 ELSE [reader EXCEPT ![r] =
                        [phase |-> "failed",
                         wanted |-> [NoDigests EXCEPT ![m] = reader[r].wanted[m]]]]
    /\ UNCHANGED <<database, bucket, writer, cleaner, now, faults>>

FinishRead(r) ==
    /\ reader[r].phase = "fetch" /\ reader[r].wanted = NoDigests
    /\ reader' = [reader EXCEPT ![r] = NotReading]
    /\ UNCHANGED <<database, bucket, writer, cleaner, now, faults>>

-----------------------------------------------------------------------------
(* Cleanup of orphaned objects.                                            *)

\* SELECT id FROM media_objects.
CleanupSnapshot ==
    /\ cleaner.phase = "idle"
    /\ cleaner' = [NotCleaning EXCEPT !.phase = "cutoff", !.at = now, !.snapshot = Named]
    /\ UNCHANGED <<database, bucket, writer, reader, now, faults>>

\* The store reads its clock when the SELECT has answered.
CleanupCutoff ==
    /\ cleaner.phase = "cutoff"
    /\ cleaner' = [cleaner EXCEPT !.phase = "list", !.cutoff = now - Grace]
    /\ UNCHANGED <<database, bucket, writer, reader, now, faults>>

ExpiredInclusive(m) == modified[m] <= cleaner.cutoff             \* mutant
ExpiredTwice(m) == modified[m] < cleaner.cutoff - Grace         \* mutant
Expired(m) == modified[m] < cleaner.cutoff

AnyObject(m) == m \in Media                                     \* mutant
Unreferenced(m) == m \notin cleaner.snapshot

After(listed) == {m \in Media : stored[m] # Absent /\ \A n \in listed : n < m}

\* One page: the next objects in key order, no more than the page or the
\* run may still examine.
Page ==
    {m \in After(cleaner.listed) :
       LET upTo == Cardinality({n \in After(cleaner.listed) : n <= m}) IN
       /\ upTo <= PageSize
       /\ upTo + Cardinality(cleaner.listed) <= CleanupLimit}

\* Listing goes on while the answer was truncated and the run has room.
CleanupList ==
    /\ cleaner.phase = "list"
    /\ LET listed == cleaner.listed \cup Page
           more == /\ Page # {} /\ After(listed) # {}
                   /\ Cardinality(listed) < CleanupLimit IN
       cleaner' = [cleaner EXCEPT
         !.phase = IF more THEN "list" ELSE "delete",
         !.listed = IF more THEN listed ELSE {},
         !.candidates = cleaner.candidates
                          \cup {m \in Page : Unreferenced(m) /\ Expired(m)}]
    /\ UNCHANGED <<database, bucket, writer, reader, now, faults>>

CleanupDelete(m) ==
    /\ cleaner.phase = "delete" /\ m \in cleaner.candidates
    /\ stored' = [stored EXCEPT ![m] = Absent]
    /\ cleaner' = [cleaner EXCEPT !.candidates = cleaner.candidates \ {m}]
    /\ UNCHANGED <<database, modified, writer, reader, now, faults>>

CleanupFinish ==
    /\ cleaner.phase = "delete" /\ cleaner.candidates = {}
    /\ cleaner' = NotCleaning
    /\ UNCHANGED <<database, bucket, writer, reader, now, faults>>

\* A key the batch delete reports as failed is left for a later run.
CleanupSkip(m) ==
    /\ cleaner.phase = "delete" /\ m \in cleaner.candidates
    /\ cleaner' = [cleaner EXCEPT !.candidates = cleaner.candidates \ {m}]
    /\ Fault
    /\ UNCHANGED <<database, bucket, writer, reader, now>>

\* A failed SELECT or listing, or the end of the process, ends the run.
CleanupFail ==
    /\ cleaner.phase # "idle"
    /\ cleaner' = NotCleaning
    /\ Fault
    /\ UNCHANGED <<database, bucket, writer, reader, now>>

-----------------------------------------------------------------------------

Tick ==
    /\ now < MaxTime
    /\ \A c \in Callers : writer[c].phase \in Active => now < writer[c].start + CommitBound
    /\ cleaner.phase = "cutoff" => now < cleaner.at + QueryBound
    /\ now' = now + 1
    /\ UNCHANGED <<database, bucket, writer, reader, cleaner, faults>>

Step(c) ==
    \/ CheckRetained(c)
    \/ \E m \in Media : PutHead(c, m) \/ PutObject(c, m) \/ PutVerify(c, m)
    \/ WriteRows(c)
    \/ Commit(c)

WriterNext(c) ==
    \/ Begin(c) \/ CheckRetained(c)
    \/ \E m \in Media : PutHead(c, m) \/ PutObject(c, m) \/ PutVerify(c, m)
    \/ Lock(c) \/ WriteRows(c) \/ Commit(c) \/ CommitUnacknowledged(c) \/ Fail(c)

ReaderNext(r) ==
    \/ \E m \in Media : OpenMedia(r, m) \/ Fetch(r, m)
    \/ OpenExport(r) \/ FinishRead(r)

CleanupStep ==
    \/ CleanupSnapshot \/ CleanupCutoff \/ CleanupList \/ CleanupFinish
    \/ \E m \in Media : CleanupDelete(m)

CleanerNext ==
    \/ CleanupStep \/ CleanupFail
    \/ \E m \in Media : CleanupSkip(m)

Next ==
    \/ \E c \in Callers : WriterNext(c)
    \/ \E r \in Readers : ReaderNext(r)
    \/ CleanerNext
    \/ Tick

Spec == Init /\ [][Next]_vars

\* A commit call runs to its end once its service calls return, the row lock
\* is granted in turn, and the cleanup timer keeps firing.
Fairness ==
    /\ \A c \in Callers : WF_vars(Step(c)) /\ SF_vars(Lock(c))
    /\ WF_vars(CleanupStep)

FairSpec == Spec /\ Fairness

-----------------------------------------------------------------------------
(* Properties.                                                             *)

Writers ==
    [phase : {"idle", "committed"} \cup Refusals \cup Active, expected : Nat,
     workspace : Workspace, additions : Digests, pending : SUBSET Media,
     aged : SUBSET Media, created : SUBSET References, start : Nat]

Reads == [phase : {"idle", "fetch", "failed"}, wanted : Digests]

Cleanups ==
    [phase : {"idle", "cutoff", "list", "delete"}, at : Nat, snapshot : SUBSET Media,
     cutoff : Int, listed : SUBSET Media, candidates : SUBSET Media]

Types ==
    /\ revision \in Nat /\ workspace \in Workspace
    /\ rows \in Digests /\ lock \in Callers \cup {NoOne}
    /\ stored \in Digests /\ modified \in [Media -> Nat]
    /\ writer \in [Callers -> Writers]
    /\ reader \in [Readers -> Reads]
    /\ cleaner \in Cleanups
    /\ now \in Nat /\ faults \in Nat /\ agedRows \subseteq Media

\* The types, and no more revisions than the callers had in view.
TypeOK == Types /\ revision <= MaxRevision

\* media_objects names exactly the media the committed workspace refers to,
\* whatever mix of retained and added media the commits so far carried.
RowsMatchWorkspace == Named = workspace.media

\* A row has its object in S3, with the digest the row records, whatever
\* uploads, collisions, failures and cleanup runs with a stale snapshot
\* interleave, unless the commit that added the row adopted an object
\* already about to outlive its grace period.  Only that one can be deleted
\* under its new row, by a run that read media_objects before the commit.
UploadsStayStored ==
    \A m \in Media : rows[m] # Absent /\ m \notin agedRows => stored[m] = rows[m]

\* A media read or an export that found its rows and then cannot fetch an
\* object read a row that has been removed by then, or one over an adopted
\* object: it never reports as missing any other media the workspace names.
FailedReadWasRemoved ==
    [][\A r \in Readers :
         reader'[r] # reader[r] /\ reader'[r].phase = "failed" =>
           \A m \in Media : reader'[r].wanted[m] # Absent =>
             rows[m] # reader'[r].wanted[m] \/ m \in agedRows]_vars

\* Two calls that were both acknowledged were based on different revisions,
\* both in the past: no acknowledged update is lost to another writer that
\* loaded the same workspace.
AcknowledgedOncePerRevision ==
    \A c, d \in Callers :
        /\ writer[c].phase = "committed" => writer[c].expected < revision
        /\ c # d /\ writer[c].phase = "committed" /\ writer[d].phase = "committed"
             => writer[c].expected # writer[d].expected

\* Every commit call that was entered is answered.
CallsAnswered ==
    \A c \in Callers : writer[c].phase \in Active ~> writer[c].phase \notin Active

\* Every run lists from the first key again, so it examines the CleanupLimit
\* smallest keys of the bucket and no others.
Examined(m) ==
    Cardinality({n \in Media : stored[n] # Absent /\ n < m}) < CleanupLimit

\* An object older than the grace period that no row names does not stay in
\* the bucket for ever among the keys the cleanup examines.  Behind them it
\* may: a run does not resume where the one before it stopped.
OrphansCollected ==
    \A m \in Media :
        []<>~(/\ stored[m] # Absent /\ rows[m] = Absent /\ modified[m] < now - Grace
              /\ Examined(m))

\* What the calls look like to their callers.
CallView == [c \in Callers |->
    [status |-> IF writer[c].phase \in Active THEN "open" ELSE writer[c].phase,
     expected |-> writer[c].expected, workspace |-> writer[c].workspace,
     additions |-> writer[c].additions,
     created |-> IF writer[c].phase \in Active THEN {} ELSE writer[c].created]]

Store == INSTANCE WorkspaceStore WITH call <- CallView

\* The protocol implements the atomic, revisioned compare-and-set store.
ImplementsStore == Store!Spec

=============================================================================
