------------------------------ MODULE Migrations ------------------------------
(***************************************************************************)
(* The schema migrations every process runs when it starts                 *)
(* (src/src/postgres-migrations.js).  A process takes a session advisory   *)
(* lock, reads which versions the ledger schema_migrations holds, and runs *)
(* each missing version in a transaction with its ledger row.  Queries are *)
(* awaited one by one; any may fail, and a commit may be done and not      *)
(* acknowledged.  ServerLifecycle composes these steps with the process    *)
(* that runs them.                                                         *)
(***************************************************************************)
EXTENDS Naturals, Sequences

CONSTANTS Processes,       \* the HTTP and MCP processes over one database
          Sql,             \* what a migration file may hold, known by its sha256
          Release,         \* per process: the migration files of its release,
                           \* in bytewise order of their names
          NoOne,           \* the holder of a free lock
          MaxFaults        \* bound: the queries that fail

ASSUME ReleasesAreFiles == Release \in [Processes -> Seq(Sql)]
ASSUME NoOneIsNoProcess == NoOne \notin Processes
ASSUME FaultBound == MaxFaults \in Nat

VARIABLES lock,            \* the session that holds MIGRATION_ADVISORY_LOCK
          ledger,          \* the rows of schema_migrations
          schema,          \* the migrations whose SQL is committed, in order
          mig,             \* per process: where its runner is
          faults

migrationVars == <<lock, ledger, schema, mig, faults>>

Row(p, v) == [version |-> v, sha |-> Release[p][v]]

Unstarted == [phase |-> "off", at |-> 1, applied |-> {}, failed |-> FALSE]

InitMigrations ==
  /\ lock = NoOne
  /\ ledger = {} /\ schema = <<>>
  /\ mig = [p \in Processes |-> Unstarted]
  /\ faults = 0

\* p runs between pool.connect and client.release.
HasClient(p) == mig[p].phase \in {"locking", "reading", "deciding", "ran", "unlocking"}

Goes(p, phase) == mig' = [mig EXCEPT ![p].phase = phase]

----------------------------------------------------------------------------
Connect(p) ==
  /\ mig[p].phase = "off"
  /\ mig' = [mig EXCEPT ![p] = [Unstarted EXCEPT !.phase = "locking"]]
  /\ UNCHANGED <<lock, ledger, schema, faults>>

\* Mutant: no advisory lock.
LockIgnored(p) == TRUE
\* select pg_advisory_lock waits for the session that holds it.
LockFree(p) == lock = NoOne

TakeLock(p) ==
  /\ mig[p].phase = "locking" /\ LockFree(p)
  /\ lock' = p
  /\ Goes(p, "reading")
  /\ UNCHANGED <<ledger, schema, faults>>

\* The ledger is created if absent and read once.
ReadLedger(p) ==
  /\ mig[p].phase = "reading"
  /\ mig' = [mig EXCEPT ![p].phase = "deciding", ![p].applied = ledger]
  /\ UNCHANGED <<lock, ledger, schema, faults>>

Recorded(p) == {row \in mig[p].applied : row.version = mig[p].at}

\* Recorded with the checksum of this release.
SameChecksum(p) == Recorded(p) = {Row(p, mig[p].at)}

\* One turn of the loop over the files: skip, run, or throw MigrationChecksumError.
Decide(p) ==
  /\ mig[p].phase = "deciding" /\ mig[p].at <= Len(Release[p])
  /\ \/ /\ SameChecksum(p)
        /\ mig' = [mig EXCEPT ![p].at = @ + 1]
     \/ /\ Recorded(p) # {} /\ ~SameChecksum(p)
        /\ mig' = [mig EXCEPT ![p].phase = "unlocking", ![p].failed = TRUE]
     \/ /\ Recorded(p) = {}
        /\ Goes(p, "ran")
  /\ UNCHANGED <<lock, ledger, schema, faults>>

\* The row is committed with the SQL.
Applied(p) ==
  /\ schema' = Append(schema, Row(p, mig[p].at))
  /\ ledger' = ledger \cup {Row(p, mig[p].at)}

\* begin, the SQL, the row and commit: the other sessions see them at once.
Commit(p) ==
  /\ mig[p].phase = "ran"
  /\ Applied(p)
  /\ mig' = [mig EXCEPT ![p].phase = "deciding", ![p].at = @ + 1]
  /\ UNCHANGED <<lock, faults>>

\* The database commits and the answer is lost: rollback has nothing to undo.
CommitUnacknowledged(p) ==
  /\ mig[p].phase = "ran" /\ faults < MaxFaults
  /\ Applied(p)
  /\ mig' = [mig EXCEPT ![p].phase = "unlocking", ![p].failed = TRUE]
  /\ faults' = faults + 1
  /\ UNCHANGED lock

\* A statement fails, a transaction is rolled back; the session goes on.
Fail(p) ==
  /\ mig[p].phase \in {"reading", "ran"} /\ faults < MaxFaults
  /\ mig' = [mig EXCEPT ![p].phase = "unlocking", ![p].failed = TRUE]
  /\ faults' = faults + 1
  /\ UNCHANGED <<lock, ledger, schema>>

AllDone(p) ==
  /\ mig[p].phase = "deciding" /\ mig[p].at > Len(Release[p])
  /\ Goes(p, "unlocking")
  /\ UNCHANGED <<lock, ledger, schema, faults>>

\* Mutant: the lock is released only when every migration is in.
ReleasedIfDone(p) == IF lock = p /\ ~mig[p].failed THEN NoOne ELSE lock
Released(p) == IF lock = p THEN NoOne ELSE lock

\* finally: the lock is released and the client goes back to the pool.
Unlock(p) ==
  /\ mig[p].phase = "unlocking"
  /\ lock' = Released(p)
  /\ Goes(p, IF mig[p].failed THEN "failed" ELSE "done")
  /\ UNCHANGED <<ledger, schema, faults>>

\* The connection is lost: the server ends the session, its transaction and its
\* lock, and the failing unlock is ignored.
LoseSession(p) ==
  /\ HasClient(p) /\ faults < MaxFaults
  /\ lock' = Released(p)
  /\ mig' = [mig EXCEPT ![p].phase = "failed", ![p].failed = TRUE]
  /\ faults' = faults + 1
  /\ UNCHANGED <<ledger, schema>>

\* The process dies, and its session with it.
Die(p) ==
  /\ lock' = Released(p)
  /\ mig' = [mig EXCEPT ![p] = Unstarted]
  /\ UNCHANGED <<ledger, schema>>

MigrationStep(p) ==
  \/ TakeLock(p) \/ ReadLedger(p) \/ Decide(p) \/ Commit(p) \/ AllDone(p) \/ Unlock(p)
MigrationFault(p) == CommitUnacknowledged(p) \/ Fail(p) \/ LoseSession(p)

----------------------------------------------------------------------------
(* Properties                                                              *)

Phases == {"off", "locking", "reading", "deciding", "ran", "unlocking", "done", "failed"}
Rows == [version : Nat \ {0}, sha : Sql]

MigrationTypeOK ==
  /\ lock \in Processes \cup {NoOne}
  /\ ledger \in SUBSET Rows /\ schema \in Seq(Rows)
  /\ mig \in [Processes -> [phase : Phases, at : Nat \ {0}, applied : SUBSET Rows,
                            failed : BOOLEAN]]
  /\ faults \in 0 .. MaxFaults

\* Every migration ran once, in the order of the versions, and the ledger says so:
\* whatever processes started, failed, lost a commit or died meanwhile.
AppliedOnceInOrder ==
  /\ \A i \in DOMAIN schema : schema[i].version = i
  /\ ledger = {schema[i] : i \in DOMAIN schema}

\* A process whose runner succeeded has the schema of its release, possibly with
\* later versions of another release.
DoneMeansCurrent ==
  \A p \in Processes : mig[p].phase = "done" =>
    \A v \in DOMAIN Release[p] : Row(p, v) \in ledger
=============================================================================
