------------------------ MODULE ServerLifecycleProofs ------------------------
(***************************************************************************)
(* Proofs about ServerLifecycle and the migrations it runs, for any number *)
(* of processes, any releases and any number of faults and crashes.        *)
(***************************************************************************)
EXTENDS ServerLifecycle, TLAPS

----------------------------------------------------------------------------
(* The migrations                                                          *)

Runners == [phase : Phases, at : Nat \ {0}, applied : SUBSET Rows, failed : BOOLEAN]

Current(p) == \A v \in DOMAIN Release[p] : Row(p, v) \in ledger

\* What p read of the ledger is what the ledger holds, but for the versions p has passed,
\* and those are in.
Reads(p) ==
  /\ mig[p].at <= Len(Release[p]) + 1 /\ mig[p].applied \subseteq ledger
  /\ \A v \in 1 .. mig[p].at - 1 : Row(p, v) \in ledger
  /\ \A row \in ledger : row \in mig[p].applied \/ row.version < mig[p].at

\* A migration that runs is a file of the release and is not in the ledger.
RunsMissing(p) ==
  /\ mig[p].at \in DOMAIN Release[p]
  /\ \A row \in ledger : row.version # mig[p].at

\* A runner past pg_advisory_lock holds the lock; what it has read stays true under it.
RunnerOK(p) ==
  /\ mig[p].phase \in {"reading", "deciding", "ran", "unlocking"} => lock = p
  /\ mig[p].phase \in {"locking", "reading"} => mig[p].at = 1
  /\ mig[p].phase \in {"deciding", "ran"} => Reads(p)
  /\ mig[p].phase = "ran" => RunsMissing(p)
  /\ mig[p].phase = "unlocking" /\ ~mig[p].failed => Current(p)
  /\ mig[p].phase = "done" => Current(p)

MigrationInv ==
  /\ MigrationTypeOK /\ AppliedOnceInOrder
  /\ \A p \in Processes : RunnerOK(p)

LEMMA RowIsRow ==
  ASSUME NEW p \in Processes, NEW v \in DOMAIN Release[p]
  PROVE  Row(p, v) \in Rows /\ Row(p, v).version = v
  BY ReleasesAreFiles DEF Row, Rows

LEMMA MigrationsBegin == InitMigrations => MigrationInv
<1> SUFFICES ASSUME InitMigrations PROVE MigrationInv
  OBVIOUS
<1> USE DEF InitMigrations
<1>1. Unstarted \in Runners
  BY DEF Unstarted, Runners, Phases
<1>2. MigrationTypeOK
  BY <1>1, FaultBound DEF MigrationTypeOK, Runners
<1>3. \A p \in Processes : RunnerOK(p)
  BY DEF Unstarted, RunnerOK
<1>4. AppliedOnceInOrder
  BY DEF AppliedOnceInOrder
<1> QED
  BY <1>2, <1>3, <1>4 DEF MigrationInv

\* A runner is disturbed by no other: only the holder of the lock changes the ledger, and
\* rows are only added.
LEMMA OthersKept ==
  ASSUME MigrationInv, NEW p \in Processes,
         \A q \in Processes \ {p} : mig'[q] = mig[q],
         ledger \subseteq ledger', ledger' = ledger \/ lock = p,
         lock' = lock \/ (lock' = p /\ lock = NoOne) \/ (lock' = NoOne /\ lock = p)
  PROVE  \A q \in Processes \ {p} : RunnerOK(q)'
<1> SUFFICES ASSUME NEW q \in Processes \ {p} PROVE RunnerOK(q)'
  OBVIOUS
<1>1. mig'[q] = mig[q] /\ RunnerOK(q) /\ q # NoOne
  BY NoOneIsNoProcess DEF MigrationInv
<1>2. CASE lock = q
  <2>1. ledger' = ledger /\ lock' = q
    BY <1>1, <1>2
  <2> QED
    BY <1>1, <1>2, <2>1 DEF RunnerOK, Reads, RunsMissing, Current, Row
<1>3. CASE lock # q
  BY <1>1, <1>3 DEF RunnerOK, Current, Row
<1> QED
  BY <1>2, <1>3

LEMMA RunnerIsTyped ==
  ASSUME MigrationTypeOK, NEW p \in Processes
  PROVE  mig[p] \in Runners
  BY DEF MigrationTypeOK, Runners

\* A step of p is right if it is right for p and adds to the ledger under the lock only.
LEMMA RunnerStep ==
  ASSUME MigrationInv, NEW p \in Processes, NEW r \in Runners,
         mig' = [mig EXCEPT ![p] = r],
         ledger \subseteq ledger', ledger' = ledger \/ lock = p,
         ledger' \subseteq Rows, schema' \in Seq(Rows), AppliedOnceInOrder',
         faults' \in 0 .. MaxFaults,
         lock' = lock \/ (lock' = p /\ lock = NoOne) \/ (lock' = NoOne /\ lock = p),
         mig'[p] = r => RunnerOK(p)'
  PROVE  MigrationInv'
<1>1. mig' \in [Processes -> Runners] /\ mig'[p] = r
  BY DEF MigrationInv, MigrationTypeOK, Runners
<1>2. MigrationTypeOK'
  BY <1>1 DEF MigrationInv, MigrationTypeOK, Runners
<1>3. \A q \in Processes \ {p} : mig'[q] = mig[q]
  BY DEF MigrationInv, MigrationTypeOK
<1>4. \A q \in Processes : RunnerOK(q)'
  BY <1>1, <1>3, OthersKept
<1> QED
  BY <1>2, <1>4 DEF MigrationInv

LEMMA QuietStep ==
  ASSUME MigrationInv, NEW p \in Processes, NEW r \in Runners,
         mig' = [mig EXCEPT ![p] = r], UNCHANGED <<ledger, schema>>,
         faults' \in 0 .. MaxFaults,
         lock' = lock \/ (lock' = p /\ lock = NoOne) \/ (lock' = NoOne /\ lock = p),
         mig'[p] = r => RunnerOK(p)'
  PROVE  MigrationInv'
<1>1. AppliedOnceInOrder' /\ ledger' \subseteq Rows /\ schema' \in Seq(Rows)
  BY DEF MigrationInv, MigrationTypeOK, AppliedOnceInOrder
<1> QED
  BY <1>1, RunnerStep

LEMMA ConnectKeeps ==
  ASSUME MigrationInv, NEW p \in Processes, Connect(p)
  PROVE  MigrationInv'
<1> DEFINE r == [Unstarted EXCEPT !.phase = "locking"]
<1>1. r \in Runners /\ r.phase = "locking" /\ r.at = 1
  <2>1. Unstarted \in Runners /\ Unstarted.at = 1
    BY DEF Unstarted, Runners, Phases
  <2> QED
    BY <2>1 DEF Runners, Phases
<1>2. /\ mig' = [mig EXCEPT ![p] = r] /\ UNCHANGED <<lock, ledger, schema>>
      /\ faults' \in 0 .. MaxFaults
  BY DEF Connect, MigrationInv, MigrationTypeOK
<1> HIDE DEF r
<1>3. mig'[p] = r => RunnerOK(p)'
  BY <1>1 DEF RunnerOK
<1> QED
  BY <1>1, <1>2, <1>3, QuietStep

LEMMA TakeLockKeeps ==
  ASSUME MigrationInv, NEW p \in Processes, TakeLock(p)
  PROVE  MigrationInv'
<1> DEFINE r == [mig[p] EXCEPT !.phase = "reading"]
<1>1. r \in Runners /\ r.phase = "reading" /\ r.at = 1
  BY RunnerIsTyped DEF MigrationInv, Runners, Phases, RunnerOK, TakeLock
<1>2. /\ mig' = [mig EXCEPT ![p] = r] /\ lock = NoOne /\ lock' = p
      /\ UNCHANGED <<ledger, schema>> /\ faults' \in 0 .. MaxFaults
  BY DEF TakeLock, LockFree, Goes, MigrationInv, MigrationTypeOK
<1> HIDE DEF r
<1>3. mig'[p] = r => RunnerOK(p)'
  BY <1>1, <1>2 DEF RunnerOK
<1> QED
  BY <1>1, <1>2, <1>3, QuietStep

LEMMA ReadLedgerKeeps ==
  ASSUME MigrationInv, NEW p \in Processes, ReadLedger(p)
  PROVE  MigrationInv'
<1> DEFINE r == [mig[p] EXCEPT !.phase = "deciding", !.applied = ledger]
<1>1. r \in Runners /\ r.phase = "deciding" /\ r.at = 1 /\ r.applied = ledger /\ lock = p
  BY RunnerIsTyped DEF MigrationInv, MigrationTypeOK, Runners, Phases, RunnerOK, ReadLedger
<1>2. /\ mig' = [mig EXCEPT ![p] = r] /\ UNCHANGED <<lock, ledger, schema>>
      /\ faults' \in 0 .. MaxFaults
  BY DEF ReadLedger, MigrationInv, MigrationTypeOK
<1> HIDE DEF r
<1>3. mig'[p] = r => RunnerOK(p)'
  BY <1>1, <1>2, ReleasesAreFiles DEF RunnerOK, Reads
<1> QED
  BY <1>1, <1>2, <1>3, QuietStep

\* A version is skipped: its row is in. A version is run: the ledger has no row of it,
\* because what was read misses none from this version on.
LEMMA DecideKeeps ==
  ASSUME MigrationInv, NEW p \in Processes, Decide(p)
  PROVE  MigrationInv'
<1>1. /\ mig[p] \in Runners /\ mig[p].phase = "deciding" /\ lock = p /\ Reads(p)
      /\ mig[p].at \in DOMAIN Release[p] /\ Release[p] \in Seq(Sql)
  BY RunnerIsTyped, ReleasesAreFiles DEF MigrationInv, RunnerOK, Decide, Runners
<1>2. UNCHANGED <<lock, ledger, schema>> /\ faults' \in 0 .. MaxFaults
  BY DEF Decide, MigrationInv, MigrationTypeOK
<1>3. CASE SameChecksum(p) /\ mig' = [mig EXCEPT ![p].at = @ + 1]
  <2> DEFINE r == [mig[p] EXCEPT !.at = @ + 1]
  <2>1. /\ r \in Runners /\ r.phase = "deciding" /\ r.at = mig[p].at + 1
        /\ r.applied = mig[p].applied /\ mig' = [mig EXCEPT ![p] = r]
    BY <1>1, <1>3 DEF Runners
  <2> HIDE DEF r
  <2>2. Row(p, mig[p].at) \in ledger
    BY <1>1, <1>3 DEF SameChecksum, Recorded, Reads
  <2>3. Reads(p)'
    <3>1. /\ mig'[p] = r /\ r.at <= Len(Release[p]) + 1 /\ r.applied \subseteq ledger
      BY <1>1, <2>1 DEF Reads, MigrationInv, MigrationTypeOK, Runners
    <3>2. \A v \in 1 .. r.at - 1 : v \in 1 .. mig[p].at - 1 \/ v = mig[p].at
      BY <1>1, <2>1 DEF Runners
    <3>3. \A v \in 1 .. r.at - 1 : Row(p, v) \in ledger
      BY <1>1, <2>2, <3>2 DEF Reads
    <3>4. \A row \in ledger : row \in r.applied \/ row.version < r.at
      BY <1>1, <2>1 DEF Reads, Runners, MigrationInv, MigrationTypeOK, Rows
    <3> QED
      BY <1>2, <3>1, <3>3, <3>4 DEF Reads, Row
  <2>4. RunnerOK(p)'
    BY <1>1, <1>2, <2>1, <2>3 DEF RunnerOK, MigrationInv, MigrationTypeOK
  <2> QED
    BY <1>2, <2>1, <2>4, QuietStep
<1>4. CASE mig' = [mig EXCEPT ![p].phase = "unlocking", ![p].failed = TRUE]
  <2> DEFINE r == [mig[p] EXCEPT !.phase = "unlocking", !.failed = TRUE]
  <2>1. /\ r \in Runners /\ r.phase = "unlocking" /\ r.failed /\ mig' = [mig EXCEPT ![p] = r]
    BY <1>1, <1>4 DEF Runners, Phases
  <2> HIDE DEF r
  <2>2. mig'[p] = r => RunnerOK(p)'
    BY <1>1, <1>2, <2>1 DEF RunnerOK
  <2> QED
    BY <1>2, <2>1, <2>2, QuietStep
<1>5. CASE Recorded(p) = {} /\ Goes(p, "ran")
  <2> DEFINE r == [mig[p] EXCEPT !.phase = "ran"]
  <2>1. /\ r \in Runners /\ r.phase = "ran" /\ r.at = mig[p].at /\ r.applied = mig[p].applied
        /\ mig' = [mig EXCEPT ![p] = r]
    BY <1>1, <1>5 DEF Goes, Runners, Phases
  <2> HIDE DEF r
  <2>2. \A row \in ledger : row.version # mig[p].at
    BY <1>1, <1>5 DEF Recorded, Reads, Runners
  <2>3. mig'[p] = r => RunnerOK(p)'
    BY <1>1, <1>2, <2>1, <2>2 DEF RunnerOK, RunsMissing, Reads, Row
  <2> QED
    BY <1>2, <2>1, <2>3, QuietStep
<1> QED
  BY <1>3, <1>4, <1>5 DEF Decide

\* The version that is run is the next of the schema.
LEMMA AppliedKeeps ==
  ASSUME MigrationInv, NEW p \in Processes, mig[p].phase = "ran", Applied(p)
  PROVE  /\ AppliedOnceInOrder' /\ schema' \in Seq(Rows) /\ ledger' \subseteq Rows
         /\ ledger' = ledger \cup {Row(p, mig[p].at)}
<1> DEFINE row == Row(p, mig[p].at)
<1>1. row \in Rows /\ row.version = mig[p].at
  BY RowIsRow DEF MigrationInv, RunnerOK, RunsMissing
<1>2. schema' = Append(schema, row) /\ ledger' = ledger \cup {row}
  BY DEF Applied
<1>3. schema \in Seq(Rows) /\ ledger \subseteq Rows /\ mig[p].at \in Nat \ {0}
  BY DEF MigrationInv, MigrationTypeOK
<1> HIDE DEF row
<1>4. schema' \in Seq(Rows) /\ ledger' \subseteq Rows
  BY <1>1, <1>2, <1>3
<1>5. mig[p].at = Len(schema) + 1
  <2>1. \A i \in 1 .. Len(schema) : i # mig[p].at
    BY <1>3 DEF MigrationInv, RunnerOK, RunsMissing, AppliedOnceInOrder
  <2>2. \A v \in 1 .. mig[p].at - 1 : v \in 1 .. Len(schema)
    <3> SUFFICES ASSUME NEW v \in 1 .. mig[p].at - 1 PROVE v \in 1 .. Len(schema)
      OBVIOUS
    <3>1. Row(p, v) \in ledger /\ Row(p, v).version = v
      BY DEF MigrationInv, RunnerOK, Reads, Row
    <3> QED
      BY <1>3, <3>1 DEF MigrationInv, AppliedOnceInOrder
  <2>3. Len(schema) \in Nat
    BY <1>3
  <2>4. CASE mig[p].at <= Len(schema)
    BY <1>3, <2>1, <2>3, <2>4
  <2>5. CASE mig[p].at > Len(schema) + 1
    <3>1. mig[p].at - 1 \in 1 .. mig[p].at - 1 /\ mig[p].at - 1 > Len(schema)
      BY <1>3, <2>3, <2>5
    <3> QED
      BY <1>3, <2>2, <2>3, <3>1
  <2> QED
    BY <1>3, <2>3, <2>4, <2>5
<1>6. \A i \in DOMAIN schema' : schema'[i].version = i
  BY <1>1, <1>2, <1>3, <1>5 DEF MigrationInv, AppliedOnceInOrder
<1>7. ledger' = {schema'[i] : i \in DOMAIN schema'}
  <2>1. /\ DOMAIN schema' = DOMAIN schema \cup {Len(schema) + 1}
        /\ \A i \in DOMAIN schema : schema'[i] = schema[i]
        /\ schema'[Len(schema) + 1] = row
    BY <1>1, <1>2, <1>3
  <2>2. ledger = {schema[i] : i \in DOMAIN schema}
    BY DEF MigrationInv, AppliedOnceInOrder
  <2> QED
    BY <1>2, <2>1, <2>2
<1> QED
  BY <1>2, <1>4, <1>6, <1>7 DEF AppliedOnceInOrder, row

LEMMA CommitKeeps ==
  ASSUME MigrationInv, NEW p \in Processes, Commit(p)
  PROVE  MigrationInv'
<1> DEFINE r == [mig[p] EXCEPT !.phase = "deciding", !.at = @ + 1]
<1>1. /\ mig[p] \in Runners /\ mig[p].phase = "ran" /\ lock = p /\ Reads(p)
      /\ mig[p].at \in DOMAIN Release[p] /\ Release[p] \in Seq(Sql)
  BY RunnerIsTyped, ReleasesAreFiles DEF MigrationInv, RunnerOK, RunsMissing, Commit
<1>2. /\ r \in Runners /\ r.phase = "deciding" /\ r.at = mig[p].at + 1
      /\ r.applied = mig[p].applied /\ mig' = [mig EXCEPT ![p] = r]
  <2>1. mig' = [mig EXCEPT ![p] = r]
    BY DEF Commit
  <2>2. /\ r \in Runners /\ r.phase = "deciding" /\ r.at = mig[p].at + 1
        /\ r.applied = mig[p].applied
    <3>1. mig[p].at + 1 \in Nat \ {0}
      BY <1>1 DEF Runners
    <3> QED
      BY <1>1, <3>1 DEF Runners, Phases
  <2> QED
    BY <2>1, <2>2
<1> HIDE DEF r
<1>3. /\ AppliedOnceInOrder' /\ schema' \in Seq(Rows) /\ ledger' \subseteq Rows
      /\ ledger' = ledger \cup {Row(p, mig[p].at)}
  BY AppliedKeeps DEF Commit
<1>4. UNCHANGED lock /\ faults' \in 0 .. MaxFaults
  BY DEF Commit, MigrationInv, MigrationTypeOK
<1>5. ASSUME mig'[p] = r PROVE RunnerOK(p)'
  <2>1. r.at <= Len(Release[p]) + 1 /\ r.applied \subseteq ledger'
    BY <1>1, <1>2, <1>3 DEF Reads, Runners
  <2>2. \A v \in 1 .. r.at - 1 : v \in 1 .. mig[p].at - 1 \/ v = mig[p].at
    BY <1>1, <1>2 DEF Runners
  <2>3. \A v \in 1 .. r.at - 1 : Row(p, v) \in ledger'
    BY <1>1, <1>3, <2>2 DEF Reads
  <2>4. \A row \in ledger : row.version \in Nat
    BY DEF MigrationInv, MigrationTypeOK, Rows
  <2>5. \A row \in ledger' : row \in r.applied \/ row.version < r.at
    BY <1>1, <1>2, <1>3, <2>4, RowIsRow DEF Reads, Runners
  <2> QED
    BY <1>1, <1>2, <1>4, <1>5, <2>1, <2>3, <2>5 DEF RunnerOK, Reads, Row
<1> QED
  BY <1>1, <1>2, <1>3, <1>4, <1>5, RunnerStep

\* The runner gives up, with or without the row of its last migration.
LEMMA GivesUpKeeps ==
  ASSUME MigrationInv, NEW p \in Processes,
         mig[p].phase \in {"reading", "deciding", "ran"},
         mig' = [mig EXCEPT ![p].phase = "unlocking", ![p].failed = TRUE],
         UNCHANGED <<ledger, schema>> \/ (mig[p].phase = "ran" /\ Applied(p)),
         faults' \in 0 .. MaxFaults, UNCHANGED lock
  PROVE  MigrationInv'
<1> DEFINE r == [mig[p] EXCEPT !.phase = "unlocking", !.failed = TRUE]
<1>1. /\ r \in Runners /\ r.phase = "unlocking" /\ r.failed /\ mig' = [mig EXCEPT ![p] = r]
  <2>1. mig' = [mig EXCEPT ![p] = r]
    OBVIOUS
  <2>2. r \in Runners /\ r.phase = "unlocking" /\ r.failed
    BY RunnerIsTyped DEF MigrationInv, Runners, Phases
  <2> QED
    BY <2>1, <2>2
<1> HIDE DEF r
<1>2. lock = p
  BY DEF MigrationInv, RunnerOK
<1>3. mig'[p] = r => RunnerOK(p)'
  BY <1>1, <1>2 DEF RunnerOK
<1>4. CASE UNCHANGED <<ledger, schema>>
  BY <1>1, <1>3, <1>4, QuietStep
<1>5. CASE mig[p].phase = "ran" /\ Applied(p)
  <2>1. /\ AppliedOnceInOrder' /\ schema' \in Seq(Rows) /\ ledger' \subseteq Rows
        /\ ledger \subseteq ledger'
    BY <1>5, AppliedKeeps
  <2> QED
    BY <1>1, <1>2, <1>3, <2>1, RunnerStep
<1> QED
  BY <1>4, <1>5

LEMMA AllDoneKeeps ==
  ASSUME MigrationInv, NEW p \in Processes, AllDone(p)
  PROVE  MigrationInv'
<1> DEFINE r == [mig[p] EXCEPT !.phase = "unlocking"]
<1>1. /\ mig[p] \in Runners /\ lock = p /\ Reads(p) /\ Release[p] \in Seq(Sql)
      /\ mig[p].at > Len(Release[p])
  BY RunnerIsTyped, ReleasesAreFiles DEF MigrationInv, RunnerOK, AllDone
<1>2. r \in Runners /\ r.phase = "unlocking"
  BY <1>1 DEF Runners, Phases
<1>3. /\ mig' = [mig EXCEPT ![p] = r] /\ UNCHANGED <<lock, ledger, schema>>
      /\ faults' \in 0 .. MaxFaults
  BY DEF AllDone, Goes, MigrationInv, MigrationTypeOK
<1> HIDE DEF r
<1>4. \A v \in DOMAIN Release[p] : v \in 1 .. mig[p].at - 1
  BY <1>1 DEF Runners
<1>5. Current(p)
  BY <1>1, <1>4 DEF Current, Reads
<1>6. mig'[p] = r => RunnerOK(p)'
  BY <1>1, <1>2, <1>3, <1>5 DEF RunnerOK, Current, Row
<1> QED
  BY <1>2, <1>3, <1>6, QuietStep

LEMMA UnlockKeeps ==
  ASSUME MigrationInv, NEW p \in Processes, Unlock(p)
  PROVE  MigrationInv'
<1> DEFINE r == [mig[p] EXCEPT !.phase = IF mig[p].failed THEN "failed" ELSE "done"]
<1>1. mig[p] \in Runners /\ lock = p /\ (~mig[p].failed => Current(p))
  BY RunnerIsTyped DEF MigrationInv, RunnerOK, Unlock
<1>2. r \in Runners /\ (r.phase = "failed" \/ (r.phase = "done" /\ ~mig[p].failed))
  BY <1>1 DEF Runners, Phases
<1>3. /\ mig' = [mig EXCEPT ![p] = r] /\ lock' = NoOne /\ UNCHANGED <<ledger, schema>>
      /\ faults' \in 0 .. MaxFaults
  BY <1>1 DEF Unlock, Released, Goes, MigrationInv, MigrationTypeOK
<1> HIDE DEF r
<1>4. mig'[p] = r => RunnerOK(p)'
  BY <1>1, <1>2, <1>3 DEF RunnerOK, Current, Row
<1> QED
  BY <1>1, <1>2, <1>3, <1>4, QuietStep

LEMMA LoseSessionKeeps ==
  ASSUME MigrationInv, NEW p \in Processes, LoseSession(p)
  PROVE  MigrationInv'
<1> DEFINE r == [mig[p] EXCEPT !.phase = "failed", !.failed = TRUE]
<1>1. r \in Runners /\ r.phase = "failed"
  BY RunnerIsTyped DEF MigrationInv, Runners, Phases
<1>2. mig' = [mig EXCEPT ![p] = r]
  BY DEF LoseSession
<1>3. /\ lock' = lock \/ (lock' = NoOne /\ lock = p)
      /\ UNCHANGED <<ledger, schema>> /\ faults' \in 0 .. MaxFaults
  BY FaultBound DEF LoseSession, Released, MigrationInv, MigrationTypeOK
<1> HIDE DEF r
<1>4. mig'[p] = r => RunnerOK(p)'
  BY <1>1 DEF RunnerOK
<1> QED
  BY <1>1, <1>2, <1>3, <1>4, QuietStep

LEMMA DieKeeps ==
  ASSUME MigrationInv, NEW p \in Processes, Die(p), UNCHANGED faults
  PROVE  MigrationInv'
<1>1. Unstarted \in Runners /\ Unstarted.phase = "off"
  BY DEF Unstarted, Runners, Phases
<1>2. /\ mig' = [mig EXCEPT ![p] = Unstarted]
      /\ (lock' = lock \/ (lock' = NoOne /\ lock = p))
      /\ UNCHANGED <<ledger, schema>> /\ faults' \in 0 .. MaxFaults
  BY DEF Die, Released, MigrationInv, MigrationTypeOK
<1>3. mig'[p] = Unstarted => RunnerOK(p)'
  BY <1>1 DEF RunnerOK
<1> QED
  BY <1>1, <1>2, <1>3, QuietStep

LEMMA MigrationStepKeeps ==
  ASSUME MigrationInv, NEW p \in Processes, MigrationStep(p) \/ MigrationFault(p)
  PROVE  MigrationInv'
<1>1. CASE TakeLock(p)
  BY <1>1, TakeLockKeeps
<1>2. CASE ReadLedger(p)
  BY <1>2, ReadLedgerKeeps
<1>3. CASE Decide(p)
  BY <1>3, DecideKeeps
<1>4. CASE Commit(p)
  BY <1>4, CommitKeeps
<1>5. CASE AllDone(p)
  BY <1>5, AllDoneKeeps
<1>6. CASE Unlock(p)
  BY <1>6, UnlockKeeps
<1>7. CASE CommitUnacknowledged(p) \/ Fail(p)
  <2>1. faults' \in 0 .. MaxFaults
    BY <1>7, FaultBound DEF CommitUnacknowledged, Fail, MigrationInv, MigrationTypeOK
  <2> QED
    BY <1>7, <2>1, GivesUpKeeps DEF CommitUnacknowledged, Fail
<1>8. CASE LoseSession(p)
  BY <1>8, LoseSessionKeeps
<1> QED
  BY <1>1, <1>2, <1>3, <1>4, <1>5, <1>6, <1>7, <1>8 DEF MigrationStep, MigrationFault

----------------------------------------------------------------------------
(* The processes                                                           *)

Servers ==
  [state : {"initializing", "ready", "failed"}, cleanups : 0 .. 2,
   first : BOOLEAN, timer : BOOLEAN, door : {"open", "closing", "closed"},
   request : BOOLEAN, left : BOOLEAN, jobs : SUBSET Services, late : SUBSET Services,
   chain : {"none", "analysis", "scheduler", "store", "over"}, early : BOOLEAN]

\* Work is left by requests, requests are served when ready, and ready is said once the
\* migrations are done; the chain starts when the last connection is over, and a service
\* it has passed has no job left but those started late.
WorkOf(p) ==
  /\ srv[p].state = "ready" => mig[p].phase = "done"
  /\ srv[p].request => srv[p].state = "ready" /\ srv[p].door # "closed"
  /\ srv[p].left \/ srv[p].jobs # {} \/ srv[p].late # {} => srv[p].state = "ready"
  /\ srv[p].door # "closed" => srv[p].chain = "none"
  /\ srv[p].chain \in {"scheduler", "store", "over"} => "analysis" \notin srv[p].jobs
  /\ srv[p].chain \in {"store", "over"} => "capture" \notin srv[p].jobs

\* A closed server that has its first cleanup before it, in it or behind it with the
\* interval set was closed early.
CleanupOf(p) ==
  /\ srv[p].cleanups <= 1
  /\ srv[p].first => srv[p].cleanups = 1
  /\ srv[p].door = "closed" /\ (srv[p].first \/ srv[p].timer \/ srv[p].state = "initializing")
       => srv[p].early

ServerInv ==
  /\ srv \in [Processes -> Servers] /\ crashes \in 0 .. MaxCrashes
  /\ \A p \in Processes : WorkOf(p) /\ CleanupOf(p)

Inv == MigrationInv /\ ServerInv

\* What holds of a process is disturbed by no other.
LEMMA ServerStep ==
  ASSUME ServerInv, NEW p \in Processes, NEW s \in Servers,
         srv' = [srv EXCEPT ![p] = s],
         \A q \in Processes \ {p} : mig[q].phase = "done" => mig'[q].phase = "done",
         crashes' \in 0 .. MaxCrashes,
         srv'[p] = s => WorkOf(p)' /\ CleanupOf(p)'
  PROVE  ServerInv'
<1>1. srv' \in [Processes -> Servers] /\ srv'[p] = s
  BY DEF ServerInv
<1>2. ASSUME NEW q \in Processes \ {p} PROVE WorkOf(q)' /\ CleanupOf(q)'
  <2>1. srv'[q] = srv[q] /\ WorkOf(q) /\ CleanupOf(q)
    BY DEF ServerInv
  <2> QED
    BY <2>1 DEF WorkOf, CleanupOf
<1> QED
  BY <1>1, <1>2 DEF ServerInv

LEMMA Begin == Init => Inv
<1> SUFFICES ASSUME Init PROVE Inv
  OBVIOUS
<1>1. MigrationInv
  BY MigrationsBegin DEF Init
<1>2. Fresh \in Servers
  BY DEF Fresh, Servers
<1>3. ASSUME NEW p \in Processes PROVE WorkOf(p) /\ CleanupOf(p)
  <2>1. /\ srv[p].state = "initializing" /\ srv[p].cleanups = 0 /\ srv[p].jobs = {}
        /\ srv[p].door = "open" /\ srv[p].chain = "none" /\ srv[p].late = {}
        /\ srv[p].first = FALSE /\ srv[p].request = FALSE /\ srv[p].left = FALSE
    BY DEF Init, Fresh
  <2> QED
    BY <2>1 DEF WorkOf, CleanupOf
<1> QED
  BY <1>1, <1>2, <1>3, CrashBound DEF Init, Inv, ServerInv

\* The runner of a process that is ready takes no step.
LEMMA RunnerStepsKeepServers ==
  ASSUME Inv, NEW p \in Processes, UNCHANGED <<srv, crashes>>,
         Connect(p) \/ MigrationStep(p) \/ MigrationFault(p)
  PROVE  ServerInv'
<1>1. \A q \in Processes : mig[q].phase = "done" => mig'[q].phase = "done"
  <2>1. mig[p].phase # "done"
    BY DEF Connect, MigrationStep, MigrationFault, TakeLock, ReadLedger, Decide, Commit,
           CommitUnacknowledged, Fail, AllDone, Unlock, LoseSession, HasClient
  <2>2. \A q \in Processes \ {p} : mig'[q] = mig[q]
    BY DEF Inv, MigrationInv, MigrationTypeOK, Connect, MigrationStep, MigrationFault, TakeLock,
           ReadLedger, Decide, Commit, CommitUnacknowledged, Fail, AllDone, Unlock,
           LoseSession, Goes
  <2> QED
    BY <2>1, <2>2
<1>2. ASSUME NEW q \in Processes PROVE WorkOf(q)' /\ CleanupOf(q)'
  BY <1>1 DEF Inv, ServerInv, WorkOf, CleanupOf
<1> QED
  BY <1>2 DEF Inv, ServerInv

\* What a process is before a step of its own.
LEMMA ServerIsTyped ==
  ASSUME ServerInv, NEW p \in Processes
  PROVE  srv[p] \in Servers /\ WorkOf(p) /\ CleanupOf(p)
  BY DEF ServerInv

LEMMA ReadyKeeps ==
  ASSUME ServerInv, NEW p \in Processes, Ready(p)
  PROVE  ServerInv'
<1> DEFINE s == [srv[p] EXCEPT !.state = "ready"]
           t == [srv[p] EXCEPT !.state = "ready", !.first = TRUE, !.cleanups = 1]
<1>1. UNCHANGED <<mig, crashes>> /\ srv[p].state = "initializing" /\ mig[p].phase = "done"
  BY DEF Ready, Unaffected, migrationVars
<1>2. s \in Servers
  BY ServerIsTyped DEF Servers
<1>6. t \in Servers
  <2> DEFINE u == [s EXCEPT !.first = TRUE]
  <2>1. u \in Servers
    BY <1>2, ServerIsTyped DEF Servers
  <2>2. t = [u EXCEPT !.cleanups = 1]
    OBVIOUS
  <2> HIDE DEF u, t
  <2> QED
    BY <2>1, <2>2 DEF Servers
<1>3. CASE srv' = [srv EXCEPT ![p] = s]
  <2>1. ASSUME srv'[p] = s PROVE WorkOf(p)' /\ CleanupOf(p)'
    BY <1>1, <2>1, ServerIsTyped DEF WorkOf, CleanupOf, Servers
  <2> QED
    BY <1>1, <1>2, <1>3, <2>1, ServerStep DEF ServerInv
<1>4. CASE srv' = [srv EXCEPT ![p] = t]
  <2>1. ASSUME srv'[p] = t PROVE WorkOf(p)' /\ CleanupOf(p)'
    BY <1>1, <2>1, ServerIsTyped DEF WorkOf, CleanupOf, Servers
  <2> QED
    BY <1>1, <1>6, <1>4, <2>1, ServerStep DEF ServerInv
<1>5. srv' = [srv EXCEPT ![p] = s] \/ srv' = [srv EXCEPT ![p] = t]
  BY DEF Ready
<1> QED
  BY <1>3, <1>4, <1>5

LEMMA FailedKeeps ==
  ASSUME ServerInv, NEW p \in Processes, NotReady(p) \/ MigrationsFailed(p)
  PROVE  ServerInv'
<1> DEFINE s == [srv[p] EXCEPT !.state = "failed"]
<1>1. srv' = [srv EXCEPT ![p] = s] /\ UNCHANGED <<mig, crashes>>
  BY DEF NotReady, MigrationsFailed, Unaffected, migrationVars
<1>2. srv[p].state = "initializing"
  BY DEF NotReady, MigrationsFailed
<1>3. s \in Servers
  BY ServerIsTyped DEF Servers
<1>4. ASSUME srv'[p] = s PROVE WorkOf(p)'
  BY <1>1, <1>2, <1>4, ServerIsTyped DEF WorkOf, Servers
<1>5. ASSUME srv'[p] = s PROVE CleanupOf(p)'
  BY <1>1, <1>2, <1>5, ServerIsTyped DEF CleanupOf, Servers
<1> QED
  BY <1>1, <1>3, <1>4, <1>5, ServerStep DEF ServerInv

\* The interval that is set on a closed server is one of a server closed early.
LEMMA CleanupEndsKeeps ==
  ASSUME ServerInv, NEW p \in Processes, CleanupEnds(p)
  PROVE  ServerInv'
<1> DEFINE s == [srv[p] EXCEPT !.cleanups = @ - 1, !.first = FALSE,
                               !.timer = IF srv[p].first THEN TRUE ELSE @]
<1>1. srv' = [srv EXCEPT ![p] = s]
  BY DEF CleanupEnds
<1>2. srv[p].cleanups = 1 /\ UNCHANGED <<mig, crashes>>
  BY ServerIsTyped DEF CleanupEnds, CleanupOf, Servers, Unaffected, migrationVars
<1>3. s \in Servers
  <2>1. srv[p] \in Servers /\ srv[p].cleanups - 1 \in 0 .. 2
    BY <1>2, ServerIsTyped
  <2>2. CASE srv[p].first
    BY <2>1, <2>2 DEF Servers
  <2>3. CASE ~srv[p].first
    BY <2>1, <2>3 DEF Servers
  <2> QED
    BY <2>2, <2>3
<1>4. ASSUME srv'[p] = s PROVE WorkOf(p)'
  BY <1>2, <1>4, ServerIsTyped DEF WorkOf, Servers
<1>5. ASSUME srv'[p] = s PROVE CleanupOf(p)'
  BY <1>2, <1>5, ServerIsTyped DEF CleanupOf, Servers
<1> QED
  BY <1>1, <1>2, <1>3, <1>4, <1>5, ServerStep DEF ServerInv

LEMMA TickKeeps ==
  ASSUME ServerInv, NEW p \in Processes, Tick(p)
  PROVE  ServerInv'
<1> DEFINE s == [srv[p] EXCEPT !.cleanups = 1]
<1>1. srv[p].cleanups = 0 /\ UNCHANGED <<mig, crashes>>
  BY DEF Tick, CleanupIdle, Unaffected, migrationVars
<1>2. srv' = [srv EXCEPT ![p] = s]
  BY <1>1 DEF Tick
<1>3. s \in Servers
  BY ServerIsTyped DEF Servers
<1>4. ASSUME srv'[p] = s PROVE WorkOf(p)' /\ CleanupOf(p)'
  BY <1>1, <1>4, ServerIsTyped DEF WorkOf, CleanupOf, Servers
<1> QED
  BY <1>1, <1>2, <1>3, <1>4, ServerStep DEF ServerInv

\* A handler ends: the job it leaves is one of a service that is open, or a late one.
LEMMA HandlerKeeps ==
  ASSUME ServerInv, NEW p \in Processes, NEW request \in BOOLEAN, NEW left \in BOOLEAN,
         HandlerEnds(p, request, left), srv[p].state = "ready",
         request => srv[p].request
  PROVE  ServerInv'
<1>1. UNCHANGED <<mig, crashes>>
  BY DEF HandlerEnds, Unaffected, migrationVars
<1>2. PICK js \in SUBSET Services :
        srv' = [srv EXCEPT ![p].request = request, ![p].left = left,
                           ![p].jobs = @ \cup (js \ ClosedServices(p)),
                           ![p].late = @ \cup (js \cap ClosedServices(p))]
  BY DEF HandlerEnds
<1> DEFINE more == srv[p].jobs \cup (js \ ClosedServices(p))
           behind == srv[p].late \cup (js \cap ClosedServices(p))
           s == [srv[p] EXCEPT !.request = request, !.left = left,
                               !.jobs = more, !.late = behind]
<1>3. srv' = [srv EXCEPT ![p] = s]
  BY <1>2
<1>4. more \in SUBSET Services /\ behind \in SUBSET Services
  BY ServerIsTyped DEF Servers
<1>5. /\ srv[p].chain \in {"scheduler", "store", "over"} => "analysis" \notin more
      /\ srv[p].chain \in {"store", "over"} => "capture" \notin more
  BY ServerIsTyped DEF WorkOf, ClosedServices, Services, Servers
<1> HIDE DEF more, behind
<1>6. s \in Servers
  BY <1>4, ServerIsTyped, Zenon DEF Servers
<1>7. /\ s.state = srv[p].state /\ s.cleanups = srv[p].cleanups /\ s.first = srv[p].first
      /\ s.timer = srv[p].timer /\ s.door = srv[p].door /\ s.request = request
      /\ s.jobs = more /\ s.chain = srv[p].chain /\ s.early = srv[p].early
  BY ServerIsTyped DEF Servers
<1> HIDE DEF s
<1>8. ASSUME srv'[p] = s PROVE WorkOf(p)'
  BY <1>1, <1>5, <1>7, <1>8, ServerIsTyped DEF WorkOf
<1>9. ASSUME srv'[p] = s PROVE CleanupOf(p)'
  BY <1>7, <1>9, ServerIsTyped DEF CleanupOf
<1> QED
  BY <1>1, <1>3, <1>6, <1>8, <1>9, ServerStep DEF ServerInv

\* Requests begin, are left by their clients and end, and jobs with them.
LEMMA WorkKeeps ==
  ASSUME ServerInv, NEW p \in Processes,
         Request(p) \/ Respond(p) \/ ClientLeaves(p) \/ LeftEnds(p) \/ JobEnds(p) \/ LateEnds(p)
  PROVE  ServerInv'
<1>1. CASE Request(p)
  <2> DEFINE s == [srv[p] EXCEPT !.request = TRUE]
  <2>1. /\ srv' = [srv EXCEPT ![p] = s] /\ srv[p].door = "open" /\ srv[p].state = "ready"
        /\ UNCHANGED <<mig, crashes>>
    BY <1>1 DEF Request, Serves, Unaffected, migrationVars
  <2>2. s \in Servers
    BY ServerIsTyped DEF Servers
  <2>3. ASSUME srv'[p] = s PROVE WorkOf(p)' /\ CleanupOf(p)'
    BY <2>1, <2>3, ServerIsTyped DEF WorkOf, CleanupOf, Servers
  <2> QED
    BY <2>1, <2>2, <2>3, ServerStep DEF ServerInv
<1>2. CASE Respond(p)
  <2>1. srv[p].state = "ready" /\ srv[p].left \in BOOLEAN
    BY <1>2, ServerIsTyped DEF Respond, WorkOf, Servers
  <2> QED
    BY <1>2, <2>1, HandlerKeeps DEF Respond
<1>3. CASE ClientLeaves(p)
  <2> DEFINE s == [srv[p] EXCEPT !.request = FALSE, !.left = TRUE]
  <2>1. srv' = [srv EXCEPT ![p] = s] /\ srv[p].request /\ UNCHANGED <<mig, crashes>>
    BY <1>3 DEF ClientLeaves, Unaffected, migrationVars
  <2>2. s \in Servers
    BY ServerIsTyped, Zenon DEF Servers
  <2>3. ASSUME srv'[p] = s PROVE WorkOf(p)' /\ CleanupOf(p)'
    BY <2>1, <2>3, ServerIsTyped DEF WorkOf, CleanupOf, Servers
  <2> QED
    BY <2>1, <2>2, <2>3, ServerStep DEF ServerInv
<1>4. CASE LeftEnds(p)
  <2>1. srv[p].state = "ready" /\ srv[p].request \in BOOLEAN
    BY <1>4, ServerIsTyped DEF LeftEnds, WorkOf, Servers
  <2> QED
    BY <1>4, <2>1, HandlerKeeps DEF LeftEnds
<1>5. CASE JobEnds(p)
  <2>1. PICK j \in srv[p].jobs : srv' = [srv EXCEPT ![p].jobs = @ \ {j}]
    BY <1>5 DEF JobEnds
  <2> DEFINE s == [srv[p] EXCEPT !.jobs = @ \ {j}]
  <2>2. srv' = [srv EXCEPT ![p] = s] /\ UNCHANGED <<mig, crashes>>
    BY <1>5, <2>1 DEF JobEnds, Unaffected, migrationVars
  <2>3. s \in Servers
    BY ServerIsTyped DEF Servers
  <2>4. ASSUME srv'[p] = s PROVE WorkOf(p)' /\ CleanupOf(p)'
    BY <2>2, <2>4, ServerIsTyped DEF WorkOf, CleanupOf, Servers
  <2> QED
    BY <2>2, <2>3, <2>4, ServerStep DEF ServerInv
<1>6. CASE LateEnds(p)
  <2>1. PICK j \in srv[p].late : srv' = [srv EXCEPT ![p].late = @ \ {j}]
    BY <1>6 DEF LateEnds
  <2> DEFINE s == [srv[p] EXCEPT !.late = @ \ {j}]
  <2>2. srv' = [srv EXCEPT ![p] = s] /\ UNCHANGED <<mig, crashes>>
    BY <1>6, <2>1 DEF LateEnds, Unaffected, migrationVars
  <2>3. s \in Servers
    BY ServerIsTyped DEF Servers
  <2>4. ASSUME srv'[p] = s PROVE WorkOf(p)' /\ CleanupOf(p)'
    BY <2>2, <2>4, ServerIsTyped DEF WorkOf, CleanupOf, Servers
  <2> QED
    BY <2>2, <2>3, <2>4, ServerStep DEF ServerInv
<1> QED
  BY <1>1, <1>2, <1>3, <1>4, <1>5, <1>6

LEMMA ShutKeeps ==
  ASSUME ServerInv, NEW p \in Processes, CloseServer(p) \/ Closed(p)
  PROVE  ServerInv'
<1>1. UNCHANGED <<mig, crashes>>
  BY DEF CloseServer, Closed, Unaffected, migrationVars
<1>2. CASE CloseServer(p)
  <2> DEFINE s == [srv[p] EXCEPT !.door = "closing"]
  <2>1. srv' = [srv EXCEPT ![p] = s] /\ srv[p].door = "open"
    BY <1>2 DEF CloseServer
  <2>2. s \in Servers
    BY ServerIsTyped DEF Servers
  <2>3. ASSUME srv'[p] = s PROVE WorkOf(p)'
    BY <1>1, <2>1, <2>3, ServerIsTyped DEF WorkOf, Servers
  <2>4. ASSUME srv'[p] = s PROVE CleanupOf(p)'
    BY <2>4, ServerIsTyped DEF CleanupOf, Servers
  <2> QED
    BY <1>1, <2>1, <2>2, <2>3, <2>4, ServerStep DEF ServerInv
<1>3. CASE Closed(p)
  <2> DEFINE s == [srv[p] EXCEPT !.door = "closed", !.timer = FALSE, !.chain = "analysis"]
             t == [s EXCEPT !.early = IF srv[p].first \/ srv[p].state = "initializing"
                                      THEN TRUE ELSE @]
  <2>1. srv' = [srv EXCEPT ![p] = t] /\ ~srv[p].request
    <3>1. s.early = srv[p].early
      BY ServerIsTyped DEF Servers
    <3>2. srv' = [srv EXCEPT ![p] =
                    [srv[p] EXCEPT !.door = "closed", !.timer = FALSE, !.chain = "analysis",
                                   !.early = IF srv[p].first \/ srv[p].state = "initializing"
                                             THEN TRUE ELSE @]]
      BY <1>3 DEF Closed, TimerAfterClose
    <3>3. t = [srv[p] EXCEPT !.door = "closed", !.timer = FALSE, !.chain = "analysis",
                             !.early = IF srv[p].first \/ srv[p].state = "initializing"
                                       THEN TRUE ELSE @]
      BY <3>1
    <3>4. ~srv[p].request
      BY <1>3 DEF Closed, ConnectionsOver
    <3> QED
      BY <3>2, <3>3, <3>4
  <2>2. s \in Servers
    BY ServerIsTyped DEF Servers
  <2>3. /\ s.door = "closed" /\ s.timer = FALSE /\ s.chain = "analysis"
        /\ s.state = srv[p].state /\ s.first = srv[p].first /\ s.cleanups = srv[p].cleanups
        /\ s.request = srv[p].request /\ s.jobs = srv[p].jobs
        /\ s.left = srv[p].left /\ s.late = srv[p].late
    BY ServerIsTyped DEF Servers
  <2> HIDE DEF s
  <2>4. t \in Servers
    <3>1. CASE srv[p].first \/ srv[p].state = "initializing"
      BY <2>2, <3>1 DEF Servers
    <3>2. CASE ~(srv[p].first \/ srv[p].state = "initializing")
      BY <2>2, <3>2 DEF Servers
    <3> QED
      BY <3>1, <3>2
  <2>5. ASSUME srv'[p] = t PROVE WorkOf(p)'
    BY <1>1, <2>1, <2>2, <2>3, <2>5, ServerIsTyped DEF WorkOf, Servers
  <2>6. ASSUME srv'[p] = t PROVE CleanupOf(p)'
    BY <2>2, <2>3, <2>6, ServerIsTyped DEF CleanupOf, Servers
  <2> QED
    BY <1>1, <2>1, <2>4, <2>5, <2>6, ServerStep DEF ServerInv
<1> QED
  BY <1>2, <1>3

\* The chain goes on when the service it waits for has no job left.
LEMMA ChainKeeps ==
  ASSUME ServerInv, NEW p \in Processes,
         CloseAnalysis(p) \/ CloseScheduler(p) \/ EndPool(p)
  PROVE  ServerInv'
<1>1. UNCHANGED <<mig, crashes>>
  BY DEF CloseAnalysis, CloseScheduler, EndPool, Advance, Unaffected, migrationVars
<1>2. ASSUME NEW from \in {"analysis", "scheduler", "store"},
             NEW to \in {"scheduler", "store", "over"}, Advance(p, from, to),
             to \in {"store", "over"} => from \in {"scheduler", "store"},
             "analysis" \notin srv[p].jobs,
             to \in {"store", "over"} => "capture" \notin srv[p].jobs
      PROVE  ServerInv'
  <2> DEFINE s == [srv[p] EXCEPT !.chain = to]
  <2>1. srv' = [srv EXCEPT ![p] = s] /\ srv[p].chain = from
    BY <1>2 DEF Advance
  <2>2. s \in Servers
    BY ServerIsTyped DEF Servers
  <2>3. ASSUME srv'[p] = s PROVE WorkOf(p)'
    BY <1>1, <1>2, <2>1, <2>3, ServerIsTyped DEF WorkOf, Servers
  <2>4. ASSUME srv'[p] = s PROVE CleanupOf(p)'
    BY <2>4, ServerIsTyped DEF CleanupOf, Servers
  <2> QED
    BY <1>1, <2>1, <2>2, <2>3, <2>4, ServerStep DEF ServerInv
<1>3. CASE CloseAnalysis(p)
  BY <1>2, <1>3 DEF CloseAnalysis, Settled
<1>4. CASE CloseScheduler(p)
  <2>1. srv[p].chain = "scheduler"
    BY <1>4 DEF CloseScheduler, Advance
  <2>2. "analysis" \notin srv[p].jobs
    BY <2>1, ServerIsTyped DEF WorkOf
  <2> QED
    BY <1>2, <1>4, <2>2 DEF CloseScheduler, Settled
<1>5. CASE EndPool(p)
  <2>1. srv[p].chain = "store"
    BY <1>5 DEF EndPool, Advance
  <2>2. "analysis" \notin srv[p].jobs /\ "capture" \notin srv[p].jobs
    BY <2>1, ServerIsTyped DEF WorkOf
  <2> QED
    BY <1>2, <1>5, <2>2 DEF EndPool
<1> QED
  BY <1>3, <1>4, <1>5

LEMMA CrashKeeps ==
  ASSUME Inv, NEW p \in Processes, Crash(p)
  PROVE  Inv'
<1>1. MigrationInv'
  BY DieKeeps DEF Inv, Crash
<1>2. srv' = [srv EXCEPT ![p] = Fresh] /\ crashes' \in 0 .. MaxCrashes
  BY CrashBound DEF Crash, Inv, ServerInv
<1>3. \A q \in Processes \ {p} : mig[q].phase = "done" => mig'[q].phase = "done"
  BY DEF Crash, Die, Inv, MigrationInv, MigrationTypeOK
<1>4. Fresh \in Servers
  BY DEF Fresh, Servers
<1>5. /\ Fresh.state = "initializing" /\ Fresh.cleanups = 0 /\ Fresh.jobs = {}
      /\ Fresh.door = "open" /\ Fresh.chain = "none" /\ Fresh.late = {}
      /\ Fresh.first = FALSE /\ Fresh.request = FALSE /\ Fresh.left = FALSE
  BY DEF Fresh
<1>6. srv'[p] = Fresh => WorkOf(p)' /\ CleanupOf(p)'
  BY <1>5 DEF WorkOf, CleanupOf
<1>7. ServerInv'
  BY <1>2, <1>3, <1>4, <1>6, ServerStep DEF Inv
<1> QED
  BY <1>1, <1>7 DEF Inv

----------------------------------------------------------------------------
LEMMA StepKeeps ==
  ASSUME Inv, [Next]_vars
  PROVE  Inv'
<1>1. CASE UNCHANGED vars
  BY <1>1 DEF vars, Inv, MigrationInv, MigrationTypeOK, AppliedOnceInOrder, RunnerOK, Reads,
         RunsMissing, Current, Row, ServerInv, WorkOf, CleanupOf
<1>2. ASSUME NEW p \in Processes, Start(p) \/ Work(p) \/ Stop(p) \/ Environment(p)
      PROVE  Inv'
  <2>1. CASE Launch(p) \/ Migrate(p) \/ MigrateBadly(p)
    <3>1. /\ Connect(p) \/ MigrationStep(p) \/ MigrationFault(p)
          /\ UNCHANGED <<srv, crashes>>
      BY <2>1 DEF Launch, Migrate, MigrateBadly
    <3>2. MigrationInv'
      BY <3>1, ConnectKeeps, MigrationStepKeeps DEF Inv
    <3> QED
      BY <3>1, <3>2, RunnerStepsKeepServers DEF Inv
  <2>2. CASE Crash(p)
    BY <2>2, CrashKeeps
  <2>3. CASE NotReady(p)
    <3>1. MigrationInv'
      <4>1. UNCHANGED <<lock, ledger, schema, mig>> /\ faults' \in 0 .. MaxFaults
        BY <2>3, FaultBound DEF NotReady, Inv, MigrationInv, MigrationTypeOK
      <4> QED
        BY <4>1 DEF Inv, MigrationInv, MigrationTypeOK, AppliedOnceInOrder, RunnerOK, Reads,
               RunsMissing, Current, Row
    <3> QED
      BY <2>3, <3>1, FailedKeeps DEF Inv
  <2>4. CASE Ready(p) \/ MigrationsFailed(p) \/ CleanupEnds(p) \/ Tick(p) \/ Request(p)
             \/ Respond(p) \/ ClientLeaves(p) \/ LeftEnds(p) \/ JobEnds(p) \/ LateEnds(p)
             \/ CloseServer(p) \/ Stop(p)
    <3>1. UNCHANGED migrationVars
      BY <2>4 DEF Ready, MigrationsFailed, CleanupEnds, Tick, Request, Respond,
             ClientLeaves, LeftEnds, HandlerEnds, JobEnds, LateEnds, CloseServer, Stop, Closed, CloseAnalysis, CloseScheduler, EndPool, Advance,
             Unaffected
    <3>2. MigrationInv'
      BY <3>1 DEF migrationVars, Inv, MigrationInv, MigrationTypeOK, AppliedOnceInOrder,
             RunnerOK, Reads, RunsMissing, Current, Row
    <3>3. ServerInv'
      BY <2>4, ReadyKeeps, FailedKeeps, CleanupEndsKeeps, TickKeeps, WorkKeeps, ShutKeeps,
         ChainKeeps DEF Inv, Stop
    <3> QED
      BY <3>2, <3>3 DEF Inv
  <2> QED
    BY <1>2, <2>1, <2>2, <2>3, <2>4 DEF Start, Work, Environment
<1> QED
  BY <1>1, <1>2 DEF Next

\* The lock, the ledger and the schema of every runner, the work and the cleanup of every
\* process: the inductive invariant.
THEOREM LifecycleInvariant == Spec => []Inv
<1>1. Init => Inv
  BY Begin
<1>2. Inv /\ [Next]_vars => Inv'
  BY StepKeeps
<1> QED
  BY <1>1, <1>2, PTL DEF Spec

\* Whatever processes start, fail, lose a commit or die, each migration has run once and in
\* order, and a runner that succeeded has the schema of its release
\* (postgres-migrations.js, runPostgresMigrations).
THEOREM MigrationsCorrect == Spec => []MigrationsSound
<1>1. Inv => MigrationsSound
  BY DEF Inv, MigrationInv, RunnerOK, Current, ServerInv, Servers, TypeOK, MigrationsSound,
         DoneMeansCurrent
<1> QED
  BY <1>1, LifecycleInvariant, PTL

\* Nothing runs on a schema that is behind; what meets a closed repository is a handler
\* whose client left, or a job it started at a closed service (createRefloomServer's
\* 'close' listener, and runStdio).
THEOREM WorkIsServed == Spec => []WorkMeetsReadyStore
<1>1. Inv => WorkMeetsReadyStore
  <2> SUFFICES ASSUME Inv, NEW p \in Processes
               PROVE  /\ srv[p].request \/ srv[p].jobs # {} => StoreOpen(p)
                      /\ srv[p].request \/ srv[p].left \/ srv[p].jobs # {} \/ srv[p].late # {}
                           => Current(p)
    BY DEF WorkMeetsReadyStore, Current
  <2>1. srv[p] \in Servers /\ WorkOf(p) /\ RunnerOK(p)
    BY DEF Inv, MigrationInv, ServerInv
  <2>2. srv[p].state = "ready" => Current(p)
    BY <2>1 DEF WorkOf, RunnerOK
  <2>3. srv[p].jobs \subseteq {"analysis", "capture"}
    BY <2>1 DEF Servers, Services
  <2>4. srv[p].request \/ srv[p].jobs # {} => StoreOpen(p)
    BY <2>1, <2>3 DEF WorkOf, StoreOpen, Servers
  <2> QED
    BY <2>1, <2>2, <2>4 DEF WorkOf
<1> QED
  BY <1>1, LifecycleInvariant, PTL

\* One cleanup at a time; an interval outlives its server only if the server closed before
\* its first cleanup was over (cleanup and the 'close' listener of createRefloomServer).
THEOREM CleanupsOrderly == Spec => []CleanupOrderly
<1>1. Inv => CleanupOrderly
  BY DEF Inv, ServerInv, CleanupOf, CleanupOrderly
<1> QED
  BY <1>1, LifecycleInvariant, PTL
=============================================================================
