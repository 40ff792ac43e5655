---------------------------- MODULE AnalysisService ----------------------------
(***************************************************************************)
(* AnalysisService in several processes over one workspace.  A request     *)
(* claims capacity by committing a "running" entry with a lease into the   *)
(* Reference's analyses, runs the external analyzer in the process that    *)
(* claimed it, and commits the outcome into the entry if that is still     *)
(* there and leased.  Cancellations, deletions, restores and the replaced  *)
(* asset of other processes reach the owner through the workspace alone,   *)
(* which it polls.  The store is the compare-and-set of WorkspaceStore,    *)
(* seen from one Reference with one analyzable Asset.                      *)
(*                                                                         *)
(* The analyzer kills itself after RunTime.  That the claim of a request   *)
(* is decided within StoreBound of its timestamp is an assumption.         *)
(***************************************************************************)
EXTENDS Integers, FiniteSets

CONSTANTS
    Requests,
    Processes, Process, \* Process[q]: where a request is made
    Intent,             \* Intent[q]: what of the key does not come from the asset
    Intents,
    Locators, Gone,     \* the asset's locator; the Reference is deleted
    Concurrency, Limit, \* concurrency, ANALYSIS_LIMIT
    Attempts,           \* of one change: 5
    MaxPreparing,       \* 4
    RunTime, Slack,     \* runner.timeoutMs and what the lease adds to it
    StoreBound,
    MaxTime, MaxEdits, MaxImports, MaxFaults        \* bounds of the model

ASSUME ConstantsAssumption ==
    /\ Process \in [Requests -> Processes] /\ Intent \in [Requests -> Intents]
    /\ Gone \notin Locators
    /\ Concurrency \in Nat \ {0} /\ Limit \in Nat /\ Attempts \in Nat \ {0}
    /\ MaxPreparing \in Nat /\ RunTime \in Nat /\ Slack \in Nat /\ StoreBound \in Nat
    /\ MaxTime \in Nat /\ MaxEdits \in Nat /\ MaxImports \in Nat /\ MaxFaults \in Nat

VARIABLES
    revision, workspace,    \* the asset and the entries of the Reference
    backup,                 \* a workspace exported earlier
    request,                \* one record per request
    closed,                 \* processes whose service was closed
    now, edits, imports, faults

vars == <<revision, workspace, backup, request, closed, now, edits, imports, faults>>
counters == <<edits, imports, faults>>

Settled == {"complete", "failed", "cancelled"}
Entries ==
    [id : Requests, locator : Locators, intent : Intents, forced : BOOLEAN,
     status : {"running"} \cup Settled, expires : Nat]
Workspaces == [locator : Locators \cup {Gone}, entries : SUBSET Entries]
Deleted == [locator |-> Gone, entries |-> {}]

Preparing == {"load", "info", "claim", "commit", "claimed"}
Registered == {"check", "run", "settle", "save"}

Idle == [step |-> "idle", locator |-> Gone, forced |-> FALSE, expires |-> 0,
         attempt |-> 0, base |-> 0, seen |-> Deleted, since |-> 0,
         outcome |-> "running", aborted |-> FALSE]
Ended == [Idle EXCEPT !.step = "over"]

Init ==
    /\ revision = 0
    /\ workspace \in [locator : Locators, entries : {{}}]
    /\ backup = workspace
    /\ request = [q \in Requests |-> Idle]
    /\ closed = {} /\ now = 0 /\ edits = 0 /\ imports = 0 /\ faults = 0

Leased(e) == e.status = "running" /\ e.expires > now
EntryOf(q, w) == {e \in w.entries : e.id = q}
Step(q) == request[q].step
Set(q, record) == request' = [request EXCEPT ![q] = record]
Goto(q, step) == Set(q, [request[q] EXCEPT !.step = step])
End(q) == Set(q, Ended)
storage == <<revision, workspace, backup>>

-----------------------------------------------------------------------------
(* request and prepare.                                                    *)

Ask(q) ==
    /\ Step(q) = "idle"
    /\ Cardinality({r \in Requests : Process[r] = Process[q] /\ Step(r) \in Preparing})
         < MaxPreparing
    /\ \E f \in BOOLEAN : Set(q, [Idle EXCEPT !.step = "load", !.forced = f])
    /\ UNCHANGED <<storage, closed, now, counters>>

\* The asset as it is now becomes the input, if the service is open.
Load(q) ==
    /\ Step(q) = "load"
    /\ IF workspace.locator = Gone \/ Process[q] \in closed THEN End(q)
       ELSE Set(q, [request[q] EXCEPT !.step = "info", !.locator = workspace.locator])
    /\ UNCHANGED <<storage, closed, now, counters>>

\* mediaInfo, whose locator an asset must still name, and runner.info; then
\* the job gets its timestamps, and the lease runs from here.
LeaseOfRun == RunTime                                           \* mutant
Lease == RunTime + Slack

Prepare(q) ==
    /\ Step(q) = "info"
    /\ IF workspace.locator # request[q].locator THEN End(q)
       ELSE Set(q, [request[q] EXCEPT !.step = "claim", !.expires = now + Lease])
    /\ UNCHANGED <<storage, closed, now, counters>>

Job(q) ==
    [id |-> q, locator |-> request[q].locator, intent |-> Intent[q],
     forced |-> request[q].forced, status |-> "running", expires |-> request[q].expires]

MatchesLeased(q, e) == Leased(e) \/ (~request[q].forced /\ e.status = "complete") \* mutant
MayReuse(q, e) == Leased(e) \/ ~request[q].forced

\* An entry with the key of the request: the same input, intent, analyzer.
Reuses(q) ==
    \E e \in workspace.entries :
        e.locator = request[q].locator /\ e.intent = Intent[q] /\ MayReuse(q, e)

NeverBusy == Concurrency = 0                                    \* mutant
Busy == Cardinality({e \in workspace.entries : Leased(e)}) >= Concurrency

\* The operation of the claiming change, over the workspace it loaded.  A
\* closed service, a changed asset, an entry to reuse, a full history and
\* other work in progress each end the request without a write.
Claim(q) ==
    /\ Step(q) = "claim"
    /\ IF \/ Process[q] \in closed
          \/ workspace.locator # request[q].locator
          \/ Reuses(q)
          \/ Cardinality(workspace.entries) >= Limit
          \/ Busy
       THEN End(q)
       ELSE Set(q, [request[q] EXCEPT !.step = "commit", !.base = revision,
              !.seen = [workspace EXCEPT !.entries = @ \cup {Job(q)}]])
    /\ UNCHANGED <<storage, closed, now, counters>>

NeverConflicts(q) == request[q].base > revision                 \* mutant
Conflicts(q) == request[q].base # revision

Install(q) ==
    /\ ~Conflicts(q)
    /\ revision' = revision + 1
    /\ workspace' = request[q].seen
    /\ UNCHANGED backup

Unloaded(q) == [request[q] EXCEPT !.seen = Deleted, !.base = 0]

CommitClaim(q) ==
    /\ Step(q) = "commit" /\ Install(q)
    /\ Set(q, [Unloaded(q) EXCEPT !.step = "claimed", !.attempt = 0])
    /\ UNCHANGED <<closed, now, counters>>

\* A conflict loads again and evaluates the operation again.
Retry(q, step) ==
    IF request[q].attempt + 1 < Attempts
    THEN Set(q, [Unloaded(q) EXCEPT !.step = step, !.attempt = request[q].attempt + 1])
    ELSE End(q)

ClaimConflict(q) ==
    /\ Step(q) = "commit" /\ Conflicts(q)
    /\ Retry(q, "claim")
    /\ UNCHANGED <<storage, closed, now, counters>>

\* The commit's answer arrives: the job is registered and executed.
Register(q) ==
    /\ Step(q) = "claimed"
    /\ Goto(q, "check")
    /\ UNCHANGED <<storage, closed, now, counters>>

-----------------------------------------------------------------------------
(* execute.                                                                *)

\* Its own entry, as get shows it: running, leased and not stale.
Wanted(q) ==
    /\ \E e \in EntryOf(q, workspace) : Leased(e)
    /\ workspace.locator = request[q].locator

Check(q) ==
    /\ Step(q) = "check"
    /\ IF Wanted(q) /\ ~request[q].aborted
       THEN Set(q, [request[q] EXCEPT !.step = "run", !.since = now])
       ELSE Set(q, [request[q] EXCEPT !.step = "settle", !.outcome = "cancelled"])
    /\ UNCHANGED <<storage, closed, now, counters>>

\* The interval check, about once a second.
Poll(q) ==
    /\ Step(q) = "run" /\ ~Wanted(q) /\ ~request[q].aborted
    /\ Set(q, [request[q] EXCEPT !.aborted = TRUE])
    /\ UNCHANGED <<storage, closed, now, counters>>

Analyze(q, outcome) ==
    /\ Step(q) = "run"
    /\ Set(q, [request[q] EXCEPT !.step = "settle", !.since = 0,
                 !.outcome = IF request[q].aborted THEN "cancelled" ELSE outcome])
    /\ UNCHANGED <<storage, closed, now, counters>>

Unsettled(q) == {e \in EntryOf(q, workspace) : Leased(e)}

WhateverAsset(q) == request[q].outcome                          \* mutant
Outcome(q) ==
    IF workspace.locator = request[q].locator THEN request[q].outcome ELSE "failed"

\* The operation of the final change: an entry that is gone, settled or
\* expired is left alone; a result for another asset is a failure.
Settle(q) ==
    /\ Step(q) = "settle"
    /\ IF Unsettled(q) = {} THEN End(q)
       ELSE \E e \in Unsettled(q) :
              Set(q, [request[q] EXCEPT !.step = "save", !.base = revision,
                !.seen = [workspace EXCEPT
                  !.entries = (@ \ {e}) \cup {[e EXCEPT !.status = Outcome(q)]}]])
    /\ UNCHANGED <<storage, closed, now, counters>>

Save(q) ==
    /\ Step(q) = "save" /\ Install(q)
    /\ End(q)
    /\ UNCHANGED <<closed, now, counters>>

SaveConflict(q) ==
    /\ Step(q) = "save" /\ Conflicts(q)
    /\ Retry(q, "settle")
    /\ UNCHANGED <<storage, closed, now, counters>>

-----------------------------------------------------------------------------
(* Failures.                                                               *)

Fault == faults < MaxFaults /\ faults' = faults + 1

\* A call of the store or of the analyzer fails: a request is refused, a
\* final write is given up, a run is a failed one.
Fail(q) ==
    /\ Step(q) \in {"load", "info", "claim", "commit", "settle", "save"}
    /\ End(q) /\ Fault
    /\ UNCHANGED <<storage, closed, now, edits, imports>>

\* A commit took effect and its answer was lost.
Unacknowledged(q) ==
    /\ Step(q) \in {"commit", "save"} /\ Install(q)
    /\ End(q) /\ Fault
    /\ UNCHANGED <<closed, now, edits, imports>>

\* The process dies: its requests and runs with it.  It is not restarted.
Crash(p) ==
    /\ p \notin closed
    /\ closed' = closed \cup {p}
    /\ request' = [q \in Requests |-> IF Process[q] = p THEN Ended ELSE request[q]]
    /\ Fault
    /\ UNCHANGED <<storage, now, edits, imports>>

\* close aborts the registered jobs.
Close(p) ==
    /\ p \notin closed
    /\ closed' = closed \cup {p}
    /\ request' = [q \in Requests |->
         IF Process[q] = p /\ Step(q) \in Registered
         THEN [request[q] EXCEPT !.aborted = TRUE] ELSE request[q]]
    /\ UNCHANGED <<storage, now, counters>>

-----------------------------------------------------------------------------
(* The users and the clock.                                                *)

Edit(new) ==
    /\ edits < MaxEdits
    /\ edits' = edits + 1
    /\ revision' = revision + 1
    /\ workspace' = new
    /\ UNCHANGED <<closed, now, faults>>

\* cancel, called in process p: a commit, then the local job is aborted.  An
\* entry may expire between the two halves of the change.
Cancel(q, p) ==
    /\ p \notin closed
    /\ \E e \in EntryOf(q, workspace) :
         /\ e.status = "running"
         /\ Edit([workspace EXCEPT !.entries = (@ \ {e}) \cup {[e EXCEPT !.status = "cancelled"]}])
    /\ IF p = Process[q] /\ Step(q) \in Registered
       THEN Set(q, [request[q] EXCEPT !.aborted = TRUE])
       ELSE UNCHANGED request
    /\ UNCHANGED <<backup, imports>>

ReplaceAsset(l) ==
    /\ workspace.locator \notin {Gone, l}
    /\ Edit([workspace EXCEPT !.locator = l])
    /\ UNCHANGED <<backup, request, imports>>

DeleteReference ==
    /\ workspace.locator # Gone
    /\ Edit(Deleted)
    /\ UNCHANGED <<backup, request, imports>>

ExportBackup ==
    /\ imports < MaxImports
    /\ backup' = workspace
    /\ UNCHANGED <<revision, workspace, request, closed, now, counters>>

\* interruptRestoredAnalyses.
Interrupted(w) ==
    [w EXCEPT !.entries =
       {[e EXCEPT !.status = IF @ = "running" THEN "failed" ELSE @] : e \in w.entries}]

ImportBackup ==
    /\ imports < MaxImports
    /\ imports' = imports + 1
    /\ Edit(Interrupted(backup))
    /\ UNCHANGED <<backup, request>>

\* runBridge kills the analyzer when RunTime has passed.
RunsInTime(q) == Step(q) = "run" => now < request[q].since + RunTime

Tick ==
    /\ now < MaxTime
    /\ \A q \in Requests :
         /\ RunsInTime(q)
         /\ Step(q) \in {"claim", "commit", "claimed", "check"}
              => now < (request[q].expires - Lease) + StoreBound
    /\ now' = now + 1
    /\ UNCHANGED <<storage, request, closed, counters>>

-----------------------------------------------------------------------------

Advance(q) ==
    \/ Load(q) \/ Prepare(q) \/ Claim(q) \/ CommitClaim(q) \/ ClaimConflict(q)
    \/ Register(q) \/ Check(q)
    \/ \E o \in {"complete", "failed"} : Analyze(q, o)
    \/ Settle(q) \/ Save(q) \/ SaveConflict(q)

RequestNext(q) == Ask(q) \/ Advance(q) \/ Poll(q) \/ Fail(q) \/ Unacknowledged(q)

UserNext ==
    \/ \E q \in Requests, p \in Processes : Cancel(q, p)
    \/ \E l \in Locators : ReplaceAsset(l)
    \/ DeleteReference \/ ExportBackup \/ ImportBackup

Next ==
    \/ \E q \in Requests : RequestNext(q)
    \/ \E p \in Processes : Close(p) \/ Crash(p)
    \/ UserNext
    \/ Tick

Spec == Init /\ [][Next]_vars

-----------------------------------------------------------------------------
(* Properties.                                                             *)

RequestRecords ==
    [step : {"idle", "over"} \cup Preparing \cup Registered,
     locator : Locators \cup {Gone}, forced : BOOLEAN, expires : Nat,
     attempt : 0..(Attempts - 1), base : Nat, seen : Workspaces, since : Nat,
     outcome : {"running"} \cup Settled, aborted : BOOLEAN]

TypeOK ==
    /\ revision \in Nat /\ workspace \in Workspaces /\ backup \in Workspaces
    /\ request \in [Requests -> RequestRecords]
    /\ closed \in SUBSET Processes
    /\ now \in Nat /\ edits \in Nat /\ imports \in Nat /\ faults \in Nat

\* There is no more leased work in the workspace than its concurrency, which
\* processes cannot but claim through the workspace itself.
CapacityRespected ==
    TypeOK /\ Cardinality({e \in workspace.entries : Leased(e)}) <= Concurrency

\* A run never outlives its lease: while an analyzer works for an entry that
\* is still running, nobody else can take that entry for an interrupted one
\* and claim its capacity.
LeaseCoversRun ==
    \A q \in Requests : Step(q) = "run" =>
        \A e \in EntryOf(q, workspace) : e.status = "running" => Leased(e)

\* The assumption under which the lease suffices.
SlackCoversStore == StoreBound < Slack

\* What was settled stays as it is, and only an entry that is running then
\* becomes complete, for the asset it was made from: a late completion
\* neither undoes a cancellation, a deletion or a restore nor overwrites a
\* result.  (A restore itself replaces every entry.)
LateCompletionInert ==
    [][imports' = imports =>
         \A e \in workspace'.entries \ workspace.entries :
            /\ e.status # "running" =>
                 \E d \in workspace.entries : d.id = e.id /\ d.status = "running"
            /\ e.status = "complete" => e.locator = workspace.locator]_vars

\* Requests with one key share an entry, in whichever processes and at
\* whatever times they are made, unless one was forced.
ClaimedOnce ==
    \A d, e \in workspace.entries :
        d.locator = e.locator /\ d.intent = e.intent /\ d # e => d.forced \/ e.forced

=============================================================================
