------------------------- MODULE AnalysisServiceProofs -------------------------
(***************************************************************************)
(* Proofs about AnalysisService, for any number of processes, requests,    *)
(* restores, crashes and lost answers: the leased work of the workspace    *)
(* stays within its concurrency, requests with one key share an entry, a   *)
(* run does not outlive its lease, and late results change nothing.        *)
(***************************************************************************)
EXTENDS AnalysisService, FiniteSetTheorems, TLAPS

LeasedIn(w) == {e \in w.entries : Leased(e)}

\* The leased work of a workspace is finite and within the concurrency.
Small(w) == IsFiniteSet(LeasedIn(w)) /\ Cardinality(LeasedIn(w)) <= Concurrency

\* Two entries with one key: one was forced.
Keyed(w) ==
    \A d, e \in w.entries :
        d.locator = e.locator /\ d.intent = e.intent /\ d # e => d.forced \/ e.forced

\* What a commit of w over v may do to entries (LateCompletionInert).
Follows(v, w) ==
    \A e \in w.entries \ v.entries :
        /\ e.status # "running" => \E d \in v.entries : d.id = e.id /\ d.status = "running"
        /\ e.status = "complete" => e.locator = v.locator

Claimed == {"claimed"} \cup Registered
Writing == {"commit", "save"}
Match(e, r) == e.locator = r.locator /\ e.expires = r.expires

\* An entry was made by a request that has claimed since, and while that
\* request is not over the entry has its locator and its lease.
Traced(e) ==
    /\ Step(e.id) \in Claimed \cup {"over"}
    /\ Step(e.id) # "over" => Match(e, request[e.id])

OwnClaim(q, r, e) == e.id = q /\ r.step = "commit" /\ Match(e, r)

\* A request knows its asset from "info" on, its lease bounds the time until
\* it runs and the run itself, and what it settles is settled.
RecordOK(r) ==
    /\ r \in RequestRecords
    /\ r.step \in {"info", "claim", "commit"} \cup Claimed => r.locator # Gone
    /\ r.step \in {"claim", "commit", "claimed", "check"} =>
         now + Lease <= r.expires + StoreBound
    /\ r.step = "run" =>
         /\ now <= r.since + RunTime
         /\ r.since + Lease <= r.expires + StoreBound
    /\ r.step \in {"settle", "save"} => r.outcome \in Settled
    /\ Keyed(r.seen)

\* What a request is about to install, if nobody wrote since it was loaded.
PendingOK(r) ==
    r.step \in Writing =>
        /\ r.base <= revision
        /\ r.base = revision => Small(r.seen) /\ Follows(workspace, r.seen)

SeenOK(q, r) == \A e \in r.seen.entries : Traced(e) \/ OwnClaim(q, r, e)

StoreOK ==
    /\ revision \in Nat /\ workspace \in Workspaces /\ backup \in Workspaces
    /\ Small(workspace) /\ Keyed(workspace) /\ Keyed(backup)
    /\ \A e \in workspace.entries \cup backup.entries : Traced(e)

Core ==
    /\ request \in [Requests -> RequestRecords]
    /\ now \in Nat
    /\ \A q \in Requests :
         RecordOK(request[q]) /\ PendingOK(request[q]) /\ SeenOK(q, request[q])
    /\ StoreOK

Counts ==
    /\ closed \in SUBSET Processes
    /\ edits \in Nat /\ imports \in Nat /\ faults \in Nat

Inv == Core /\ Counts

-----------------------------------------------------------------------------
(* Leased work is counted.                                                 *)

\* Fewer leased entries are still within the concurrency.
LEMMA FewerLeased ==
    ASSUME NEW v, NEW w, Small(v), LeasedIn(w) \subseteq LeasedIn(v)
    PROVE  Small(w)
<1> HIDE DEF LeasedIn
<1>1. IsFiniteSet(LeasedIn(w)) /\ Cardinality(LeasedIn(w)) <= Cardinality(LeasedIn(v))
  BY FS_Subset DEF Small
<1>2. Cardinality(LeasedIn(w)) \in Nat /\ Cardinality(LeasedIn(v)) \in Nat /\ Concurrency \in Nat
  BY <1>1, FS_CardinalityType, ConstantsAssumption DEF Small
<1> QED
  BY <1>1, <1>2 DEF Small

\* One more entry when the workspace is not busy.
LEMMA OneMoreLeased ==
    ASSUME NEW w, NEW j, Small(workspace), ~Busy, w.entries = workspace.entries \cup {j}
    PROVE  Small(w)
<1>1. /\ IsFiniteSet(LeasedIn(workspace))
      /\ Cardinality(LeasedIn(workspace)) \in Nat /\ Concurrency \in Nat
      /\ Cardinality(LeasedIn(workspace)) < Concurrency
  <2>1. IsFiniteSet(LeasedIn(workspace))
    BY DEF Small
  <2>2. Cardinality(LeasedIn(workspace)) \in Nat /\ Concurrency \in Nat
    BY <2>1, FS_CardinalityType, ConstantsAssumption
  <2>3. ~(Cardinality(LeasedIn(workspace)) >= Concurrency)
    BY DEF Busy, LeasedIn
  <2> QED
    BY <2>1, <2>2, <2>3
<1>2. LeasedIn(w) \subseteq LeasedIn(workspace) \cup {j}
  BY DEF LeasedIn
<1> DEFINE more == LeasedIn(workspace) \cup {j}
<1>3. IsFiniteSet(more) /\ Cardinality(more) <= Cardinality(LeasedIn(workspace)) + 1
  <2> HIDE DEF LeasedIn
  <2> QED
    BY <1>1, FS_AddElement
<1>4. IsFiniteSet(LeasedIn(w)) /\ Cardinality(LeasedIn(w)) <= Cardinality(more)
  <2> HIDE DEF LeasedIn, more
  <2> QED
    BY <1>2, <1>3, FS_Subset DEF more
<1>5. Cardinality(LeasedIn(w)) \in Nat /\ Cardinality(more) \in Nat
  BY <1>3, <1>4, FS_CardinalityType
<1> QED
  BY <1>1, <1>3, <1>4, <1>5 DEF Small

LEMMA NothingLeased ==
    ASSUME NEW w, LeasedIn(w) = {}
    PROVE  Small(w)
  BY FS_EmptySet, ConstantsAssumption DEF Small

-----------------------------------------------------------------------------
(* Where entries come from.                                                *)

\* A request that has claimed stays so, with its locator and its lease.
Evolves(r, s) ==
    r.step \in Claimed \cup {"over"} =>
        /\ s.step \in Claimed \cup {"over"}
        /\ s.step # "over" => r.step # "over" /\ s.locator = r.locator /\ s.expires = r.expires

LEMMA TracedKept ==
    ASSUME \A p \in Requests : Evolves(request[p], request'[p]),
           NEW e \in Entries, Traced(e)
    PROVE  Traced(e)'
<1>1. e.id \in Requests
  BY DEF Entries
<1> QED
  BY <1>1 DEF Traced, Evolves, Match, Step

LEMMA EntriesTyped ==
    ASSUME NEW w \in Workspaces, NEW e \in w.entries
    PROVE  e \in Entries
  BY DEF Workspaces

-----------------------------------------------------------------------------
(* The three kinds of step.                                                *)

\* One request moves; the store stays.
LEMMA RequestMoves ==
    ASSUME Core, NEW q \in Requests, NEW r, RecordOK(r), PendingOK(r),
           Evolves(request[q], r), SeenOK(q, r),
           Set(q, r), UNCHANGED <<storage, now>>
    PROVE  Core'
<1> USE DEF Core
<1>0. r \in RequestRecords
  BY DEF RecordOK
<1>1. /\ request' \in [Requests -> RequestRecords] /\ request'[q] = r
      /\ \A p \in Requests \ {q} : request'[p] = request[p]
  BY <1>0 DEF Set
<1>2. revision' = revision /\ workspace' = workspace /\ backup' = backup /\ now' = now
  BY DEF storage
<1>3. \A p \in Requests : Evolves(request[p], request'[p])
  BY <1>1 DEF Evolves
<1>4. \A e \in Entries : Traced(e) => Traced(e)'
  BY <1>3, TracedKept
<1>5. StoreOK'
  <2>1. \A e \in workspace.entries \cup backup.entries : e \in Entries
    BY EntriesTyped DEF StoreOK
  <2> QED
    BY <1>2, <1>4, <2>1 DEF StoreOK, Small, LeasedIn, Leased, Keyed
<1>6. ASSUME NEW p \in Requests
      PROVE  (RecordOK(request[p]) /\ PendingOK(request[p]) /\ SeenOK(p, request[p]))'
  <2>1. RecordOK(request'[p]) /\ PendingOK(request'[p]) /\ SeenOK(p, request'[p])
    BY <1>1
  <2>2. RecordOK(request[p])' /\ PendingOK(request[p])'
    BY <2>1, <1>2 DEF RecordOK, PendingOK, Small, LeasedIn, Leased, Follows
  <2>3. request'[p].seen \in Workspaces
    BY <1>1 DEF RequestRecords
  <2>4. SeenOK(p, request[p])'
    BY <2>1, <2>3, <1>4, EntriesTyped DEF SeenOK, OwnClaim
  <2> QED
    BY <2>2, <2>4
<1> QED
  BY <1>1, <1>2, <1>5, <1>6

\* A record that keeps what it holds of a workspace, or holds nothing.
Holds(r, s) ==
    \/ /\ s.step = r.step /\ s.base = r.base /\ s.seen = r.seen
       /\ s.locator = r.locator /\ s.expires = r.expires
    \/ s.step \notin Writing /\ s.seen = Deleted

\* The store is written, or it stays and the requests of a process change.
LEMMA StoreMoves ==
    ASSUME Core, request' \in [Requests -> RequestRecords], now' = now,
           \A p \in Requests : /\ RecordOK(request'[p]) /\ Evolves(request[p], request'[p])
                               /\ Holds(request[p], request'[p]),
           \/ UNCHANGED <<revision, workspace>>
           \/ /\ revision' = revision + 1 /\ workspace' \in Workspaces
              /\ Small(workspace') /\ Keyed(workspace')
              /\ \A e \in workspace'.entries : Traced(e)',
           backup' \in {backup, workspace}
    PROVE  Core'
<1>1. \A e \in Entries : Traced(e) => Traced(e)'
  BY TracedKept
<1>2. \A e \in workspace.entries \cup backup.entries : e \in Entries /\ Traced(e)'
  BY <1>1, EntriesTyped DEF Core, StoreOK
<1>3. StoreOK'
  <2>1. revision' \in Nat /\ workspace' \in Workspaces /\ backup' \in Workspaces
    BY DEF Core, StoreOK
  <2>2. Small(workspace)'
    BY DEF Core, StoreOK, Small, LeasedIn, Leased
  <2>3. Keyed(workspace)' /\ Keyed(backup)'
    BY DEF Core, StoreOK, Keyed
  <2>4. \A e \in workspace'.entries \cup backup'.entries : Traced(e)'
    BY <1>2
  <2> QED
    BY <2>1, <2>2, <2>3, <2>4 DEF StoreOK
<1>4. ASSUME NEW p \in Requests
      PROVE  (RecordOK(request[p]) /\ PendingOK(request[p]) /\ SeenOK(p, request[p]))'
  <2>1. RecordOK(request[p])'
    BY DEF RecordOK
  <2>2. PendingOK(request[p])'
    <3>1. CASE request'[p].step \notin Writing
      BY <3>1 DEF PendingOK
    <3>2. CASE request'[p].step \in Writing
      <4>1. /\ request'[p].step = request[p].step /\ request'[p].base = request[p].base
            /\ request'[p].seen = request[p].seen
        BY <3>2 DEF Holds
      <4>2. PendingOK(request[p]) /\ request[p].base \in Nat /\ revision \in Nat
        BY DEF Core, StoreOK, RequestRecords
      <4>3. request[p].base <= revision
        BY <4>1, <4>2, <3>2 DEF PendingOK
      <4>4. CASE UNCHANGED <<revision, workspace>>
        BY <4>1, <4>2, <4>4, <3>2 DEF PendingOK, Small, LeasedIn, Leased, Follows
      <4>5. CASE revision' = revision + 1
        BY <4>1, <4>2, <4>3, <4>5 DEF PendingOK
      <4> QED
        BY <4>4, <4>5
    <3> QED
      BY <3>1, <3>2
  <2>3. SeenOK(p, request[p])'
    <3>1. CASE request'[p].seen = Deleted
      BY <3>1 DEF SeenOK, Deleted
    <3>2. CASE /\ request'[p].step = request[p].step /\ request'[p].seen = request[p].seen
               /\ request'[p].locator = request[p].locator
               /\ request'[p].expires = request[p].expires
      <4>1. request[p].seen \in Workspaces /\ SeenOK(p, request[p])
        BY DEF Core, RequestRecords
      <4> QED
        BY <3>2, <4>1, <1>1, EntriesTyped DEF SeenOK, OwnClaim, Match
    <3> QED
      BY <3>1, <3>2 DEF Holds
  <2> QED
    BY <2>1, <2>2, <2>3
<1> QED
  BY <1>3, <1>4 DEF Core

-----------------------------------------------------------------------------
(* The steps of a request.                                                 *)

LEMMA DeletedOK ==
    /\ Deleted \in Workspaces /\ Keyed(Deleted) /\ Deleted.entries = {}
    /\ Idle \in RequestRecords /\ Idle.seen = Deleted
    /\ Ended \in RequestRecords /\ Ended.step = "over" /\ Ended.seen = Deleted
<1>1. Deleted \in Workspaces /\ Deleted.entries = {}
  BY DEF Deleted, Workspaces
<1>2. Keyed(Deleted)
  BY <1>1 DEF Keyed
<1>3. 0 \in 0..(Attempts - 1)
  BY ConstantsAssumption
<1>4. Idle \in RequestRecords /\ Idle.seen = Deleted
  <2> HIDE DEF Deleted
  <2> QED
    BY <1>1, <1>3 DEF Idle, RequestRecords
<1>5. Ended \in RequestRecords /\ Ended.step = "over" /\ Ended.seen = Deleted
  BY <1>4 DEF Ended, RequestRecords
<1> QED
  BY <1>1, <1>2, <1>4, <1>5

LEMMA EndedOK ==
    /\ RecordOK(Ended) /\ PendingOK(Ended)
    /\ \A q : SeenOK(q, Ended)
    /\ \A r : Evolves(r, Ended)
  BY DeletedOK DEF RecordOK, PendingOK, SeenOK, Evolves, Writing, Claimed, Registered

LEMMA Ends ==
    ASSUME Core, NEW q \in Requests, End(q), UNCHANGED <<storage, now>>
    PROVE  Core'
  BY RequestMoves, EndedOK DEF End

LEMMA RecordFacts ==
    ASSUME Core, NEW q \in Requests
    PROVE  /\ request[q] \in RequestRecords /\ RecordOK(request[q])
           /\ PendingOK(request[q]) /\ SeenOK(q, request[q])
  BY DEF Core

LEMMA AskKeeps ==
    ASSUME Core, NEW q \in Requests, Ask(q)
    PROVE  Core'
<1>1. PICK f \in BOOLEAN : Set(q, [Idle EXCEPT !.step = "load", !.forced = f])
  BY DEF Ask
<1> DEFINE r == [Idle EXCEPT !.step = "load", !.forced = f]
<1>2. r \in RequestRecords /\ r.step = "load" /\ r.seen = Deleted
  BY DeletedOK DEF RequestRecords, Preparing
<1> HIDE DEF r
<1>3. RecordOK(r) /\ PendingOK(r) /\ SeenOK(q, r)
  BY <1>2, DeletedOK DEF RecordOK, PendingOK, SeenOK, Writing, Claimed, Registered
<1>4. Evolves(request[q], r)
  BY DEF Evolves, Ask, Step, Claimed, Registered
<1> QED
  BY <1>1, <1>3, <1>4, RequestMoves DEF r, Ask

LEMMA LoadKeeps ==
    ASSUME Core, NEW q \in Requests, Load(q)
    PROVE  Core'
<1> DEFINE r == [request[q] EXCEPT !.step = "info", !.locator = workspace.locator]
<1>1. CASE End(q)
  BY <1>1, Ends DEF Load
<1>2. CASE workspace.locator # Gone /\ Set(q, r)
  <2>1. workspace.locator \in Locators \cup {Gone} /\ request[q] \in RequestRecords
    BY RecordFacts DEF Core, StoreOK, Workspaces
  <2>2. /\ r \in RequestRecords /\ r.step = "info" /\ r.seen = request[q].seen
        /\ r.locator = workspace.locator
    BY <2>1 DEF RequestRecords, Preparing
  <2> HIDE DEF r
  <2>3. RecordOK(r) /\ PendingOK(r) /\ SeenOK(q, r)
    BY <1>2, <2>2, RecordFacts
       DEF RecordOK, PendingOK, SeenOK, OwnClaim, Writing, Claimed, Registered, Load, Step
  <2>4. Evolves(request[q], r)
    BY DEF Evolves, Load, Step, Claimed, Registered
  <2> QED
    BY <1>2, <2>3, <2>4, RequestMoves DEF Load
<1> QED
  BY <1>1, <1>2 DEF Load

LEMMA LeaseNat == Lease \in Nat /\ StoreBound \in Nat /\ RunTime \in Nat /\ Slack \in Nat
  BY ConstantsAssumption DEF Lease

LEMMA PrepareKeeps ==
    ASSUME Core, NEW q \in Requests, Prepare(q)
    PROVE  Core'
<1> DEFINE r == [request[q] EXCEPT !.step = "claim", !.expires = now + Lease]
<1>1. CASE End(q)
  BY <1>1, Ends DEF Prepare
<1>2. CASE Set(q, r)
  <2>1. request[q] \in RequestRecords /\ now \in Nat /\ now + Lease \in Nat
    BY RecordFacts, LeaseNat DEF Core
  <2>2. /\ r \in RequestRecords /\ r.step = "claim" /\ r.seen = request[q].seen
        /\ r.locator = request[q].locator /\ r.expires = now + Lease
    BY <2>1 DEF RequestRecords, Preparing
  <2> HIDE DEF r
  <2>3. RecordOK(r) /\ PendingOK(r) /\ SeenOK(q, r)
    BY <2>1, <2>2, LeaseNat, RecordFacts
       DEF RecordOK, PendingOK, SeenOK, OwnClaim, Writing, Claimed, Registered, Prepare, Step
  <2>4. Evolves(request[q], r)
    BY DEF Evolves, Prepare, Step, Claimed, Registered
  <2> QED
    BY <1>2, <2>3, <2>4, RequestMoves DEF Prepare
<1> QED
  BY <1>1, <1>2 DEF Prepare

\* The claim adds an entry whose key no entry has that it may not add to.
LEMMA ClaimKeeps ==
    ASSUME Core, NEW q \in Requests, Claim(q)
    PROVE  Core'
<1> DEFINE w == [workspace EXCEPT !.entries = @ \cup {Job(q)}]
           r == [request[q] EXCEPT !.step = "commit", !.base = revision, !.seen = w]
<1>1. CASE End(q)
  BY <1>1, Ends DEF Claim
<1>2. CASE ~Reuses(q) /\ ~Busy /\ Set(q, r)
  <2>1. request[q] \in RequestRecords /\ RecordOK(request[q]) /\ Step(q) = "claim"
    BY RecordFacts DEF Claim
  <2>2. request[q].locator \in Locators
    BY <2>1 DEF RecordOK, RequestRecords, Step
  <2>3. Job(q) \in Entries
    BY <2>1, <2>2, ConstantsAssumption DEF Job, Entries, RequestRecords
  <2>4. /\ w \in Workspaces /\ w.locator = workspace.locator
        /\ w.entries = workspace.entries \cup {Job(q)}
    BY <2>3 DEF Core, StoreOK, Workspaces
  <2>5. /\ Job(q).status = "running" /\ Job(q).id = q /\ Job(q).intent = Intent[q]
        /\ Job(q).locator = request[q].locator /\ Job(q).expires = request[q].expires
        /\ Job(q).forced = request[q].forced
    BY DEF Job
  <2> HIDE DEF w
  <2>6. Keyed(w)
    <3>1. ASSUME NEW e \in workspace.entries, e.locator = Job(q).locator, e.intent = Job(q).intent
          PROVE  Job(q).forced
      BY <3>1, <2>5, <1>2 DEF Reuses, MayReuse
    <3>2. Keyed(workspace)
      BY DEF Core, StoreOK
    <3> QED
      BY <2>4, <3>1, <3>2 DEF Keyed
  <2>7. Small(w)
    BY <2>4, <1>2, OneMoreLeased DEF Core, StoreOK
  <2>8. Follows(workspace, w)
    BY <2>4, <2>5 DEF Follows
  <2>9. /\ r \in RequestRecords /\ r.step = "commit" /\ r.base = revision /\ r.seen = w
        /\ r.locator = request[q].locator /\ r.expires = request[q].expires
    BY <2>1, <2>4 DEF RequestRecords, Preparing, Core, StoreOK
  <2> HIDE DEF r
  <2>10. RecordOK(r)
    BY <2>1, <2>6, <2>9 DEF RecordOK, Claimed, Registered, Step
  <2>11. PendingOK(r)
    BY <2>7, <2>8, <2>9 DEF PendingOK, Core, StoreOK
  <2>12. SeenOK(q, r)
    BY <2>4, <2>5, <2>9 DEF SeenOK, OwnClaim, Match, Core, StoreOK
  <2>13. Evolves(request[q], r)
    BY <2>1 DEF Evolves, Step, Claimed, Registered
  <2> QED
    BY <1>2, <2>10, <2>11, <2>12, <2>13, RequestMoves DEF Claim
<1> QED
  BY <1>1, <1>2 DEF Claim

\* What a request installs is what it loaded with its own change, because
\* nobody wrote in between.
LEMMA InstallWrites ==
    ASSUME Core, NEW q \in Requests, Step(q) \in Writing, Install(q),
           NEW r, RecordOK(r), r.step \notin Writing, r.seen = Deleted,
           r.step \in Claimed \cup {"over"},
           r.step # "over" => r.locator = request[q].locator /\ r.expires = request[q].expires,
           Step(q) # "over", Set(q, r), now' = now
    PROVE  Core' /\ Follows(workspace, workspace')
<1>1. /\ request[q] \in RequestRecords /\ RecordOK(request[q])
      /\ PendingOK(request[q]) /\ SeenOK(q, request[q])
  BY RecordFacts
<1>2. Small(request[q].seen) /\ Follows(workspace, request[q].seen)
  BY <1>1 DEF Install, Conflicts, PendingOK, Step
<1>3. Keyed(request[q].seen) /\ request[q].seen \in Workspaces
  BY <1>1 DEF RecordOK, RequestRecords
<1>4. /\ request' \in [Requests -> RequestRecords] /\ request'[q] = r
      /\ \A p \in Requests \ {q} : request'[p] = request[p]
  BY DEF Set, RecordOK, Core
<1>5. \A p \in Requests : /\ RecordOK(request'[p]) /\ Evolves(request[p], request'[p])
                          /\ Holds(request[p], request'[p])
  <2>1. Evolves(request[q], r) /\ Holds(request[q], r)
    BY DEF Evolves, Holds, Step
  <2>2. \A p \in Requests : RecordOK(request[p]) /\ Evolves(request[p], request[p])
    BY DEF Core, Evolves
  <2> QED
    BY <1>4, <2>1, <2>2 DEF Holds
<1>6. \A e \in Entries : Traced(e) => Traced(e)'
  BY <1>5, TracedKept
<1>7. \A e \in request[q].seen.entries : Traced(e)'
  <2> SUFFICES ASSUME NEW e \in request[q].seen.entries PROVE Traced(e)'
    OBVIOUS
  <2>1. e \in Entries
    BY <1>3, EntriesTyped
  <2>2. CASE OwnClaim(q, request[q], e)
    BY <2>2, <1>4 DEF OwnClaim, Traced, Match, Step
  <2> QED
    BY <2>1, <2>2, <1>1, <1>6 DEF SeenOK
<1>8. revision' = revision + 1 /\ workspace' = request[q].seen /\ backup' = backup
  BY DEF Install
<1> QED
  BY <1>2, <1>3, <1>4, <1>5, <1>7, <1>8, StoreMoves

LEMMA CommitClaimKeeps ==
    ASSUME Core, NEW q \in Requests, CommitClaim(q)
    PROVE  Core' /\ Follows(workspace, workspace')
<1> DEFINE r == [Unloaded(q) EXCEPT !.step = "claimed", !.attempt = 0]
<1>1. request[q] \in RequestRecords /\ RecordOK(request[q]) /\ Step(q) = "commit"
  BY RecordFacts DEF CommitClaim
<1>2. /\ r \in RequestRecords /\ r.step = "claimed" /\ r.seen = Deleted
      /\ r.locator = request[q].locator /\ r.expires = request[q].expires
  <2>1. 0 \in 0..(Attempts - 1)
    BY ConstantsAssumption
  <2> QED
    BY <1>1, <2>1, DeletedOK DEF Unloaded, RequestRecords, Preparing
<1> HIDE DEF r
<1>3. RecordOK(r)
  BY <1>1, <1>2, DeletedOK DEF RecordOK, Claimed, Registered, Step
<1>4. Set(q, r) /\ Install(q) /\ now' = now
  BY DEF r, CommitClaim
<1> QED
  BY <1>1, <1>2, <1>3, <1>4, InstallWrites DEF Writing, Claimed, Registered

LEMMA OverWrites ==
    ASSUME Core, NEW q \in Requests, Step(q) \in Writing, Install(q), End(q), now' = now
    PROVE  Core' /\ Follows(workspace, workspace')
  BY EndedOK, DeletedOK, InstallWrites DEF End, Writing, Claimed, Registered

LEMMA RetryKeeps ==
    ASSUME Core, NEW q \in Requests, NEW s \in {"claim", "settle"}, Retry(q, s),
           s = "claim" => Step(q) = "commit",
           s = "settle" => Step(q) = "save" /\ request[q].outcome \in Settled,
           UNCHANGED <<storage, now>>
    PROVE  Core'
<1> DEFINE r == [Unloaded(q) EXCEPT !.step = s, !.attempt = request[q].attempt + 1]
<1>1. CASE End(q)
  BY <1>1, Ends
<1>2. CASE request[q].attempt + 1 < Attempts /\ Set(q, r)
  <2>1. request[q] \in RequestRecords /\ RecordOK(request[q])
    BY RecordFacts
  <2>2. /\ r \in RequestRecords /\ r.step = s /\ r.seen = Deleted
        /\ r.locator = request[q].locator /\ r.expires = request[q].expires
        /\ r.outcome = request[q].outcome
    <3>1. request[q].attempt + 1 \in 0..(Attempts - 1)
      BY <2>1, <1>2, ConstantsAssumption DEF RequestRecords
    <3> QED
      BY <2>1, <3>1, DeletedOK DEF Unloaded, RequestRecords, Preparing, Registered
  <2> HIDE DEF r
  <2>3. RecordOK(r)
    BY <2>1, <2>2, DeletedOK DEF RecordOK, Claimed, Registered, Step
  <2>4. PendingOK(r) /\ SeenOK(q, r)
    BY <2>2, DeletedOK DEF PendingOK, SeenOK, Writing
  <2>5. Evolves(request[q], r)
    BY <2>2 DEF Evolves, Claimed, Registered, Step
  <2> QED
    BY <1>2, <2>3, <2>4, <2>5, RequestMoves
<1> QED
  BY <1>1, <1>2 DEF Retry


LEMMA RegisterKeeps ==
    ASSUME Core, NEW q \in Requests, Register(q)
    PROVE  Core'
<1> DEFINE r == [request[q] EXCEPT !.step = "check"]
<1>1. request[q] \in RequestRecords /\ RecordOK(request[q]) /\ Step(q) = "claimed"
  BY RecordFacts DEF Register
<1>2. /\ r \in RequestRecords /\ r.step = "check" /\ r.seen = request[q].seen
      /\ r.locator = request[q].locator /\ r.expires = request[q].expires
  BY <1>1 DEF RequestRecords, Registered
<1>3. Set(q, r) /\ UNCHANGED <<storage, now>>
  BY DEF Register, Goto
<1> HIDE DEF r
<1>4. RecordOK(r)
  BY <1>1, <1>2 DEF RecordOK, Claimed, Registered, Step
<1>5. PendingOK(r) /\ SeenOK(q, r)
  BY <1>1, <1>2, RecordFacts DEF PendingOK, SeenOK, OwnClaim, Writing, Step
<1>6. Evolves(request[q], r)
  BY <1>2, <1>1 DEF Evolves, Claimed, Registered, Step
<1> QED
  BY <1>3, <1>4, <1>5, <1>6, RequestMoves

\* The run starts while the lease covers it.
LEMMA CheckKeeps ==
    ASSUME Core, NEW q \in Requests, Check(q)
    PROVE  Core'
<1> DEFINE go == [request[q] EXCEPT !.step = "run", !.since = now]
           stop == [request[q] EXCEPT !.step = "settle", !.outcome = "cancelled"]
<1>1. /\ request[q] \in RequestRecords /\ RecordOK(request[q]) /\ Step(q) = "check"
      /\ SeenOK(q, request[q]) /\ now \in Nat
  BY RecordFacts DEF Check, Core
<1>2. /\ go \in RequestRecords /\ go.step = "run" /\ go.seen = request[q].seen
      /\ go.locator = request[q].locator /\ go.expires = request[q].expires /\ go.since = now
  BY <1>1 DEF RequestRecords, Registered
<1>3. /\ stop \in RequestRecords /\ stop.step = "settle" /\ stop.seen = request[q].seen
      /\ stop.locator = request[q].locator /\ stop.expires = request[q].expires
      /\ stop.outcome = "cancelled"
  BY <1>1 DEF RequestRecords, Registered, Settled
<1>4. (Set(q, go) \/ Set(q, stop)) /\ UNCHANGED <<storage, now>>
  BY DEF Check
<1> HIDE DEF go, stop
<1>5. RecordOK(go) /\ RecordOK(stop)
  BY <1>1, <1>2, <1>3, LeaseNat DEF RecordOK, Claimed, Registered, Step, Settled
<1>6. ASSUME NEW r \in {go, stop} PROVE PendingOK(r) /\ SeenOK(q, r) /\ Evolves(request[q], r)
  BY <1>1, <1>2, <1>3 DEF PendingOK, SeenOK, OwnClaim, Writing, Step, Evolves, Claimed, Registered
<1> QED
  BY <1>4, <1>5, <1>6, RequestMoves

LEMMA PollKeeps ==
    ASSUME Core, NEW q \in Requests, Poll(q)
    PROVE  Core'
<1> DEFINE r == [request[q] EXCEPT !.aborted = TRUE]
<1>1. /\ request[q] \in RequestRecords /\ RecordOK(request[q]) /\ Step(q) = "run"
      /\ SeenOK(q, request[q])
  BY RecordFacts DEF Poll
<1>2. /\ r \in RequestRecords /\ r.step = "run" /\ r.seen = request[q].seen
      /\ r.locator = request[q].locator /\ r.expires = request[q].expires
      /\ r.since = request[q].since
  BY <1>1 DEF RequestRecords, Step
<1>3. Set(q, r) /\ UNCHANGED <<storage, now>>
  BY DEF Poll
<1> HIDE DEF r
<1>4. RecordOK(r)
  BY <1>1, <1>2 DEF RecordOK, Claimed, Registered, Step
<1>5. PendingOK(r) /\ SeenOK(q, r) /\ Evolves(request[q], r)
  BY <1>1, <1>2 DEF PendingOK, SeenOK, OwnClaim, Writing, Step, Evolves, Claimed, Registered
<1> QED
  BY <1>3, <1>4, <1>5, RequestMoves

LEMMA AnalyzeKeeps ==
    ASSUME Core, NEW q \in Requests, NEW o \in {"complete", "failed"}, Analyze(q, o)
    PROVE  Core'
<1> DEFINE said == IF request[q].aborted THEN "cancelled" ELSE o
           r == [request[q] EXCEPT !.step = "settle", !.since = 0, !.outcome = said]
<1>1. /\ request[q] \in RequestRecords /\ RecordOK(request[q]) /\ Step(q) = "run"
      /\ SeenOK(q, request[q])
  BY RecordFacts DEF Analyze
<1>2. said \in Settled
  BY DEF Settled
<1>3. Set(q, r) /\ UNCHANGED <<storage, now>>
  BY DEF Analyze
<1> HIDE DEF said
<1>4. /\ r \in RequestRecords /\ r.step = "settle" /\ r.seen = request[q].seen
      /\ r.locator = request[q].locator /\ r.expires = request[q].expires
      /\ r.outcome = said
  BY <1>1, <1>2 DEF RequestRecords, Registered
<1> HIDE DEF r
<1>5. RecordOK(r)
  BY <1>1, <1>2, <1>4 DEF RecordOK, Claimed, Registered, Step
<1>6. PendingOK(r) /\ SeenOK(q, r) /\ Evolves(request[q], r)
  BY <1>1, <1>4 DEF PendingOK, SeenOK, OwnClaim, Writing, Step, Evolves, Claimed, Registered
<1> QED
  BY <1>3, <1>5, <1>6, RequestMoves

\* An entry that gets another status keeps its key, and is no leased one
\* that was not.
LEMMA OneRestated ==
    ASSUME Core, NEW e \in workspace.entries, NEW s \in Settled, NEW w,
           e.status = "running",
           w = [workspace EXCEPT !.entries = (@ \ {e}) \cup {[e EXCEPT !.status = s]}]
    PROVE  /\ w \in Workspaces /\ Small(w) /\ Keyed(w)
           /\ w.entries = (workspace.entries \ {e}) \cup {[e EXCEPT !.status = s]}
           /\ \A d \in w.entries : Traced(d)
           /\ (s = "complete" => e.locator = workspace.locator) => Follows(workspace, w)
<1> DEFINE f == [e EXCEPT !.status = s]
<1>1. workspace \in Workspaces /\ e \in Entries /\ Keyed(workspace) /\ Small(workspace)
  BY EntriesTyped DEF Core, StoreOK
<1>2. /\ f \in Entries /\ f.id = e.id /\ f.locator = e.locator /\ f.intent = e.intent
      /\ f.forced = e.forced /\ f.expires = e.expires /\ f.status = s
  BY <1>1 DEF Entries
<1>3. w.entries = (workspace.entries \ {e}) \cup {f} /\ w.locator = workspace.locator
  BY <1>1 DEF Workspaces
<1>4. w \in Workspaces
  <2> HIDE DEF f
  <2> QED
    BY <1>1, <1>2, <1>3 DEF Workspaces
<1> HIDE DEF f
<1>5. Keyed(w)
  BY <1>1, <1>2, <1>3 DEF Keyed
<1>6. Small(w)
  <2>1. LeasedIn(w) \subseteq LeasedIn(workspace)
    BY <1>2, <1>3 DEF LeasedIn, Leased, Settled
  <2> QED
    BY <1>1, <2>1, FewerLeased
<1>7. \A d \in w.entries : Traced(d)
  BY <1>2, <1>3 DEF Traced, Match, Core, StoreOK
<1>8. ASSUME s = "complete" => e.locator = workspace.locator
      PROVE  Follows(workspace, w)
  BY <1>2, <1>3, <1>8 DEF Follows
<1> QED
  BY <1>3, <1>4, <1>5, <1>6, <1>7, <1>8 DEF f


LEMMA SettleKeeps ==
    ASSUME Core, NEW q \in Requests, Settle(q)
    PROVE  Core'
<1>1. /\ request[q] \in RequestRecords /\ RecordOK(request[q]) /\ Step(q) = "settle"
      /\ UNCHANGED <<storage, now>>
  BY RecordFacts DEF Settle
<1>2. CASE End(q)
  BY <1>1, <1>2, Ends
<1>3. CASE Unsettled(q) # {}
  <2> DEFINE W(e) == [workspace EXCEPT
                       !.entries = (@ \ {e}) \cup {[e EXCEPT !.status = Outcome(q)]}]
             R(e) == [request[q] EXCEPT !.step = "save", !.base = revision, !.seen = W(e)]
  <2>1. PICK e \in Unsettled(q) : Set(q, R(e))
    BY <1>3 DEF Settle
  <2>2. e \in workspace.entries /\ e.id = q /\ Leased(e) /\ e.status = "running" /\ Traced(e)
    BY <2>1 DEF Unsettled, EntryOf, Leased, Core, StoreOK
  <2>3. Outcome(q) \in Settled
    BY <1>1 DEF Outcome, RecordOK, Step, Settled
  <2>4. Outcome(q) = "complete" => e.locator = workspace.locator
    BY <2>2, <1>1 DEF Outcome, Traced, Match, Step
  <2>5. /\ W(e) \in Workspaces /\ Small(W(e)) /\ Keyed(W(e)) /\ Follows(workspace, W(e))
        /\ \A d \in W(e).entries : Traced(d)
    BY <2>2, <2>3, <2>4, OneRestated
  <2> HIDE DEF W
  <2>6. /\ R(e) \in RequestRecords /\ R(e).step = "save" /\ R(e).seen = W(e)
        /\ R(e).base = revision /\ R(e).outcome = request[q].outcome
        /\ R(e).locator = request[q].locator /\ R(e).expires = request[q].expires
    BY <1>1, <2>5 DEF RequestRecords, Registered, Core, StoreOK
  <2> DEFINE r == R(e)
  <2> HIDE DEF R
  <2>7. RecordOK(r)
    BY <1>1, <2>5, <2>6 DEF RecordOK, Claimed, Registered, Step
  <2>8. PendingOK(r) /\ SeenOK(q, r)
    BY <2>5, <2>6 DEF PendingOK, SeenOK, Core, StoreOK
  <2>9. Evolves(request[q], r)
    BY <1>1, <2>6 DEF Evolves, Claimed, Registered, Step
  <2> QED
    BY <1>1, <2>1, <2>7, <2>8, <2>9, RequestMoves
<1> QED
  BY <1>2, <1>3 DEF Settle

\* A step that is none of the commits, and so leaves the store alone.
LEMMA AdvanceKeeps ==
    ASSUME Core, NEW q \in Requests, RequestNext(q)
    PROVE  Core' /\ (UNCHANGED workspace \/ Follows(workspace, workspace'))
<1>1. CASE Ask(q) \/ Load(q) \/ Prepare(q) \/ Claim(q) \/ Register(q) \/ Check(q)
           \/ Poll(q) \/ Settle(q)
  <2>1. Core'
    BY <1>1, AskKeeps, LoadKeeps, PrepareKeeps, ClaimKeeps, RegisterKeeps, CheckKeeps,
       PollKeeps, SettleKeeps
  <2>2. UNCHANGED workspace
    BY <1>1 DEF Ask, Load, Prepare, Claim, Register, Check, Poll, Settle, storage
  <2> QED
    BY <2>1, <2>2
<1>2. CASE \E o \in {"complete", "failed"} : Analyze(q, o)
  BY <1>2, AnalyzeKeeps DEF Analyze, storage
<1>3. CASE CommitClaim(q)
  BY <1>3, CommitClaimKeeps
<1>4. CASE ClaimConflict(q)
  BY <1>4, RetryKeeps DEF ClaimConflict, storage
<1>5. CASE Save(q)
  BY <1>5, OverWrites DEF Save, Writing
<1>6. CASE SaveConflict(q)
  BY <1>6, RetryKeeps, RecordFacts DEF SaveConflict, RecordOK, storage, Step
<1>7. CASE Fail(q)
  BY <1>7, Ends DEF Fail, storage
<1>8. CASE Unacknowledged(q)
  BY <1>8, OverWrites DEF Unacknowledged, Writing
<1> QED
  BY <1>1, <1>2, <1>3, <1>4, <1>5, <1>6, <1>7, <1>8 DEF RequestNext, Advance

-----------------------------------------------------------------------------
(* Processes, users and the clock.                                         *)

\* A record whose job was told to stop.
LEMMA Flagged ==
    ASSUME Core, NEW q \in Requests
    PROVE  LET r == [request[q] EXCEPT !.aborted = TRUE]
           IN  RecordOK(r) /\ Evolves(request[q], r) /\ Holds(request[q], r)
<1> DEFINE r == [request[q] EXCEPT !.aborted = TRUE]
<1>1. request[q] \in RequestRecords /\ RecordOK(request[q])
  BY RecordFacts
<1>2. /\ r \in RequestRecords /\ r.step = request[q].step /\ r.seen = request[q].seen
      /\ r.base = request[q].base /\ r.locator = request[q].locator
      /\ r.expires = request[q].expires /\ r.since = request[q].since
      /\ r.outcome = request[q].outcome
  BY <1>1 DEF RequestRecords
<1> HIDE DEF r
<1>3. RecordOK(r) /\ Evolves(request[q], r) /\ Holds(request[q], r)
  BY <1>1, <1>2 DEF RecordOK, Evolves, Holds
<1> QED
  BY <1>3 DEF r

LEMMA Untouched ==
    ASSUME Core, NEW q \in Requests
    PROVE  RecordOK(request[q]) /\ Evolves(request[q], request[q]) /\ Holds(request[q], request[q])
  BY RecordFacts DEF Evolves, Holds

LEMMA CrashKeeps ==
    ASSUME Core, NEW p \in Processes, Crash(p)
    PROVE  Core'
<1>1. request' = [q \in Requests |-> IF Process[q] = p THEN Ended ELSE request[q]]
  BY DEF Crash
<1>2. request' \in [Requests -> RequestRecords]
  BY <1>1, DeletedOK, RecordFacts
<1>3. Ended.step \notin Writing
  BY DeletedOK DEF Writing
<1>4. \A q \in Requests : /\ RecordOK(request'[q]) /\ Evolves(request[q], request'[q])
                          /\ Holds(request[q], request'[q])
  BY <1>1, <1>3, DeletedOK, EndedOK, Untouched DEF Holds
<1> QED
  BY <1>2, <1>4, StoreMoves DEF Crash, storage

LEMMA CloseKeeps ==
    ASSUME Core, NEW p \in Processes, Close(p)
    PROVE  Core'
<1> DEFINE F(q) == [request[q] EXCEPT !.aborted = TRUE]
<1>1. \A q \in Requests : request'[q] \in {F(q), request[q]}
  BY DEF Close
<1>2. \A q \in Requests : RecordOK(F(q)) /\ Evolves(request[q], F(q)) /\ Holds(request[q], F(q))
  BY Flagged
<1> HIDE DEF F
<1>3. \A q \in Requests : /\ RecordOK(request'[q]) /\ Evolves(request[q], request'[q])
                          /\ Holds(request[q], request'[q])
  BY <1>1, <1>2, Untouched
<1>4. request' \in [Requests -> RequestRecords]
  <2>1. \A q \in Requests : request'[q] \in RequestRecords
    BY <1>3 DEF RecordOK
  <2>2. request' = [q \in Requests |-> request'[q]]
    BY DEF Close
  <2> QED
    BY <2>1, <2>2
<1> QED
  BY <1>3, <1>4, StoreMoves DEF Close, storage


LEMMA CancelKeeps ==
    ASSUME Core, NEW q \in Requests, NEW p \in Processes, Cancel(q, p)
    PROVE  Core' /\ Follows(workspace, workspace')
<1>1. PICK e \in EntryOf(q, workspace) :
        /\ e.status = "running"
        /\ Edit([workspace EXCEPT !.entries = (@ \ {e}) \cup {[e EXCEPT !.status = "cancelled"]}])
  BY DEF Cancel
<1> DEFINE w == [workspace EXCEPT !.entries = (@ \ {e}) \cup {[e EXCEPT !.status = "cancelled"]}]
           r == [request[q] EXCEPT !.aborted = TRUE]
<1>2. /\ w \in Workspaces /\ Small(w) /\ Keyed(w) /\ Follows(workspace, w)
      /\ \A d \in w.entries : Traced(d)
  BY <1>1, OneRestated DEF EntryOf, Settled
<1>3. revision' = revision + 1 /\ workspace' = w /\ now' = now /\ backup' = backup
  BY <1>1 DEF Edit, Cancel
<1> HIDE DEF w
<1>4. RecordOK(r) /\ Evolves(request[q], r) /\ Holds(request[q], r)
  BY Flagged
<1>5. Set(q, r) \/ UNCHANGED request
  BY DEF Cancel
<1> HIDE DEF r
<1>6. /\ request' \in [Requests -> RequestRecords]
      /\ \A o \in Requests : /\ RecordOK(request'[o]) /\ Evolves(request[o], request'[o])
                             /\ Holds(request[o], request'[o])
  BY <1>4, <1>5, Untouched DEF Set, Core, RecordOK
<1>7. \A d \in w.entries : Traced(d)'
  BY <1>2, <1>6, TracedKept, EntriesTyped
<1> QED
  BY <1>2, <1>3, <1>6, <1>7, StoreMoves

\* A user writes a workspace of known entries, and no request moves.
LEMMA EditKeeps ==
    ASSUME Core, NEW w \in Workspaces, Small(w), Keyed(w), \A d \in w.entries : Traced(d),
           Edit(w), UNCHANGED <<backup, request>>
    PROVE  Core'
<1>1. /\ request' \in [Requests -> RequestRecords]
      /\ \A o \in Requests : /\ RecordOK(request'[o]) /\ Evolves(request[o], request'[o])
                             /\ Holds(request[o], request'[o])
  BY Untouched DEF Core
<1>2. \A d \in w.entries : Traced(d)'
  BY <1>1, TracedKept, EntriesTyped
<1>3. revision' = revision + 1 /\ workspace' = w /\ now' = now
  BY DEF Edit
<1> QED
  BY <1>1, <1>2, <1>3, StoreMoves

LEMMA UsersKeep ==
    ASSUME Core, Counts, UserNext
    PROVE  Core' /\ (imports' = imports /\ ~UNCHANGED workspace => Follows(workspace, workspace'))
<1>0. /\ workspace \in Workspaces /\ backup \in Workspaces
      /\ Small(workspace) /\ Keyed(workspace) /\ Keyed(backup)
      /\ \A e \in workspace.entries \cup backup.entries : Traced(e)
  BY DEF Core, StoreOK
<1>1. CASE \E q \in Requests, p \in Processes : Cancel(q, p)
  BY <1>1, CancelKeeps
<1>2. CASE \E l \in Locators : ReplaceAsset(l)
  <2>1. PICK l \in Locators : ReplaceAsset(l)
    BY <1>2
  <2> DEFINE w == [workspace EXCEPT !.locator = l]
  <2>2. w \in Workspaces /\ w.entries = workspace.entries
    BY <1>0 DEF Workspaces
  <2>3. Edit(w) /\ UNCHANGED <<backup, request>> /\ workspace' = w
    BY <2>1 DEF ReplaceAsset, Edit
  <2> HIDE DEF w
  <2>4. Small(w) /\ Keyed(w) /\ Follows(workspace, w)
    BY <1>0, <2>2 DEF Small, LeasedIn, Keyed, Follows
  <2> QED
    BY <1>0, <2>2, <2>3, <2>4, EditKeeps
<1>3. CASE DeleteReference
  <2>1. Edit(Deleted) /\ UNCHANGED <<backup, request>> /\ workspace' = Deleted
    BY <1>3 DEF DeleteReference, Edit
  <2>2. Small(Deleted) /\ Follows(workspace, Deleted)
    BY DeletedOK, NothingLeased DEF LeasedIn, Follows
  <2> QED
    BY <2>1, <2>2, DeletedOK, EditKeeps
<1>4. CASE ExportBackup
  <2>1. /\ UNCHANGED <<revision, workspace, request, now>> /\ backup' = workspace
    BY <1>4 DEF ExportBackup
  <2>2. /\ request' \in [Requests -> RequestRecords]
        /\ \A o \in Requests : /\ RecordOK(request'[o]) /\ Evolves(request[o], request'[o])
                               /\ Holds(request[o], request'[o])
    BY <2>1, Untouched DEF Core
  <2> QED
    BY <2>1, <2>2, StoreMoves
<1>5. CASE ImportBackup
  <2> DEFINE w == Interrupted(backup)
             I(e) == [e EXCEPT !.status = IF @ = "running" THEN "failed" ELSE @]
  <2>1. Edit(w) /\ UNCHANGED <<backup, request>>
    BY <1>5 DEF ImportBackup
  <2>2. \A e \in backup.entries :
          /\ I(e) \in Entries /\ I(e).id = e.id /\ I(e).locator = e.locator
          /\ I(e).intent = e.intent /\ I(e).forced = e.forced /\ I(e).expires = e.expires
          /\ I(e).status # "running"
    <3> SUFFICES ASSUME NEW e \in backup.entries
                 PROVE  /\ I(e) \in Entries /\ I(e).id = e.id /\ I(e).locator = e.locator
                        /\ I(e).intent = e.intent /\ I(e).forced = e.forced
                        /\ I(e).expires = e.expires /\ I(e).status # "running"
      OBVIOUS
    <3>1. e \in Entries
      BY <1>0, EntriesTyped
    <3> QED
      BY <3>1 DEF Entries, Settled
  <2>3. w.entries = {I(e) : e \in backup.entries} /\ w.locator = backup.locator
    BY <1>0 DEF Interrupted, Workspaces
  <2>4. w \in Workspaces
    <3> HIDE DEF I
    <3>1. {I(e) : e \in backup.entries} \in SUBSET Entries
      BY <2>2
    <3>2. w = [backup EXCEPT !.entries = {I(e) : e \in backup.entries}]
      BY DEF Interrupted, I
    <3> QED
      BY <1>0, <3>1, <3>2 DEF Workspaces
  <2> HIDE DEF w, I
  <2>5. Keyed(w)
    BY <1>0, <2>2, <2>3 DEF Keyed
  <2>6. Small(w)
    <3>1. LeasedIn(w) = {}
      BY <2>2, <2>3 DEF LeasedIn, Leased
    <3> QED
      BY <3>1, NothingLeased
  <2>7. \A d \in w.entries : Traced(d)
    BY <1>0, <2>2, <2>3 DEF Traced, Match
  <2>8. imports' # imports
    BY <1>5 DEF ImportBackup, Counts
  <2> QED
    BY <2>1, <2>4, <2>5, <2>6, <2>7, <2>8, EditKeeps
<1> QED
  BY <1>1, <1>2, <1>3, <1>4, <1>5 DEF UserNext


\* Time passes only while every claim is in time and every run is.
LEMMA TickKeeps ==
    ASSUME Core, Tick
    PROVE  Core'
<1>1. /\ now' = now + 1 /\ now \in Nat /\ now' \in Nat
      /\ UNCHANGED <<revision, workspace, backup, request>>
  BY DEF Tick, storage, Core
<1>2. \A e \in Entries : Leased(e)' => Leased(e)
  BY <1>1 DEF Leased, Entries
<1>3. \A w \in Workspaces : Small(w) => Small(w)'
  <2> SUFFICES ASSUME NEW w \in Workspaces, Small(w) PROVE Small(w)'
    OBVIOUS
  <2> DEFINE later == {e \in w.entries : Leased(e)'}
  <2>1. later \subseteq LeasedIn(w)
    BY <1>2, EntriesTyped DEF LeasedIn
  <2>2. IsFiniteSet(LeasedIn(w)) /\ Cardinality(LeasedIn(w)) <= Concurrency
    BY DEF Small
  <2> HIDE DEF later
  <2>3. IsFiniteSet(later) /\ Cardinality(later) <= Cardinality(LeasedIn(w))
    BY <2>1, <2>2, FS_Subset
  <2>4. Cardinality(later) \in Nat /\ Cardinality(LeasedIn(w)) \in Nat /\ Concurrency \in Nat
    BY <2>2, <2>3, FS_CardinalityType, ConstantsAssumption
  <2>5. IsFiniteSet(later) /\ Cardinality(later) <= Concurrency
    BY <2>2, <2>3, <2>4
  <2> QED
    BY <2>5 DEF Small, LeasedIn, later
<1>4. StoreOK'
  BY <1>1, <1>3 DEF Core, StoreOK, Keyed, Traced, Match, Step
<1>5. ASSUME NEW q \in Requests
      PROVE  (RecordOK(request[q]) /\ PendingOK(request[q]) /\ SeenOK(q, request[q]))'
  <2>1. /\ request[q] \in RequestRecords /\ RecordOK(request[q])
        /\ PendingOK(request[q]) /\ SeenOK(q, request[q])
    BY RecordFacts
  <2>2. /\ request[q].seen \in Workspaces /\ request[q].expires \in Nat
        /\ request[q].since \in Nat
    BY <2>1 DEF RequestRecords
  <2>3. RecordOK(request[q])'
    <3>1. request[q].step = "run" => now < request[q].since + RunTime
      BY DEF Tick, RunsInTime, Step
    <3>2. request[q].step \in {"claim", "commit", "claimed", "check"} =>
            now < (request[q].expires - Lease) + StoreBound
      BY DEF Tick, Step
    <3> QED
      BY <1>1, <2>1, <2>2, <3>1, <3>2, LeaseNat DEF RecordOK, Keyed
  <2>4. PendingOK(request[q])'
    BY <1>1, <1>3, <2>1, <2>2 DEF PendingOK, Follows
  <2>5. SeenOK(q, request[q])'
    BY <1>1, <2>1 DEF SeenOK, Traced, OwnClaim, Match, Step
  <2> QED
    BY <2>3, <2>4, <2>5
<1> QED
  BY <1>1, <1>4, <1>5 DEF Core

LEMMA CountsKept ==
    ASSUME Counts, Next
    PROVE  Counts'
<1> USE DEF Counts, counters
<1>1. ASSUME NEW q \in Requests, RequestNext(q) PROVE Counts'
  <2>1. CASE Ask(q) \/ Poll(q)
    BY <2>1 DEF Ask, Poll
  <2>2. CASE Load(q) \/ Prepare(q) \/ Claim(q) \/ CommitClaim(q) \/ ClaimConflict(q)
    BY <2>2 DEF Load, Prepare, Claim, CommitClaim, ClaimConflict
  <2>3. CASE Register(q) \/ Check(q) \/ Settle(q) \/ Save(q) \/ SaveConflict(q)
    BY <2>3 DEF Register, Check, Settle, Save, SaveConflict
  <2>4. CASE \E o \in {"complete", "failed"} : Analyze(q, o)
    BY <2>4 DEF Analyze
  <2>5. CASE Fail(q) \/ Unacknowledged(q)
    BY <2>5 DEF Fail, Unacknowledged, Fault
  <2> QED
    BY <1>1, <2>1, <2>2, <2>3, <2>4, <2>5 DEF RequestNext, Advance
<1>2. ASSUME NEW p \in Processes, Close(p) \/ Crash(p) PROVE Counts'
  BY <1>2 DEF Close, Crash, Fault
<1>3. CASE UserNext
  <2>1. ASSUME NEW q \in Requests, NEW p \in Processes, Cancel(q, p) PROVE Counts'
    BY <2>1 DEF Cancel, Edit
  <2>2. ASSUME NEW l \in Locators, ReplaceAsset(l) PROVE Counts'
    BY <2>2 DEF ReplaceAsset, Edit
  <2>3. CASE DeleteReference \/ ExportBackup
    BY <2>3 DEF DeleteReference, ExportBackup, Edit
  <2>4. CASE ImportBackup
    BY <2>4 DEF ImportBackup, Edit
  <2> QED
    BY <1>3, <2>1, <2>2, <2>3, <2>4 DEF UserNext
<1>4. CASE Tick
  BY <1>4 DEF Tick
<1> QED
  BY <1>1, <1>2, <1>3, <1>4 DEF Next

LEMMA Begin == Init => Inv
<1> SUFFICES ASSUME Init PROVE Inv
  OBVIOUS
<1>1. /\ workspace \in Workspaces /\ backup = workspace /\ workspace.entries = {}
      /\ revision = 0 /\ now = 0
  BY DEF Init, Workspaces
<1>2. StoreOK
  BY <1>1, NothingLeased DEF StoreOK, LeasedIn, Keyed
<1>3. /\ Idle \in RequestRecords /\ Idle.step = "idle" /\ Idle.seen = Deleted
  BY DeletedOK DEF Idle
<1>4. \A q \in Requests : RecordOK(Idle) /\ PendingOK(Idle) /\ SeenOK(q, Idle)
  BY <1>3, DeletedOK DEF RecordOK, PendingOK, SeenOK, Writing, Claimed, Registered
<1>5. request \in [Requests -> RequestRecords] /\ \A q \in Requests : request[q] = Idle
  BY <1>3 DEF Init
<1>6. Core
  BY <1>1, <1>2, <1>4, <1>5 DEF Core
<1>7. Counts
  BY DEF Init, Counts
<1> QED
  BY <1>6, <1>7 DEF Inv

\* Every step keeps the invariant and, unless it restores a backup, replaces
\* only what was running.
LEMMA StepKeeps ==
    ASSUME Inv, [Next]_vars
    PROVE  Inv' /\ (imports' = imports /\ ~UNCHANGED workspace => Follows(workspace, workspace'))
<1>0. Core /\ Counts
  BY DEF Inv
<1>1. CASE UNCHANGED vars
  <2>1. UNCHANGED <<revision, workspace, backup, request, now>>
    BY <1>1 DEF vars
  <2>2. StoreOK' /\ request' \in [Requests -> RequestRecords] /\ now' \in Nat
    BY <1>0, <2>1 DEF Core, StoreOK, Small, LeasedIn, Leased, Keyed, Traced, Match, Step
  <2>3. ASSUME NEW q \in Requests
        PROVE  (RecordOK(request[q]) /\ PendingOK(request[q]) /\ SeenOK(q, request[q]))'
    <3>1. RecordOK(request[q]) /\ PendingOK(request[q]) /\ SeenOK(q, request[q])
      BY <1>0, RecordFacts
    <3>2. RecordOK(request[q])'
      BY <2>1, <3>1 DEF RecordOK, Keyed
    <3>3. PendingOK(request[q])'
      BY <2>1, <3>1 DEF PendingOK, Small, LeasedIn, Leased, Follows
    <3>4. SeenOK(q, request[q])'
      BY <2>1, <3>1 DEF SeenOK, Traced, OwnClaim, Match, Step
    <3> QED
      BY <3>2, <3>3, <3>4
  <2>4. Core'
    BY <2>2, <2>3 DEF Core
  <2> QED
    BY <1>0, <1>1, <2>4 DEF vars, Counts, Inv
<1>2. CASE Next
  <2>1. Counts'
    BY <1>0, <1>2, CountsKept
  <2>2. ASSUME NEW q \in Requests, RequestNext(q)
        PROVE  Core' /\ (UNCHANGED workspace \/ Follows(workspace, workspace'))
    BY <1>0, <2>2, AdvanceKeeps
  <2>3. ASSUME NEW p \in Processes, Close(p) \/ Crash(p)
        PROVE  Core' /\ UNCHANGED workspace
    BY <1>0, <2>3, CloseKeeps, CrashKeeps DEF Close, Crash, storage
  <2>4. CASE UserNext
    BY <1>0, <2>1, <2>4, UsersKeep DEF Inv
  <2>5. CASE Tick
    BY <1>0, <2>1, <2>5, TickKeeps DEF Inv, Tick, storage
  <2> QED
    BY <1>2, <2>1, <2>2, <2>3, <2>4, <2>5 DEF Next, Inv
<1> QED
  BY <1>1, <1>2

-----------------------------------------------------------------------------
(* Results.                                                                *)

\* What each process holds of the workspace, when it may write it, and what
\* leases it: the inductive invariant.
THEOREM AnalysisInvariant == Spec => []Inv
  BY Begin, StepKeeps, PTL DEF Spec

\* The analyses at work are never more than the concurrency, whichever
\* processes claim, crash or lose answers (#claim of analysis-service.js).
THEOREM CapacityKept == Spec => []CapacityRespected
<1>1. Inv => CapacityRespected
  BY DEF Inv, Core, Counts, StoreOK, Small, LeasedIn, CapacityRespected, TypeOK
<1> QED
  BY <1>1, AnalysisInvariant, PTL

\* Requests with one key share an entry unless one was forced.
THEOREM KeysShared == Spec => []ClaimedOnce
<1>1. Inv => ClaimedOnce
  BY DEF Inv, Core, StoreOK, Keyed, ClaimedOnce
<1> QED
  BY <1>1, AnalysisInvariant, PTL

\* When the slack of the lease covers the wait for the store, an analyzer
\* whose entry still runs holds the lease of it.
THEOREM LeaseHolds ==
    ASSUME SlackCoversStore
    PROVE  Spec => []LeaseCoversRun
<1>1. Inv => LeaseCoversRun
  <2> SUFFICES ASSUME Inv, NEW q \in Requests, Step(q) = "run",
                      NEW e \in EntryOf(q, workspace), e.status = "running"
               PROVE  Leased(e)
    BY DEF LeaseCoversRun
  <2>1. /\ request[q] \in RequestRecords /\ RecordOK(request[q]) /\ now \in Nat
        /\ Traced(e) /\ e.id = q
    BY DEF Inv, Core, StoreOK, EntryOf
  <2>2. /\ request[q].since \in Nat /\ request[q].expires \in Nat
    BY <2>1 DEF RequestRecords
  <2>3. e.expires = request[q].expires
    BY <2>1 DEF Traced, Match, Step
  <2>4. /\ now <= request[q].since + RunTime
        /\ request[q].since + (RunTime + Slack) <= request[q].expires + StoreBound
    BY <2>1 DEF RecordOK, Step, Lease
  <2>5. now < request[q].expires
    BY <2>1, <2>2, <2>4, LeaseNat DEF SlackCoversStore
  <2> QED
    BY <2>3, <2>5 DEF Leased
<1> QED
  BY <1>1, AnalysisInvariant, PTL

\* A late result changes nothing that was settled, deleted or restored, and
\* only completes an entry for the asset it was made from.
THEOREM LateResultsInert == Spec => LateCompletionInert
<1>1. Inv /\ [Next]_vars =>
        [imports' = imports =>
           \A e \in workspace'.entries \ workspace.entries :
              /\ e.status # "running" =>
                   \E d \in workspace.entries : d.id = e.id /\ d.status = "running"
              /\ e.status = "complete" => e.locator = workspace.locator]_vars
  BY StepKeeps DEF Follows
<1> QED
  BY <1>1, AnalysisInvariant, PTL DEF Spec, LateCompletionInert

=============================================================================
