--------------------------- MODULE PreviewService ---------------------------
(***************************************************************************)
(* Captures whose screenshots live in memory for a while                   *)
(* (src/src/ephemeral-preview-service.js, class EphemeralPreviewService).  *)
(*                                                                         *)
(* A job has two lives that do not end together: what the Map says of it   *)
(* (cancelled at once, expired after ttlMs) and its capture (which takes   *)
(* notice of the abort when it likes).                                     *)
(*                                                                         *)
(* Times only matter by what is left of them, so a job carries the time it *)
(* still has; a captureId is a member of Jobs and is used again when       *)
(* nothing of the job it named is left (the code draws UUIDs).             *)
(***************************************************************************)
EXTENDS Integers, Sequences, FiniteSets, FiniteSetsExt

CONSTANTS Jobs,            \* captureIds
          Ttl,             \* ttlMs, in ticks of the clock
          MaxActiveJobs, MaxJobs, MaxResources, MaxBytes,
          Screenshots      \* what a capture may show: sequences of sizes

ASSUME Limits == {Ttl, MaxActiveJobs, MaxJobs, MaxResources, MaxBytes} \subseteq Nat \ {0}
ASSUME CapturesAreSizes == Screenshots \subseteq Seq(Nat)

Unset == -1                \* job.expiresAtMs is undefined
NoJob == [status |-> "none", aborted |-> FALSE, run |-> "ended",
          left |-> Unset, timer |-> FALSE]

VARIABLES job,             \* the job objects
          jobs,            \* the keys of this.jobs
          resources,       \* this.resources
          usedBytes,
          closing,         \* close(): "open", "awaiting" its jobs, "closed"
          awaited          \* the jobs whose promise close() awaits

previewVars == <<job, jobs, resources, usedBytes, closing, awaited>>

InitPreviews ==
  /\ job = [j \in Jobs |-> NoJob]
  /\ jobs = {} /\ resources = {} /\ usedBytes = 0
  /\ closing = "open" /\ awaited = {}

ActiveStatus == {"queued", "capturing"}
IsActive(j) == job[j].status \in ActiveStatus
Active == {j \in jobs : IsActive(j)}

Bytes(set) == MapThenSumSet(LAMBDA r : r.size, set)

----------------------------------------------------------------------------
(* #expire and cleanup.  A job can only expire while the Map holds it.     *)

\* Mutant: expiry is not looked at.
AnyEnded(j) == job[j].left # Unset
Expired(j) == job[j].left = 0

Due == {j \in jobs : Expired(j)}
ResourcesOf(gone) == {r \in resources : r.captureId \in gone}

\* Mutant: the counter is never lowered.
NotReleased(gone) == usedBytes
\* The bytes of what goes are no longer used.
Released(gone) == usedBytes - Bytes(ResourcesOf(gone))

\* The jobs with the timers of gone cleared; one of them becomes value.
Untimed(gone, j, value) ==
  [k \in Jobs |-> IF k = j THEN value
                  ELSE [job[k] EXCEPT !.timer = @ /\ k \notin gone]]

\* What remains when the jobs in gone leave, and new resources are added.
Keep(gone, added) ==
  /\ resources' = (resources \ ResourcesOf(gone)) \cup added
  /\ usedBytes' = Released(gone) + Bytes(added)

\* cleanup() at the head of a call that changes nothing else.
Cleanup ==
  /\ job' = [j \in Jobs |-> [job[j] EXCEPT !.timer = @ /\ j \notin Due]]
  /\ jobs' = jobs \ Due
  /\ Keep(Due, {})

----------------------------------------------------------------------------
(* The calls                                                               *)

\* status(), read(), a refused request(), and cancel() of a job that is
\* not active: a caller sees what cleanup() leaves.
Look == Cleanup /\ UNCHANGED <<closing, awaited>>

Refuses ==
  \/ closing # "open"
  \/ Cardinality(Active \ Due) >= MaxActiveJobs
  \/ Cardinality(jobs \ Due) >= MaxJobs

\* Nothing of the job that j named is left.
Unused(j) == j \notin jobs /\ job[j].run = "ended" /\ ~job[j].timer

Queued == [status |-> "queued", aborted |-> FALSE, run |-> "pending",
           left |-> Unset, timer |-> FALSE]

Request(j) ==
  /\ ~Refuses
  /\ Unused(j)
  /\ job' = Untimed(Due, j, Queued)
  /\ jobs' = (jobs \ Due) \cup {j}
  /\ Keep(Due, {})
  /\ UNCHANGED <<closing, awaited>>

Aborted(j) == [job[j] EXCEPT !.aborted = TRUE, !.status = "cancelled"]

\* The capture of a cancelled job goes on until it sees the signal.
Cancel(j) ==
  /\ j \in Active
  /\ job' = Untimed(Due, j, Aborted(j))
  /\ jobs' = jobs \ Due
  /\ Keep(Due, {})
  /\ UNCHANGED <<closing, awaited>>

\* close(): only the jobs still active are aborted, and awaited.
Close ==
  /\ closing = "open"
  /\ closing' = "awaiting" /\ awaited' = Active
  /\ job' = [j \in Jobs |-> IF j \in Active THEN Aborted(j) ELSE job[j]]
  /\ UNCHANGED <<jobs, resources, usedBytes>>

----------------------------------------------------------------------------
(* #run                                                                    *)

\* #scheduleExpiry
Ended(j, status) ==
  [job[j] EXCEPT !.status = status, !.run = "ended", !.left = Ttl, !.timer = TRUE]

\* The microtask of request(): the capture starts unless it is aborted.
Start(j) ==
  /\ job[j].run = "pending"
  /\ job' = [job EXCEPT ![j] = IF job[j].aborted THEN Ended(j, "cancelled")
                               ELSE [@ EXCEPT !.status = "capturing", !.run = "running"]]
  /\ UNCHANGED <<jobs, resources, usedBytes, closing, awaited>>

\* captureWebsite throws, an oversized screenshot included.
FailureStatus(j) == IF job[j].aborted THEN "cancelled" ELSE "failed"
CaptureFails(j) ==
  /\ job[j].run = "running"
  /\ job' = [job EXCEPT ![j] = Ended(j, FailureStatus(j))]
  /\ UNCHANGED <<jobs, resources, usedBytes, closing, awaited>>

\* The abort check after the capture.
SeesAbort(j) == job[j].aborted

Added(j, sizes) ==
  {[captureId |-> j, index |-> i, size |-> sizes[i]] : i \in DOMAIN sizes}

\* After cleanup() there is room for n more resources of so many bytes.
Fits(n, bytes) ==
  /\ n > 0
  /\ Cardinality(resources \ ResourcesOf(Due)) + n <= MaxResources
  /\ usedBytes - Bytes(ResourcesOf(Due)) + bytes <= MaxBytes

Stores(j, sizes) == Fits(Len(sizes), Bytes(Added(j, sizes)))

\* captureWebsite returns: its screenshots are stored together or not at all.
Completes(j, sizes) ==
  /\ job[j].run = "running" /\ ~SeesAbort(j)
  /\ jobs' = jobs \ Due
  /\ IF Stores(j, sizes)
     THEN job' = Untimed(Due, j, Ended(j, "complete")) /\ Keep(Due, Added(j, sizes))
     ELSE job' = Untimed(Due, j, Ended(j, "failed")) /\ Keep(Due, {})
  /\ UNCHANGED <<closing, awaited>>

\* captureWebsite returns although it was aborted.
Discard(j) ==
  /\ job[j].run = "running" /\ SeesAbort(j)
  /\ job' = [job EXCEPT ![j] = Ended(j, "cancelled")]
  /\ UNCHANGED <<jobs, resources, usedBytes, closing, awaited>>

----------------------------------------------------------------------------
(* The clock, the timers and the end of close()                           *)

Tick ==
  /\ \E j \in Jobs : job[j].left > 0
  /\ job' = [j \in Jobs |-> [job[j] EXCEPT !.left = IF @ > 0 THEN @ - 1 ELSE @]]
  /\ UNCHANGED <<jobs, resources, usedBytes, closing, awaited>>

\* Mutant: the timer removes nothing.
NoneFired(j) == {}
\* What the timer of j removes: nothing once the Map does not hold the job.
Fired(j) == {j} \cap jobs

Timer(j) ==
  /\ job[j].timer /\ Expired(j)
  /\ job' = [job EXCEPT ![j].timer = FALSE]
  /\ jobs' = jobs \ Fired(j)
  /\ Keep(Fired(j), {})
  /\ UNCHANGED <<closing, awaited>>

\* The rest of close().  A job cancelled before is not awaited and may run on.
CloseFinish ==
  /\ closing = "awaiting"
  /\ \A j \in awaited : job[j].run = "ended"
  /\ job' = [j \in Jobs |-> [job[j] EXCEPT !.timer = @ /\ j \notin jobs]]
  /\ jobs' = {} /\ resources' = {} /\ usedBytes' = 0
  /\ closing' = "closed"
  /\ UNCHANGED awaited

CaptureEnds(j) == CaptureFails(j) \/ Discard(j) \/ \E sizes \in Screenshots : Completes(j, sizes)

PreviewNext ==
  \/ Look \/ Close \/ CloseFinish \/ Tick
  \/ \E j \in Jobs : Request(j) \/ Cancel(j) \/ Start(j) \/ CaptureEnds(j) \/ Timer(j)

PreviewSpec == InitPreviews /\ [][PreviewNext]_previewVars

\* Microtasks and promise callbacks run, a capture is ended by its own
\* deadline (src/src/chrome-capture.js), time passes and timers fire.
PreviewFairness ==
  /\ WF_previewVars(Tick) /\ WF_previewVars(CloseFinish)
  /\ \A j \in Jobs : WF_previewVars(Start(j)) /\ WF_previewVars(CaptureEnds(j)) /\ WF_previewVars(Timer(j))

FairPreviewSpec == PreviewSpec /\ PreviewFairness

----------------------------------------------------------------------------
(* Properties                                                              *)

\* The types; only a job that ended has a timer.
PreviewTypeOK ==
  /\ job \in [Jobs -> [status : {"none", "complete", "failed", "cancelled"} \cup ActiveStatus,
                       aborted : BOOLEAN, run : {"pending", "running", "ended"},
                       left : Unset .. Ttl, timer : BOOLEAN]]
  /\ jobs \subseteq Jobs /\ awaited \subseteq Jobs
  /\ \A r \in resources : r.captureId \in Jobs /\ {r.index, r.size} \subseteq Nat
  /\ closing \in {"open", "awaiting", "closed"}
  /\ \A j \in jobs : job[j].timer => job[j].run = "ended"

\* The counter of bytes is the size of what is stored, within the limits, and
\* what is stored is what the complete jobs of the Map publish: nothing is
\* kept that no expiry will remove, and publicJob finds every resource.
StoreAccounted ==
  /\ usedBytes = Bytes(resources) /\ usedBytes <= MaxBytes
  /\ Cardinality(resources) <= MaxResources
  /\ {r.captureId : r \in resources} = {j \in jobs : job[j].status = "complete"}

\* A cancelled job never stores anything, however late its capture returns,
\* and after close() there are no bytes, whatever runs on.
AbandonedHoldsNothing ==
  \A r \in resources : ~job[r.captureId].aborted /\ closing # "closed"

\* Until close() is done, a capture that runs, a cancelled one too, keeps its
\* job in the Map, so that maxJobs also bounds the browsers at work, which
\* maxActiveJobs does not.
RunsInMap ==
  closing # "closed" =>
    /\ {j \in Jobs : job[j].run # "ended"} \subseteq jobs
    /\ Cardinality(jobs) <= MaxJobs /\ Cardinality(Active) <= MaxActiveJobs

\* The store and the Map are sound, whichever way jobs ended.
StoreSound == PreviewTypeOK /\ StoreAccounted /\ AbandonedHoldsNothing /\ RunsInMap

\* A published preview can be read until it expires or the service closes:
\* no other call, cleanup or timer removes it.
RemovedOnlyWhenDue ==
  [][\A r \in resources \ resources' : job[r.captureId].left = 0 \/ closing' = "closed"]_previewVars

\* Every job leaves the Map, and its bytes with it, though nobody calls.
PreviewsExpire ==
  \A j \in Jobs : j \in jobs ~> j \notin jobs
=============================================================================
