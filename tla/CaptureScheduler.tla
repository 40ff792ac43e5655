--------------------------- MODULE CaptureScheduler ---------------------------
(***************************************************************************)
(* CaptureScheduler: the bounded queue of capture jobs of one server or    *)
(* MCP process.  JavaScript runs one callback at a time, so each action is *)
(* one synchronous run of the class: a call from a request handler, the    *)
(* #drain microtask an enqueue leaves behind, the callback that stores a   *)
(* capture's result and, in a later microtask, the one that frees its slot.*)
(* Between the last two a waiter resumed by the result may call again.     *)
(*                                                                         *)
(* Jobs are numbered as they are created.  The Map of jobs iterates in     *)
(* insertion order and the queue is first in, first out; both orders are   *)
(* the order of the numbers, so both are sets here.                        *)
(***************************************************************************)
EXTENDS Integers, FiniteSets

CONSTANTS
    References,
    NoReference,        \* of a job not created yet
    MaxConcurrent, MaxQueue, HistoryLimit,
    MaxJobs             \* bound of the model: jobs accepted in a behaviour

ASSUME LimitsAssumption ==
    /\ MaxConcurrent \in Nat \ {0} /\ MaxQueue \in Nat \ {0}
    /\ HistoryLimit \in Nat \ {0} /\ MaxJobs \in Nat
    /\ NoReference \notin References

Jobs == 1..MaxJobs
ActiveStatus == {"queued", "capturing"}

VARIABLES
    ref,                \* of each job: its Reference
    status,             \* "none", queued, capturing, or "over" with any result
    aborted,            \* jobs whose controller was aborted
    jobs,               \* the Map: the job known for each Reference
    queue,
    active,             \* slots taken
    settling,           \* resolved jobs whose finally callback is still to run
    draining,           \* a #drain microtask is queued
    closing,            \* close() was called
    awaited             \* the jobs close() waits for

vars == <<ref, status, aborted, jobs, queue, active, settling, draining, closing, awaited>>

Init ==
    /\ ref = [j \in Jobs |-> NoReference]
    /\ status = [j \in Jobs |-> "none"]
    /\ aborted = {} /\ jobs = {} /\ queue = {} /\ active = 0
    /\ settling = {} /\ draining = FALSE /\ closing = FALSE /\ awaited = {}

With(s) == {j \in Jobs : status[j] = s}
Capturing == With("capturing")
IsActive(j) == status[j] \in ActiveStatus

TrimOldest(known, st) ==                                        \* mutant
    {j \in known : Cardinality({k \in known : k < j}) >= Cardinality(known) - HistoryLimit}

\* #trimHistory: the oldest jobs that are over leave the Map until it is
\* within the limit.
Trim(known, st) ==
    LET over == {j \in known : st[j] \notin ActiveStatus}
        surplus == Cardinality(known) - HistoryLimit IN
    {j \in known : j \in over => Cardinality({k \in over : k < j}) >= surplus}

-----------------------------------------------------------------------------

\* The new job replaces the Reference's finished one.  Refusals change
\* nothing: CAPTURE_BUSY while that one is active, CAPTURE_QUEUE_FULL at the
\* limit.
Busy(r) == \E k \in jobs : ref[k] = r /\ IsActive(k)

Enqueue(j, r) ==
    /\ status[j] = "none" /\ \A k \in Jobs : k < j => status[k] # "none"
    /\ ~Busy(r)
    /\ Cardinality(queue) < MaxQueue
    /\ status' = [status EXCEPT ![j] = "queued"]
    /\ queue' = queue \cup {j}
    /\ jobs' = Trim({k \in jobs : ref[k] # r} \cup {j}, status')
    /\ ref' = [ref EXCEPT ![j] = r]
    /\ draining' = TRUE
    /\ UNCHANGED <<aborted, active, settling, closing, awaited>>

\* cancel: a queued job is over at once, a capture is only told to stop.
CancelQueued(j) ==
    /\ j \in jobs /\ status[j] = "queued"
    /\ aborted' = aborted \cup {j}
    /\ queue' = queue \ {j}
    /\ status' = [status EXCEPT ![j] = "over"]
    /\ jobs' = Trim(jobs, status')
    /\ UNCHANGED <<ref, active, settling, draining, closing, awaited>>

CancelCapturing(j) ==
    /\ j \in jobs /\ status[j] = "capturing"
    /\ aborted' = aborted \cup {j}
    /\ UNCHANGED <<ref, status, jobs, queue, active, settling, draining, closing, awaited>>

CloseCapturing == {j \in jobs : status[j] = "capturing"}        \* mutant
CloseCancels == {j \in jobs : IsActive(j)}

\* close cancels every active job of the Map and awaits them.  Its cancels
\* go from the oldest job to the newest and trim after each, which drops
\* what one trim at the end does.
Close ==
    /\ ~closing
    /\ closing' = TRUE
    /\ awaited' = CloseCancels
    /\ aborted' = aborted \cup CloseCancels
    /\ queue' = queue \ CloseCancels
    /\ status' = [j \in Jobs |->
         IF j \in CloseCancels /\ status[j] = "queued" THEN "over" ELSE status[j]]
    /\ jobs' = Trim(jobs, status')
    /\ UNCHANGED <<ref, active, settling, draining>>

\* With n slots free, #drain shifts every job that has fewer than n jobs to
\* start before it.
ToStart(j) == {i \in queue \ aborted : i < j}
DrainOneTooMany(n) == {j \in queue : Cardinality(ToStart(j)) <= n}  \* mutant
Shifted(n) == {j \in queue : Cardinality(ToStart(j)) < n}
Started(n) == Shifted(n) \ aborted

Drain(n) ==
    /\ queue' = queue \ Shifted(n)
    /\ status' = [j \in Jobs |-> IF j \in Started(n) THEN "capturing" ELSE status[j]]
    /\ active' = (MaxConcurrent - n) + Cardinality(Started(n))

DrainMicrotask ==
    /\ draining
    /\ draining' = FALSE
    /\ Drain(MaxConcurrent - active)
    /\ UNCHANGED <<ref, aborted, jobs, settling, closing, awaited>>

\* captureReference answers or throws, aborted or not.
Settle(j) ==
    /\ status[j] = "capturing"
    /\ status' = [status EXCEPT ![j] = "over"]
    /\ settling' = settling \cup {j}
    /\ UNCHANGED <<ref, aborted, jobs, queue, active, draining, closing, awaited>>

NoDrain(n) ==                                                   \* mutant
    /\ active' = MaxConcurrent - n
    /\ UNCHANGED <<queue, status>>
DrainFreed(n) == Drain(n)

\* finally: the slot is free, the history is trimmed, the queue drained.
Finish(j) ==
    /\ j \in settling
    /\ settling' = settling \ {j}
    /\ jobs' = Trim(jobs, status)
    /\ DrainFreed(MaxConcurrent - (active - 1))
    /\ UNCHANGED <<ref, aborted, draining, closing, awaited>>

-----------------------------------------------------------------------------

Next ==
    \/ Close \/ DrainMicrotask
    \/ \E j \in Jobs :
         \/ \E r \in References : Enqueue(j, r)
         \/ CancelQueued(j) \/ CancelCapturing(j) \/ Settle(j) \/ Finish(j)

Spec == Init /\ [][Next]_vars

\* Microtasks run, and captures end: the driver bounds the whole operation.
FairSpec ==
    /\ Spec
    /\ WF_vars(DrainMicrotask)
    /\ \A j \in Jobs : WF_vars(Settle(j)) /\ WF_vars(Finish(j))

-----------------------------------------------------------------------------
(* Properties.                                                             *)

TypeOK ==
    /\ ref \in [Jobs -> References \cup {NoReference}]
    /\ status \in [Jobs -> {"none", "over"} \cup ActiveStatus]
    /\ aborted \in SUBSET Jobs /\ jobs \in SUBSET Jobs /\ queue \in SUBSET Jobs
    /\ active \in 0..MaxConcurrent
    /\ settling \in SUBSET Jobs
    /\ draining \in BOOLEAN /\ closing \in BOOLEAN /\ awaited \in SUBSET Jobs

\* No more captures run at a time than the process has slots, whatever mix
\* of drains, cancellations and late finally callbacks came before.
ConcurrencyBounded == Cardinality(Capturing) <= MaxConcurrent

\* A job that is queued or capturing is the one the Map holds for its
\* Reference: status, cancel and close reach it, trimming the history has
\* not dropped it, and no second capture of the Reference is in progress.
ActiveJobsTracked ==
    \A j \in Jobs : IsActive(j) =>
        j \in jobs /\ \A k \in jobs : ref[k] = ref[j] => k = j

\* No wake-up is lost: while jobs wait, every slot is taken, or a drain is
\* on its way.
NoIdleSlot == queue # {} /\ ~draining => active = MaxConcurrent

\* close() finds every job in progress, however the Map was trimmed and its
\* entries replaced before: it awaits them all and leaves none queued.
CloseDrains ==
    [][closing' # closing =>
         \A j \in Jobs : IsActive(j) => j \in awaited' /\ status'[j] # "queued"]_vars

\* Every accepted job ends, and its waiters get an answer.
JobsSettle == \A j \in Jobs : status[j] = "queued" ~> status[j] = "over"

=============================================================================
