--------------------------- MODULE ServerLifecycle ---------------------------
(***************************************************************************)
(* The processes over one database from launch to exit: the HTTP server    *)
(* (src/server.mjs) and the MCP server (src/mcp-server.mjs).  Each runs    *)
(* the migrations, becomes ready or failed, serves requests that leave     *)
(* jobs behind, and on shutdown closes analysisService, captureScheduler   *)
(* and the repository in that order.  The HTTP server also cleans the      *)
(* media store once it is ready and at an interval from then on.           *)
(***************************************************************************)
EXTENDS Migrations

CONSTANTS Http,            \* the processes that are HTTP servers
          MaxCrashes       \* bound: the processes that die

ASSUME HttpProcesses == Http \subseteq Processes
ASSUME CrashBound == MaxCrashes \in Nat

VARIABLES srv, crashes

vars == <<lock, ledger, schema, mig, faults, srv, crashes>>

Services == {"analysis", "capture"}

Fresh ==
  [state |-> "initializing",  \* initializationState, or the memoised initialization
   cleanups |-> 0,            \* store.cleanupMedia calls that run
   first |-> FALSE,           \* initialization awaits the first cleanup
   timer |-> FALSE,           \* cleanupTimer is an interval that was not cleared
   door |-> "open",           \* listening (stdin is open), closing, closed
   request |-> FALSE,         \* a request is being served
   left |-> FALSE,            \* a handler runs on whose client has left
   jobs |-> {},               \* services with a job of an earlier request
   late |-> {},               \* services with a job started after their close()
   chain |-> "none",          \* what close() waits for
   early |-> FALSE]           \* closed before the initialization had settled

Init ==
  /\ InitMigrations
  /\ srv = [p \in Processes |-> Fresh]
  /\ crashes = 0

StoreOpen(p) == srv[p].chain \in {"none", "analysis", "scheduler"}
Unaffected == UNCHANGED <<migrationVars, crashes>>

----------------------------------------------------------------------------
(* Starting                                                                *)

Launch(p) ==
  /\ StoreOpen(p)
  /\ Connect(p)
  /\ UNCHANGED <<srv, crashes>>

Migrate(p) == MigrationStep(p) /\ UNCHANGED <<srv, crashes>>
MigrateBadly(p) == MigrationFault(p) /\ UNCHANGED <<srv, crashes>>

\* initialize() ends with readiness(), which fails when the repository is closed; an
\* HTTP server then awaits its first cleanup before it sets the interval.
Ready(p) ==
  /\ srv[p].state = "initializing" /\ mig[p].phase = "done" /\ StoreOpen(p)
  /\ srv' = IF p \in Http
            THEN [srv EXCEPT ![p].state = "ready", ![p].first = TRUE, ![p].cleanups = 1]
            ELSE [srv EXCEPT ![p].state = "ready"]
  /\ Unaffected

NotReady(p) ==
  /\ srv[p].state = "initializing" /\ mig[p].phase = "done"
  /\ \/ ~StoreOpen(p) /\ UNCHANGED faults
     \/ StoreOpen(p) /\ faults < MaxFaults /\ faults' = faults + 1
  /\ srv' = [srv EXCEPT ![p].state = "failed"]
  /\ UNCHANGED <<lock, ledger, schema, mig, crashes>>

MigrationsFailed(p) ==
  /\ srv[p].state = "initializing" /\ mig[p].phase = "failed"
  /\ srv' = [srv EXCEPT ![p].state = "failed"]
  /\ Unaffected

----------------------------------------------------------------------------
(* Cleanup                                                                 *)

\* cleanupMedia answers or throws; the interval is set after the first, on a server
\* that may have closed meanwhile.
CleanupEnds(p) ==
  /\ srv[p].cleanups > 0
  /\ srv' = [srv EXCEPT ![p].cleanups = @ - 1, ![p].first = FALSE,
                        ![p].timer = IF srv[p].first THEN TRUE ELSE @]
  /\ Unaffected

CleanupIdle(p) == srv[p].cleanups = 0

\* The interval fires.  On a closed repository cleanupMedia fails at its query.
Tick(p) ==
  /\ srv[p].timer /\ srv[p].state = "ready" /\ CleanupIdle(p) /\ StoreOpen(p)
  /\ srv[p].cleanups < 2
  /\ srv' = [srv EXCEPT ![p].cleanups = @ + 1]
  /\ Unaffected

----------------------------------------------------------------------------
(* Serving                                                                 *)

\* api() is refused with 503 unless ready; an MCP request awaits initialize().
Serves(p) == srv[p].state = "ready"

Request(p) ==
  /\ srv[p].door = "open" /\ Serves(p) /\ ~srv[p].request
  /\ srv' = [srv EXCEPT ![p].request = TRUE]
  /\ Unaffected

\* The services whose close() has been called, and has looked at their jobs.
ClosedServices(p) ==
  CASE srv[p].chain = "none" -> {}
    [] srv[p].chain = "analysis" -> {"analysis"}
    [] OTHER -> Services

\* What a handler leaves behind: POST /api/analyses and the commits that create
\* References start a job that reads and commits after it.  close() of a service does
\* not refuse the job of a handler that is past its check, and waits for none of them.
HandlerEnds(p, request, left) ==
  /\ \E js \in {{}} \cup {{j} : j \in Services} :
       srv' = [srv EXCEPT ![p].request = request, ![p].left = left,
                          ![p].jobs = @ \cup (js \ ClosedServices(p)),
                          ![p].late = @ \cup (js \cap ClosedServices(p))]
  /\ Unaffected

\* The handler answers.
Respond(p) == srv[p].request /\ HandlerEnds(p, FALSE, srv[p].left)

\* The client disconnects; its handler does not learn of it.  (runStdio awaits the
\* handler of each line.)  Bound: one such handler at a time.
ClientLeaves(p) ==
  /\ p \in Http /\ srv[p].request /\ ~srv[p].left
  /\ srv' = [srv EXCEPT ![p].request = FALSE, ![p].left = TRUE]
  /\ Unaffected

LeftEnds(p) == srv[p].left /\ HandlerEnds(p, srv[p].request, FALSE)

JobEnds(p) ==
  \E j \in srv[p].jobs :
    /\ srv' = [srv EXCEPT ![p].jobs = @ \ {j}]
    /\ Unaffected

LateEnds(p) ==
  \E j \in srv[p].late :
    /\ srv' = [srv EXCEPT ![p].late = @ \ {j}]
    /\ Unaffected

----------------------------------------------------------------------------
(* Stopping                                                                *)

\* server.close(): by its caller at any time, by startRefloomServer when the
\* initialization failed; the end of stdin, which runStdio reads once it is settled.
CloseServer(p) ==
  /\ srv[p].door = "open"
  /\ p \in Http \/ srv[p].state # "initializing"
  /\ srv' = [srv EXCEPT ![p].door = "closing"]
  /\ Unaffected

\* Mutant: the interval is left running.
TimerKept(p) == srv[p].timer
TimerAfterClose(p) == FALSE

\* node emits 'close' when every connection has ended, answered or left by its client;
\* runStdio leaves its loop between two requests.
ConnectionsOver(p) == ~srv[p].request

\* 'close': the interval is cleared, if it was set, and the chain starts.
Closed(p) ==
  /\ srv[p].door = "closing" /\ ConnectionsOver(p)
  /\ srv' = [srv EXCEPT ![p].door = "closed", ![p].timer = TimerAfterClose(p),
                        ![p].chain = "analysis",
                        ![p].early = IF srv[p].first \/ srv[p].state = "initializing"
                                     THEN TRUE ELSE @]
  /\ Unaffected

\* Mutant: the chain does not wait for the jobs a service aborts.
Unsettled(p, service) == TRUE
\* close() of a service aborts its jobs and waits until all have settled.
Settled(p, service) == service \notin srv[p].jobs

Advance(p, from, to) ==
  /\ srv[p].chain = from
  /\ srv' = [srv EXCEPT ![p].chain = to]
  /\ Unaffected

CloseAnalysis(p) == Settled(p, "analysis") /\ Advance(p, "analysis", "scheduler")
CloseScheduler(p) == Settled(p, "capture") /\ Advance(p, "scheduler", "store")
\* pool.end() waits for the client the migrations hold, and for those of the handlers,
\* jobs and cleanups that hold one then; those that ask for one later are refused.
EndPool(p) == ~HasClient(p) /\ Advance(p, "store", "over")

Crash(p) ==
  /\ crashes < MaxCrashes /\ mig[p].phase # "off"
  /\ Die(p)
  /\ srv' = [srv EXCEPT ![p] = Fresh]
  /\ crashes' = crashes + 1
  /\ UNCHANGED faults

----------------------------------------------------------------------------
Start(p) == Launch(p) \/ Migrate(p) \/ Ready(p) \/ NotReady(p) \/ MigrationsFailed(p)
Work(p) ==
  CleanupEnds(p) \/ Respond(p) \/ LeftEnds(p) \/ JobEnds(p) \/ LateEnds(p)
Stop(p) == Closed(p) \/ CloseAnalysis(p) \/ CloseScheduler(p) \/ EndPool(p)
Environment(p) ==
  \/ MigrateBadly(p) \/ Tick(p) \/ Request(p) \/ ClientLeaves(p) \/ CloseServer(p)
  \/ Crash(p)

Next == \E p \in Processes : Start(p) \/ Work(p) \/ Stop(p) \/ Environment(p)

Spec == Init /\ [][Next]_vars

\* What runs on the repository and may hold a client of its pool.
Held(p) == srv[p].left \/ srv[p].late # {} \/ srv[p].cleanups > 0

\* PostgreSQL answers the queries of a migration and hands the lock on; the process takes
\* its own steps, and pool.end() ends when no client is out; a server whose initialization
\* failed closes.  Nothing is promised of what waits on a query or an upload of its own
\* without a timeout: a request, a job or a cleanup may never end.
Fairness ==
  \A p \in Processes :
    /\ WF_vars(Migrate(p)) /\ WF_vars(Ready(p) \/ NotReady(p) \/ MigrationsFailed(p))
    /\ WF_vars(Closed(p) \/ CloseAnalysis(p) \/ CloseScheduler(p))
    /\ WF_vars(~Held(p) /\ EndPool(p))
    /\ WF_vars(srv[p].state = "failed" /\ CloseServer(p))

FairSpec == Spec /\ Fairness

----------------------------------------------------------------------------
(* Properties                                                              *)

TypeOK ==
  /\ MigrationTypeOK
  /\ srv \in [Processes ->
       [state : {"initializing", "ready", "failed"}, cleanups : 0 .. 2,
        first : BOOLEAN, timer : BOOLEAN, door : {"open", "closing", "closed"},
        request : BOOLEAN, left : BOOLEAN, jobs : SUBSET Services,
        late : SUBSET Services,
        chain : {"none", "analysis", "scheduler", "store", "over"}, early : BOOLEAN]]
  /\ crashes \in 0 .. MaxCrashes

\* The runners of all processes keep schema and ledger right, across crashes.
MigrationsSound == TypeOK /\ AppliedOnceInOrder /\ DoneMeansCurrent

\* No handler and no job runs before every migration of its release is recorded; and
\* none meets a repository that began to close, but a handler whose client left and the
\* jobs such a handler starts at a service that is closed: 'close' waits for connections,
\* not for handlers (docs/ISSUE_5_PERSISTENCE_DESIGN.md:123-124 and 149-150).
WorkMeetsReadyStore ==
  \A p \in Processes :
    /\ srv[p].request \/ srv[p].jobs # {} => StoreOpen(p)
    /\ srv[p].request \/ srv[p].left \/ srv[p].jobs # {} \/ srv[p].late # {} =>
         \A v \in DOMAIN Release[p] : Row(p, v) \in ledger

\* One cleanup at a time, and an interval that outlives its server only when the
\* server closed before the first cleanup was over: cleanupTimer is assigned after
\* the 'close' listener looked at it.
CleanupOrderly ==
  \A p \in Processes :
    /\ srv[p].cleanups <= 1
    /\ srv[p].timer /\ srv[p].door = "closed" => srv[p].early

\* A process that asks for the lock is ready or failed at last, though others hold
\* the lock, fail or die with it, unless it dies.
StartsSettle ==
  \A p \in Processes : mig[p].phase = "locking" ~>
    (srv[p].state # "initializing" \/ mig[p].phase = "off")

\* A server told to close closes its repository at last, in whatever state it was,
\* unless it dies or work that has no timeout never ends.
Busy(p) == srv[p].request \/ srv[p].jobs # {} \/ Held(p)

StopsSettle ==
  \A p \in Processes :
    \/ srv[p].door = "closing" ~> (srv[p].chain = "over" \/ mig[p].phase = "off")
    \/ <>[]Busy(p)

\* No process stays on its way up or down.
ProcessesSettle == StartsSettle /\ StopsSettle
=============================================================================
