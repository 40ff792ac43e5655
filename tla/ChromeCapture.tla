----------------------------- MODULE ChromeCapture -----------------------------
(***************************************************************************)
(* One captureWebsite call (src/src/chrome-capture.js): the work, a chain  *)
(* of awaits that makes a profile, a proxy, a browser and a CDP socket and *)
(* then hands screenshots to onScreenshot; the overall timer and the abort *)
(* signal, which may end the call while the work goes on; and cleanup(),   *)
(* which runs up to three times, each time over what the variables name    *)
(* by then: on abort, before the answer, and when the work has settled.    *)
(***************************************************************************)
EXTENDS CaptureProxy, InteractiveObservation

CONSTANTS Modes,           \* settings of the call: "scroll" stands for the fixed
                           \* plans, "auto" is Interactive Auto, "guided" with actions
          Traffic,         \* bound: the modes whose browser uses the proxy
          Watched,         \* bound: the modes that sample more than a little
          Plans            \* plans.length

ASSUME CaptureModes == /\ Modes \subseteq {"scroll", "auto", "guided"}
                       /\ Traffic \subseteq Modes /\ Watched \subseteq Modes
ASSUME PlanCount == Plans \in Nat \ {0}

VARIABLES mode,
          work,            \* what the work awaits, or "returned", "threw"
          profile, browser, cdp,
          cancelled, aborted,
          answer,          \* what the call does or did
          cleaner,         \* where each cleanup() is
          shots            \* the calls of onScreenshot

own == <<mode, work, profile, browser, cdp, cancelled, aborted, answer, cleaner, shots>>
vars == <<proxyVars, observationVars, own>>

Cleaners == {"abort", "final", "late"}
WorkOver == work \in {"returned", "threw"}
Answered == answer \in {"returned", "threw", "timed out"}

\* The signal may be aborted already.
Init ==
  /\ InitProxy /\ InitObservation
  /\ mode \in Modes /\ (mode \notin Watched => obs.total = Min(Totals))
  /\ aborted \in BOOLEAN /\ cancelled = aborted
  /\ work = "resolving" /\ answer = "pending"
  /\ profile = "none" /\ browser = "none" /\ cdp = "none"
  /\ cleaner = [k \in Cleaners |-> "off"]
  /\ shots = 0

Aside == UNCHANGED <<mode, cancelled, aborted, answer, cleaner>>

----------------------------------------------------------------------------
(* The work                                                                *)

\* Mutant: the work goes on though the call is over.
Regardless(next) == work' = next
\* active() throws once the capture was cancelled.
IfActive(next) == work' = IF cancelled THEN "threw" ELSE next

Throws == work' = "threw"

ResolveUrl ==
  /\ work = "resolving" /\ IfActive("finding")
  /\ Aside /\ UNCHANGED <<proxyVars, observationVars, profile, browser, cdp, shots>>

FindChrome ==
  /\ work = "finding" /\ IfActive("profile")
  /\ Aside /\ UNCHANGED <<proxyVars, observationVars, profile, browser, cdp, shots>>

\* The profile is made whoever cancelled meanwhile; then the proxy, if active.
MakeProfile ==
  /\ work = "profile"
  /\ profile' = "made"
  /\ IfActive("listening")
  /\ server' = IF work' = "threw" THEN server ELSE "starting"
  /\ Aside
  /\ UNCHANGED <<closed, sockets, conn, usedBytes, passed, died, observationVars, browser, cdp, shots>>

\* The server listens, though close() may have run; the browser is started if active.
ListenAndSpawn ==
  /\ work = "listening" /\ Listening
  /\ IfActive("connecting")
  /\ browser' \in IF work' = "threw" THEN {browser} ELSE {"none", "running"}
  /\ Aside
  /\ UNCHANGED <<closed, sockets, conn, usedBytes, passed, died, observationVars, profile, cdp, shots>>

\* A killed browser that has not exited yet may still answer the connection.
Connect ==
  /\ work = "connecting" /\ browser \in {"running", "killed"}
  /\ cdp' = "open"
  /\ IfActive("setup")
  /\ Aside /\ UNCHANGED <<proxyVars, observationVars, profile, browser, shots>>

\* A reply over the socket: none is delivered once close() was called on it.
Replies(state) == work = state /\ cdp = "open"

\* Once the page is read the loop of the mode begins; its first turn asks active().
Loop == CASE mode = "scroll" -> IfActive("shooting")
          [] mode = "auto" -> work' = "sampling"
          [] mode = "guided" -> work' = "guided"

\* Page.enable to Network events; navigation, load and readiness; diagnostics, metrics
\* and the URL the page ended at.
Prepare ==
  /\ \/ Replies("setup") /\ work' = "loading"
     \/ Replies("loading") /\ IfActive("reading")
     \/ Replies("reading") /\ Loop
  /\ Aside /\ UNCHANGED <<proxyVars, observationVars, profile, browser, cdp, shots>>

\* The reply of a screenshot is handed to onScreenshot without asking active() again.
Shoot ==
  /\ Replies("shooting")
  /\ work' = "storing" /\ shots' = shots + 1
  /\ Aside /\ UNCHANGED <<proxyVars, observationVars, profile, browser, cdp>>

\* An await fails, or its timer is over.
Fails ==
  /\ work \in {"resolving", "finding", "profile", "listening", "connecting", "setup",
               "loading", "reading", "shooting", "storing"}
  /\ Throws
  /\ server' = IF work = "listening" THEN "none" ELSE server
  /\ Aside
  /\ UNCHANGED <<closed, sockets, conn, usedBytes, passed, died, observationVars, profile, browser, cdp, shots>>

\* Guided actions turn every failure, cancellation included, into a record.  active() is
\* asked before an action is sent; replies come over the socket.
Guide ==
  /\ work = "guided"
  /\ \/ /\ cdp = "open" /\ UNCHANGED work
        /\ FirstSnapshot(TRUE) \/ (~cancelled /\ SendAction) \/ Replied \/ NextSnapshot(TRUE)
     \/ (FirstSnapshot(FALSE) \/ ActionFails \/ NextSnapshot(FALSE)) /\ UNCHANGED work
     \/ guided.awaits = "over" /\ Unfollowed /\ work' = "sampling"
  /\ Aside /\ UNCHANGED <<proxyVars, profile, browser, cdp, shots>>

\* A turn of the sampling loop asks active() first; a failure ends the loop, unless the
\* signal is aborted.
Observe ==
  /\ work = "sampling" /\ ~SamplingOver
  /\ \/ cancelled /\ Throws /\ UNCHANGED observationVars
     \/ ~cancelled /\ cdp = "open" /\ Sample /\ UNCHANGED work
     \/ SampleFails /\ work' = IF aborted THEN "threw" ELSE work
  /\ Aside /\ UNCHANGED <<proxyVars, profile, browser, cdp, shots>>

Planned == IF mode = "scroll" THEN Plans ELSE Cardinality(Moments)

\* The next Moment goes to onScreenshot, if active, or the work returns.
Deliver ==
  /\ work = "sampling" /\ SamplingOver
  /\ IF ObservationThrows THEN Throws
     ELSE IF Moments = {} THEN work' = "returned"
     ELSE IfActive("storing")
  /\ shots' = IF work' = "storing" THEN 1 ELSE shots
  /\ Aside /\ UNCHANGED <<proxyVars, observationVars, profile, browser, cdp>>

\* onScreenshot has committed: the next turn of the loop.
Stored ==
  /\ work = "storing"
  /\ \/ shots = Planned /\ work' = "returned" /\ UNCHANGED shots
     \/ /\ shots < Planned /\ mode = "scroll"
        /\ IfActive("shooting") /\ UNCHANGED shots
     \/ /\ shots < Planned /\ mode # "scroll"
        /\ IfActive("storing") /\ shots' = IF work' = "storing" THEN shots + 1 ELSE shots
  /\ Aside /\ UNCHANGED <<proxyVars, observationVars, profile, browser, cdp>>

----------------------------------------------------------------------------
(* Cleanup                                                                 *)

\* Mutant: the final cleanup is left to the one an abort began.
BeginsOnce(k) ==
  LET begun == \E j \in Cleaners : cleaner[j] # "off" IN
  /\ cdp' = IF ~begun /\ cdp = "open" THEN "closed" ELSE cdp
  /\ browser' = IF ~begun /\ browser = "running" THEN "killed" ELSE browser
  /\ cleaner' = [cleaner EXCEPT ![k] = IF begun THEN "done" ELSE "exit"]
\* cleanup() closes the socket and kills the browser before its first wait.
Begins(k) ==
  /\ cdp' = IF cdp = "open" THEN "closed" ELSE cdp
  /\ browser' = IF browser = "running" THEN "killed" ELSE browser
  /\ cleaner' = [cleaner EXCEPT ![k] = "exit"]

\* The browser has exited or a second has passed; a browser that was killed earlier
\* emits no second 'exit'.  Then the proxy, if there is one, is closed.
CloseProxyOf(k) ==
  /\ cleaner[k] = "exit"
  /\ \/ server = "none" /\ UNCHANGED proxyVars
     \/ server # "none" /\ CloseProxy
  /\ cleaner' = [cleaner EXCEPT ![k] = "draining"]
  /\ UNCHANGED <<observationVars, mode, work, profile, browser, cdp, cancelled, aborted, answer, shots>>

\* rm is called if the profile has a name by now; its failure is swallowed.
RemoveProfileOf(k) ==
  /\ cleaner[k] = "draining" /\ Drained
  /\ cleaner' = [cleaner EXCEPT ![k] = "done"]
  /\ profile' \in IF profile \in {"none", "removed"} THEN {profile} ELSE {"removed", "left"}
  /\ UNCHANGED <<proxyVars, observationVars, mode, work, browser, cdp, cancelled, aborted, answer, shots>>

Abort ==
  /\ answer = "pending" /\ ~cancelled
  /\ aborted' = TRUE /\ cancelled' = TRUE
  /\ Begins("abort")
  /\ UNCHANGED <<proxyVars, observationVars, mode, work, profile, answer, shots>>

\* The finally block: after the work, or when the overall timer is first.
Finally ==
  /\ answer = "pending"
  /\ answer' = IF WorkOver THEN "answering" ELSE "timing out"
  /\ cancelled' = TRUE
  /\ Begins("final")
  /\ UNCHANGED <<proxyVars, observationVars, mode, work, profile, aborted, shots>>

Answer ==
  /\ answer \in {"answering", "timing out"} /\ cleaner["final"] = "done"
  /\ answer' = IF answer = "timing out" THEN "timed out" ELSE work
  /\ UNCHANGED <<proxyVars, observationVars, mode, work, profile, browser, cdp, cancelled,
                 aborted, cleaner, shots>>

\* Mutant: nothing is cleaned when a work outlived its call.
Forgotten == FALSE
\* work.catch(...).finally(cleanup), attached before the answer.
Settles == Answered /\ WorkOver /\ cleaner["late"] = "off"

LateCleanup ==
  /\ Settles
  /\ Begins("late")
  /\ UNCHANGED <<proxyVars, observationVars, mode, work, profile, cancelled, aborted, answer, shots>>

----------------------------------------------------------------------------
(* The browser, its connections and its page                               *)

\* The browser exits, killed or by itself: its socket closes.
BrowserExits ==
  /\ browser \in {"running", "killed"}
  /\ browser' = "gone"
  /\ cdp' = IF cdp = "open" THEN "closed" ELSE cdp
  /\ UNCHANGED <<proxyVars, observationVars, mode, work, profile, cancelled, aborted, answer,
                 cleaner, shots>>

BrowserConnects ==
  /\ browser = "running" /\ mode \in Traffic /\ work \notin {"connecting", "setup"}
  /\ \E c \in Conns : Accept(c)
  /\ UNCHANGED <<observationVars, own>>

ProxyResolves == (\E c \in Conns : Resolved(c)) /\ UNCHANGED <<observationVars, own>>
ProxyCarries ==
  /\ \E c \in Conns : Chunk(c) \/ UpstreamEnds(c)
  /\ UNCHANGED <<observationVars, own>>
BrowserDisconnects == (\E c \in Conns : ClientLeaves(c)) /\ UNCHANGED <<observationVars, own>>

\* Until the browser has gone the page runs the evaluation in flight.  It moves as it likes;
\* how is followed while the next reply or that evaluation may still depend on it.
PageActs ==
  /\ browser \in {"running", "killed"}
  /\ \/ Evaluated
     \/ /\ (work = "guided" /\ cdp = "open") \/ guided.flight = "sent"
        /\ \E to \in Places : PageMoves(to)
  /\ UNCHANGED <<proxyVars, own>>

----------------------------------------------------------------------------
WorkStep ==
  \/ ResolveUrl \/ FindChrome \/ MakeProfile \/ ListenAndSpawn \/ Connect \/ Prepare \/ Shoot
  \/ Fails \/ Guide \/ Observe \/ Deliver \/ Stored
Cleanup == \E k \in Cleaners : CloseProxyOf(k) \/ RemoveProfileOf(k)

\* When the process has died nothing of it is left to act.
Next ==
  /\ ~died
  /\ \/ WorkStep \/ Abort \/ Finally \/ Answer \/ LateCleanup \/ Cleanup
     \/ BrowserExits \/ BrowserConnects \/ ProxyResolves \/ ProxyCarries \/ BrowserDisconnects
     \/ PageActs

Spec == Init /\ [][Next]_vars

\* mkdtemp and listen end, a wait of the work has a timer of its own or fails when the
\* socket closes, a killed browser exits and its connections with it; the overall timer
\* fires.  Nothing is promised of onScreenshot, which waits for the database.
Fairness ==
  /\ WF_vars(~died /\ work \notin {"setup", "reading", "storing"} /\ WorkStep)
  /\ WF_vars(~died /\ work # "storing" /\ cdp # "open" /\ WorkStep)
  /\ WF_vars(~died /\ Finally) /\ WF_vars(~died /\ Answer) /\ WF_vars(~died /\ LateCleanup)
  /\ WF_vars(~died /\ Cleanup)
  /\ WF_vars(~died /\ browser = "killed" /\ BrowserExits)
  /\ WF_vars(~died /\ ProxyResolves)
  /\ WF_vars(~died /\ browser # "running" /\ BrowserDisconnects)

FairSpec == Spec /\ Fairness

----------------------------------------------------------------------------
(* Properties                                                              *)

TypeOK ==
  /\ ProxyTypeOK /\ ObservationTypeOK
  /\ mode \in Modes /\ cancelled \in BOOLEAN /\ aborted \in BOOLEAN
  /\ work \in {"resolving", "finding", "profile", "listening", "connecting", "setup",
               "loading", "reading", "shooting", "guided", "sampling", "storing",
               "returned", "threw"}
  /\ profile \in {"none", "made", "removed", "left"}
  /\ browser \in {"none", "running", "killed", "gone"}
  /\ cdp \in {"none", "open", "closed"}
  /\ answer \in {"pending", "answering", "timing out", "returned", "threw", "timed out"}
  /\ cleaner \in [Cleaners -> {"off", "exit", "draining", "done"}]
  /\ shots \in Nat

NothingHeld ==
  /\ cdp # "open" /\ browser # "running"
  /\ server \in {"none", "stopped"} /\ \A c \in Conns : conn[c].upstream # "open"
  /\ profile # "made"

\* When the call has answered nothing is left of it, even if an abort had begun another
\* cleanup; after a timeout the work may go on, and nothing is left when it has been
\* cleaned up after (docs/WEBSITE_CAPTURE.md:93).
AnswerReleases ==
  Answered /\ (answer = "timed out" => cleaner["late"] = "done") => NothingHeld

\* Once cancelled, a capture starts no browser, hands no screenshot to onScreenshot and
\* sends no action, though replies were under way; the page may still run the one action
\* that was sent before, and no other.
QuietAfterCancel ==
  [][cancelled => /\ browser' = "running" => browser = "running"
                  /\ shots' = shots
                  /\ guided'.flight = "sent" => guided.flight = "sent"
                  /\ guided'.clicks # guided.clicks =>
                       guided.flight = "sent" /\ guided'.flight # "sent"]_vars

\* However a capture ends, it is answered, its browser exits and what it made is released,
\* but for a profile that rm could not remove; unless the process dies of a plain request
\* for which its proxy had no room.
EndsClean == <>[](died \/ (Answered /\ NothingHeld /\ browser # "killed"))

\* The proxy holds what its limits and its close allow.
ProxyContained == TypeOK /\ ClosedReachesNobody /\ SlotsAccounted /\ BudgetKept

\* The clicks and the Moments of an observation are what its record says.
ObservationTruthful == ClicksContained /\ MomentsRepresentative
=============================================================================
