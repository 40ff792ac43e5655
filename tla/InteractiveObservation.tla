------------------------ MODULE InteractiveObservation ------------------------
(***************************************************************************)
(* What an Interactive Auto capture does with a loaded page: the guided    *)
(* clicks (src/src/guided-executor.js), the samples of the canvas and the  *)
(* Moments chosen among them (src/src/interactive-auto.js).  An image is   *)
(* a number and the visual change between two images their distance.       *)
(* ChromeCapture composes these steps with the capture.                    *)
(***************************************************************************)
EXTENDS Naturals, Integers, Sequences, FiniteSetsExt

CONSTANTS MaxActions,      \* the guided actions of the request (GUIDED_LIMITS.maxActions)
          MaxNavigations,  \* GUIDED_LIMITS.maxNavigations
          MaxMoves,        \* bound: how often the page moves
          Totals,          \* what ceil(observationMs / sampleIntervalMs) + 1 may be
          Images,          \* what a screenshot may show
          StabilitySamples, Threshold,
          Representatives  \* representativeMoments - 1

ASSUME ObservationSettings ==
  /\ Images \subseteq Nat
  /\ {MaxActions, MaxNavigations, MaxMoves, Threshold, Representatives} \subseteq Nat
  /\ Totals \subseteq Nat \ {0} /\ StabilitySamples \in Nat \ {0, 1}

VARIABLES page,            \* where the page is: origin and document
          guided,          \* the run of the guided actions: what it awaits, and flight,
                           \* what became of the evaluation it sent last; home is the
                           \* origin of the first snapshot, strays the clicks made
                           \* elsewhere, returns how often the page came back to it
          obs              \* the sampling loop

observationVars == <<page, guided, obs>>

Start == [origin |-> "own", doc |-> "first", hash |-> 0]

NotGuided == [snapshot |-> Start, home |-> "own", records |-> <<>>, navigations |-> 0,
              clicks |-> 0, strays |-> 0, returns |-> 0, moves |-> 0,
              awaits |-> "first", flight |-> "none"]

InitObservation ==
  /\ page = Start
  /\ guided = NotGuided
  /\ \E total \in Totals :
       obs = [total |-> total, index |-> 0, samples |-> <<>>, failed |-> FALSE]

----------------------------------------------------------------------------
(* Guided actions.  Every evaluation is awaited; the page may move between *)
(* two of them, by its own script or by the click, and come back.          *)

\* The first place, a fragment of it, another document, another origin.
Places == {Start, [Start EXCEPT !.hash = 1], [Start EXCEPT !.doc = "second"],
           [Start EXCEPT !.origin = "other"]}

PageMoves(to) ==
  /\ guided.moves < MaxMoves /\ to # page
  /\ page' = to
  /\ LET back == page.origin # guided.home /\ to.origin = guided.home IN
     guided' = [guided EXCEPT !.moves = @ + 1, !.returns = IF back THEN @ + 1 ELSE @]
  /\ UNCHANGED obs

Records == guided.records
Ended(outcome) == [guided EXCEPT !.records = Append(@, outcome), !.awaits = "over"]

\* The first snapshot; a failure is recorded for the first action, if there is one.
FirstSnapshot(ok) ==
  /\ guided.awaits = "first"
  /\ guided' = IF MaxActions = 0 THEN [guided EXCEPT !.awaits = "over"]
               ELSE IF ok THEN [guided EXCEPT !.snapshot = page, !.home = page.origin,
                                                   !.returns = 0, !.awaits = "click"]
               ELSE Ended("failed")
  /\ UNCHANGED <<page, obs>>

\* The next action is sent to the page as it is now.
SendAction ==
  /\ guided.awaits = "click"
  /\ guided' = [guided EXCEPT !.awaits = "reply", !.flight = "sent"]
  /\ UNCHANGED <<page, obs>>

Clicked ==
  [guided EXCEPT !.clicks = @ + 1, !.strays = IF page.origin # guided.home THEN @ + 1 ELSE @]

\* The page runs what it was sent, though nobody may await it any more: it clicks, or finds
\* no button, several, or one in a form.
Evaluated ==
  /\ guided.flight = "sent"
  /\ \/ guided' = [Clicked EXCEPT !.flight = "clicked"]
     \/ guided' = [guided EXCEPT !.flight = "blocked"]
  /\ UNCHANGED <<page, obs>>

Replied ==
  /\ guided.awaits = "reply" /\ guided.flight \in {"clicked", "blocked"}
  /\ guided' = IF guided.flight = "clicked"
               THEN [guided EXCEPT !.records = Append(@, "executed"), !.awaits = "snapshot",
                                   !.flight = "none"]
               ELSE [Ended("blocked") EXCEPT !.flight = "none"]
  /\ UNCHANGED <<page, obs>>

\* The capture is over or the actions took too long; or the evaluation fails, or its timer
\* is first, whatever the page does of it.
ActionFails ==
  /\ guided.awaits \in {"click", "reply"}
  /\ \/ guided' = Ended("failed")
     \/ guided.awaits = "click" /\ guided' = Ended("blocked")
  /\ UNCHANGED <<page, obs>>

\* Mutant: the document is compared, and its origin is not.
SameDocument(before, now) == before.doc = now.doc
\* The origin must be the same, then path and search.
StaysThere(before, now) == before.origin = now.origin /\ SameDocument(before, now)

\* The snapshot after a click: the record is amended when the page left its document.
NextSnapshot(ok) ==
  /\ guided.awaits = "snapshot"
  /\ LET moved == page # guided.snapshot
         navigations == guided.navigations + IF moved THEN 1 ELSE 0
         stays == ok /\ StaysThere(guided.snapshot, page) /\ navigations <= MaxNavigations
         last == Len(Records)
     IN guided' =
          IF stays THEN [guided EXCEPT !.snapshot = page, !.navigations = navigations,
                                       !.awaits = IF last = MaxActions THEN "over" ELSE "click"]
          ELSE [guided EXCEPT !.awaits = "over",
                              !.records[last] = IF ok THEN "blocked" ELSE "failed"]
  /\ UNCHANGED <<page, obs>>

\* Where the page is matters no more once the actions are over and none is in flight.
Unfollowed ==
  /\ IF guided.flight = "sent" THEN UNCHANGED <<page, guided>>
     ELSE /\ page' = Start
          /\ guided' = [guided EXCEPT !.snapshot = Start, !.navigations = 0, !.moves = 0,
                                      !.flight = "none"]
  /\ UNCHANGED obs

----------------------------------------------------------------------------
(* Sampling                                                                *)

Distance(a, b) == IF a < b THEN b - a ELSE a - b

SamplingOver == obs.index = obs.total \/ obs.failed

\* One turn of the loop: a canvas is selected and shot, or there is none.
Sample ==
  /\ ~SamplingOver
  /\ \/ \E image \in Images :
          obs' = [obs EXCEPT !.index = @ + 1,
                             !.samples = Append(@, [index |-> obs.index, image |-> image])]
     \/ obs' = [obs EXCEPT !.index = @ + 1]
  /\ UNCHANGED <<page, guided>>

\* An evaluation or a screenshot fails, or the screenshots exceed the byte limit.
SampleFails ==
  /\ ~SamplingOver
  /\ obs' = [obs EXCEPT !.failed = TRUE]
  /\ UNCHANGED <<page, guided>>

Samples == obs.samples
Change(i) == IF i = 1 THEN 0 ELSE Distance(Samples[i - 1].image, Samples[i].image)

\* findStableInitial: the end of the first window whose later samples hardly change.
StableEnds ==
  {end \in StabilitySamples .. Len(Samples) :
     \A i \in end - StabilitySamples + 2 .. end : Change(i) <= Threshold}
Initial == IF StableEnds = {} THEN 1 ELSE Min(StableEnds)

Score(chosen, i) == Min({Distance(Samples[j].image, Samples[i].image) : j \in chosen})

\* A candidate of score 0 is skipped.
Candidates(chosen) ==
  {i \in DOMAIN Samples : i > Initial /\ i \notin chosen /\ Score(chosen, i) # 0}

\* The candidate farthest from what is chosen, the earliest of several.
Best(chosen) ==
  Min({i \in Candidates(chosen) :
         \A j \in Candidates(chosen) : Score(chosen, i) >= Score(chosen, j)})

\* selectRepresentativeMoments: Chosen[n] after n turns of its loop.
Chosen[n \in 0 .. Representatives] ==
  IF n = 0 THEN {Initial}
  ELSE LET chosen == Chosen[n - 1]
       IN IF Candidates(chosen) = {} THEN chosen ELSE chosen \cup {Best(chosen)}

\* The samples delivered, in the order of their indices.
Moments == IF Samples = <<>> THEN {} ELSE Chosen[Representatives]

\* Without a sample a failure is thrown.
ObservationThrows == Samples = <<>> /\ obs.failed

----------------------------------------------------------------------------
ObservationTypeOK ==
  /\ page \in Places
  /\ guided.snapshot \in Places /\ guided.home \in {"own", "other"}
  /\ guided.records \in Seq({"executed", "blocked", "failed"})
  /\ {guided.navigations, guided.clicks, guided.strays, guided.returns, guided.moves}
       \subseteq Nat
  /\ guided.awaits \in {"first", "click", "reply", "snapshot", "over"}
  /\ guided.flight \in {"none", "sent", "clicked", "blocked"}
  /\ obs.total \in Totals /\ obs.index \in 0 .. obs.total /\ obs.failed \in BOOLEAN
  /\ obs.samples \in Seq([index : 0 .. obs.total - 1, image : Images])

\* Whatever the page does between two evaluations, every click but one that guided actions
\* make outside the origin they started in took a return of the page to that origin, where
\* the next snapshot found it; they click at most MaxActions times, an action recorded as
\* executed was clicked, and at most the last click is not recorded as one.
ClicksContained ==
  LET executed == Cardinality({i \in DOMAIN Records : Records[i] = "executed"}) IN
  /\ guided.strays <= guided.returns + 1
  /\ Len(Records) <= MaxActions
  /\ executed <= guided.clicks /\ guided.clicks <= executed + 1

\* The Moments differ pairwise, come after the initial one, are no more than asked, and
\* fewer only when every later sample looks like one of them.
MomentsRepresentative ==
  SamplingOver /\ Samples # <<>> =>
    /\ Cardinality(Moments) <= Representatives + 1
    /\ \A i, j \in Moments : i # j => Samples[i].image # Samples[j].image
    /\ \A i \in Moments : Samples[i].index >= Samples[Initial].index
    /\ Cardinality(Moments) <= Representatives =>
         \A i \in DOMAIN Samples : i > Initial =>
           \E j \in Moments : Samples[i].image = Samples[j].image
=============================================================================
