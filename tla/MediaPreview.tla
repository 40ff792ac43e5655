----------------------------- MODULE MediaPreview -----------------------------
(***************************************************************************)
(* The preview controller of a card (src/src/media-preview.js): a slide    *)
(* show over the assets of a Reference that loads each when it is shown    *)
(* and drops the ones that cannot be.  The controller is a value; what a   *)
(* call or a callback makes of it is an operator.  LibraryView keeps one   *)
(* per card and interleaves their calls.                                   *)
(*                                                                         *)
(* Every start, stop, manual and failed takes a new generation: of what is *)
(* awaited at most one load belongs to the present one.                    *)
(***************************************************************************)
EXTENDS Naturals, Sequences, SequencesExt

CONSTANTS Assets           \* the images and videos of a Reference

ASSUME NotAnAsset == "poster" \notin Assets /\ "placeholder" \notin Assets

VARIABLES reducedMotion    \* options.reducedMotion, of the page

\* createMediaPreviewController over the ordered items; the poster is the first of
\* them, and has a URL if its media could be read.
Created(items, readable) ==
  [items |-> items, index |-> 1, active |-> FALSE, destroyed |-> FALSE,
   timer |-> "none",                          \* "dwell", "tick"
   load |-> {},                               \* the load of this generation, if any
   stale |-> {},                              \* the loads of others
   urls |-> [a \in Assets |-> IF readable /\ a = items[1] THEN "live" ELSE "none"],
   poster |-> items[1], posterFailed |-> ~readable,
   shown |-> IF readable THEN "poster" ELSE "placeholder",
   manual |-> FALSE]                          \* dataset.manual of the card's control

Has(k, a) == a \in ToSet(k.items)
Live(k) == {a \in Assets : k.urls[a] = "live"}

\* restorePoster of the card.
Restored(k) == [k EXCEPT !.shown = IF k.posterFailed THEN "placeholder" ELSE "poster"]

\* A new generation: what is awaited is stale, the timer is cancelled.
Renewed(k) ==
  [k EXCEPT !.timer = "none", !.load = {},
            !.stale = @ \cup {l.asset : l \in k.load}]

\* dropAsset: its URL is revoked and the index stays on its asset, or returns to the first.
Dropped(k, a) ==
  LET position == CHOOSE i \in DOMAIN k.items : k.items[i] = a
      rest == RemoveAt(k.items, position)
      moved == IF position < k.index THEN k.index - 1 ELSE k.index
  IN [k EXCEPT !.items = rest,
               !.urls[a] = IF @ = "live" THEN "revoked" ELSE @,
               !.index = IF moved > Len(rest) THEN 1 ELSE moved]

\* show({ asset, url }): the card mounts a new node.
Shown(k, a) ==
  [k EXCEPT !.index = CHOOSE i \in DOMAIN k.items : k.items[i] = a, !.shown = a]

\* stop(): the first item, or the poster, is shown again.
Stopped(k) ==
  IF ~k.active THEN k
  ELSE LET quiet == [Renewed(k) EXCEPT !.active = FALSE, !.index = 1, !.manual = FALSE]
       IN IF k.items = <<>> THEN quiet
          ELSE IF k.urls[k.items[1]] = "live" THEN [quiet EXCEPT !.shown = k.items[1]]
          ELSE Restored(quiet)

\* destroy(): stopped, and every URL it knows is revoked and forgotten.
Destroyed(k) == [Stopped(k) EXCEPT !.destroyed = TRUE, !.urls = [a \in Assets |-> "none"]]

Scheduled(k) == IF reducedMotion THEN k ELSE [k EXCEPT !.timer = "tick"]

\* Mutant: a show that skipped an asset that failed does not go on.
ContinuedUnlessFailed(k, then) == IF then \in {"manual", "failed"} THEN k ELSE Scheduled(k)
\* What follows an asset that was shown; manual() sets no timer.
Continued(k, then) == IF then = "manual" THEN k ELSE Scheduled(k)

\* showAsset: a URL it has is shown at once, another is loaded first.
Attempted(k, a, then, left) ==
  IF k.urls[a] = "live" THEN Continued(Shown(k, a), then)
  ELSE [k EXCEPT !.load = {[asset |-> a, then |-> then, left |-> left]}]

NextItem(k) == k.items[(k.index % Len(k.items)) + 1]

\* advance: the item after the present one, or the only one, which is not tried again.
Advanced(k, then) ==
  IF k.items = <<>> THEN k
  ELSE Attempted(k, NextItem(k), then, IF Len(k.items) = 1 THEN 0 ELSE Len(k.items))

\* What follows an asset that was not shown: showPoster tries the first item, advance the
\* next while any is left, failed() gives up.  No item stops the show, but the advance of a
\* timer that had one item only just returns.
Missed(k, then, left) ==
  IF k.items = <<>> THEN IF then = "tick" /\ left = 0 THEN k ELSE Stopped(k)
  ELSE CASE then = "begin" -> Attempted(k, k.items[1], then, left)
         [] then \in {"tick", "manual"} /\ left > 1 -> Attempted(k, NextItem(k), then, left - 1)
         [] then = "tick" /\ left <= 1 -> Scheduled(k)
         [] OTHER -> k

\* The load of this generation ends: shown, dropped, or of an item dropped meanwhile.
LoadEnded(k, load, ok) ==
  LET a == load.asset
      idle == [k EXCEPT !.load = {}]
  IN IF ok /\ Has(k, a) THEN Continued(Shown([idle EXCEPT !.urls[a] = "live"], a), load.then)
     ELSE Missed(IF Has(k, a) THEN Dropped(idle, a) ELSE idle, load.then, load.left)

\* The load of an older generation makes no URL and shows nothing.
StaleEnded(k, a) == [k EXCEPT !.stale = @ \ {a}]

Startable(k) == ~k.destroyed /\ ~k.active /\ k.items # <<>>
\* start(): the dwell time is awaited first.
Started(k) == [k EXCEPT !.active = TRUE, !.timer = "dwell"]

\* begin, after the dwell time, and the turn of an interval.
TimerFired(k) ==
  LET idle == [k EXCEPT !.timer = "none"]
  IN IF k.timer = "dwell" THEN Missed(idle, "begin", 1) ELSE Advanced(idle, "tick")

\* The control of the card stops what it started; else start({ immediate: true }), whose
\* first load is stale at once, and manual().
Clicked(k) ==
  LET stopped == Stopped(k)
      begun == [stopped EXCEPT !.active = TRUE, !.manual = TRUE,
                  !.stale = IF stopped.urls[stopped.items[1]] = "live" THEN @
                            ELSE @ \cup {stopped.items[1]}]
  IN IF k.manual \/ ~Startable(stopped) THEN stopped ELSE Advanced(begun, "manual")

\* failed(asset): dropped; if it was the present one of an active show, another follows.
AssetFailed(k, a) ==
  LET dropped == Dropped(k, a)
  IN IF ~k.active \/ k.items[k.index] # a THEN dropped
     ELSE IF dropped.items = <<>> THEN Stopped(dropped)
     ELSE Attempted(Renewed(dropped), dropped.items[dropped.index], "failed", 1)

\* The error event of a node of the asset, the one shown or an older one.
Erred(k, a, present) ==
  LET marked == IF a = k.poster THEN [k EXCEPT !.posterFailed = TRUE] ELSE k
      after == IF Has(marked, a) THEN AssetFailed(marked, a) ELSE marked
  IN IF present /\ after.shown = k.shown THEN Restored(after) ELSE after

----------------------------------------------------------------------------
Loads == [asset : Assets, then : {"begin", "tick", "manual", "failed"}, left : Nat]

IsController(k) ==
  /\ k.items \in Seq(Assets) /\ IsInjective(k.items) /\ k.index \in Nat \ {0}
  /\ {k.active, k.destroyed, k.posterFailed, k.manual} \subseteq BOOLEAN
  /\ k.timer \in {"none", "dwell", "tick"}
  /\ k.load \subseteq Loads /\ \A l, m \in k.load : l = m
  /\ k.stale \subseteq Assets /\ k.poster \in Assets
  /\ k.urls \in [Assets -> {"none", "live", "revoked"}]
  /\ k.shown \in Assets \cup {"poster", "placeholder"}

\* A destroyed controller is idle and has no URL; an idle one awaits no timer; a URL is
\* of an asset it still has.
Accounted(k) ==
  /\ k.destroyed => ~k.active /\ Live(k) = {}
  /\ ~k.active => k.timer = "none" /\ k.load = {}
  /\ \A a \in Live(k) : Has(k, a)

\* The asset a card shows, and the one its poster is of while the poster may be shown.
Media(k) == Assets \cap {k.shown, IF k.shown = "poster" \/ ~k.posterFailed THEN k.poster ELSE k.shown}

\* Until it is destroyed, a card shows no asset or poster whose URL was revoked, unless the
\* asset itself failed, and at rest it shows its poster or its first item.
ShowsWhatItMay(k) ==
  ~k.destroyed =>
    /\ \A a \in Media(k) : Has(k, a) => k.urls[a] = "live"
    /\ k.shown \in Assets /\ ~k.active => ~Has(k, k.shown) \/ k.shown = Head(k.items)

\* A show the user did not take over goes on, unless two of its assets have failed.
GoesOn(k, all) ==
  k.active /\ ~k.manual /\ ~reducedMotion /\ Len(k.items) + 1 >= all =>
    k.timer # "none" \/ k.load # {}
=============================================================================
