------------------------------ MODULE LibraryView ------------------------------
(***************************************************************************)
(* The library page (renderLibrary and its helpers in src/src/app.js): a   *)
(* render destroys the controllers of the page, then makes card after      *)
(* card, awaiting the media of each, and lists them when all are made.     *)
(* Renders are not ordered: each edit, filter or capture state starts one  *)
(* while another may await its media.  Every card here has several assets; *)
(* cards without a controller only own the URL of their image.             *)
(***************************************************************************)
EXTENDS MediaPreview

CONSTANTS Items,           \* the ordered preview assets of each card
          MaxRenders,      \* bound: the renders of the page
          MaxEvents        \* bound: what the user does, and nodes that fail

ASSUME CardsHaveItems ==
  /\ Items \in Seq(Seq(Assets))
  /\ \A i \in DOMAIN Items : Len(Items[i]) > 1 /\ IsInjective(Items[i])
ASSUME Bounds == MaxRenders \in Nat /\ MaxEvents \in Nat

VARIABLES rendering,       \* per render: the card it awaits
          ctl,             \* the controllers made, by render and card
          listed,          \* the render whose cards are in the page
          activeController,
          away,            \* another view, or no project, is shown
          events           \* how many there were

libraryVars == <<reducedMotion, rendering, ctl, listed, activeController, away, events>>

Renders == 1 .. MaxRenders
Cards == DOMAIN Items
NoPreview == <<0, 0>>
Made == DOMAIN ctl

InitLibrary ==
  /\ reducedMotion \in BOOLEAN
  /\ rendering = [r \in Renders |-> 0]
  /\ ctl = [c \in {} |-> 0]
  /\ listed = 0 /\ activeController = NoPreview /\ away = FALSE /\ events = 0

\* resetMediaPreviews: every controller there is is destroyed.
ResetPreviews ==
  /\ ctl' = [c \in Made |-> Destroyed(ctl[c])]
  /\ activeController' = NoPreview
  /\ UNCHANGED reducedMotion

\* renderLibrary begins.
Render(r) ==
  /\ rendering[r] = 0 /\ \A earlier \in 1 .. r - 1 : rendering[earlier] > 0
  /\ ResetPreviews /\ away' = FALSE
  /\ rendering' = [rendering EXCEPT ![r] = 1]
  /\ UNCHANGED <<listed, events>>

\* The media of the next card was read or not: its controller is made, whatever other
\* render began meanwhile, and the last card brings all of them into the page.
CardReady(r) ==
  LET i == rendering[r] IN
  /\ i \in Cards
  /\ \E readable \in BOOLEAN :
       ctl' = [c \in Made \cup {<<r, i>>} |->
                 IF c = <<r, i>> THEN Created(Items[i], readable) ELSE ctl[c]]
  /\ rendering' = [rendering EXCEPT ![r] = i + 1]
  /\ listed' = IF i = Len(Items) THEN r ELSE listed
  /\ UNCHANGED <<reducedMotion, activeController, away, events>>

Happens == events < MaxEvents /\ events' = events + 1
Follows == UNCHANGED events

\* render() of another view, or of no project: an unfinished library render goes on.
Elsewhere == Happens /\ ResetPreviews /\ away' = TRUE /\ UNCHANGED <<rendering, listed>>

\* Controller c becomes k; it is released when it stopped.
ControllerBecomes(c, k) ==
  /\ ctl' = [ctl EXCEPT ![c] = k]
  /\ activeController' = IF activeController = c /\ ~k.active THEN NoPreview ELSE activeController
  /\ UNCHANGED <<reducedMotion, rendering, listed, away>>

\* Mutant: the preview of another card goes on.
TakesOver(c, k) == ctl' = [ctl EXCEPT ![c] = k]
\* claimPreview stops the active controller.
Claims(c, k) ==
  ctl' = IF activeController \in {NoPreview, c} THEN [ctl EXCEPT ![c] = k]
         ELSE [ctl EXCEPT ![c] = k, ![activeController] = Stopped(@)]

BecomesActive(c, k) ==
  /\ Claims(c, k)
  /\ activeController' = c
  /\ UNCHANGED <<reducedMotion, rendering, listed, away>>

----------------------------------------------------------------------------
InPage(c) == ~away /\ c \in Made /\ c[1] = listed

\* pointerenter, focusin.
Enter(c) == InPage(c) /\ Happens /\ Startable(ctl[c]) /\ BecomesActive(c, Started(ctl[c]))

Press(c) ==
  /\ InPage(c) /\ Happens
  /\ LET k == Clicked(ctl[c])
     IN IF k.active THEN BecomesActive(c, k) ELSE ControllerBecomes(c, k)

\* pointerleave, focusout, a card out of view, a hidden page.
Leave(c) == c \in Made /\ Follows /\ ctl[c].active /\ ControllerBecomes(c, Stopped(ctl[c]))

Timer(c) == c \in Made /\ Follows /\ ctl[c].timer # "none" /\ ControllerBecomes(c, TimerFired(ctl[c]))

LoadSettles(c) ==
  /\ c \in Made /\ Follows
  /\ \E load \in ctl[c].load, ok \in BOOLEAN : ControllerBecomes(c, LoadEnded(ctl[c], load, ok))

StaleLoad(c) ==
  /\ c \in Made /\ Follows
  /\ \E a \in ctl[c].stale : ControllerBecomes(c, StaleEnded(ctl[c], a))

\* A node of the asset is in the page, or was: an asset without a URL had none.  What a
\* destroyed controller left mounted fails with its URL.
Error(c) ==
  /\ c \in Made /\ Happens
  /\ \E a \in Assets :
       /\ ctl[c].urls[a] # "none" \/ (ctl[c].destroyed /\ a \in Media(ctl[c]))
       /\ \E present \in {FALSE, ctl[c].shown = a \/ (ctl[c].shown = "poster" /\ a = ctl[c].poster)} :
            ControllerBecomes(c, Erred(ctl[c], a, present))

----------------------------------------------------------------------------
LibraryNext ==
  \/ \E r \in Renders : Render(r) \/ CardReady(r)
  \/ Elsewhere
  \/ \E c \in Renders \X Cards :
       Enter(c) \/ Press(c) \/ Leave(c) \/ Timer(c) \/ LoadSettles(c) \/ StaleLoad(c) \/ Error(c)

LibrarySpec == InitLibrary /\ [][LibraryNext]_libraryVars

----------------------------------------------------------------------------
(* Properties                                                              *)

LibraryTypeOK ==
  /\ reducedMotion \in BOOLEAN
  /\ rendering \in [Renders -> 0 .. Len(Items) + 1]
  /\ \A c \in Made : IsController(ctl[c])
  /\ listed \in Renders \cup {0} /\ activeController \in Made \cup {NoPreview}
  /\ away \in BOOLEAN /\ events \in 0 .. MaxEvents

\* However renders overlap, one preview at most is active and it is the registered one;
\* a destroyed one holds no URL and a late load gives it none; a URL belongs to an asset
\* its controller still has (docs/ARCHITECTURE.md:79).
PreviewsAccounted ==
  /\ LibraryTypeOK
  /\ \A c \in Made : Accounted(ctl[c]) /\ (ctl[c].active <=> activeController = c)

\* The cards of render r are not what the page is to show: a later one began, or another view.
Overtaken(r) == away \/ \E later \in Renders : later > r /\ rendering[later] > 0

\* The cards of the last render, while the library is shown, are never without their media:
\* none is destroyed, what a card shows has not been revoked under it, and after stop() no late
\* load or timer replaces the poster.  An active show waits for a timer or a load, unless the
\* user took it over or two of its assets failed.  The cards of an overtaken render lose their
\* media; the page may list them all the same, when that render ends last or before the next.
CardsShowLiveMedia ==
  \A c \in Made : /\ ShowsWhatItMay(ctl[c]) /\ GoesOn(ctl[c], Len(Items[c[2]]))
                  /\ ctl[c].destroyed => Overtaken(c[1])
=============================================================================
