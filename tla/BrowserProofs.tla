--------------------------- MODULE BrowserProofs ---------------------------
(***************************************************************************)
(* Proofs about the browser, for any pages, calls and revisions, and for   *)
(* any cards, assets and renders.                                          *)
(*                                                                         *)
(* A page that opens one call at a time never overwrites what it has not   *)
(* seen (BrowserClient).                                                   *)
(*                                                                         *)
(* The library page accounts for its previews and shows only live media    *)
(* (LibraryView).  A call of a controller is a chain of steps; each keeps  *)
(* Kept, and when the call returns the controller is Sound again.  The     *)
(* page adds that a controller is made once and that the active one is     *)
(* the registered one.                                                     *)
(***************************************************************************)
EXTENDS BrowserClient, LibraryView, SequenceTheorems, TLAPS

Call == [kind : {"none", "edit", "reset", "restore", "load"}, phase : Phases,
         base : 0 .. current, revision : 0 .. current, answer : 0 .. current]
Page == [revision : 0 .. current, workspace : 0 .. current]

\* Every action is about one call: it rewrites that call and its page.
Actions(p, s) == Start(p, s) \/ Serve(p, s) \/ Receive(p, s)

LEMMA Rewritten ==
    ASSUME NEW p \in Pages, NEW s \in Slots, TypeOK, NEW c, Becomes(p, s, c)
    PROVE  /\ call' = [call EXCEPT ![p] = [call[p] EXCEPT ![s] = call'[p][s]]]
           /\ call'[p][s] = c
  BY DEF TypeOK, Becomes

\* A call and a page, by their fields.
CallOf(kind, phase, base, revision, answer) ==
  [kind |-> kind, phase |-> phase, base |-> base, revision |-> revision, answer |-> answer]

\* What a step does to the call c and to the page q: the actions without the
\* functions they are applied in.
Opened(c, q, d) ==
  /\ c = NoCall
  /\ \/ \E phase \in {"sent", "encoding"} : d = CallOf("edit", phase, q.workspace, q.revision, 0)
     \/ \E kind \in {"reset", "restore"} : d = CallOf(kind, "sent", q.workspace, q.revision, 0)
     \/ d = CallOf("load", "loading", q.workspace, q.revision, 0)
Served(c, q, d) ==
  \/ c.phase = "sent" /\ d = CallOf(c.kind, "accepted", 0, 0, current + 1) /\ current' = current + 1
  \/ c.phase = "sent" /\ d = CallOf(c.kind, "failed", 0, 0, 0)
  \/ c.phase = "sent" /\ d = CallOf(c.kind, "conflict", 0, 0, 0)
  \/ c.phase = "reloading" /\ d = CallOf(c.kind, "reloaded", 0, 0, current)
  \/ c.phase = "loading" /\ d = CallOf(c.kind, "loaded", 0, 0, current)
LostLoad(c, q, d) == c.phase \in {"reloading", "loading"} /\ d = CallOf(c.kind, "failed", 0, 0, 0)
Received(c, q, d, r) ==
  \/ c.phase = "encoding" /\ d = CallOf("edit", "sent", c.base, q.revision, 0) /\ r = q
  \/ c.phase \in {"accepted", "loaded"} /\ d = NoCall
       /\ r = [revision |-> c.answer, workspace |-> c.answer]
  \/ c.phase \in {"conflict", "failed"} /\ d = NoCall /\ r = q
  \/ c.phase = "conflict" /\ c.kind # "restore"
       /\ d = CallOf(c.kind, "reloading", 0, 0, 0) /\ r = q
  \/ c.phase = "reloaded" /\ r = [q EXCEPT !.revision = c.answer]
       /\ \/ c.kind = "edit" /\ d = CallOf("edit", "loading", 0, 0, 0)
          \/ c.kind # "edit" /\ d = NoCall

LEMMA StartStep ==
    ASSUME NEW p \in Pages, NEW s \in Slots, TypeOK, Start(p, s)
    PROVE  /\ call' = [call EXCEPT ![p] = [call[p] EXCEPT ![s] = call'[p][s]]]
           /\ Opened(call[p][s], page[p], call'[p][s])
           /\ p \in Careful => call'[p][s].kind # "reset"
           /\ p \in Careful => \A t \in Slots : call[p][t] = NoCall
           /\ page' = page /\ current' = current
  <1> USE DEF Opened, CallOf, Open, Idle
  <1>1. CASE Edit(p, s)
    BY <1>1, Rewritten DEF Edit
  <1>2. CASE EditWithFiles(p, s)
    BY <1>2, Rewritten DEF EditWithFiles
  <1>3. CASE Reset(p, s)
    BY <1>3, Rewritten DEF Reset
  <1>4. CASE Restore(p, s)
    BY <1>4, Rewritten DEF Restore
  <1>5. CASE Load(p, s)
    BY <1>5, Rewritten DEF Load
  <1> QED
    BY <1>1, <1>2, <1>3, <1>4, <1>5 DEF Start

LEMMA ServeStep ==
    ASSUME NEW p \in Pages, NEW s \in Slots, TypeOK, Serve(p, s)
    PROVE  /\ call' = [call EXCEPT ![p] = [call[p] EXCEPT ![s] = call'[p][s]]]
           /\ page' = page
           /\ current' = current \/ (current < MaxRevision /\ current' = current + 1)
           /\ \/ Served(call[p][s], page[p], call'[p][s])
              \/ p \notin Careful /\ LostLoad(call[p][s], page[p], call'[p][s])
  <1> USE DEF Served, LostLoad, CallOf, Answer
  <1>1. CASE Accept(p, s)
    BY <1>1, Rewritten DEF Accept
  <1>2. CASE Refuse(p, s)
    BY <1>2, Rewritten DEF Refuse
  <1>3. CASE ServeLoad(p, s)
    BY <1>3, Rewritten DEF ServeLoad
  <1>4. CASE LoseLoad(p, s)
    BY <1>4, Rewritten DEF LoseLoad
  <1> QED
    BY <1>1, <1>2, <1>3, <1>4 DEF Serve

LEMMA ReceiveStep ==
    ASSUME NEW p \in Pages, NEW s \in Slots, TypeOK, Receive(p, s)
    PROVE  /\ call' = [call EXCEPT ![p] = [call[p] EXCEPT ![s] = call'[p][s]]]
           /\ page' = [page EXCEPT ![p] = page'[p]]
           /\ current' = current
           /\ Received(call[p][s], page[p], call'[p][s], page'[p])
  <1>0. page \in [Pages -> Page]
    BY DEF TypeOK, Page
  <1> USE <1>0 DEF Received, CallOf, Answer, Close, Answered
  <1>1. CASE Encoded(p, s)
    BY <1>1, Rewritten DEF Encoded
  <1>2. CASE Accepted(p, s)
    BY <1>2, Rewritten DEF Accepted
  <1>3. CASE Conflict(p, s)
    BY <1>3, Rewritten DEF Conflict
  <1>4. CASE Reloaded(p, s)
    BY <1>4, Rewritten DEF Reloaded, ReloadsPage
  <1>5. CASE Loaded(p, s)
    BY <1>5, Rewritten DEF Loaded
  <1>6. CASE Failed(p, s)
    BY <1>6, Rewritten DEF Failed
  <1> QED
    BY <1>1, <1>2, <1>3, <1>4, <1>5, <1>6 DEF Receive

Kinds == {"none", "edit", "reset", "restore", "load"}

LEMMA CallTyped ==
    ASSUME NEW kind \in Kinds, NEW phase \in Phases, NEW base \in 0 .. current',
           NEW revision \in 0 .. current', NEW answer \in 0 .. current'
    PROVE  CallOf(kind, phase, base, revision, answer) \in Call'
  BY DEF CallOf, Call, Kinds

LEMMA OneCallChanges ==
    ASSUME NEW p \in Pages, NEW s \in Slots, TypeOK, Actions(p, s)
    PROVE  /\ current' \in {current, current + 1} /\ current' \in 0 .. MaxRevision
           /\ page' = [page EXCEPT ![p] = page'[p]]
           /\ call' = [call EXCEPT ![p] = [call[p] EXCEPT ![s] = call'[p][s]]]
           /\ page'[p] \in Page
           /\ call'[p][s] \in Call'
  <1>1. /\ current \in 0 .. MaxRevision /\ page \in [Pages -> Page]
        /\ page[p] \in Page /\ call[p][s] \in Call
        /\ current \in Nat /\ MaxRevision \in Nat
    BY RevisionBound DEF TypeOK, Page, Call
  <1>2. CASE Start(p, s)
    <2>1. current' = current /\ Opened(call[p][s], page[p], call'[p][s])
      BY <1>2, StartStep
    <2>2. \E kind \in Kinds, phase \in Phases :
            call'[p][s] = CallOf(kind, phase, page[p].workspace, page[p].revision, 0)
      BY <2>1 DEF Opened, Kinds, Phases
    <2>3. /\ page[p].workspace \in 0 .. current' /\ page[p].revision \in 0 .. current'
          /\ 0 \in 0 .. current'
      BY <1>1, <2>1 DEF Page
    <2>4. call'[p][s] \in Call'
      BY <2>2, <2>3, CallTyped
    <2> QED
      BY <1>1, <1>2, <2>4, StartStep
  <1>3. CASE Serve(p, s)
    <2>1. /\ current' \in Nat /\ {0, current} \subseteq 0 .. current'
          /\ call[p][s].kind \in {"none", "edit", "reset", "restore", "load"}
          /\ current' \in {current, current + 1} /\ current' \in 0 .. MaxRevision
      BY <1>1, <1>3, ServeStep DEF Call
    <2>2. \E phase \in Phases, answer \in 0 .. current' :
             call'[p][s] = CallOf(call[p][s].kind, phase, 0, 0, answer)
      BY <1>3, <2>1, ServeStep DEF Served, LostLoad, Phases
    <2>3. call'[p][s] \in Call'
      BY <2>1, <2>2 DEF CallOf, Call
    <2> QED
      BY <1>1, <1>3, <2>1, <2>3, ServeStep
  <1>4. CASE Receive(p, s)
    <2>1. /\ current' = current
          /\ Received(call[p][s], page[p], call'[p][s], page'[p])
      BY <1>4, ReceiveStep
    <2>2. \/ call'[p][s] = NoCall
          \/ \E kind \in Kinds, phase \in Phases,
               base \in 0 .. current, revision \in 0 .. current :
               call'[p][s] = CallOf(kind, phase, base, revision, 0)
      <3>1. /\ page[p].revision \in 0 .. current /\ call[p][s].base \in 0 .. current
            /\ call[p][s].kind \in Kinds /\ 0 \in 0 .. current
        BY <1>1 DEF Page, Call, Kinds
      <3> QED
        BY <2>1, <3>1 DEF Received, Phases, Kinds
    <2>5. NoCall \in Call'
      BY <1>1, <2>1 DEF NoCall, Call, Phases
    <2>4. call'[p][s] \in Call'
      BY <1>1, <2>1, <2>2, <2>5, CallTyped
    <2>3. page'[p] \in Page
      BY <1>1, <2>1 DEF Received, Page, Call
    <2> QED
      BY <1>1, <1>4, <2>1, <2>3, <2>4, ReceiveStep
  <1> QED
    BY <1>2, <1>3, <1>4 DEF Actions

\* No page and no call is ever ahead of the service.
THEOREM TypeCorrect == Spec => []TypeOK
  <1>1. Init => TypeOK
    BY RevisionBound DEF Init, TypeOK, NoCall, Phases
  <1>2. TypeOK /\ [Next]_vars => TypeOK'
    <2> SUFFICES ASSUME TypeOK, [Next]_vars PROVE TypeOK'
      OBVIOUS
    <2>1. CASE UNCHANGED vars
      BY <2>1 DEF vars, TypeOK
    <2>2. ASSUME NEW p \in Pages, NEW s \in Slots, Actions(p, s) PROVE TypeOK'
      <3>1. /\ current' \in {current, current + 1} /\ current' \in 0 .. MaxRevision
            /\ page' = [page EXCEPT ![p] = page'[p]]
            /\ call' = [call EXCEPT ![p] = [call[p] EXCEPT ![s] = call'[p][s]]]
            /\ page'[p] \in Page
            /\ call'[p][s] \in Call'
        BY <2>2, OneCallChanges
      <3>2. current \in Nat /\ 0 .. current \subseteq 0 .. current'
        BY <3>1 DEF TypeOK
      <3>3. page \in [Pages -> Page'] /\ page'[p] \in Page'
        BY <3>1, <3>2 DEF Page, TypeOK
      <3>4. call \in [Pages -> [Slots -> Call']]
        BY <3>2 DEF Call, TypeOK
      <3>5. page' \in [Pages -> Page']
        BY <3>1, <3>3
      <3>6. call' \in [Pages -> [Slots -> Call']]
        BY <3>1, <3>4
      <3> QED
        BY <3>1, <3>5, <3>6 DEF TypeOK, Page, Call
    <2> QED
      BY <2>1, <2>2 DEF Next, Actions
  <1> QED
    BY <1>1, <1>2, PTL DEF Spec

-----------------------------------------------------------------------------
(* The strengthening: what a page that opens one call at a time knows.     *)

\* A page whose two numbers differ is about to load; an edit was made from the
\* workspace shown and is sent with its revision; only an edit reloads.
PageInv(p) ==
  /\ \A s, t \in Slots : call[p][s] # NoCall /\ call[p][t] # NoCall => s = t
  /\ \/ page[p].revision = page[p].workspace
     \/ \E s \in Slots : call[p][s].phase \in {"loading", "loaded"}
  /\ \A s \in Slots :
       /\ call[p][s].kind # "reset"
       /\ call[p][s].phase = "encoding" => call[p][s].base = page[p].workspace
       /\ call[p][s].phase = "sent" => call[p][s].base = call[p][s].revision
       /\ call[p][s].phase \in {"reloading", "reloaded"} => call[p][s].kind = "edit"
       /\ call[p][s].phase \in {"sent", "conflict"} => call[p][s].kind \in {"edit", "restore"}
       /\ call[p][s].phase = "encoding" => call[p][s].kind = "edit"

Inv == TypeOK /\ \A p \in Careful : PageInv(p)

\* The same of one call, when every other call of its page is closed.
CallInv(c, q) ==
  /\ q.revision = q.workspace \/ c.phase \in {"loading", "loaded"}
  /\ c.kind # "reset"
  /\ c.phase = "encoding" => c.base = q.workspace
  /\ c.phase = "sent" => c.base = c.revision
  /\ c.phase \in {"reloading", "reloaded"} => c.kind = "edit"
  /\ c.phase \in {"sent", "conflict"} => c.kind \in {"edit", "restore"}
  /\ c.phase = "encoding" => c.kind = "edit"

LEMMA CarefulStep ==
    ASSUME NEW p \in Careful, NEW s \in Slots, TypeOK, PageInv(p), Actions(p, s)
    PROVE  /\ \A t \in Slots \ {s} : call[p][t] = NoCall
           /\ CallInv(call'[p][s], page'[p])
  <1> USE CarefulPages
  <1>1. \A t \in Slots \ {s} : call[p][t] = NoCall
    <2>1. CASE Start(p, s)
      BY <2>1, StartStep
    <2>2. CASE Serve(p, s)
      BY <2>2, ServeStep DEF Served, PageInv, NoCall
    <2>3. CASE Receive(p, s)
      <3>1. Received(call[p][s], page[p], call'[p][s], page'[p])
        BY <2>3, ReceiveStep
      <3>2. call[p][s].phase # "done"
        BY <3>1 DEF Received
      <3> QED
        BY <3>2 DEF PageInv, NoCall
    <2> QED
      BY <2>1, <2>2, <2>3 DEF Actions
  <1>2. CallInv(call[p][s], page[p])
    BY <1>1 DEF PageInv, CallInv, NoCall
  <1>3. CallInv(call'[p][s], page'[p])
    <2> DEFINE c == call[p][s]
               q == page[p]
               d == call'[p][s]
               r == page'[p]
    <2>1. CASE Start(p, s)
      <3>1. Opened(c, q, d) /\ d.kind # "reset" /\ r = q
        BY <2>1, StartStep
      <3>2. q.revision = q.workspace
        BY <1>2, <3>1 DEF Opened, CallInv, NoCall
      <3> QED
        BY <3>1, <3>2 DEF Opened, CallInv, CallOf
    <2>2. CASE Serve(p, s)
      <3>1. Served(c, q, d) /\ r = q
        BY <2>2, ServeStep
      <3> QED
        BY <1>2, <3>1 DEF Served, CallInv, CallOf
    <2>3. CASE Receive(p, s)
      <3>1. Received(c, q, d, r)
        BY <2>3, ReceiveStep
      <3>2. q \in Page
        BY DEF TypeOK, Page
      <3>3. CallInv(c, q)
        BY <1>2
      <3> SUFFICES CallInv(d, r)
        OBVIOUS
      <3> HIDE DEF c, q, d, r
      <3>4. CASE c.phase = "encoding" /\ d = CallOf("edit", "sent", c.base, q.revision, 0) /\ r = q
        BY <3>3, <3>4 DEF CallInv, CallOf
      <3>5. CASE d = NoCall /\ r.revision = r.workspace
        BY <3>5 DEF CallInv, NoCall
      <3>6. CASE c.phase = "conflict" /\ c.kind # "restore"
                   /\ d = CallOf(c.kind, "reloading", 0, 0, 0) /\ r = q
        BY <3>3, <3>6 DEF CallInv, CallOf
      <3>7. CASE d = CallOf("edit", "loading", 0, 0, 0)
        BY <3>7 DEF CallInv, CallOf
      <3>8. \/ c.phase = "encoding" /\ d = CallOf("edit", "sent", c.base, q.revision, 0) /\ r = q
            \/ d = NoCall /\ r.revision = r.workspace
            \/ c.phase = "conflict" /\ c.kind # "restore"
                 /\ d = CallOf(c.kind, "reloading", 0, 0, 0) /\ r = q
            \/ d = CallOf("edit", "loading", 0, 0, 0)
        BY <3>1, <3>3 DEF Received, CallInv
      <3> QED
        BY <3>4, <3>5, <3>6, <3>7, <3>8
    <2> QED
      BY <2>1, <2>2, <2>3 DEF Actions
  <1> QED
    BY <1>1, <1>3

\* The invariant is inductive.
THEOREM CarefulInvariant == Spec => []Inv
  <1>1. Init => Inv
    BY RevisionBound, CarefulPages DEF Init, Inv, TypeOK, PageInv, NoCall, Phases
  <1>2. TypeOK' /\ Inv /\ [Next]_vars => Inv'
    <2> SUFFICES ASSUME TypeOK', Inv, [Next]_vars, NEW q \in Careful PROVE PageInv(q)'
      BY DEF Inv
    <2>1. CASE UNCHANGED vars
      BY <2>1 DEF vars, Inv, PageInv
    <2>2. ASSUME NEW p \in Pages, NEW s \in Slots, Actions(p, s) PROVE PageInv(q)'
      <3>1. /\ page' = [page EXCEPT ![p] = page'[p]]
            /\ call' = [call EXCEPT ![p] = [call[p] EXCEPT ![s] = call'[p][s]]]
            /\ page \in [Pages -> Page] /\ call \in [Pages -> [Slots -> Call]]
        BY <2>2, OneCallChanges DEF Inv, TypeOK, Page, Call
      <3>2. CASE p # q
        <4>1. page'[q] = page[q] /\ call'[q] = call[q]
          BY <3>1, <3>2, CarefulPages
        <4> QED
          BY <4>1 DEF Inv, PageInv
      <3>3. CASE p = q
        <4>1. /\ \A t \in Slots \ {s} : call[q][t] = NoCall
              /\ CallInv(call'[q][s], page'[q])
          BY <2>2, <3>3, CarefulStep DEF Inv
        <4>2. \A t \in Slots \ {s} : call'[q][t] = NoCall
          BY <3>1, <3>3, <4>1
        <4> QED
          BY <4>1, <4>2 DEF PageInv, CallInv, NoCall
      <3> QED
        BY <3>2, <3>3
    <2> QED
      BY <2>1, <2>2 DEF Next, Actions
  <1> QED
    BY <1>1, <1>2, TypeCorrect, PTL DEF Spec

\* An accepted edit of such a page was made from the workspace it replaces.
THEOREM NothingOverwritten == Spec => CarefulOverwritesNothing
  <1>1. Inv /\ [Next]_vars => [MadeFromCurrent(Careful)]_vars
    <2> SUFFICES ASSUME Inv, Next, NEW q \in Careful, NEW t \in Slots, Installed(q, t)
                 PROVE  call[q][t].base = current
      BY DEF MadeFromCurrent
    <2>1. PICK p \in Pages, s \in Slots : Actions(p, s)
      BY DEF Next, Actions
    <2>2. /\ call' = [call EXCEPT ![p] = [call[p] EXCEPT ![s] = call'[p][s]]]
          /\ call \in [Pages -> [Slots -> Call]]
      BY <2>1, OneCallChanges DEF Inv, TypeOK, Call
    <2>3. p = q /\ s = t
      BY <2>2, CarefulPages DEF Installed
    <2>4. Accept(q, t)
      BY <2>1, <2>3 DEF Actions, Start, Serve, Receive, Edit, EditWithFiles, Reset, Restore,
        Load, Open, Refuse, ServeLoad, LoseLoad, Encoded, Accepted, Conflict, Reloaded,
        Loaded, Failed, Installed
    <2> QED
      BY <2>4 DEF Accept, Inv, PageInv, Installed
  <1> QED
    BY <1>1, CarefulInvariant, PTL DEF Spec, CarefulOverwritesNothing

----------------------------------------------------------------------------
(* The preview controllers of the library page (MediaPreview).             *)

\* Every controller: its fields, and how they hang together.  all is the number of items
\* the card began with.
Controllers ==
  [items : Seq(Assets), index : Nat \ {0}, active : BOOLEAN, destroyed : BOOLEAN,
   timer : {"none", "dwell", "tick"}, load : SUBSET Loads, stale : SUBSET Assets,
   urls : [Assets -> {"none", "live", "revoked"}], poster : Assets,
   posterFailed : BOOLEAN, shown : Assets \cup {"poster", "placeholder"}, manual : BOOLEAN]

ItemsOK(k, all) ==
  /\ IsInjective(k.items) /\ Len(k.items) <= all
  /\ k.items # <<>> => k.index <= Len(k.items)
UrlsOK(k) ==
  \A a \in Assets : /\ k.urls[a] = "live" => Has(k, a)
                    /\ k.urls[a] = "revoked" => ~Has(k, a)
LoadOK(k, all) ==
  /\ \A l, m \in k.load : l = m
  /\ \A l \in k.load : /\ Has(k, l.asset) /\ k.urls[l.asset] = "none"
                       /\ l.then = "manual" => k.manual
                       /\ l.then = "failed" => Len(k.items) < all
AtRest(k) ==
  /\ k.destroyed => ~k.active /\ Live(k) = {}
  /\ ~k.active => k.timer = "none" /\ k.load = {}

\* What every step inside a call keeps ...
Kept(k, all) ==
  /\ k \in Controllers /\ all \in Nat /\ all > 1
  /\ ItemsOK(k, all) /\ UrlsOK(k) /\ LoadOK(k, all) /\ AtRest(k) /\ ShowsWhatItMay(k)
\* ... and what holds when it returns.
Sound(k, all) ==
  /\ Kept(k, all)
  /\ GoesOn(k, all)

LEMMA HasItem ==
    ASSUME NEW k \in Controllers, NEW a
    PROVE  Has(k, a) <=> \E i \in 1 .. Len(k.items) : k.items[i] = a
  BY DEF Has, ToSet, Controllers

LEMMA HasIsAsset ==
    ASSUME NEW k \in Controllers, NEW a, Has(k, a)
    PROVE  a \in Assets
  BY HasItem DEF Controllers

\* A sequence without its element at p.
LEMMA Removed ==
    ASSUME NEW s \in Seq(Assets), NEW p \in 1 .. Len(s)
    PROVE  /\ RemoveAt(s, p) \in Seq(Assets)
           /\ Len(RemoveAt(s, p)) = Len(s) - 1
           /\ \A i \in 1 .. Len(s) - 1 : RemoveAt(s, p)[i] = IF i < p THEN s[i] ELSE s[i + 1]
  <1>1. /\ SubSeq(s, 1, p - 1) \in Seq(Assets) /\ Len(SubSeq(s, 1, p - 1)) = p - 1
        /\ \A i \in 1 .. p - 1 : SubSeq(s, 1, p - 1)[i] = s[i]
    OBVIOUS
  <1>2. /\ SubSeq(s, p + 1, Len(s)) \in Seq(Assets)
        /\ Len(SubSeq(s, p + 1, Len(s))) = Len(s) - p
        /\ \A i \in 1 .. Len(s) - p : SubSeq(s, p + 1, Len(s))[i] = s[p + i]
    OBVIOUS
  <1> DEFINE u == SubSeq(s, 1, p - 1)
             v == SubSeq(s, p + 1, Len(s))
  <1>3. RemoveAt(s, p) = u \o v
    BY DEF RemoveAt
  <1>4. /\ u \in Seq(Assets) /\ Len(u) = p - 1 /\ v \in Seq(Assets) /\ Len(v) = Len(s) - p
        /\ \A i \in 1 .. p - 1 : u[i] = s[i]
        /\ \A i \in 1 .. Len(s) - p : v[i] = s[p + i]
    BY <1>1, <1>2
  <1> HIDE DEF u, v
  <1>5. /\ u \o v \in Seq(Assets) /\ Len(u \o v) = Len(s) - 1
        /\ \A i \in 1 .. Len(s) - 1 : (u \o v)[i] = IF i <= p - 1 THEN u[i] ELSE v[i - (p - 1)]
    BY <1>4
  <1>6. ASSUME NEW i \in 1 .. Len(s) - 1
        PROVE  (u \o v)[i] = IF i < p THEN s[i] ELSE s[i + 1]
    <2>1. CASE i < p
      BY <2>1, <1>4, <1>5
    <2>2. CASE i >= p
      <3>1. i - (p - 1) \in 1 .. Len(s) - p /\ p + (i - (p - 1)) = i + 1
        BY <2>2
      <3>2. v[i - (p - 1)] = s[p + (i - (p - 1))]
        BY <3>1, <1>4
      <3>3. (u \o v)[i] = v[i - (p - 1)]
        BY <2>2, <1>5
      <3>4. s[p + (i - (p - 1))] = s[i + 1] /\ ~(i < p)
        BY <3>1, <2>2
      <3> QED BY <3>2, <3>3, <3>4
    <2>3. i < p \/ i >= p
      <3>1. i \in Int /\ p \in Int
        OBVIOUS
      <3> QED BY <3>1
    <2> QED BY <2>1, <2>2, <2>3, Zenon
  <1> QED BY <1>3, <1>5, <1>6

\* The fields of a controller after the steps that change some of them.
LEMMA ItemsDropped ==
    ASSUME NEW k \in Controllers, IsInjective(k.items), NEW a, Has(k, a),
           NEW d, d = Dropped(k, a)
    PROVE  /\ d \in Controllers /\ IsInjective(d.items)
           /\ Len(k.items) > 0 /\ Len(d.items) = Len(k.items) - 1
           /\ \A b : Has(d, b) <=> Has(k, b) /\ b # a
           /\ k.items[1] # a => d.items # <<>> /\ d.items[1] = k.items[1]
           /\ d.items # <<>> /\ k.index <= Len(k.items) => d.index <= Len(d.items)
           /\ d.urls = [k.urls EXCEPT ![a] = IF @ = "live" THEN "revoked" ELSE @]
           /\ d = [k EXCEPT !.items = d.items, !.urls = d.urls, !.index = d.index]
  <1> DEFINE p == CHOOSE i \in DOMAIN k.items : k.items[i] = a
             rest == RemoveAt(k.items, p)
             moved == IF p < k.index THEN k.index - 1 ELSE k.index
             index == IF moved > Len(rest) THEN 1 ELSE moved
             urls == [k.urls EXCEPT ![a] = IF @ = "live" THEN "revoked" ELSE @]
  <1>1. k.items \in Seq(Assets) /\ k.index \in Nat \ {0} /\ k.urls \in [Assets -> {"none", "live", "revoked"}]
    BY DEF Controllers
  <1>2. p \in 1 .. Len(k.items) /\ k.items[p] = a
    <2>1. \E i \in DOMAIN k.items : k.items[i] = a
      BY HasItem, <1>1
    <2>2. p \in DOMAIN k.items /\ k.items[p] = a
      BY <2>1
    <2> QED BY <2>2, <1>1
  <1>3. d = [k EXCEPT !.items = rest, !.urls = urls, !.index = index]
    BY DEF Dropped
  <1> HIDE DEF p
  <1>4. /\ rest \in Seq(Assets) /\ Len(rest) = Len(k.items) - 1
        /\ \A i \in 1 .. Len(k.items) - 1 : rest[i] = IF i < p THEN k.items[i] ELSE k.items[i + 1]
    BY <1>1, <1>2, Removed
  <1>5. a \in Assets /\ urls \in [Assets -> {"none", "live", "revoked"}]
    BY <1>1, <1>2
  <1> HIDE DEF rest, urls
  <1>6. index \in Nat \ {0}
    BY <1>1, <1>2, <1>4
  <1>6a. rest # <<>> /\ k.index <= Len(k.items) => index <= Len(rest)
    BY <1>1, <1>2, <1>4
  <1> HIDE DEF moved, index
  <1>7. d \in Controllers /\ d.items = rest /\ d.urls = urls /\ d.index = index
    BY <1>3, <1>4, <1>5, <1>6 DEF Controllers
  <1>8. IsInjective(rest)
    <2> SUFFICES ASSUME NEW i \in 1 .. Len(rest), NEW j \in 1 .. Len(rest), rest[i] = rest[j]
                 PROVE  i = j
      BY <1>4 DEF IsInjective
    <2>1. \A x, y \in 1 .. Len(k.items) : k.items[x] = k.items[y] => x = y
      BY <1>1 DEF IsInjective
    <2> QED BY <2>1, <1>1, <1>2, <1>4
  <1>9. ASSUME NEW b
        PROVE  Has(d, b) <=> Has(k, b) /\ b # a
    <2>1. \A x, y \in 1 .. Len(k.items) : k.items[x] = k.items[y] => x = y
      BY <1>1 DEF IsInjective
    <2>2. ASSUME Has(d, b) PROVE Has(k, b) /\ b # a
      <3>1. PICK i \in 1 .. Len(rest) : rest[i] = b
        BY <2>2, HasItem, <1>7
      <3>2. PICK j \in 1 .. Len(k.items) : j # p /\ k.items[j] = b
        <4>1. CASE i < p
          BY <4>1, <3>1, <1>1, <1>2, <1>4
        <4>2. CASE i >= p
          BY <4>2, <3>1, <1>1, <1>2, <1>4
        <4> QED BY <4>1, <4>2, <3>1, <1>1, <1>2, <1>4
      <3> QED BY <3>2, <2>1, <1>2, HasItem
    <2>3. ASSUME Has(k, b), b # a PROVE Has(d, b)
      <3>1. PICK j \in 1 .. Len(k.items) : k.items[j] = b
        BY <2>3, HasItem
      <3>2. j # p
        BY <3>1, <2>3, <1>2
      <3>3. CASE j < p
        <4>1. j \in 1 .. Len(rest) /\ rest[j] = b
          BY <3>3, <3>1, <1>1, <1>2, <1>4
        <4> QED BY <4>1, HasItem, <1>7
      <3>4. CASE j > p
        <4>1. j - 1 \in 1 .. Len(rest) /\ rest[j - 1] = b
          BY <3>4, <3>1, <1>1, <1>2, <1>4
        <4> QED BY <4>1, HasItem, <1>7
      <3> QED BY <3>1, <3>2, <3>3, <3>4, <1>1, <1>2
    <2> QED BY <2>2, <2>3
  <1>10. k.items[1] # a => rest # <<>> /\ rest[1] = k.items[1]
    <2> SUFFICES ASSUME k.items[1] # a PROVE rest # <<>> /\ rest[1] = k.items[1]
      OBVIOUS
    <2>1. p > 1
      BY <1>1, <1>2
    <2>2. 1 \in 1 .. Len(k.items) - 1
      BY <2>1, <1>1, <1>2
    <2> QED BY <2>1, <2>2, <1>1, <1>4
  <1>11. Len(k.items) > 0
    BY <1>1, <1>2
  <1> QED BY <1>3, <1>4, <1>6a, <1>7, <1>8, <1>9, <1>10, <1>11 DEF urls

----------------------------------------------------------------------------
(* What the parts of a call keep.                                          *)

\* Two controllers that have the same items have the same assets.
LEMMA SameItems ==
    ASSUME NEW k, NEW d, d.items = k.items, NEW a
    PROVE  Has(d, a) <=> Has(k, a)
  BY DEF Has

\* A call that leaves the items, the URLs and the loads.
LEMMA KeptWith ==
    ASSUME NEW all, NEW k, Kept(k, all), NEW d \in Controllers,
           d.items = k.items, d.urls = k.urls, d.load \in {k.load, {}},
           d.items # <<>> => d.index <= Len(d.items),
           k.manual => d.manual \/ d.load = {}, AtRest(d), ShowsWhatItMay(d)
    PROVE  Kept(d, all)
  <1>1. \A a : Has(d, a) <=> Has(k, a)
    BY SameItems
  <1>2. ItemsOK(d, all)
    BY DEF Kept, ItemsOK
  <1>3. UrlsOK(d)
    BY <1>1 DEF Kept, UrlsOK
  <1>4. LoadOK(d, all)
    <2>1. LoadOK(k, all)
      BY DEF Kept
    <2>2. CASE d.load = {}
      BY <2>2 DEF LoadOK
    <2>3. CASE d.load = k.load /\ d.load # {}
      BY <2>1, <2>3, <1>1 DEF LoadOK
    <2> QED BY <2>2, <2>3
  <1> QED BY <1>2, <1>3, <1>4 DEF Kept

LEMMA DroppedKept ==
    ASSUME NEW all, NEW k, Kept(k, all), NEW a, Has(k, a),
           \A l \in k.load : l.asset # a
    PROVE  /\ Kept(Dropped(k, a), all)
           /\ Len(k.items) > 0 /\ Len(Dropped(k, a).items) = Len(k.items) - 1
           /\ Dropped(k, a).active = k.active /\ Dropped(k, a).load = k.load
           /\ Dropped(k, a).timer = k.timer /\ Dropped(k, a).manual = k.manual
           /\ Dropped(k, a).shown = k.shown
  <1> DEFINE d == Dropped(k, a)
  <1>1. k \in Controllers /\ IsInjective(k.items) /\ a \in Assets
    BY HasIsAsset DEF Kept, ItemsOK
  <1>2. /\ d \in Controllers /\ IsInjective(d.items)
        /\ Len(k.items) > 0 /\ Len(d.items) = Len(k.items) - 1
        /\ \A b : Has(d, b) <=> Has(k, b) /\ b # a
        /\ k.items[1] # a => d.items # <<>> /\ d.items[1] = k.items[1]
        /\ d.items # <<>> /\ k.index <= Len(k.items) => d.index <= Len(d.items)
        /\ d.urls = [k.urls EXCEPT ![a] = IF @ = "live" THEN "revoked" ELSE @]
        /\ d = [k EXCEPT !.items = d.items, !.urls = d.urls, !.index = d.index]
    BY <1>1, ItemsDropped
  <1> HIDE DEF d
  <1>3. /\ d.active = k.active /\ d.load = k.load /\ d.timer = k.timer
        /\ d.manual = k.manual /\ d.shown = k.shown /\ d.destroyed = k.destroyed
        /\ d.poster = k.poster /\ d.posterFailed = k.posterFailed
    BY <1>2, <1>1 DEF Controllers
  <1>4. /\ k.urls \in [Assets -> {"none", "live", "revoked"}] /\ k.items \in Seq(Assets)
        /\ k.load \subseteq Loads /\ all \in Nat
    BY <1>1 DEF Controllers, Kept
  <1>5. /\ d.urls[a] # "live"
        /\ \A b \in Assets : b # a => d.urls[b] = k.urls[b]
    BY <1>1, <1>2, <1>4
  <1>6. ItemsOK(d, all)
    <2>1. Len(k.items) <= all /\ (k.items # <<>> => k.index <= Len(k.items))
      BY DEF Kept, ItemsOK
    <2> QED BY <2>1, <1>2, <1>4 DEF ItemsOK
  <1>7. UrlsOK(d)
    BY <1>2, <1>5 DEF UrlsOK, Kept
  <1>8. LoadOK(d, all)
    <2>1. \A l \in k.load : l.asset \in Assets
      BY <1>4 DEF Loads
    <2>2. LoadOK(k, all)
      BY DEF Kept
    <2>3. Len(d.items) < Len(k.items) /\ Len(d.items) \in Nat /\ Len(k.items) \in Nat
      BY <1>2, <1>4
    <2> QED BY <2>1, <2>2, <2>3, <1>2, <1>3, <1>4, <1>5 DEF LoadOK
  <1>9. AtRest(d)
    BY <1>3, <1>5, <1>1 DEF AtRest, Live, Kept
  <1>10. ShowsWhatItMay(d)
    <2>1. ShowsWhatItMay(k) /\ (Len(k.items) > 0 => Head(k.items) = k.items[1])
      BY <1>4 DEF Kept
    <2>2. d.items # <<>> => Head(d.items) = d.items[1]
      BY <1>2 DEF Controllers
    <2> QED BY <2>1, <2>2, <1>2, <1>3, <1>5 DEF ShowsWhatItMay, Media
  <1> QED BY <1>2, <1>3, <1>6, <1>7, <1>8, <1>9, <1>10 DEF Kept, d

\* The asset shown has a URL, and the show is active.
LEMMA ShownKept ==
    ASSUME NEW all, NEW k, Kept(k, all), k.active, NEW a, Has(k, a), k.urls[a] = "live"
    PROVE  /\ Kept(Shown(k, a), all)
           /\ Shown(k, a).active /\ Shown(k, a).items = k.items
           /\ Shown(k, a).manual = k.manual
  <1> DEFINE p == CHOOSE i \in DOMAIN k.items : k.items[i] = a
             d == Shown(k, a)
  <1>1. k \in Controllers /\ a \in Assets /\ k.items \in Seq(Assets) /\ ~k.destroyed
    BY HasIsAsset DEF Kept, Controllers, AtRest
  <1>2. p \in 1 .. Len(k.items) /\ k.items[p] = a
    <2>1. \E i \in DOMAIN k.items : k.items[i] = a
      BY HasItem, <1>1
    <2>2. p \in DOMAIN k.items /\ k.items[p] = a
      BY <2>1
    <2> QED BY <2>2, <1>1
  <1>3. d = [k EXCEPT !.index = p, !.shown = a]
    BY DEF Shown
  <1> HIDE DEF p, d
  <1>2a. p \in Nat \ {0}
    BY <1>1, <1>2
  <1>4. /\ d \in Controllers /\ d.index = p /\ d.shown = a /\ d.items = k.items
        /\ d.urls = k.urls /\ d.load = k.load /\ d.manual = k.manual
        /\ d.active = k.active /\ d.timer = k.timer /\ d.destroyed = k.destroyed
        /\ d.poster = k.poster /\ d.posterFailed = k.posterFailed
    BY <1>1, <1>2a, <1>3 DEF Controllers
  <1>4a. \A b : Has(d, b) <=> Has(k, b)
    BY <1>4, SameItems
  <1>4b. ShowsWhatItMay(k) /\ a # "poster"
    BY <1>1, NotAnAsset DEF Kept
  <1>5. AtRest(d) /\ ShowsWhatItMay(d)
    BY <1>1, <1>4, <1>4a, <1>4b DEF AtRest, ShowsWhatItMay, Media
  <1>6. Kept(d, all)
    BY <1>2, <1>4, <1>5, KeptWith, <1>1
  <1> QED BY <1>4, <1>6 DEF d

LEMMA ScheduledKept ==
    ASSUME NEW all, NEW k, Kept(k, all), k.active
    PROVE  /\ Kept(Scheduled(k), all)
           /\ Scheduled(k).active /\ Scheduled(k).items = k.items
           /\ GoesOn(Scheduled(k), all)
  <1>1. CASE reducedMotion
    BY <1>1 DEF Scheduled, GoesOn
  <1>2. CASE ~reducedMotion
    <2> DEFINE d == [k EXCEPT !.timer = "tick"]
    <2>1. k \in Controllers
      BY DEF Kept
    <2>2. /\ d \in Controllers /\ d.items = k.items /\ d.urls = k.urls /\ d.load = k.load
          /\ d.manual = k.manual /\ d.active = k.active /\ d.timer = "tick"
          /\ d.destroyed = k.destroyed /\ d.shown = k.shown /\ d.index = k.index
          /\ d.poster = k.poster /\ d.posterFailed = k.posterFailed
      BY <2>1 DEF Controllers
    <2> HIDE DEF d
    <2>2a. \A a : Has(d, a) <=> Has(k, a)
      BY <2>2, SameItems
    <2>3. AtRest(d) /\ ShowsWhatItMay(d) /\ (d.items # <<>> => d.index <= Len(d.items))
      BY <2>2, <2>2a DEF AtRest, ShowsWhatItMay, Media, Kept, Live, ItemsOK
    <2>4. Kept(d, all)
      BY <2>2, <2>3, KeptWith
    <2>5. Scheduled(k) = d
      BY <1>2 DEF Scheduled, d
    <2> QED BY <2>2, <2>4, <2>5 DEF GoesOn
  <1> QED BY <1>1, <1>2

LEMMA IdleKept ==
    ASSUME NEW all, NEW k, Kept(k, all)
    PROVE  /\ Kept([k EXCEPT !.timer = "none"], all) /\ Kept([k EXCEPT !.load = {}], all)
           /\ Kept(Renewed(k), all)
  <1> USE DEF Kept
  <1>1. k \in Controllers
    OBVIOUS
  <1>2. ASSUME NEW d \in {[k EXCEPT !.timer = "none"], [k EXCEPT !.load = {}], Renewed(k)}
        PROVE  Kept(d, all)
    <2> DEFINE late == {l.asset : l \in k.load}
               older == k.stale \cup late
    <2>1. late \subseteq Assets
      BY <1>1 DEF Controllers, Loads
    <2>1a. d \in {[k EXCEPT !.timer = "none"], [k EXCEPT !.load = {}],
                  [k EXCEPT !.timer = "none", !.load = {}, !.stale = older]}
      BY <1>1, <1>2 DEF Renewed, Controllers
    <2> HIDE DEF late
    <2>1b. older \in SUBSET Assets
      BY <1>1, <2>1 DEF Controllers
    <2> HIDE DEF older
    <2>2. /\ d \in Controllers /\ d.items = k.items /\ d.urls = k.urls /\ d.load \in {k.load, {}}
          /\ d.manual = k.manual /\ d.active = k.active /\ d.timer \in {k.timer, "none"}
          /\ d.destroyed = k.destroyed /\ d.shown = k.shown /\ d.index = k.index
          /\ d.poster = k.poster /\ d.posterFailed = k.posterFailed
      <3>1. CASE d = [k EXCEPT !.timer = "none"]
        BY <1>1, <3>1, Zenon DEF Controllers
      <3>2. CASE d = [k EXCEPT !.load = {}]
        BY <1>1, <3>2, Zenon DEF Controllers
      <3>3. CASE d = [k EXCEPT !.timer = "none", !.load = {}, !.stale = older]
        BY <1>1, <2>1b, <3>3, Zenon DEF Controllers
      <3> QED BY <2>1a, <3>1, <3>2, <3>3
    <2>3. \A a : Has(d, a) <=> Has(k, a)
      BY <2>2, SameItems
    <2>4. AtRest(d) /\ ShowsWhatItMay(d) /\ (d.items # <<>> => d.index <= Len(d.items))
      BY <2>2, <2>3 DEF AtRest, ShowsWhatItMay, Media, Live, ItemsOK
    <2> HIDE DEF Kept
    <2> QED BY <2>2, <2>4, KeptWith
  <1> QED BY <1>2

LEMMA RestoredKept ==
    ASSUME NEW all, NEW k, Kept(k, all)
    PROVE  /\ Kept(Restored(k), all)
           /\ Restored(k).active = k.active /\ Restored(k).items = k.items
           /\ Restored(k).timer = k.timer /\ Restored(k).load = k.load
           /\ Restored(k).manual = k.manual
  <1> DEFINE d == Restored(k)
  <1>1. k \in Controllers
    BY DEF Kept
  <1>2. /\ d \in Controllers /\ d.items = k.items /\ d.urls = k.urls /\ d.load = k.load
        /\ d.manual = k.manual /\ d.active = k.active /\ d.timer = k.timer
        /\ d.destroyed = k.destroyed /\ d.index = k.index /\ d.shown \notin Assets
        /\ d.shown = IF k.posterFailed THEN "placeholder" ELSE "poster"
        /\ d.poster = k.poster /\ d.posterFailed = k.posterFailed
    BY <1>1, NotAnAsset DEF Controllers, Restored
  <1> HIDE DEF d
  <1>2a. \A b : Has(d, b) <=> Has(k, b)
    BY <1>2, SameItems
  <1>3. AtRest(d) /\ ShowsWhatItMay(d) /\ (d.items # <<>> => d.index <= Len(d.items))
    BY <1>2, <1>2a, <1>1 DEF AtRest, ShowsWhatItMay, Media, Kept, Live, ItemsOK
  <1>4. Kept(d, all)
    BY <1>2, <1>3, KeptWith
  <1> QED BY <1>2, <1>4 DEF d

\* A show that has stopped is sound again, whatever the call had done.
LEMMA StoppedSound ==
    ASSUME NEW all, NEW k, Kept(k, all)
    PROVE  /\ Sound(Stopped(k), all) /\ ~Stopped(k).active
           /\ Stopped(k).items = k.items /\ Stopped(k).urls = k.urls
           /\ Stopped(k).destroyed = k.destroyed
  <1>1. CASE ~k.active
    BY <1>1 DEF Stopped, Sound, GoesOn
  <1>2. CASE k.active
    <2> DEFINE quiet == [Renewed(k) EXCEPT !.active = FALSE, !.index = 1, !.manual = FALSE]
               d == Stopped(k)
    <2>1. k \in Controllers /\ k.items \in Seq(Assets)
      BY DEF Kept, Controllers
    <2> DEFINE late == {l.asset : l \in k.load}
               older == k.stale \cup late
    <2>2. late \subseteq Assets
      BY <2>1 DEF Controllers, Loads
    <2>2a. quiet = [k EXCEPT !.timer = "none", !.load = {}, !.stale = older,
                            !.active = FALSE, !.index = 1, !.manual = FALSE]
      BY <2>1 DEF Renewed, Controllers
    <2>4. d = IF k.items = <<>> THEN quiet
              ELSE IF k.urls[k.items[1]] = "live" THEN [quiet EXCEPT !.shown = k.items[1]]
              ELSE Restored(quiet)
      BY <1>2 DEF Stopped
    <2> HIDE DEF late
    <2>2b. older \in SUBSET Assets
      BY <2>1, <2>2 DEF Controllers
    <2> HIDE DEF quiet, d, older
    <2>3. /\ quiet \in Controllers /\ quiet.items = k.items /\ quiet.urls = k.urls /\ quiet.load = {}
          /\ quiet.active = FALSE /\ quiet.timer = "none" /\ quiet.index = 1
          /\ quiet.destroyed = k.destroyed /\ quiet.manual = FALSE
          /\ quiet.poster = k.poster /\ quiet.posterFailed = k.posterFailed
      BY <2>1, <2>2a, <2>2b, 1 \in Nat \ {0}, Zenon DEF Controllers
    <2>5. /\ d \in Controllers /\ d.items = k.items /\ d.urls = k.urls /\ d.load = {}
          /\ d.active = FALSE /\ d.timer = "none" /\ d.index = 1 /\ d.destroyed = k.destroyed
          /\ d.poster = k.poster /\ d.posterFailed = k.posterFailed
          /\ \/ d.items = <<>>
             \/ d.shown = IF k.posterFailed THEN "placeholder" ELSE "poster"
             \/ d.shown = d.items[1] /\ d.urls[d.shown] = "live"
      <3>1. CASE k.items = <<>>
        <4>1. d = quiet
          BY <3>1, <2>4
        <4> QED BY <4>1, <3>1, <2>3
      <3>2. CASE k.items # <<>> /\ k.urls[k.items[1]] = "live"
        <4>1. k.items[1] \in Assets
          BY <3>2, <2>1
        <4> QED BY <4>1, <3>2, <2>3, <2>4 DEF Controllers
      <3>3. CASE k.items # <<>> /\ k.urls[k.items[1]] # "live"
        <4>1. d = Restored(quiet)
          BY <3>3, <2>4
        <4> QED BY <4>1, <2>3, NotAnAsset DEF Controllers, Restored
      <3> QED BY <3>1, <3>2, <3>3
    <2>6. \A a : Has(d, a) => d.items # <<>>
      BY <2>5, HasItem
    <2>7. d.items # <<>> => Head(d.items) = d.items[1] /\ d.index <= Len(d.items)
      BY <2>1, <2>5
    <2>8. AtRest(d)
      BY <1>2, <2>5 DEF AtRest, Kept
    <2>8a. \A a : Has(d, a) <=> Has(k, a)
      BY <2>5, SameItems
    <2>8b. ShowsWhatItMay(k)
      BY DEF Kept
    <2>9. ShowsWhatItMay(d)
      BY <2>5, <2>6, <2>7, <2>8a, <2>8b, <2>1, NotAnAsset DEF ShowsWhatItMay, Media, Controllers
    <2>10. Kept(d, all)
      BY <2>5, <2>7, <2>8, <2>9, KeptWith
    <2> QED BY <2>5, <2>10 DEF Sound, GoesOn, d
  <1> QED BY <1>1, <1>2

LEMMA DestroyedSound ==
    ASSUME NEW all, NEW k, Kept(k, all)
    PROVE  Sound(Destroyed(k), all) /\ ~Destroyed(k).active
  <1> DEFINE s == Stopped(k)
             d == Destroyed(k)
  <1>1. /\ Kept(s, all) /\ ~s.active /\ s \in Controllers
    BY StoppedSound DEF Sound, Kept
  <1>2. d = [s EXCEPT !.destroyed = TRUE, !.urls = [a \in Assets |-> "none"]]
    BY DEF Destroyed
  <1> HIDE DEF s, d
  <1>3. /\ d \in Controllers /\ d.items = s.items /\ d.urls = [a \in Assets |-> "none"]
        /\ d.load = s.load /\ d.active = s.active /\ d.timer = s.timer /\ d.index = s.index
        /\ d.destroyed = TRUE
    BY <1>1, <1>2 DEF Controllers
  <1>4. s.load = {} /\ s.timer = "none"
    BY <1>1 DEF Kept, AtRest
  <1>5. ItemsOK(d, all)
    BY <1>1, <1>3 DEF Kept, ItemsOK
  <1>6. UrlsOK(d) /\ LoadOK(d, all) /\ AtRest(d) /\ ShowsWhatItMay(d)
    BY <1>1, <1>3, <1>4 DEF UrlsOK, LoadOK, AtRest, ShowsWhatItMay, Media, Live
  <1> QED BY <1>1, <1>3, <1>5, <1>6 DEF Sound, GoesOn, Kept, d

----------------------------------------------------------------------------
(* The calls.                                                              *)

\* What is to be loaded, or shown at once, is an item of an active show.
LEMMA AttemptedSound ==
    ASSUME NEW all, NEW k, Kept(k, all), k.active, NEW a, Has(k, a), NEW left \in Nat,
           NEW then \in {"begin", "tick", "manual", "failed"},
           then = "manual" => k.manual, then = "failed" => Len(k.items) < all
    PROVE  Sound(Attempted(k, a, then, left), all)
  <1>1. k \in Controllers /\ a \in Assets /\ k.items # <<>>
    BY HasIsAsset, HasItem DEF Kept
  <1>2. CASE k.urls[a] = "live"
    <2>1. /\ Kept(Shown(k, a), all)
          /\ Shown(k, a).active /\ Shown(k, a).items = k.items
          /\ Shown(k, a).manual = k.manual
      BY <1>2, ShownKept
    <2>2. Attempted(k, a, then, left) = IF then = "manual" THEN Shown(k, a) ELSE Scheduled(Shown(k, a))
      BY <1>2 DEF Attempted, Continued
    <2>3. CASE then = "manual"
      BY <2>1, <2>2, <2>3, <1>1 DEF Sound, GoesOn
    <2>4. CASE then # "manual"
      BY <2>1, <2>2, <2>4, <1>1, ScheduledKept DEF Sound
    <2> QED BY <2>3, <2>4
  <1>3. CASE k.urls[a] # "live"
    <2> DEFINE load == [asset |-> a, then |-> then, left |-> left]
               d == [k EXCEPT !.load = {load}]
    <2>1. load \in Loads
      BY <1>1 DEF Loads
    <2>1a. load.asset = a /\ load.then = then
      OBVIOUS
    <2>2. Attempted(k, a, then, left) = d
      BY <1>3 DEF Attempted
    <2> HIDE DEF load
    <2>3. /\ d \in Controllers /\ d.items = k.items /\ d.urls = k.urls /\ d.load = {load}
          /\ d.manual = k.manual /\ d.active = k.active /\ d.timer = k.timer
          /\ d.destroyed = k.destroyed /\ d.index = k.index /\ d.shown = k.shown
          /\ d.poster = k.poster /\ d.posterFailed = k.posterFailed
      BY <1>1, <2>1 DEF Controllers
    <2> HIDE DEF d
    <2>4. \A b : Has(d, b) <=> Has(k, b)
      BY <2>3, SameItems
    <2>5. k.urls[a] = "none"
      <3>1. k.urls[a] \in {"none", "live", "revoked"} /\ UrlsOK(k)
        BY <1>1 DEF Kept, Controllers
      <3> QED BY <3>1, <1>1, <1>3 DEF UrlsOK
    <2>6. LoadOK(d, all)
      BY <2>3, <2>1a, <2>4, <2>5 DEF LoadOK
    <2>7. ItemsOK(d, all) /\ AtRest(d)
      BY <2>3 DEF ItemsOK, AtRest, Live, Kept
    <2>8. UrlsOK(d) /\ ShowsWhatItMay(d)
      BY <2>3, <2>4 DEF UrlsOK, ShowsWhatItMay, Media, Kept
    <2>9. GoesOn(d, all)
      BY <2>3 DEF GoesOn
    <2> QED BY <2>2, <2>3, <2>6, <2>7, <2>8, <2>9, <1>1 DEF Sound, Kept
  <1> QED BY <1>2, <1>3

\* The item after the present one is an item.
LEMMA NextIsItem ==
    ASSUME NEW all, NEW k, Kept(k, all), k.items # <<>>
    PROVE  Has(k, NextItem(k)) /\ Has(k, k.items[1]) /\ Has(k, k.items[k.index])
  <1>1. k \in Controllers /\ k.items \in Seq(Assets) /\ k.index \in Nat \ {0}
    BY DEF Kept, Controllers
  <1> DEFINE n == Len(k.items)
  <1>2. n \in Nat \ {0} /\ k.index <= n
    BY <1>1 DEF Kept, ItemsOK
  <1> HIDE DEF n
  <1>3. k.index % n \in 0 .. n - 1
    BY <1>1, <1>2
  <1>4. (k.index % n) + 1 \in 1 .. n /\ 1 \in 1 .. n /\ k.index \in 1 .. n
    BY <1>1, <1>2, <1>3
  <1> QED BY <1>4, <1>1, HasItem DEF NextItem, n

\* Of a show without items nothing more is expected.
LEMMA EmptySound ==
    ASSUME NEW all, NEW k, Kept(k, all), k.items = <<>>
    PROVE  Sound(k, all)
  <1>1. Len(k.items) = 0 /\ all \in Nat /\ all > 1
    BY DEF Kept
  <1>2. ~(Len(k.items) + 1 >= all)
    BY <1>1
  <1> QED BY <1>2 DEF Sound, GoesOn

LEMMA AdvancedSound ==
    ASSUME NEW all, NEW k, Kept(k, all), k.active,
           NEW then \in {"tick", "manual"}, then = "manual" => k.manual
    PROVE  Sound(Advanced(k, then), all)
  <1>1. Len(k.items) \in Nat
    BY DEF Kept, Controllers
  <1>2. CASE k.items = <<>>
    BY <1>2, EmptySound DEF Advanced
  <1>3. CASE k.items # <<>>
    <2> DEFINE left == IF Len(k.items) = 1 THEN 0 ELSE Len(k.items)
    <2>1. left \in Nat
      BY <1>1
    <2>2. Advanced(k, then) = Attempted(k, NextItem(k), then, left)
      BY <1>3 DEF Advanced
    <2> HIDE DEF left
    <2> QED BY <2>1, <2>2, <1>3, NextIsItem, AttemptedSound
  <1> QED BY <1>2, <1>3

LEMMA MissedSound ==
    ASSUME NEW all, NEW k, Kept(k, all), k.active, NEW left \in Nat,
           NEW then \in {"begin", "tick", "manual", "failed"},
           then = "manual" => k.manual, then = "failed" => Len(k.items) + 1 < all
    PROVE  Sound(Missed(k, then, left), all)
  <1>1. Len(k.items) \in Nat /\ all \in Nat
    BY DEF Kept, Controllers
  <1>2. CASE k.items = <<>>
    BY <1>2, StoppedSound, EmptySound DEF Missed
  <1>3. CASE k.items # <<>> /\ then = "begin"
    <2>1. Missed(k, then, left) = Attempted(k, k.items[1], then, left)
      BY <1>3 DEF Missed
    <2> QED BY <2>1, <1>3, NextIsItem, AttemptedSound
  <1>4. CASE k.items # <<>> /\ then \in {"tick", "manual"} /\ left > 1
    <2>1. Missed(k, then, left) = Attempted(k, NextItem(k), then, left - 1) /\ left - 1 \in Nat
      BY <1>4 DEF Missed
    <2> QED BY <2>1, <1>4, NextIsItem, AttemptedSound
  <1>5. CASE k.items # <<>> /\ then = "tick" /\ left <= 1
    <2>1. Missed(k, then, left) = Scheduled(k)
      BY <1>5 DEF Missed
    <2> QED BY <2>1, <1>5, ScheduledKept DEF Sound
  <1>6. CASE k.items # <<>> /\ (then = "failed" \/ (then = "manual" /\ left <= 1))
    <2>1. Missed(k, then, left) = k
      BY <1>6 DEF Missed
    <2>2. GoesOn(k, all)
      BY <1>1, <1>6 DEF GoesOn
    <2> QED BY <2>1, <2>2, <1>6 DEF Sound
  <1>7. \/ k.items = <<>>
        \/ k.items # <<>> /\ then = "begin"
        \/ k.items # <<>> /\ then \in {"tick", "manual"} /\ left > 1
        \/ k.items # <<>> /\ then = "tick" /\ left <= 1
        \/ k.items # <<>> /\ (then = "failed" \/ (then = "manual" /\ left <= 1))
    OBVIOUS
  <1> QED BY <1>2, <1>3, <1>4, <1>5, <1>6, <1>7, Zenon

LEMMA StartedSound ==
    ASSUME NEW all, NEW k, Kept(k, all), Startable(k)
    PROVE  Sound(Started(k), all) /\ Started(k).active
  <1> DEFINE d == Started(k)
  <1>1. k \in Controllers /\ ~k.destroyed /\ ~k.active /\ k.items # <<>>
    BY DEF Kept, Startable
  <1>2. d = [k EXCEPT !.active = TRUE, !.timer = "dwell"]
    BY DEF Started
  <1> HIDE DEF d
  <1>3. /\ d \in Controllers /\ d.items = k.items /\ d.urls = k.urls /\ d.load = k.load
        /\ d.manual = k.manual /\ d.active = TRUE /\ d.timer = "dwell"
        /\ d.destroyed = k.destroyed /\ d.index = k.index /\ d.shown = k.shown
        /\ d.poster = k.poster /\ d.posterFailed = k.posterFailed
    BY <1>1, <1>2 DEF Controllers
  <1>4. \A a : Has(d, a) <=> Has(k, a)
    BY <1>3, SameItems
  <1>5. AtRest(d) /\ ShowsWhatItMay(d) /\ (d.items # <<>> => d.index <= Len(d.items))
    BY <1>1, <1>3, <1>4 DEF AtRest, ShowsWhatItMay, Media, Kept, ItemsOK
  <1>6. Kept(d, all)
    BY <1>3, <1>5, KeptWith
  <1> QED BY <1>1, <1>3, <1>6 DEF Sound, GoesOn, d

LEMMA StaleEndedSound ==
    ASSUME NEW all, NEW k, Sound(k, all), NEW a
    PROVE  Sound(StaleEnded(k, a), all) /\ StaleEnded(k, a).active = k.active
  <1> DEFINE d == StaleEnded(k, a)
             rest == k.stale \ {a}
  <1>1. k \in Controllers /\ Kept(k, all)
    BY DEF Kept, Sound
  <1>1a. rest \in SUBSET Assets
    BY <1>1 DEF Controllers
  <1>2. d = [k EXCEPT !.stale = rest]
    BY <1>1 DEF StaleEnded, Controllers
  <1> HIDE DEF d, rest
  <1>3. /\ d \in Controllers /\ d.items = k.items /\ d.urls = k.urls /\ d.load = k.load
        /\ d.manual = k.manual /\ d.active = k.active /\ d.timer = k.timer
        /\ d.destroyed = k.destroyed /\ d.index = k.index /\ d.shown = k.shown
        /\ d.poster = k.poster /\ d.posterFailed = k.posterFailed
    BY <1>1, <1>1a, <1>2 DEF Controllers
  <1>4. \A b : Has(d, b) <=> Has(k, b)
    BY <1>3, SameItems
  <1>5. AtRest(d) /\ ShowsWhatItMay(d) /\ (d.items # <<>> => d.index <= Len(d.items))
    BY <1>1, <1>3, <1>4 DEF AtRest, ShowsWhatItMay, Media, Kept, ItemsOK, Live
  <1>6. Kept(d, all)
    BY <1>1, <1>3, <1>5, KeptWith
  <1> QED BY <1>3, <1>6 DEF Sound, GoesOn, d

LEMMA TimerFiredSound ==
    ASSUME NEW all, NEW k, Sound(k, all), k.timer # "none"
    PROVE  Sound(TimerFired(k), all) /\ k.active
  <1> DEFINE d == [k EXCEPT !.timer = "none"]
  <1>1. k \in Controllers /\ Kept(k, all)
    BY DEF Kept, Sound
  <1>2. k.active
    BY <1>1 DEF Kept, AtRest, Controllers
  <1>3. Kept(d, all)
    BY <1>1, IdleKept
  <1>4. d.active = k.active /\ d.items = k.items
    BY <1>1 DEF Controllers
  <1>5. TimerFired(k) = IF k.timer = "dwell" THEN Missed(d, "begin", 1) ELSE Advanced(d, "tick")
    BY DEF TimerFired
  <1> HIDE DEF d
  <1>6. Sound(Missed(d, "begin", 1), all) /\ Sound(Advanced(d, "tick"), all)
    BY <1>2, <1>3, <1>4, MissedSound, AdvancedSound
  <1> QED BY <1>2, <1>5, <1>6

LEMMA LoadEndedSound ==
    ASSUME NEW all, NEW k, Sound(k, all), NEW load \in k.load, NEW ok \in BOOLEAN
    PROVE  Sound(LoadEnded(k, load, ok), all) /\ k.active
  <1> DEFINE a == load.asset
             idle == [k EXCEPT !.load = {}]
             with == [idle EXCEPT !.urls[a] = "live"]
  <1>1. k \in Controllers /\ Kept(k, all) /\ all \in Nat
    BY DEF Kept, Sound
  <1>2. /\ load \in Loads /\ a \in Assets /\ load.left \in Nat
        /\ load.then \in {"begin", "tick", "manual", "failed"}
    BY <1>1 DEF Controllers, Loads
  <1>3. /\ k.active /\ ~k.destroyed /\ Has(k, a)
        /\ load.then = "manual" => k.manual
        /\ load.then = "failed" => Len(k.items) < all
    BY <1>1 DEF Kept, AtRest, LoadOK, Controllers
  <1>4. Kept(idle, all)
    BY <1>1, IdleKept
  <1>5. /\ idle \in Controllers /\ idle.items = k.items /\ idle.urls = k.urls /\ idle.load = {}
        /\ idle.manual = k.manual /\ idle.active = k.active /\ idle.timer = k.timer
        /\ idle.destroyed = k.destroyed /\ idle.index = k.index /\ idle.shown = k.shown
          /\ idle.poster = k.poster /\ idle.posterFailed = k.posterFailed
    BY <1>1 DEF Controllers
  <1>6. LoadEnded(k, load, ok) =
          IF ok /\ Has(k, a) THEN Continued(Shown(with, a), load.then)
          ELSE Missed(IF Has(k, a) THEN Dropped(idle, a) ELSE idle, load.then, load.left)
    BY DEF LoadEnded
  <1> HIDE DEF idle
  <1>7. CASE ok
    <2> DEFINE urls == [idle.urls EXCEPT ![a] = "live"]
    <2>1. /\ urls \in [Assets -> {"none", "live", "revoked"}] /\ urls[a] = "live"
          /\ \A b \in Assets : b # a => urls[b] = idle.urls[b]
      BY <1>2, <1>5 DEF Controllers
    <2>2. with = [idle EXCEPT !.urls = urls]
      BY <1>5 DEF Controllers
    <2> HIDE DEF urls, with, a
    <2>3. /\ with \in Controllers /\ with.items = k.items /\ with.urls = urls /\ with.load = {}
          /\ with.manual = k.manual /\ with.active = k.active /\ with.timer = k.timer
          /\ with.destroyed = k.destroyed /\ with.index = k.index /\ with.shown = k.shown
          /\ with.poster = k.poster /\ with.posterFailed = k.posterFailed
      BY <1>5, <2>1, <2>2 DEF Controllers
    <2>4. \A b : /\ Has(with, b) <=> Has(k, b)
                 /\ Has(idle, b) <=> Has(k, b)
      BY <2>3, <1>5, SameItems
    <2>5. ItemsOK(with, all) /\ LoadOK(with, all) /\ AtRest(with)
      BY <1>1, <1>3, <2>3 DEF Kept, ItemsOK, LoadOK, AtRest
    <2>6. UrlsOK(with)
      BY <1>4, <1>3, <2>1, <2>3, <2>4 DEF Kept, UrlsOK
    <2>7. ShowsWhatItMay(with)
      BY <1>3, <1>4, <1>5, <2>1, <2>3, <2>4 DEF Kept, ShowsWhatItMay, Media
    <2>8. Kept(with, all)
      BY <1>1, <2>3, <2>5, <2>6, <2>7 DEF Kept
    <2> DEFINE s == Shown(with, a)
    <2>8a. with.active /\ Has(with, a) /\ with.urls[a] = "live"
      BY <2>1, <2>3, <2>4, <1>3 DEF a
    <2>9. Kept(s, all) /\ s.active /\ s.items = with.items /\ s.manual = with.manual
      BY <2>8, <2>8a, ShownKept
    <2>10. s.items # <<>>
      BY <1>1, <1>3, <2>3, <2>9, HasItem
    <2>11. LoadEnded(k, load, ok) = IF load.then = "manual" THEN s ELSE Scheduled(s)
      BY <1>6, <1>7, <1>3 DEF Continued
    <2> HIDE DEF s
    <2>12. CASE load.then = "manual"
      BY <2>3, <2>9, <2>10, <2>11, <2>12, <1>3 DEF Sound, GoesOn
    <2>13. CASE load.then # "manual"
      BY <2>9, <2>10, <2>11, <2>13, <1>3, ScheduledKept DEF Sound
    <2> QED BY <2>12, <2>13
  <1>8. CASE ~ok
    <2> DEFINE d == Dropped(idle, a)
    <2>1. Has(idle, a)
      BY <1>3, <1>5, SameItems
    <2>2. /\ Kept(d, all) /\ d.active = idle.active /\ d.manual = idle.manual
          /\ Len(k.items) \in Nat /\ Len(d.items) = Len(k.items) - 1
      BY <1>4, <1>5, <2>1, DroppedKept DEF Controllers
    <2>3. LoadEnded(k, load, ok) = Missed(d, load.then, load.left)
      BY <1>3, <1>6, <1>8
    <2> HIDE DEF d
    <2>4. load.then = "failed" => Len(d.items) + 1 < all
      BY <1>1, <1>3, <2>2
    <2>5. d.active /\ (load.then = "manual" => d.manual)
      BY <1>3, <1>5, <2>2
    <2> DEFINE then == load.then
               left == load.left
    <2>6. /\ then \in {"begin", "tick", "manual", "failed"} /\ left \in Nat
          /\ then = "manual" => d.manual
          /\ then = "failed" => Len(d.items) + 1 < all
      BY <1>2, <2>4, <2>5
    <2>7. LoadEnded(k, load, ok) = Missed(d, then, left)
      BY <2>3
    <2> HIDE DEF then, left
    <2>8. Sound(Missed(d, then, left), all)
      BY <2>2, <2>5, <2>6, MissedSound, Zenon
    <2> QED BY <2>7, <2>8, <1>3
  <1> QED BY <1>3, <1>7, <1>8

LEMMA ClickedSound ==
    ASSUME NEW all, NEW k, Sound(k, all)
    PROVE  Sound(Clicked(k), all)
  <1> DEFINE stopped == Stopped(k)
             begun == [stopped EXCEPT !.active = TRUE, !.manual = TRUE,
                         !.stale = IF stopped.urls[stopped.items[1]] = "live" THEN @
                                   ELSE @ \cup {stopped.items[1]}]
  <1>1. Sound(stopped, all) /\ ~stopped.active
    BY StoppedSound DEF Sound
  <1>2. Clicked(k) = IF k.manual \/ ~Startable(stopped) THEN stopped ELSE Advanced(begun, "manual")
    BY DEF Clicked
  <1>3. CASE k.manual \/ ~Startable(stopped)
    BY <1>1, <1>2, <1>3
  <1>4. CASE ~(k.manual \/ ~Startable(stopped))
    <2> DEFINE late == IF stopped.urls[stopped.items[1]] = "live" THEN stopped.stale
                       ELSE stopped.stale \cup {stopped.items[1]}
    <2> HIDE DEF stopped
    <2>1. stopped \in Controllers /\ Kept(stopped, all) /\ stopped.items \in Seq(Assets)
      BY <1>1 DEF Sound, Kept, Controllers
    <2>2. ~stopped.destroyed /\ ~stopped.active /\ stopped.items # <<>>
      BY <1>4 DEF Startable
    <2>3. late \in SUBSET Assets
      <3>1. stopped.items[1] \in Assets
        BY <2>1, <2>2
      <3> QED BY <3>1, <2>1 DEF Controllers
    <2>4. begun = [stopped EXCEPT !.active = TRUE, !.manual = TRUE, !.stale = late]
      BY <2>1 DEF Controllers
    <2> HIDE DEF late, begun
    <2>5. /\ begun \in Controllers /\ begun.items = stopped.items /\ begun.urls = stopped.urls
          /\ begun.load = stopped.load /\ begun.manual = TRUE /\ begun.active = TRUE
          /\ begun.timer = stopped.timer /\ begun.destroyed = stopped.destroyed
          /\ begun.index = stopped.index /\ begun.shown = stopped.shown
          /\ begun.poster = stopped.poster /\ begun.posterFailed = stopped.posterFailed
      BY <2>1, <2>3, <2>4, Zenon DEF Controllers
    <2>6. \A a : Has(begun, a) <=> Has(stopped, a)
      BY <2>5, SameItems
    <2>7. AtRest(begun) /\ (begun.items # <<>> => begun.index <= Len(begun.items))
      BY <2>1, <2>2, <2>5 DEF AtRest, Kept, ItemsOK
    <2>8. ShowsWhatItMay(begun)
      BY <2>1, <2>2, <2>5, <2>6 DEF Kept, ShowsWhatItMay, Media
    <2>9. Kept(begun, all)
      BY <2>1, <2>5, <2>7, <2>8, KeptWith
    <2>10. Sound(Advanced(begun, "manual"), all)
      BY <2>2, <2>5, <2>9, AdvancedSound
    <2> QED BY <1>2, <1>4, <2>10
  <1> QED BY <1>3, <1>4

\* An asset that has a node has, or had, a URL, or the controller is destroyed: no load of
\* this generation is of it.
LEMMA AssetFailedSound ==
    ASSUME NEW all, NEW k, Sound(k, all), NEW a, Has(k, a), k.urls[a] # "none" \/ k.load = {}
    PROVE  Sound(AssetFailed(k, a), all)
  <1> DEFINE d == Dropped(k, a)
  <1>1. k \in Controllers /\ Kept(k, all) /\ all \in Nat /\ k.items \in Seq(Assets)
    BY DEF Kept, Sound, Controllers
  <1>2. \A l \in k.load : l.asset # a
    BY <1>1 DEF Kept, LoadOK
  <1>3. /\ Kept(d, all) /\ Len(k.items) > 0 /\ Len(d.items) = Len(k.items) - 1
        /\ d.active = k.active /\ d.load = k.load /\ d.timer = k.timer /\ d.manual = k.manual
    BY <1>1, <1>2, DroppedKept
  <1>4. AssetFailed(k, a) =
          IF ~k.active \/ k.items[k.index] # a THEN d
          ELSE IF d.items = <<>> THEN Stopped(d)
          ELSE Attempted(Renewed(d), d.items[d.index], "failed", 1)
    BY DEF AssetFailed
  <1> HIDE DEF d
  <1>5. d \in Controllers /\ Len(d.items) \in Nat /\ Len(k.items) \in Nat
    BY <1>1, <1>3 DEF Kept, Controllers
  <1>6. Len(k.items) <= all
    BY <1>1 DEF Kept, ItemsOK
  <1>7. CASE ~k.active \/ k.items[k.index] # a
    <2>1. GoesOn(d, all)
      <3>1. GoesOn(k, all)
        BY DEF Sound
      <3>2. Len(d.items) + 1 >= all => Len(k.items) + 1 >= all
        BY <1>1, <1>3, <1>5
      <3> QED BY <3>1, <3>2, <1>3 DEF GoesOn
    <2> QED BY <1>3, <1>4, <1>7, <2>1 DEF Sound
  <1>8. CASE k.active /\ k.items[k.index] = a /\ d.items = <<>>
    BY <1>3, <1>4, <1>8, StoppedSound
  <1>9. CASE k.active /\ k.items[k.index] = a /\ d.items # <<>>
    <2> DEFINE r == Renewed(d)
               next == d.items[d.index]
    <2>1. Kept(r, all)
      BY <1>3, IdleKept
    <2>2. r.active = d.active /\ r.items = d.items /\ r.manual = d.manual
      BY <1>5 DEF Renewed, Controllers
    <2>3. AssetFailed(k, a) = Attempted(r, next, "failed", 1)
      BY <1>4, <1>9
    <2>4. Has(r, next)
      BY <1>3, <1>9, <2>2, NextIsItem, SameItems
    <2>5. Len(r.items) < all
      BY <1>1, <1>3, <1>5, <1>6, <2>2
    <2> HIDE DEF r, next
    <2>6. r.active
      BY <1>3, <1>9, <2>2
    <2>7. Sound(Attempted(r, next, "failed", 1), all)
      BY <2>1, <2>4, <2>5, <2>6, AttemptedSound
    <2> QED BY <2>3, <2>7
  <1> QED BY <1>7, <1>8, <1>9

LEMMA ErredSound ==
    ASSUME NEW all, NEW k, Sound(k, all), NEW a, k.urls[a] # "none" \/ k.load = {},
           NEW present \in BOOLEAN
    PROVE  Sound(Erred(k, a, present), all)
  <1> DEFINE marked == IF a = k.poster THEN [k EXCEPT !.posterFailed = TRUE] ELSE k
             after == IF Has(marked, a) THEN AssetFailed(marked, a) ELSE marked
  <1>1. k \in Controllers /\ Kept(k, all)
    BY DEF Kept, Sound
  <1>2. Erred(k, a, present) = IF present /\ after.shown = k.shown THEN Restored(after) ELSE after
    BY DEF Erred
  <1>3. /\ marked \in Controllers /\ marked.items = k.items /\ marked.urls = k.urls
        /\ marked.load = k.load /\ marked.manual = k.manual /\ marked.active = k.active
        /\ marked.timer = k.timer /\ marked.destroyed = k.destroyed
        /\ marked.index = k.index /\ marked.shown = k.shown
        /\ marked.poster = k.poster /\ (k.posterFailed => marked.posterFailed)
    <2>1. CASE a = k.poster
      BY <1>1, <2>1 DEF Controllers
    <2>2. CASE a # k.poster
      BY <1>1, <2>2
    <2> QED BY <2>1, <2>2
  <1> HIDE DEF marked
  <1>4. \A b : Has(marked, b) <=> Has(k, b)
    BY <1>3, SameItems
  <1>5. AtRest(marked) /\ (marked.items # <<>> => marked.index <= Len(marked.items))
    BY <1>1, <1>3 DEF AtRest, Kept, ItemsOK, Live
  <1>6. ShowsWhatItMay(marked)
    BY <1>1, <1>3, <1>4 DEF Kept, ShowsWhatItMay, Media
  <1>7. Kept(marked, all)
    BY <1>1, <1>3, <1>5, <1>6, KeptWith
  <1>8. Sound(marked, all)
    BY <1>3, <1>7 DEF Sound, GoesOn
  <1>9. Sound(after, all)
    BY <1>3, <1>8, AssetFailedSound
  <1> HIDE DEF after
  <1>10. Sound(Restored(after), all)
    <2> DEFINE r == Restored(after)
    <2>1. Kept(after, all)
      BY <1>9 DEF Sound
    <2>2. /\ Kept(r, all) /\ r.active = after.active /\ r.items = after.items
          /\ r.timer = after.timer /\ r.load = after.load /\ r.manual = after.manual
      BY <2>1, RestoredKept
    <2> HIDE DEF r
    <2>3. GoesOn(r, all)
      BY <1>9, <2>2 DEF Sound, GoesOn
    <2> QED BY <2>2, <2>3 DEF Sound, r
  <1> QED BY <1>2, <1>9, <1>10

\* A controller as it is made.
LEMMA CreatedSound ==
    ASSUME NEW items \in Seq(Assets), IsInjective(items), Len(items) > 1, NEW readable \in BOOLEAN
    PROVE  Sound(Created(items, readable), Len(items)) /\ ~Created(items, readable).active
  <1> DEFINE d == Created(items, readable)
             urls == [a \in Assets |-> IF readable /\ a = items[1] THEN "live" ELSE "none"]
  <1>1. items[1] \in Assets /\ Len(items) \in Nat
    OBVIOUS
  <1>2. urls \in [Assets -> {"none", "live", "revoked"}]
    OBVIOUS
  <1>3. d = [items |-> items, index |-> 1, active |-> FALSE, destroyed |-> FALSE,
             timer |-> "none", load |-> {}, stale |-> {}, urls |-> urls,
             poster |-> items[1], posterFailed |-> ~readable,
             shown |-> IF readable THEN "poster" ELSE "placeholder", manual |-> FALSE]
    BY DEF Created
  <1>4. \A a \in Assets : urls[a] # "revoked" /\ (urls[a] = "live" => a = items[1])
    OBVIOUS
  <1>4a. readable => urls[items[1]] = "live"
    BY <1>1
  <1> HIDE DEF d, urls
  <1>5. /\ d \in Controllers /\ d.items = items /\ d.index = 1 /\ d.active = FALSE
        /\ d.destroyed = FALSE /\ d.timer = "none" /\ d.load = {} /\ d.urls = urls
        /\ d.poster = items[1] /\ d.posterFailed = ~readable
        /\ d.shown = IF readable THEN "poster" ELSE "placeholder"
        /\ d.shown \notin Assets
    BY <1>1, <1>2, <1>3, NotAnAsset DEF Controllers
  <1>6. Has(d, items[1])
    BY <1>1, <1>5, HasItem
  <1>7. ItemsOK(d, Len(items))
    BY <1>1, <1>5 DEF ItemsOK
  <1>8. UrlsOK(d)
    BY <1>4, <1>5, <1>6 DEF UrlsOK
  <1>9. LoadOK(d, Len(items)) /\ AtRest(d) /\ ShowsWhatItMay(d) /\ GoesOn(d, Len(items))
    BY <1>4a, <1>5, <1>1, NotAnAsset DEF LoadOK, AtRest, ShowsWhatItMay, Media, GoesOn
  <1> QED BY <1>1, <1>5, <1>7, <1>8, <1>9 DEF Sound, Kept, d

LEMMA ErredIdle ==
    ASSUME NEW all, NEW k, Sound(k, all), ~k.active, NEW a, NEW present \in BOOLEAN
    PROVE  ~Erred(k, a, present).active
  <1> DEFINE marked == IF a = k.poster THEN [k EXCEPT !.posterFailed = TRUE] ELSE k
             after == IF Has(marked, a) THEN AssetFailed(marked, a) ELSE marked
             d == Dropped(marked, a)
  <1>1. k \in Controllers /\ k.load = {}
    BY DEF Kept, Sound, AtRest
  <1>2. marked \in Controllers /\ marked.active = k.active /\ marked.load = {}
    <2>1. CASE a = k.poster
      BY <1>1, <2>1 DEF Controllers
    <2>2. CASE a # k.poster
      BY <1>1, <2>2
    <2> QED BY <2>1, <2>2
  <1>3. Erred(k, a, present) = IF present /\ after.shown = k.shown THEN Restored(after) ELSE after
    BY DEF Erred
  <1> HIDE DEF marked
  <1>4. after \in Controllers /\ ~after.active
    <2>1. CASE Has(marked, a)
      <3>1. IsInjective(marked.items)
        BY DEF Sound, Kept, ItemsOK, marked, Controllers
      <3>2. d \in Controllers /\ d = [marked EXCEPT !.items = d.items, !.urls = d.urls, !.index = d.index]
        BY <1>2, <2>1, <3>1, ItemsDropped
      <3>3. after = d
        BY <1>2, <2>1 DEF AssetFailed
      <3> HIDE DEF d
      <3>4. d.active = marked.active
        BY <1>2, <3>2 DEF Controllers
      <3> QED BY <1>2, <3>2, <3>3, <3>4
    <2>2. CASE ~Has(marked, a)
      BY <1>2, <2>2
    <2> QED BY <2>1, <2>2
  <1> HIDE DEF after
  <1>5. ~Restored(after).active
    BY <1>4 DEF Restored, Controllers
  <1> QED BY <1>3, <1>4, <1>5

----------------------------------------------------------------------------
(* Only destroy() destroys.                                                *)

\* d is the controller k later in its life.
SameLife(k, d) == "destroyed" \in DOMAIN k => "destroyed" \in DOMAIN d /\ d.destroyed = k.destroyed

LEMMA PartsKeepLife ==
    ASSUME NEW k
    PROVE  /\ \A a : SameLife(k, Shown(k, a)) /\ SameLife(k, Dropped(k, a))
           /\ SameLife(k, Restored(k)) /\ SameLife(k, Renewed(k)) /\ SameLife(k, Scheduled(k))
           /\ \A l : SameLife(k, [k EXCEPT !.load = l])
           /\ \A t : SameLife(k, [k EXCEPT !.timer = t])
  <1>1. \A a : SameLife(k, Shown(k, a))
    BY DEF SameLife, Shown
  <1>2. \A a : SameLife(k, Dropped(k, a))
    BY DEF SameLife, Dropped
  <1>3. SameLife(k, Restored(k)) /\ SameLife(k, Renewed(k)) /\ SameLife(k, Scheduled(k))
    BY DEF SameLife, Restored, Renewed, Scheduled
  <1>4. \A l : SameLife(k, [k EXCEPT !.load = l])
    BY DEF SameLife
  <1>5. \A t : SameLife(k, [k EXCEPT !.timer = t])
    BY DEF SameLife
  <1> QED BY <1>1, <1>2, <1>3, <1>4, <1>5

LEMMA LifeGoesOn ==
    ASSUME NEW k, NEW d, NEW e, SameLife(k, d), SameLife(d, e)
    PROVE  SameLife(k, e)
  BY DEF SameLife

LEMMA SameLifeItself == ASSUME NEW k PROVE SameLife(k, k)
  BY DEF SameLife

LEMMA StoppedKeepsLife == ASSUME NEW k PROVE SameLife(k, Stopped(k))
  <1> DEFINE quiet == [Renewed(k) EXCEPT !.active = FALSE, !.index = 1, !.manual = FALSE]
  <1>1. SameLife(Renewed(k), quiet)
    BY DEF SameLife
  <1>2. SameLife(k, quiet)
    BY <1>1, PartsKeepLife, LifeGoesOn
  <1>3. /\ SameLife(quiet, [quiet EXCEPT !.shown = k.items[1]])
        /\ SameLife(quiet, Restored(quiet))
    <2> HIDE DEF quiet
    <2>1. SameLife(quiet, [quiet EXCEPT !.shown = k.items[1]])
      BY DEF SameLife
    <2> QED BY <2>1, PartsKeepLife
  <1>4. Stopped(k) \in {k, quiet, [quiet EXCEPT !.shown = k.items[1]], Restored(quiet)}
    BY DEF Stopped
  <1> HIDE DEF quiet
  <1> QED BY <1>2, <1>3, <1>4, LifeGoesOn, SameLifeItself

LEMMA AttemptsKeepLife ==
    ASSUME NEW k
    PROVE  /\ \A a, then, left : SameLife(k, Attempted(k, a, then, left))
           /\ \A then : SameLife(k, Advanced(k, then))
           /\ \A then, left : SameLife(k, Missed(k, then, left))
  <1>1. ASSUME NEW a, NEW then PROVE SameLife(k, Continued(Shown(k, a), then))
    <2> DEFINE s == Shown(k, a)
    <2>1. SameLife(k, s)
      BY PartsKeepLife
    <2> HIDE DEF s
    <2>2. SameLife(k, Scheduled(s))
      BY <2>1, PartsKeepLife, LifeGoesOn
    <2> QED BY <2>1, <2>2 DEF Continued, s
  <1>2. \A a, then, left : SameLife(k, Attempted(k, a, then, left))
    BY <1>1, PartsKeepLife DEF Attempted
  <1>3. \A then : SameLife(k, Advanced(k, then))
    BY <1>2, SameLifeItself DEF Advanced
  <1>4. \A then, left : SameLife(k, Missed(k, then, left))
    BY <1>2, SameLifeItself, StoppedKeepsLife, PartsKeepLife DEF Missed
  <1> QED BY <1>2, <1>3, <1>4

LEMMA CallsKeepLife ==
    ASSUME NEW k
    PROVE  /\ \A load, ok : SameLife(k, LoadEnded(k, load, ok))
           /\ SameLife(k, TimerFired(k)) /\ SameLife(k, Clicked(k))
           /\ \A a : SameLife(k, StaleEnded(k, a))
           /\ \A a, present : SameLife(k, Erred(k, a, present))
  <1>1. ASSUME NEW load, NEW ok PROVE SameLife(k, LoadEnded(k, load, ok))
    <2> DEFINE idle == [k EXCEPT !.load = {}]
               with == [idle EXCEPT !.urls[load.asset] = "live"]
               s == Shown(with, load.asset)
               d == IF Has(k, load.asset) THEN Dropped(idle, load.asset) ELSE idle
    <2>1. SameLife(k, idle)
      BY PartsKeepLife
    <2>2. SameLife(idle, with)
      <3> HIDE DEF idle
      <3> QED BY DEF SameLife
    <2>3. LoadEnded(k, load, ok) =
            IF ok /\ Has(k, load.asset) THEN Continued(s, load.then)
            ELSE Missed(d, load.then, load.left)
      BY DEF LoadEnded
    <2> HIDE DEF idle, with
    <2>4. SameLife(k, s) /\ SameLife(k, d)
      BY <2>1, <2>2, PartsKeepLife, LifeGoesOn
    <2> HIDE DEF s, d
    <2>5. SameLife(s, Continued(s, load.then))
      BY PartsKeepLife, SameLifeItself DEF Continued
    <2>6. SameLife(d, Missed(d, load.then, load.left))
      BY AttemptsKeepLife
    <2> QED BY <2>3, <2>4, <2>5, <2>6, LifeGoesOn
  <1>2. SameLife(k, TimerFired(k))
    <2> DEFINE idle == [k EXCEPT !.timer = "none"]
    <2>1. SameLife(k, idle)
      BY PartsKeepLife
    <2>2. TimerFired(k) = IF k.timer = "dwell" THEN Missed(idle, "begin", 1) ELSE Advanced(idle, "tick")
      BY DEF TimerFired
    <2> HIDE DEF idle
    <2>3. SameLife(idle, Missed(idle, "begin", 1)) /\ SameLife(idle, Advanced(idle, "tick"))
      BY AttemptsKeepLife
    <2> QED BY <2>1, <2>2, <2>3, LifeGoesOn
  <1>3. SameLife(k, Clicked(k))
    <2> DEFINE stopped == Stopped(k)
               begun == [stopped EXCEPT !.active = TRUE, !.manual = TRUE,
                           !.stale = IF stopped.urls[stopped.items[1]] = "live" THEN @
                                     ELSE @ \cup {stopped.items[1]}]
    <2>1. SameLife(k, stopped)
      BY StoppedKeepsLife
    <2>2. Clicked(k) = IF k.manual \/ ~Startable(stopped) THEN stopped ELSE Advanced(begun, "manual")
      BY DEF Clicked
    <2>3. SameLife(stopped, begun)
      <3> HIDE DEF stopped
      <3> QED BY DEF SameLife
    <2> HIDE DEF stopped, begun
    <2>4. SameLife(begun, Advanced(begun, "manual"))
      BY AttemptsKeepLife
    <2>5. SameLife(k, Advanced(begun, "manual"))
      BY <2>1, <2>3, <2>4, LifeGoesOn
    <2> QED BY <2>1, <2>2, <2>5
  <1>4. \A a : SameLife(k, StaleEnded(k, a))
    BY DEF SameLife, StaleEnded
  <1>5. ASSUME NEW a, NEW present PROVE SameLife(k, Erred(k, a, present))
    <2> DEFINE marked == IF a = k.poster THEN [k EXCEPT !.posterFailed = TRUE] ELSE k
               after == IF Has(marked, a) THEN AssetFailed(marked, a) ELSE marked
    <2>1. SameLife(k, marked)
      BY DEF SameLife
    <2>2. Erred(k, a, present) = IF present /\ after.shown = k.shown THEN Restored(after) ELSE after
      BY DEF Erred
    <2> HIDE DEF marked
    <2>3. SameLife(marked, AssetFailed(marked, a))
      <3> DEFINE d == Dropped(marked, a)
                 next == Renewed(d)
      <3>1. SameLife(marked, d)
        BY PartsKeepLife
      <3>2. AssetFailed(marked, a) \in {d, Stopped(d), Attempted(next, d.items[d.index], "failed", 1)}
        BY DEF AssetFailed
      <3> HIDE DEF d
      <3>3. SameLife(d, next)
        BY PartsKeepLife
      <3> HIDE DEF next
      <3>4. SameLife(next, Attempted(next, d.items[d.index], "failed", 1)) /\ SameLife(d, Stopped(d))
        BY AttemptsKeepLife, StoppedKeepsLife
      <3> QED BY <3>1, <3>2, <3>3, <3>4, LifeGoesOn
    <2>4. SameLife(k, after)
      BY <2>1, <2>3, LifeGoesOn
    <2> HIDE DEF after
    <2>5. SameLife(after, Restored(after))
      BY PartsKeepLife
    <2> QED BY <2>2, <2>4, <2>5, LifeGoesOn
  <1> QED BY <1>1, <1>2, <1>3, <1>4, <1>5

----------------------------------------------------------------------------
(* The page.                                                               *)

\* Sound, with the preference for reduced motion as a parameter.
Whole(k, all, still) ==
  /\ Kept(k, all)
  /\ k.active /\ ~k.manual /\ ~still /\ Len(k.items) + 1 >= all => k.timer # "none" \/ k.load # {}

LEMMA SoundIsWhole ==
    ASSUME NEW k, NEW all
    PROVE  Sound(k, all) <=> Whole(k, all, reducedMotion)
  BY DEF Sound, Whole, GoesOn

\* A controller is made once, by the render that has counted its card; it is sound, and
\* the one that is active is registered.
PageOK ==
  /\ reducedMotion \in BOOLEAN
  /\ rendering \in [Renders -> 0 .. Len(Items) + 1]
  /\ listed \in Renders \cup {0} /\ away \in BOOLEAN /\ events \in 0 .. MaxEvents
  /\ \A r \in Renders : rendering[r] > 0 => \A earlier \in 1 .. r - 1 : rendering[earlier] > 0
ControllersOK ==
  /\ ctl = [c \in Made |-> ctl[c]] /\ Made \subseteq Renders \X Cards
  /\ \A c \in Made : c[2] < rendering[c[1]]
  /\ \A c \in Made : Whole(ctl[c], Len(Items[c[2]]), reducedMotion)
ActiveOK ==
  /\ activeController \in Made \cup {NoPreview}
  /\ \A c \in Made : ctl[c].active <=> activeController = c
\* Of the cards of the last render none is destroyed: renders begin in order.
OvertakenOK == \A c \in Made : ctl[c].destroyed => Overtaken(c[1])
LibraryInv == PageOK /\ ControllersOK /\ ActiveOK /\ OvertakenOK

LEMMA CardsAre ==
    /\ Cards = 1 .. Len(Items) /\ Len(Items) \in Nat /\ MaxRenders \in Nat /\ MaxEvents \in Nat
    /\ \A i \in Cards : Items[i] \in Seq(Assets) /\ Len(Items[i]) > 1 /\ IsInjective(Items[i])
    /\ NoPreview \notin Renders \X Cards
  <1>1. Items \in Seq(Seq(Assets)) /\ Cards = 1 .. Len(Items) /\ Len(Items) \in Nat
    BY CardsHaveItems DEF Cards
  <1>2. NoPreview \notin Renders \X Cards
    BY <1>1, Bounds DEF NoPreview, Renders
  <1> QED BY <1>1, <1>2, CardsHaveItems, Bounds DEF Cards

\* The invariant for the controllers b, of which none but those in changed differ.
LEMMA ControllersRewritten ==
    ASSUME LibraryInv, NEW b, b = [c \in Made |-> b[c]], DOMAIN b = Made,
           \A c \in Made : Whole(b[c], Len(Items[c[2]]), reducedMotion),
           ctl' = b, UNCHANGED <<reducedMotion, rendering>>
    PROVE  ControllersOK'
  <1>1. /\ DOMAIN ctl' = Made /\ ctl' = [c \in Made |-> ctl'[c]] /\ Made \subseteq Renders \X Cards
        /\ \A c \in Made : c[2] < rendering'[c[1]]
        /\ \A c \in Made : Whole(ctl'[c], Len(Items[c[2]]), reducedMotion')
    BY DEF LibraryInv, ControllersOK
  <1> QED BY <1>1 DEF ControllersOK, Made

LEMMA Becoming ==
    ASSUME LibraryInv, NEW c \in Made, NEW k, Sound(k, Len(Items[c[2]])),
           k.active => ctl[c].active, k.destroyed => ctl[c].destroyed,
           ControllerBecomes(c, k), events' \in 0 .. MaxEvents
    PROVE  LibraryInv'
  <1> DEFINE b == [ctl EXCEPT ![c] = k]
  <1>1. /\ ctl = [d \in Made |-> ctl[d]] /\ Made \subseteq Renders \X Cards
        /\ \A d \in Made : Whole(ctl[d], Len(Items[d[2]]), reducedMotion)
    BY DEF LibraryInv, ControllersOK
  <1>2. Whole(k, Len(Items[c[2]]), reducedMotion)
    BY SoundIsWhole
  <1>3. /\ b = [d \in Made |-> b[d]] /\ DOMAIN b = Made /\ b[c] = k
        /\ \A d \in Made : d # c => b[d] = ctl[d]
    BY <1>1 DEF Made
  <1>4. /\ ctl' = b /\ UNCHANGED <<reducedMotion, rendering, listed, away>>
        /\ activeController' = IF activeController = c /\ ~k.active THEN NoPreview ELSE activeController
    BY DEF ControllerBecomes
  <1> HIDE DEF b
  <1>5. \A d \in Made : Whole(b[d], Len(Items[d[2]]), reducedMotion)
    BY <1>1, <1>2, <1>3
  <1>6. ControllersOK'
    BY <1>3, <1>4, <1>5, ControllersRewritten
  <1>7. PageOK'
    BY <1>4 DEF LibraryInv, PageOK
  <1>8. ActiveOK'
    <2>1. /\ activeController \in Made \cup {NoPreview}
          /\ \A d \in Made : ctl[d].active <=> activeController = d
      BY DEF LibraryInv, ActiveOK
    <2>2. \A d \in Made : d # NoPreview
      BY <1>1, CardsAre
    <2>3. activeController' \in Made \cup {NoPreview}
      BY <1>4, <2>1
    <2>4. \A d \in Made : b[d].active <=> activeController' = d
      BY <1>3, <1>4, <2>1, <2>2
    <2>5. Made' = Made /\ \A d \in Made : ctl'[d].active <=> activeController' = d
      BY <1>3, <1>4, <2>4 DEF Made
    <2> QED BY <2>3, <2>5 DEF ActiveOK
  <1>9. OvertakenOK'
    <2>1. Made' = Made /\ \A d \in Made : ctl'[d].destroyed => ctl[d].destroyed
      BY <1>3, <1>4 DEF Made
    <2> QED BY <2>1, <1>4 DEF LibraryInv, OvertakenOK, Overtaken
  <1> QED BY <1>6, <1>7, <1>8, <1>9 DEF LibraryInv

LEMMA Activating ==
    ASSUME LibraryInv, NEW c \in Made, NEW k, Sound(k, Len(Items[c[2]])), k.active,
           BecomesActive(c, k), events' \in 0 .. MaxEvents
    PROVE  LibraryInv'
  <1> DEFINE b == IF activeController \in {NoPreview, c} THEN [ctl EXCEPT ![c] = k]
                  ELSE [ctl EXCEPT ![c] = k, ![activeController] = Stopped(@)]
  <1>1. /\ ctl = [d \in Made |-> ctl[d]] /\ Made \subseteq Renders \X Cards
        /\ \A d \in Made : Whole(ctl[d], Len(Items[d[2]]), reducedMotion)
        /\ activeController \in Made \cup {NoPreview}
        /\ \A d \in Made : ctl[d].active <=> activeController = d
    BY DEF LibraryInv, ControllersOK, ActiveOK
  <1>2. Whole(k, Len(Items[c[2]]), reducedMotion)
    BY SoundIsWhole
  <1>3. /\ b = [d \in Made |-> b[d]] /\ DOMAIN b = Made /\ b[c] = k
        /\ \A d \in Made : d # c /\ d = activeController => b[d] = Stopped(ctl[d])
        /\ \A d \in Made : d # c /\ d # activeController => b[d] = ctl[d]
    <2>1. \A d \in Made : d # NoPreview
      BY <1>1, CardsAre
    <2>2. CASE activeController \in {NoPreview, c}
      BY <1>1, <2>1, <2>2 DEF Made
    <2>3. CASE activeController \notin {NoPreview, c}
      <3>1. b = [[ctl EXCEPT ![c] = k] EXCEPT ![activeController] = Stopped(ctl[activeController])]
        BY <1>1, <2>3 DEF Made
      <3>2. activeController \in Made /\ activeController # c
        BY <1>1, <2>3
      <3> HIDE DEF b
      <3> QED BY <1>1, <3>1, <3>2 DEF Made
    <2> QED BY <2>2, <2>3
  <1>4. /\ ctl' = b /\ UNCHANGED <<reducedMotion, rendering, listed, away>>
        /\ activeController' = c
    BY DEF BecomesActive, Claims
  <1> HIDE DEF b
  <1>5. ASSUME NEW d \in Made
        PROVE  Whole(b[d], Len(Items[d[2]]), reducedMotion) /\ (b[d].active <=> d = c)
    <2>1. CASE d = c
      BY <1>2, <1>3, <2>1
    <2>2. CASE d # c /\ d = activeController
      <3>1. Kept(ctl[d], Len(Items[d[2]]))
        BY <1>1 DEF Whole
      <3>2. Sound(b[d], Len(Items[d[2]])) /\ ~b[d].active
        BY <1>3, <2>2, <3>1, StoppedSound
      <3> QED BY <3>2, <2>2, SoundIsWhole
    <2>3. CASE d # c /\ d # activeController
      BY <1>1, <1>3, <2>3
    <2> QED BY <2>1, <2>2, <2>3
  <1>6. ControllersOK'
    BY <1>3, <1>4, <1>5, ControllersRewritten
  <1>7. PageOK'
    BY <1>4 DEF LibraryInv, PageOK
  <1>8. ActiveOK'
    <2>1. Made' = Made /\ \A d \in Made : ctl'[d].active <=> activeController' = d
      BY <1>3, <1>4, <1>5 DEF Made
    <2> QED BY <1>4, <2>1 DEF ActiveOK
  <1>9. OvertakenOK'
    <2>1. ~k.destroyed
      BY DEF Sound, Kept, AtRest
    <2>2. ASSUME NEW d \in Made, b[d].destroyed PROVE ctl[d].destroyed
      <3>1. CASE d = c
        BY <1>3, <2>1, <2>2, <3>1
      <3>2. CASE d # c /\ d = activeController
        <4>1. Kept(ctl[d], Len(Items[d[2]]))
          BY <1>1 DEF Whole
        <4>2. b[d].destroyed = ctl[d].destroyed
          BY <1>3, <3>2, <4>1, StoppedSound
        <4> QED BY <2>2, <4>2
      <3>3. CASE d # c /\ d # activeController
        BY <1>3, <2>2, <3>3
      <3> QED BY <3>1, <3>2, <3>3
    <2>3. Made' = Made /\ \A d \in Made : ctl'[d].destroyed => ctl[d].destroyed
      BY <1>3, <1>4, <2>2 DEF Made
    <2> QED BY <2>3, <1>4 DEF LibraryInv, OvertakenOK, Overtaken
  <1> QED BY <1>6, <1>7, <1>8, <1>9 DEF LibraryInv

LEMMA ResetKeeps ==
    ASSUME LibraryInv, ResetPreviews, rendering' \in [Renders -> 0 .. Len(Items) + 1],
           \A c \in Made : c[2] < rendering'[c[1]] /\ Overtaken(c[1])',
           \A r \in Renders : rendering'[r] > 0 => \A earlier \in 1 .. r - 1 : rendering'[earlier] > 0,
           listed' = listed, away' \in BOOLEAN, events' \in 0 .. MaxEvents
    PROVE  LibraryInv'
  <1>1. /\ ctl = [d \in Made |-> ctl[d]] /\ Made \subseteq Renders \X Cards
        /\ \A d \in Made : Whole(ctl[d], Len(Items[d[2]]), reducedMotion)
    BY DEF LibraryInv, ControllersOK
  <1>2. /\ DOMAIN ctl' = Made /\ ctl' = [c \in Made |-> ctl'[c]]
        /\ \A c \in Made : ctl'[c] = Destroyed(ctl[c])
        /\ activeController' = NoPreview /\ reducedMotion' = reducedMotion
    BY DEF ResetPreviews
  <1>3. ASSUME NEW d \in Made
        PROVE  Whole(ctl'[d], Len(Items[d[2]]), reducedMotion) /\ ~ctl'[d].active
    <2>1. Kept(ctl[d], Len(Items[d[2]]))
      BY <1>1 DEF Whole
    <2> DEFINE k == Destroyed(ctl[d])
    <2>2. Sound(k, Len(Items[d[2]])) /\ ~k.active
      BY <2>1, DestroyedSound
    <2>3. ctl'[d] = k
      BY <1>2
    <2> HIDE DEF k
    <2>4. Whole(k, Len(Items[d[2]]), reducedMotion)
      BY <2>2, SoundIsWhole
    <2> QED BY <2>2, <2>3, <2>4
  <1>4. Made' = Made /\ \A d \in Made : d # NoPreview
    BY <1>1, <1>2, CardsAre DEF Made
  <1>5. ControllersOK'
    BY <1>1, <1>2, <1>3, <1>4 DEF ControllersOK
  <1>6. PageOK'
    BY <1>2 DEF LibraryInv, PageOK
  <1>7. ActiveOK'
    BY <1>2, <1>3, <1>4 DEF ActiveOK
  <1>8. OvertakenOK'
    BY <1>4 DEF OvertakenOK
  <1> QED BY <1>5, <1>6, <1>7, <1>8 DEF LibraryInv

\* The media of a card settle once, so its controller is new.
LEMMA CardReadyKeeps ==
    ASSUME LibraryInv, NEW r \in Renders, CardReady(r)
    PROVE  LibraryInv'
  <1> DEFINE i == rendering[r]
             c == <<r, i>>
  <1>1. /\ ctl = [d \in Made |-> ctl[d]] /\ Made \subseteq Renders \X Cards
        /\ \A d \in Made : d[2] < rendering[d[1]]
        /\ \A d \in Made : Whole(ctl[d], Len(Items[d[2]]), reducedMotion)
        /\ activeController \in Made \cup {NoPreview}
        /\ \A d \in Made : ctl[d].active <=> activeController = d
        /\ rendering \in [Renders -> 0 .. Len(Items) + 1] /\ listed \in Renders \cup {0}
    BY DEF LibraryInv, ControllersOK, ActiveOK, PageOK
  <1>2. /\ i \in Cards /\ rendering' = [rendering EXCEPT ![r] = i + 1]
        /\ listed' = IF i = Len(Items) THEN r ELSE listed
        /\ UNCHANGED <<reducedMotion, activeController, away, events>>
    BY DEF CardReady
  <1>3. PICK readable \in BOOLEAN :
           ctl' = [d \in Made \cup {c} |-> IF d = c THEN Created(Items[i], readable) ELSE ctl[d]]
    BY DEF CardReady
  <1> DEFINE k == Created(Items[i], readable)
  <1>4. i \in 1 .. Len(Items) /\ Len(Items) \in Nat
    BY <1>2, CardsAre
  <1>4a. rendering[r] = i
    OBVIOUS
  <1>5. Whole(k, Len(Items[i]), reducedMotion) /\ ~k.active
    <2>1. Sound(k, Len(Items[i])) /\ ~k.active
      BY <1>2, CardsAre, CreatedSound
    <2> HIDE DEF k
    <2> QED BY <2>1, SoundIsWhole
  <1>6. c \notin Made /\ c \in Renders \X Cards /\ c # NoPreview
    <2>1. c[1] = r /\ c[2] = i /\ ~(i < i)
      BY <1>4
    <2>2. c \in Renders \X Cards
      BY <1>2
    <2> HIDE DEF c, i
    <2>3. rendering[r] = i
      BY DEF i
    <2> QED BY <1>1, <2>1, <2>2, <2>3, CardsAre
  <1> HIDE DEF k
  <1>7. /\ DOMAIN ctl' = Made \cup {c} /\ ctl' = [d \in Made \cup {c} |-> ctl'[d]]
        /\ ctl'[c] = k /\ \A d \in Made : ctl'[d] = ctl[d]
    <2> HIDE DEF c
    <2>1. ctl' = [d \in Made \cup {c} |-> IF d = c THEN k ELSE ctl[d]]
      BY <1>3 DEF k
    <2> QED BY <2>1, <1>6
  <1>8. rendering' \in [Renders -> 0 .. Len(Items) + 1]
    BY <1>1, <1>2, <1>4
  <1>9. ASSUME NEW d \in Made \cup {c}
        PROVE  d[2] < rendering'[d[1]]
    <2>1. CASE d = c
      BY <1>1, <1>2, <1>4, <2>1
    <2>2. CASE d \in Made
      <3>1. d[1] \in Renders /\ d[2] < rendering[d[1]] /\ d[2] \in Nat
        BY <1>1, <2>2, CardsAre
      <3>2. rendering'[d[1]] = IF d[1] = r THEN i + 1 ELSE rendering[d[1]]
        BY <1>1, <1>2, <3>1
      <3> QED BY <3>1, <3>2, <1>4
    <2> QED BY <2>1, <2>2
  <1>10. Made' = Made \cup {c} /\ c[2] = i
    BY <1>7 DEF Made
  <1> HIDE DEF c, i
  <1>11. ControllersOK'
    <2>1. \A d \in Made' : Whole(ctl'[d], Len(Items[d[2]]), reducedMotion')
      BY <1>1, <1>2, <1>5, <1>7, <1>10
    <2>2. Made' \subseteq Renders \X Cards
      BY <1>1, <1>6, <1>10
    <2> QED BY <2>1, <2>2, <1>7, <1>9, <1>10 DEF ControllersOK
  <1>12. PageOK'
    <2>1. \A x \in Renders : rendering[x] > 0 <=> rendering'[x] > 0
      BY <1>1, <1>2, <1>4, <1>4a
    <2>2. \A x \in Renders : \A earlier \in 1 .. x - 1 : earlier \in Renders
      BY CardsAre DEF Renders
    <2>3. \A x \in Renders : rendering[x] > 0 => \A earlier \in 1 .. x - 1 : rendering[earlier] > 0
      BY DEF LibraryInv, PageOK
    <2>4. \A x \in Renders : rendering'[x] > 0 => \A earlier \in 1 .. x - 1 : rendering'[earlier] > 0
      BY <2>1, <2>2, <2>3
    <2> QED BY <1>1, <1>2, <1>8, <2>4 DEF LibraryInv, PageOK
  <1>13. ActiveOK'
    BY <1>1, <1>2, <1>5, <1>6, <1>7, <1>10 DEF ActiveOK
  <1>14. OvertakenOK'
    <2>1. ~k.destroyed
      BY DEF k, Created
    <2>2. ASSUME NEW d \in Made, ctl[d].destroyed PROVE Overtaken(d[1])'
      <3>1. Overtaken(d[1]) /\ away' = away
        BY <2>2, <1>2 DEF LibraryInv, OvertakenOK
      <3>2. \A x \in Renders : rendering[x] > 0 => rendering'[x] > 0
        BY <1>1, <1>2, <1>4
      <3> QED BY <3>1, <3>2 DEF Overtaken
    <2> QED BY <1>7, <1>10, <2>1, <2>2 DEF OvertakenOK
  <1> QED BY <1>11, <1>12, <1>13, <1>14 DEF LibraryInv

LEMMA CardStep ==
    ASSUME LibraryInv, NEW c \in Renders \X Cards,
           Enter(c) \/ Press(c) \/ Leave(c) \/ Timer(c) \/ LoadSettles(c) \/ StaleLoad(c) \/ Error(c)
    PROVE  LibraryInv'
  <1> DEFINE all == Len(Items[c[2]])
             k == ctl[c]
  <1>1. c \in Made => Sound(k, all) /\ Kept(k, all)
    BY SoundIsWhole DEF LibraryInv, ControllersOK, Sound
  <1>1a. ASSUME c \in Made, NEW d, SameLife(k, d) PROVE d.destroyed => ctl[c].destroyed
    <2>1. "destroyed" \in DOMAIN k
      BY <1>1, <1>1a DEF Kept, Controllers
    <2> QED BY <1>1a, <2>1 DEF SameLife
  <1>2. events \in Nat /\ (Happens => events' \in 0 .. MaxEvents) /\ (Follows => events' \in 0 .. MaxEvents)
    BY CardsAre DEF LibraryInv, PageOK, Happens, Follows
  <1> HIDE DEF all
  <1>3. CASE Enter(c)
    BY <1>1, <1>2, <1>3, StartedSound, Activating DEF Enter, InPage, all
  <1>4. CASE Press(c)
    <2>1. c \in Made /\ events' \in 0 .. MaxEvents
      BY <1>2, <1>4 DEF Press, InPage
    <2>2. Sound(Clicked(k), all)
      BY <1>1, <2>1, ClickedSound
    <2>3. IF Clicked(k).active THEN BecomesActive(c, Clicked(k)) ELSE ControllerBecomes(c, Clicked(k))
      BY <1>4 DEF Press
    <2>4. Clicked(k).destroyed => ctl[c].destroyed
      BY <2>1, <1>1a, CallsKeepLife
    <2> QED BY <2>1, <2>2, <2>3, <2>4, Activating, Becoming DEF all
  <1>5. CASE Leave(c)
    BY <1>1, <1>2, <1>5, StoppedSound, Becoming DEF Leave, all
  <1>6. CASE Timer(c)
    <2>1. c \in Made /\ events' \in 0 .. MaxEvents /\ ControllerBecomes(c, TimerFired(k))
          /\ k.timer # "none"
      BY <1>2, <1>6 DEF Timer
    <2>2. TimerFired(k).destroyed => ctl[c].destroyed
      BY <2>1, <1>1a, CallsKeepLife
    <2> QED BY <1>1, <2>1, <2>2, TimerFiredSound, Becoming DEF all
  <1>7. CASE LoadSettles(c)
    <2>1. PICK load \in k.load, ok \in BOOLEAN : ControllerBecomes(c, LoadEnded(k, load, ok))
      BY <1>7 DEF LoadSettles
    <2>2. c \in Made /\ events' \in 0 .. MaxEvents
      BY <1>2, <1>7 DEF LoadSettles
    <2>3. LoadEnded(k, load, ok).destroyed => ctl[c].destroyed
      BY <2>2, <1>1a, CallsKeepLife
    <2> QED BY <1>1, <2>1, <2>2, <2>3, LoadEndedSound, Becoming DEF all
  <1>8. CASE StaleLoad(c)
    <2>1. PICK a \in k.stale : ControllerBecomes(c, StaleEnded(k, a))
      BY <1>8 DEF StaleLoad
    <2>2. c \in Made /\ events' \in 0 .. MaxEvents
      BY <1>2, <1>8 DEF StaleLoad
    <2>3. StaleEnded(k, a).destroyed => ctl[c].destroyed
      BY <2>2, <1>1a, CallsKeepLife
    <2> QED BY <1>1, <2>1, <2>2, <2>3, StaleEndedSound, Becoming DEF all
  <1>9. CASE Error(c)
    <2>1. c \in Made /\ events' \in 0 .. MaxEvents
      BY <1>2, <1>9 DEF Error
    <2>2. PICK a \in Assets, present \in BOOLEAN :
            (k.urls[a] # "none" \/ k.destroyed) /\ ControllerBecomes(c, Erred(k, a, present))
      BY <1>9 DEF Error
    <2>2a. k.urls[a] # "none" \/ k.load = {}
      BY <1>1, <2>1, <2>2 DEF Kept, AtRest
    <2>2b. Erred(k, a, present).destroyed => ctl[c].destroyed
      BY <2>1, <1>1a, CallsKeepLife
    <2>3. Sound(Erred(k, a, present), all) /\ (Erred(k, a, present).active => k.active)
      <3>1. k.active \in BOOLEAN
        BY <1>1, <2>1 DEF Kept, Controllers
      <3> QED BY <1>1, <2>1, <2>2a, <3>1, ErredSound, ErredIdle
    <2> QED BY <2>1, <2>2, <2>2b, <2>3, Becoming DEF all
  <1> QED BY <1>3, <1>4, <1>5, <1>6, <1>7, <1>8, <1>9

\* The inductive invariant of the page, from which both properties follow: renderLibrary,
\* its event handlers and the controllers' callbacks keep every controller sound.
THEOREM LibraryInvariant == LibrarySpec => []LibraryInv
  <1>1. InitLibrary => LibraryInv
    <2> SUFFICES ASSUME InitLibrary PROVE LibraryInv
      OBVIOUS
    <2>1. Made = {} /\ ctl = [c \in Made |-> ctl[c]]
      BY DEF InitLibrary, Made
    <2>2. rendering = [r \in Renders |-> 0] /\ \A r \in Renders : ~(rendering[r] > 0)
      BY DEF InitLibrary
    <2>3. PageOK
      <3>1. /\ reducedMotion \in BOOLEAN /\ listed = 0
            /\ away = FALSE /\ events = 0
        BY Zenon DEF InitLibrary
      <3>2. rendering \in [Renders -> 0 .. Len(Items) + 1]
        BY <2>2, CardsAre
      <3>3. listed \in Renders \cup {0} /\ events \in 0 .. MaxEvents
        BY <3>1, CardsAre
      <3>4. away \in BOOLEAN
        BY <3>1
      <3>5. \A r \in Renders : rendering[r] > 0 => \A earlier \in 1 .. r - 1 : rendering[earlier] > 0
        BY <2>2
      <3> QED BY <3>1, <3>2, <3>3, <3>4, <3>5, Zenon DEF PageOK
    <2>4. ControllersOK /\ ActiveOK /\ OvertakenOK
      BY <2>1 DEF InitLibrary, ControllersOK, ActiveOK, OvertakenOK
    <2> QED BY <2>3, <2>4 DEF LibraryInv
  <1>2. LibraryInv /\ [LibraryNext]_libraryVars => LibraryInv'
    <2> SUFFICES ASSUME LibraryInv, [LibraryNext]_libraryVars PROVE LibraryInv'
      OBVIOUS
    <2>1. ASSUME NEW r \in Renders, Render(r) PROVE LibraryInv'
      <3>1. /\ rendering[r] = 0 /\ rendering' = [rendering EXCEPT ![r] = 1]
            /\ ResetPreviews /\ listed' = listed /\ events' = events /\ away' = FALSE
            /\ \A earlier \in 1 .. r - 1 : rendering[earlier] > 0
        BY <2>1 DEF Render
      <3>2. /\ rendering \in [Renders -> 0 .. Len(Items) + 1] /\ Made \subseteq Renders \X Cards
            /\ \A c \in Made : c[2] < rendering[c[1]]
            /\ events \in 0 .. MaxEvents
            /\ \A x \in Renders : rendering[x] > 0 => \A earlier \in 1 .. x - 1 : rendering[earlier] > 0
        BY DEF LibraryInv, PageOK, ControllersOK
      <3>3. rendering' \in [Renders -> 0 .. Len(Items) + 1]
        BY <3>1, <3>2, CardsAre
      <3>4. ASSUME NEW c \in Made PROVE c[2] < rendering'[c[1]]
        <4>1. c[1] \in Renders /\ c[2] \in Nat /\ c[2] < rendering[c[1]]
          BY <3>2, CardsAre
        <4>2. c[1] # r
          BY <3>1, <4>1
        <4> QED BY <3>1, <3>2, <4>1, <4>2
      <3>5. r \in Nat \ {0} /\ Renders = 1 .. MaxRenders /\ rendering'[r] = 1
            /\ \A x \in Renders : x # r => rendering'[x] = rendering[x]
        BY <3>1, <3>2, CardsAre DEF Renders
      <3>6. ASSUME NEW x \in Renders, rendering'[x] > 0, NEW earlier \in 1 .. x - 1
            PROVE  rendering'[earlier] > 0
        <4>1. earlier \in Renders /\ x \in Nat
          BY <3>5, CardsAre
        <4>2. rendering[earlier] > 0 \/ earlier = r
          BY <3>1, <3>2, <3>5, <3>6, <4>1
        <4> QED BY <3>5, <4>1, <4>2
      <3>7. ASSUME NEW c \in Made PROVE Overtaken(c[1])'
        <4>1. c[1] \in Renders /\ c[2] \in Nat \ {0} /\ c[2] < rendering[c[1]]
          BY <3>2, CardsAre
        <4>2. c[1] # r /\ rendering[c[1]] > 0
          BY <3>1, <3>2, <4>1
        <4>3. ~(r < c[1])
          <5> SUFFICES ASSUME r < c[1] PROVE FALSE
            OBVIOUS
          <5>1. r \in 1 .. c[1] - 1
            BY <3>5, <4>1
          <5>2. rendering[r] > 0
            BY <3>2, <4>1, <4>2, <5>1
          <5> QED BY <3>1, <5>2
        <4>4. r > c[1]
          BY <3>5, <4>1, <4>2, <4>3
        <4> QED BY <3>5, <4>4 DEF Overtaken
      <3>8. away' \in BOOLEAN
        BY <3>1
      <3> QED BY <3>1, <3>2, <3>3, <3>4, <3>6, <3>7, <3>8, ResetKeeps
    <2>2. ASSUME NEW r \in Renders, CardReady(r) PROVE LibraryInv'
      BY <2>2, CardReadyKeeps
    <2>3. CASE Elsewhere
      <3>1. /\ ResetPreviews /\ UNCHANGED <<rendering, listed>> /\ events' \in 0 .. MaxEvents
            /\ away' = TRUE
        BY <2>3, CardsAre DEF Elsewhere, Happens, LibraryInv, PageOK
      <3>2. /\ rendering \in [Renders -> 0 .. Len(Items) + 1]
            /\ \A c \in Made : c[2] < rendering[c[1]]
            /\ \A x \in Renders : rendering[x] > 0 => \A earlier \in 1 .. x - 1 : rendering[earlier] > 0
        BY DEF LibraryInv, PageOK, ControllersOK
      <3>3. \A r : Overtaken(r)'
        BY <3>1 DEF Overtaken
      <3> QED BY <3>1, <3>2, <3>3, ResetKeeps
    <2>4. ASSUME NEW c \in Renders \X Cards,
                 Enter(c) \/ Press(c) \/ Leave(c) \/ Timer(c) \/ LoadSettles(c)
                   \/ StaleLoad(c) \/ Error(c)
          PROVE  LibraryInv'
      BY <2>4, CardStep
    <2>5. CASE UNCHANGED libraryVars
      BY <2>5 DEF libraryVars, LibraryInv, PageOK, ControllersOK, ActiveOK,
        OvertakenOK, Overtaken, Made
    <2> QED BY <2>1, <2>2, <2>3, <2>4, <2>5 DEF LibraryNext
  <1> QED BY <1>1, <1>2, PTL DEF LibrarySpec

LEMMA SoundController ==
    ASSUME NEW k, NEW all, Sound(k, all)
    PROVE  IsController(k) /\ Accounted(k) /\ ShowsWhatItMay(k) /\ GoesOn(k, all)
  <1>1. k \in Controllers /\ IsInjective(k.items) /\ \A l, m \in k.load : l = m
    BY DEF Sound, Kept, ItemsOK, LoadOK
  <1>2. IsController(k)
    BY <1>1 DEF IsController, Controllers
  <1>3. Accounted(k)
    BY DEF Sound, Kept, AtRest, UrlsOK, Accounted, Live
  <1> QED BY <1>2, <1>3 DEF Sound, Kept

\* However renders, loads, timers and failing nodes interleave, at most one preview is
\* active and it is the registered one, a destroyed controller holds no URL and gets none,
\* and every URL is of an asset its controller still has (src/src/media-preview.js and
\* renderLibrary of src/src/app.js), for any cards, assets and renders.
THEOREM PreviewsAreAccounted == LibrarySpec => []PreviewsAccounted
  <1>1. LibraryInv => PreviewsAccounted
    <2> SUFFICES ASSUME LibraryInv PROVE PreviewsAccounted
      OBVIOUS
    <2>1. ASSUME NEW c \in Made
          PROVE  IsController(ctl[c]) /\ Accounted(ctl[c]) /\ (ctl[c].active <=> activeController = c)
      <3>1. Sound(ctl[c], Len(Items[c[2]]))
        BY SoundIsWhole DEF LibraryInv, ControllersOK
      <3> QED BY <3>1, SoundController DEF LibraryInv, ActiveOK
    <2> QED BY <2>1 DEF PreviewsAccounted, LibraryTypeOK, LibraryInv, PageOK, ActiveOK
  <1> QED BY <1>1, LibraryInvariant, PTL

\* While the library is shown no card of its last render has lost its media: it is not
\* destroyed and neither what it shows nor the poster it returns to was revoked, unless the
\* asset itself failed; a card at rest shows its poster or its first item, and an active show
\* awaits a timer or a load, unless the user took it over or two of its assets failed.  Cards
\* without their media are those of an overtaken render (resetMediaPreviews of
\* src/src/app.js, showAsset, advance and failed of src/src/media-preview.js), for any
\* cards, assets and renders.
THEOREM LiveMediaAreShown == LibrarySpec => []CardsShowLiveMedia
  <1>1. LibraryInv => CardsShowLiveMedia
    <2> SUFFICES ASSUME LibraryInv, NEW c \in Made
                 PROVE  /\ ShowsWhatItMay(ctl[c]) /\ GoesOn(ctl[c], Len(Items[c[2]]))
                        /\ ctl[c].destroyed => Overtaken(c[1])
      BY DEF CardsShowLiveMedia
    <2>1. Sound(ctl[c], Len(Items[c[2]]))
      BY SoundIsWhole DEF LibraryInv, ControllersOK
    <2>2. ShowsWhatItMay(ctl[c]) /\ GoesOn(ctl[c], Len(Items[c[2]]))
      BY <2>1, SoundController
    <2> QED BY <2>2 DEF LibraryInv, OvertakenOK
  <1> QED BY <1>1, LibraryInvariant, PTL
=============================================================================
