---------------------------- MODULE BrowserClient ----------------------------
(***************************************************************************)
(* The pages of the browser application over /api/workspace: the           *)
(* WorkspaceRepository of a page (src/src/storage.js), which holds the     *)
(* revision it will send, and the page (src/src/app.js), which holds the   *)
(* workspace its edits are made from.  The service (src/server.mjs)        *)
(* accepts a workspace sent with the current revision.                     *)
(*                                                                         *)
(* A workspace is known by the revision whose content it is: a page that   *)
(* holds revision r with the workspace of r is up to date or will be       *)
(* refused, and one whose two numbers differ can overwrite.                *)
(***************************************************************************)
EXTENDS Naturals

CONSTANTS Pages,
          Slots,           \* the calls a page may have open at once
          Careful,         \* pages that open one call at a time, do not reset
                           \* the workspace, and whose loads are answered
          MaxRevision      \* bound: the revisions of a run

ASSUME CarefulPages == Careful \subseteq Pages
ASSUME RevisionBound == MaxRevision \in Nat

NoCall == [kind |-> "none", phase |-> "done", base |-> 0, revision |-> 0, answer |-> 0]

VARIABLES current,         \* the revision of the service
          page,            \* per page: this.revision and the workspace shown
          call             \* per page and slot: a handler waiting for something

vars == <<current, page, call>>

\* start(): every page has loaded.
Init ==
  /\ current = 0
  /\ page = [p \in Pages |-> [revision |-> 0, workspace |-> 0]]
  /\ call = [p \in Pages |-> [s \in Slots |-> NoCall]]

----------------------------------------------------------------------------
(* What a user starts.  The body of a request is made when it is sent: it  *)
(* names the revision of that moment.                                      *)

Idle(p, s) ==
  /\ call[p][s] = NoCall
  /\ p \in Careful => \A t \in Slots : call[p][t] = NoCall

\* The call is now c.
Becomes(p, s, c) == call' = [call EXCEPT ![p][s] = c]

Open(p, s, kind, phase) ==
  /\ Idle(p, s)
  /\ Becomes(p, s, [kind |-> kind, phase |-> phase, base |-> page[p].workspace,
                    revision |-> page[p].revision, answer |-> 0])
  /\ UNCHANGED <<current, page>>

\* commit(next) without files: mutate sends at once.
Edit(p, s) == Open(p, s, "edit", "sent")

\* captureFiles: mutate awaits blobToBase64 of every file first.
EditWithFiles(p, s) == Open(p, s, "edit", "encoding")

Reset(p, s) == p \notin Careful /\ Open(p, s, "reset", "sent")

Restore(p, s) == Open(p, s, "restore", "sent")

\* The load after a capture or when the analysis dialog is closed.
Load(p, s) == Open(p, s, "load", "loading")

\* The files are read; the revision is read after them.
Encoded(p, s) ==
  /\ call[p][s].phase = "encoding"
  /\ Becomes(p, s, [kind |-> "edit", phase |-> "sent", base |-> call[p][s].base,
                    revision |-> page[p].revision, answer |-> 0])
  /\ UNCHANGED <<current, page>>

----------------------------------------------------------------------------
(* The service.  An answer may be lost, or take longer than a later one.   *)

Answer(p, s, phase, answer) ==
  Becomes(p, s, [kind |-> call[p][s].kind, phase |-> phase, base |-> 0,
                 revision |-> 0, answer |-> answer])

\* PUT /api/workspace or /api/backup
Accept(p, s) ==
  /\ call[p][s].phase = "sent"
  /\ call[p][s].revision = current /\ current < MaxRevision
  /\ current' = current + 1
  /\ \/ Answer(p, s, "accepted", current + 1)
     \/ Answer(p, s, "failed", 0)
  /\ UNCHANGED page

Refuse(p, s) ==
  /\ call[p][s].phase = "sent"
  /\ \/ call[p][s].revision # current /\ Answer(p, s, "conflict", 0)
     \/ Answer(p, s, "failed", 0)
  /\ UNCHANGED <<current, page>>

\* GET /api/workspace
ServeLoad(p, s) ==
  /\ \/ call[p][s].phase = "reloading" /\ Answer(p, s, "reloaded", current)
     \/ call[p][s].phase = "loading" /\ Answer(p, s, "loaded", current)
  /\ UNCHANGED <<current, page>>

LoseLoad(p, s) ==
  /\ p \notin Careful
  /\ call[p][s].phase \in {"reloading", "loading"}
  /\ Answer(p, s, "failed", 0)
  /\ UNCHANGED <<current, page>>

----------------------------------------------------------------------------
(* The answers                                                             *)

Close(p, s) == Becomes(p, s, NoCall)

\* this.revision = value.revision, workspace = next (or the answer's)
Answered(p, s) == [revision |-> call[p][s].answer, workspace |-> call[p][s].answer]

Accepted(p, s) ==
  /\ call[p][s].phase = "accepted"
  /\ page' = [page EXCEPT ![p] = Answered(p, s)]
  /\ Close(p, s)
  /\ UNCHANGED current

\* mutate loads before it throws; importBackup only throws.
Conflict(p, s) ==
  /\ call[p][s].phase = "conflict"
  /\ IF call[p][s].kind = "restore" THEN Close(p, s) ELSE Answer(p, s, "reloading", 0)
  /\ UNCHANGED <<current, page>>

\* Mutant: commit does not load after a conflict.
NoReload(p, s) == FALSE
\* commit loads again to have the workspace; reset does not.
ReloadsPage(p, s) == call[p][s].kind = "edit"

\* What mutate loaded is dropped, but for its revision.
Reloaded(p, s) ==
  /\ call[p][s].phase = "reloaded"
  /\ page' = [page EXCEPT ![p].revision = call[p][s].answer]
  /\ IF ReloadsPage(p, s) THEN Answer(p, s, "loading", 0) ELSE Close(p, s)
  /\ UNCHANGED current

Loaded(p, s) ==
  /\ call[p][s].phase = "loaded"
  /\ page' = [page EXCEPT ![p] = Answered(p, s)]
  /\ Close(p, s)
  /\ UNCHANGED current

Failed(p, s) ==
  /\ call[p][s].phase = "failed"
  /\ Close(p, s)
  /\ UNCHANGED <<current, page>>

Start(p, s) ==
  Edit(p, s) \/ EditWithFiles(p, s) \/ Reset(p, s) \/ Restore(p, s) \/ Load(p, s)
Serve(p, s) == Accept(p, s) \/ Refuse(p, s) \/ ServeLoad(p, s) \/ LoseLoad(p, s)
Receive(p, s) ==
  \/ Encoded(p, s) \/ Accepted(p, s) \/ Conflict(p, s)
  \/ Reloaded(p, s) \/ Loaded(p, s) \/ Failed(p, s)

Next == \E p \in Pages, s \in Slots : Start(p, s) \/ Serve(p, s) \/ Receive(p, s)

Spec == Init /\ [][Next]_vars

----------------------------------------------------------------------------
(* Properties                                                              *)

Phases == {"done", "encoding", "sent", "accepted", "conflict", "failed",
           "reloading", "reloaded", "loading", "loaded"}

\* The types: no page is ahead of the service.
TypeOK ==
  /\ current \in 0 .. MaxRevision
  /\ page \in [Pages -> [revision : 0 .. current, workspace : 0 .. current]]
  /\ call \in [Pages -> [Slots ->
       [kind : {"none", "edit", "reset", "restore", "load"}, phase : Phases,
        base : 0 .. current, revision : 0 .. current, answer : 0 .. current]]]

\* The edit in (p, s) becomes the workspace of the service in this step.
Installed(p, s) ==
  /\ call[p][s].kind = "edit" /\ call[p][s].phase = "sent"
  /\ call'[p][s].phase # "sent" /\ current' # current

MadeFromCurrent(pages) ==
  \A p \in pages, s \in Slots : Installed(p, s) => call[p][s].base = current

\* An edit that is accepted was made from the workspace it replaces, so that
\* nothing other writers committed is overwritten unseen.  This holds of a page
\* that waits for every call and its reload to end, among any others, though
\* commits fail and are not acknowledged.
CarefulOverwritesNothing == [][MadeFromCurrent(Careful)]_vars

\* docs/ISSUE_5_PERSISTENCE_DESIGN.md:360: "stale writers cannot overwrite
\* committed work", here of every page.
StaleWritersRefused == [][MadeFromCurrent(Pages)]_vars
=============================================================================
