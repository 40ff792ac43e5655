------------------------------- MODULE Domain -------------------------------
(***************************************************************************)
(* The workspace value and the edits of it (src/src/domain.js), as the     *)
(* browser (src/src/app.js), the MCP tools (src/mcp-server.mjs) and the    *)
(* website capture (src/src/website-capture-service.js) compose them, and  *)
(* the conversion to the rows of the database                              *)
(* (src/src/postgres-workspace-mapper.js).                                 *)
(*                                                                         *)
(* An edit is one step: it is computed from one loaded workspace and its   *)
(* commit is refused unless that is still the current one (see module      *)
(* Persistence).  No edit here looks at validateWorkspace, the gate every  *)
(* commit has to pass: that it always does is the invariant Valid.         *)
(*                                                                         *)
(* The database has constraints of its own and may refuse what passes the  *)
(* gate (Refused); the program then goes on from the workspace before.     *)
(*                                                                         *)
(* A collection is a function from the ids it holds; what an entity says   *)
(* besides whose it is (titles, tags, times, kinds, analyses) is left out. *)
(* New ids are UUIDs: they differ from those of the collection.            *)
(***************************************************************************)
EXTENDS Naturals, Sequences, FiniteSets, Functions

CONSTANTS ProjectIds, ReferenceIds, AssetIds, TargetIds, MomentIds,
          SelectionIds, BoardIds,
          NoId,           \* an optional assetId or momentId that is absent
          EmptyId         \* the empty string, which MCP accepts for one

ASSUME OptionalIds ==
  /\ NoId # EmptyId
  /\ {NoId, EmptyId} \cap (AssetIds \cup MomentIds \cup ReferenceIds \cup TargetIds) = {}

VARIABLE workspace

----------------------------------------------------------------------------
\* The entity collection[id] = e is appended.
Put(collection, id, e) ==
  [x \in DOMAIN collection \cup {id} |-> IF x = id THEN e ELSE collection[x]]

\* filter(x => !gone.has(x.id))
Drop(collection, gone) == Restrict(collection, DOMAIN collection \ gone)

\* The ids of a collection whose entity has the given owner.
Owned(collection, field, owners) ==
  {x \in DOMAIN collection : collection[x][field] \in owners}

\* The n-th smallest member of a set of positions.
Nth(positions, n) ==
  CHOOSE i \in positions : Cardinality({j \in positions : j <= i}) = n

\* selectionIds.filter(x => !gone.has(x)): what is left, in its order.
Without(ids, gone) ==
  LET kept == {i \in DOMAIN ids : ids[i] \notin gone}
  IN  [n \in 1 .. Cardinality(kept) |-> ids[Nth(kept, n)]]

----------------------------------------------------------------------------
(* The operations of domain.js.  Can... is the condition an operation     *)
(* throws without.                                                        *)

Empty == [projects |-> {}, references |-> << >>, assets |-> << >>,
          targets |-> << >>, moments |-> << >>, selections |-> << >>,
          boards |-> << >>, signals |-> {}]

CreateProject(w, p) == [w EXCEPT !.projects = @ \cup {p}]

CreateReference(w, r, p) ==
  [w EXCEPT !.references = Put(@, r, [projectId |-> p])]

CreateAsset(w, a, r) ==
  [w EXCEPT !.assets = Put(@, a, [projectId   |-> w.references[r].projectId,
                                  referenceId |-> r])]

\* What `if (input.assetId)` takes for no id.  The empty one is stored.
Falsy == {NoId, EmptyId}

CanTarget(w, r, a) ==
  a \notin Falsy => a \in DOMAIN w.assets /\ w.assets[a].referenceId = r

CreateTarget(w, t, r, a) ==
  [w EXCEPT !.targets = Put(@, t, [projectId   |-> w.references[r].projectId,
                                   referenceId |-> r, assetId |-> a])]

CreateMoment(w, m, t) ==
  [w EXCEPT !.moments = Put(@, m, [projectId |-> w.targets[t].projectId,
                                   targetId  |-> t])]

CanSelect(w, p, t, m) ==
  /\ w.targets[t].projectId = p
  /\ m \notin Falsy => m \in DOMAIN w.moments /\ w.moments[m].targetId = t

CreateSelection(w, s, p, t, m) ==
  [w EXCEPT !.selections =
     Put(@, s, [projectId |-> p, targetId |-> t, momentId |-> m])]

CreateBoard(w, b, p) ==
  [w EXCEPT !.boards = Put(@, b, [projectId |-> p, selectionIds |-> << >>])]

\* The update of a board's selectionIds.
SetBoard(w, b, ids) ==
  [w EXCEPT !.boards = Put(@, b, [@[b] EXCEPT !.selectionIds = ids])]

CanReorder(w, b, ids) ==
  /\ Len(ids) = Len(w.boards[b].selectionIds)
  /\ IsInjective(ids)
  /\ Range(w.boards[b].selectionIds) \subseteq Range(ids)

RemoveFromBoard(w, b, s) ==
  SetBoard(w, b, Without(w.boards[b].selectionIds, {s}))

\* A signal is kept by its project and the Reference it is about; signals of
\* other subjects are facts nothing reads.
RecordSignal(w, p, r) ==
  [w EXCEPT !.signals = @ \cup {[projectId |-> p, subject |-> r]}]

\* Mutants: boards or signals are not filtered; what belongs to the project of
\* the Reference goes with it.
KeepBoardEntries(w, r) ==
  LET targets    == Owned(w.targets, "referenceId", {r})
      moments    == Owned(w.moments, "targetId", targets)
      selections == Owned(w.selections, "targetId", targets)
  IN  [w EXCEPT
         !.references = Drop(@, {r}),
         !.assets     = Drop(@, Owned(@, "referenceId", {r})),
         !.targets    = Drop(@, targets),
         !.moments    = Drop(@, moments),
         !.selections = Drop(@, selections),
         !.signals    = {x \in @ : x.subject # r}]

DropMomentsOfProject(w, r) ==
  [KeepBoardEntries(w, r) EXCEPT
     !.boards = [b \in DOMAIN @ |-> [@[b] EXCEPT !.selectionIds =
                   Without(@, Owned(w.selections, "targetId",
                                    Owned(w.targets, "referenceId", {r})))]],
     !.moments = Drop(@, Owned(@, "projectId", {w.references[r].projectId}))]

DeleteReference(w, r) ==
  LET targets    == Owned(w.targets, "referenceId", {r})
      moments    == Owned(w.moments, "targetId", targets)
      selections == Owned(w.selections, "targetId", targets)
                      \cup Owned(w.selections, "momentId", moments)
  IN  [projects   |-> w.projects,
       references |-> Drop(w.references, {r}),
       assets     |-> Drop(w.assets, Owned(w.assets, "referenceId", {r})),
       targets    |-> Drop(w.targets, targets),
       moments    |-> Drop(w.moments, moments),
       selections |-> Drop(w.selections, selections),
       boards     |-> [b \in DOMAIN w.boards |-> [w.boards[b] EXCEPT
                         !.selectionIds = Without(@, selections)]],
       signals    |-> {x \in w.signals : x.subject # r}]

DeleteProject(w, p) ==
  LET Others(collection) == Drop(collection, Owned(collection, "projectId", {p}))
  IN  [projects   |-> w.projects \ {p},
       references |-> Others(w.references),
       assets     |-> Others(w.assets),
       targets    |-> Others(w.targets),
       moments    |-> Others(w.moments),
       selections |-> Others(w.selections),
       boards     |-> Others(w.boards),
       signals    |-> {x \in w.signals : x.projectId # p}]

----------------------------------------------------------------------------
(* The rows (workspaceToRows, rowsToWorkspace) and the constraints of the  *)
(* tables (src/migrations/0001_persistence.sql).                           *)

\* Mutant: all entries at position 0.
RowsAtStart(w) ==
  UNION {{[board_id |-> b, selection_id |-> w.boards[b].selectionIds[i], position |-> 0] :
            i \in DOMAIN w.boards[b].selectionIds} : b \in DOMAIN w.boards}

BoardRows(w) ==
  UNION {{[board_id |-> b, selection_id |-> w.boards[b].selectionIds[i], position |-> i - 1] :
            i \in DOMAIN w.boards[b].selectionIds} : b \in DOMAIN w.boards}

\* One row for each entity of a collection.
RowOf(collection) == {[id |-> x, entity |-> collection[x]] : x \in DOMAIN collection}

\* workspaceToRows: the rows, in INSERT_ORDER.
InsertOrder ==
  <<"projects", "references", "assets", "targets", "moments", "selections",
    "boards", "board_selections", "signals">>

Rows(w) ==
  [table \in Range(InsertOrder) |->
     CASE table = "projects"         -> {[id |-> p] : p \in w.projects}
       [] table = "board_selections" -> BoardRows(w)
       [] table = "signals"          -> w.signals
       [] table = "boards"           ->
            RowOf([b \in DOMAIN w.boards |-> [w.boards[b] EXCEPT !.selectionIds = << >>]])
       [] OTHER                      -> RowOf(w[table])]

\* The foreign keys of the tables: fields of a row and of the row they name.
ForeignKeys ==
  {[table |-> t, fields |-> <<"projectId">>, parent |-> "projects", key |-> <<"id">>] :
     t \in {"references", "assets", "targets", "moments", "selections", "boards", "signals"}}
  \cup
  {[table |-> t, fields |-> <<"referenceId", "projectId">>,
    parent |-> "references", key |-> <<"id", "projectId">>] : t \in {"assets", "targets"}}
  \cup
  {[table |-> t, fields |-> <<"targetId", "projectId">>,
    parent |-> "targets", key |-> <<"id", "projectId">>] : t \in {"moments", "selections"}}
  \cup
  {[table |-> "targets", fields |-> <<"assetId", "referenceId">>,
    parent |-> "assets", key |-> <<"id", "referenceId">>],
   [table |-> "selections", fields |-> <<"momentId", "targetId">>,
    parent |-> "moments", key |-> <<"id", "targetId">>],
   [table |-> "board_selections", fields |-> <<"board_id">>, parent |-> "boards", key |-> <<"id">>],
   [table |-> "board_selections", fields |-> <<"selection_id">>,
    parent |-> "selections", key |-> <<"id">>]}

Field(row, f) == IF f \in DOMAIN row THEN row[f] ELSE row.entity[f]
FieldsOf(row, fields) == [i \in DOMAIN fields |-> Field(row, fields[i])]
Position(table) == CHOOSE i \in DOMAIN InsertOrder : InsertOrder[i] = table

\* What a row names was inserted before; a key with a null is not looked at.
Inserts(rows, fk) ==
  /\ Position(fk.parent) < Position(fk.table)
  /\ \A row \in rows[fk.table] :
       LET value == FieldsOf(row, fk.fields)
       IN  \/ NoId \in Range(value)
           \/ \E named \in rows[fk.parent] : FieldsOf(named, fk.key) = value

\* The primary key and the unique constraint of board_selections.
EntriesUnique(rows) ==
  \A x, y \in rows["board_selections"] :
    /\ x.board_id = y.board_id
    /\ x.selection_id = y.selection_id \/ x.position = y.position
    => x = y

\* Whether the transaction that inserts the rows gets through.
Accepted(w) ==
  EntriesUnique(Rows(w)) /\ \A fk \in ForeignKeys : Inserts(Rows(w), fk)

\* boardSelectionMap: the entries of a board, by position.
EntriesOf(rows, b) ==
  LET own == {x \in rows["board_selections"] : x.board_id = b}
  IN  [i \in 1 .. Cardinality(own) |->
         (CHOOSE x \in own : x.position = i - 1).selection_id]

\* rowsToWorkspace
Entities(rows) ==
  [x \in {row.id : row \in rows} |-> (CHOOSE row \in rows : row.id = x).entity]

FromRows(rows) ==
  [collection \in DOMAIN Empty |->
     CASE collection = "projects" -> {row.id : row \in rows["projects"]}
       [] collection = "signals"  -> rows["signals"]
       [] collection = "boards"   ->
            LET boards == Entities(rows["boards"])
            IN  [b \in DOMAIN boards |->
                   [boards[b] EXCEPT !.selectionIds = EntriesOf(rows, b)]]
       [] OTHER -> Entities(rows[collection])]

----------------------------------------------------------------------------
(* The edits.                                                             *)

NewReference  == ReferenceIds \ DOMAIN workspace.references
NewAsset      == AssetIds \ DOMAIN workspace.assets
NewTarget     == TargetIds \ DOMAIN workspace.targets
NewMoment     == MomentIds \ DOMAIN workspace.moments
NewSelection  == SelectionIds \ DOMAIN workspace.selections
NewBoard      == BoardIds \ DOMAIN workspace.boards

Init == workspace = Empty

\* MCP create_project.
AddProject ==
  \E p \in ProjectIds \ workspace.projects :
    workspace' = CreateProject(workspace, p)

\* projectEditor: a project comes with a board.
AddProjectWithBoard ==
  \E p \in ProjectIds \ workspace.projects, b \in NewBoard :
    workspace' = CreateBoard(CreateProject(workspace, p), b, p)

\* MCP create_reference.
AddReference ==
  \E r \in NewReference, p \in workspace.projects :
    workspace' = CreateReference(workspace, r, p)

\* A URL or a file captured as a Reference of its own in the browser.
CaptureReference ==
  \E r \in NewReference, p \in workspace.projects, a \in NewAsset :
    workspace' = RecordSignal(
                   CreateAsset(CreateReference(workspace, r, p), a, r), p, r)

\* MCP add_asset, or a file captured for an existing Reference.
AddAsset ==
  \E a \in NewAsset, r \in DOMAIN workspace.references :
    workspace' = CreateAsset(workspace, a, r)

\* referenceEditor: updateReference changes no relation.
EnrichReference ==
  \E r \in DOMAIN workspace.references :
    workspace' = RecordSignal(workspace, workspace.references[r].projectId, r)

\* MCP create_target.
AddTarget ==
  \E t \in NewTarget, r \in DOMAIN workspace.references,
     a \in DOMAIN workspace.assets \cup Falsy :
    /\ CanTarget(workspace, r, a)
    /\ workspace' = CreateTarget(workspace, t, r, a)

\* MCP create_moment.
AddMoment ==
  \E m \in NewMoment, t \in DOMAIN workspace.targets :
    workspace' = CreateMoment(workspace, m, t)

\* MCP create_selection.
AddSelection ==
  \E s \in NewSelection, p \in workspace.projects,
     t \in DOMAIN workspace.targets, m \in DOMAIN workspace.moments \cup Falsy :
    /\ CanSelect(workspace, p, t, m)
    /\ workspace' = CreateSelection(workspace, s, p, t, m)

\* Mutant: the projects are not compared.
MayAddAnywhere(w, b, s) == s \notin Range(w.boards[b].selectionIds)

\* MCP add_selection_to_board.
MayAdd(w, b, s) ==
  /\ w.selections[s].projectId = w.boards[b].projectId
  /\ s \notin Range(w.boards[b].selectionIds)

AddToBoard ==
  \E b \in DOMAIN workspace.boards, s \in DOMAIN workspace.selections :
    /\ MayAdd(workspace, b, s)
    /\ workspace' =
         SetBoard(workspace, b, Append(workspace.boards[b].selectionIds, s))

\* A checkpoint of a website capture: a new or a reused Asset, its Target
\* and its Moment.
Checkpoint ==
  \E r \in DOMAIN workspace.references, t \in NewTarget, m \in NewMoment :
    \E a \in NewAsset \cup Owned(workspace.assets, "referenceId", {r}) :
      LET stored == IF a \in NewAsset THEN CreateAsset(workspace, a, r)
                                      ELSE workspace
      IN  workspace' = CreateMoment(CreateTarget(stored, t, r, a), m, t)

\* selectionEditor: a Target, perhaps a Moment, a Selection, and a place at
\* the end of a board of the project, which is created when there is none.
Selected(w, t, r, a, m, s) ==
  LET targeted == CreateTarget(w, t, r, a)
      moment   == IF m = NoId THEN targeted ELSE CreateMoment(targeted, m, t)
  IN  CreateSelection(moment, s, w.references[r].projectId, t, m)

PlaceOnBoard(w, b, s) ==
  LET p     == w.selections[s].projectId
      board == IF b \in DOMAIN w.boards THEN w ELSE CreateBoard(w, b, p)
      ids   == Append(board.boards[b].selectionIds, s)
  IN  SetBoard(board, b, ids)

SaveSelection ==
  \E r \in DOMAIN workspace.references, t \in NewTarget, s \in NewSelection,
     a \in DOMAIN workspace.assets \cup {NoId}, m \in NewMoment \cup {NoId},
     b \in BoardIds :
    LET p      == workspace.references[r].projectId
        boards == Owned(workspace.boards, "projectId", {p})
    IN  /\ CanTarget(workspace, r, a)
        /\ b \in IF boards = {} THEN NewBoard ELSE boards
        /\ workspace' = PlaceOnBoard(Selected(workspace, t, r, a, m, s), b, s)

\* A board's entry moved up or down.
ReorderBoard ==
  \E b \in DOMAIN workspace.boards :
    LET old == workspace.boards[b].selectionIds
    IN  \E ids \in [DOMAIN old -> Range(old)] :
          /\ CanReorder(workspace, b, ids)
          /\ workspace' = SetBoard(workspace, b, ids)

TakeOffBoard ==
  \E b \in DOMAIN workspace.boards :
    \E s \in Range(workspace.boards[b].selectionIds) :
      workspace' = RemoveFromBoard(workspace, b, s)

RemoveReference ==
  \E r \in DOMAIN workspace.references :
    workspace' = DeleteReference(workspace, r)

RemoveProject ==
  \E p \in workspace.projects : workspace' = DeleteProject(workspace, p)

Edit ==
  \/ AddProject \/ AddProjectWithBoard
  \/ AddReference \/ CaptureReference \/ EnrichReference
  \/ AddAsset \/ AddTarget \/ AddMoment \/ Checkpoint
  \/ AddSelection \/ AddToBoard \/ SaveSelection
  \/ ReorderBoard \/ TakeOffBoard
  \/ RemoveReference \/ RemoveProject

\* The entities that name the empty id.
BlankTargets(w)    == Owned(w.targets, "assetId", {EmptyId})
BlankSelections(w) == Owned(w.selections, "momentId", {EmptyId})

\* A commit the database refuses is rolled back.  An edit adds one blank
\* entity at most, so the workspace before is the one without it.
Refused ==
  /\ ~Accepted(workspace)
  /\ workspace' = [workspace EXCEPT !.targets = Drop(@, BlankTargets(workspace)),
                                    !.selections = Drop(@, BlankSelections(workspace))]

Next == (Accepted(workspace) /\ Edit) \/ Refused

Spec == Init /\ [][Next]_workspace

----------------------------------------------------------------------------
(* validateWorkspace.                                                     *)

Partial(collection, ids, Entity) ==
  /\ DOMAIN collection \subseteq ids
  /\ collection \in [DOMAIN collection -> Entity]

\* The shape of a workspace: COLLECTIONS and their required fields.
IsWorkspace(w) ==
  /\ w = [projects |-> w.projects, references |-> w.references,
          assets |-> w.assets, targets |-> w.targets, moments |-> w.moments,
          selections |-> w.selections, boards |-> w.boards,
          signals |-> w.signals]
  /\ w.projects \subseteq ProjectIds
  /\ Partial(w.references, ReferenceIds, [projectId : ProjectIds])
  /\ Partial(w.assets, AssetIds, [projectId : ProjectIds, referenceId : ReferenceIds])
  /\ Partial(w.targets, TargetIds, [projectId : ProjectIds, referenceId : ReferenceIds,
                                    assetId : AssetIds \cup Falsy])
  /\ Partial(w.moments, MomentIds, [projectId : ProjectIds, targetId : TargetIds])
  /\ Partial(w.selections, SelectionIds, [projectId : ProjectIds, targetId : TargetIds,
                                          momentId : MomentIds \cup Falsy])
  /\ Partial(w.boards, BoardIds, [projectId : ProjectIds,
                                  selectionIds : Seq(SelectionIds)])
  /\ w.signals \subseteq [projectId : ProjectIds, subject : ReferenceIds]

ReferencesOwned(w) ==
  \A r \in DOMAIN w.references : w.references[r].projectId \in w.projects

AssetsOwned(w) ==
  \A a \in DOMAIN w.assets :
    LET r == w.assets[a].referenceId
    IN  /\ r \in DOMAIN w.references
        /\ w.assets[a].projectId = w.references[r].projectId

TargetsOwned(w) ==
  \A t \in DOMAIN w.targets :
    LET r == w.targets[t].referenceId
        a == w.targets[t].assetId
    IN  /\ r \in DOMAIN w.references
        /\ w.targets[t].projectId = w.references[r].projectId
        /\ a \notin Falsy => a \in DOMAIN w.assets /\ w.assets[a].referenceId = r

MomentsOwned(w) ==
  \A m \in DOMAIN w.moments :
    LET t == w.moments[m].targetId
    IN  t \in DOMAIN w.targets /\ w.moments[m].projectId = w.targets[t].projectId

SelectionsOwned(w) ==
  \A s \in DOMAIN w.selections :
    LET t == w.selections[s].targetId
        m == w.selections[s].momentId
    IN  /\ w.selections[s].projectId \in w.projects
        /\ t \in DOMAIN w.targets
        /\ w.selections[s].projectId = w.targets[t].projectId
        /\ m \notin Falsy => m \in DOMAIN w.moments /\ w.moments[m].targetId = t

BoardsOwned(w) ==
  \A b \in DOMAIN w.boards :
    LET ids == w.boards[b].selectionIds
    IN  /\ w.boards[b].projectId \in w.projects
        /\ IsInjective(ids)
        /\ \A i \in DOMAIN ids :
             /\ ids[i] \in DOMAIN w.selections
             /\ w.selections[ids[i]].projectId = w.boards[b].projectId

SignalsOwned(w) == \A x \in w.signals : x.projectId \in w.projects

Validates(w) ==
  /\ ReferencesOwned(w) /\ AssetsOwned(w) /\ TargetsOwned(w) /\ MomentsOwned(w)
  /\ SelectionsOwned(w) /\ BoardsOwned(w) /\ SignalsOwned(w)

----------------------------------------------------------------------------
(* exportCreativeDirection: what the package of a board contains.         *)

Exported(w, b) ==
  {LET selection == w.selections[s]
       target    == w.targets[selection.targetId]
   IN  [selection |-> s, target |-> selection.targetId,
        moment |-> selection.momentId, reference |-> target.referenceId,
        asset |-> target.assetId] : s \in Range(w.boards[b].selectionIds)}

----------------------------------------------------------------------------
TypeOK == IsWorkspace(workspace)

\* Every edit the program composes passes the gate every commit has to pass:
\* validateWorkspace accepts the workspace it leaves (ids unique, every
\* relation to an existing entity of the same project, Reference or Target,
\* boards without repetitions), so no sequence of legal edits and cascading
\* deletions ends in a workspace that can no longer be saved.
Valid == Validates(workspace)

\* The constraints of the database are not those of validateWorkspace.  They
\* differ in one case only: the database accepts the rows of every workspace
\* the edits reach, in the order in which commit inserts them, unless one
\* names the empty id, which validateWorkspace lets through.  Reading accepted
\* rows gives the workspace that was sent, the order of the boards included:
\* a page keeps its own and does not look at the one in the answer.
RowsFaithful ==
  /\ Accepted(workspace) <=>
       BlankTargets(workspace) \cup BlankSelections(workspace) = {}
  /\ Accepted(workspace) => FromRows(Rows(workspace)) = workspace

\* A board's package holds only what belongs to the board's own project,
\* whatever was deleted, recaptured or reordered before: the Target, Reference,
\* Asset and Moment reached from a Selection exist and are of that project.
ExportsStayInProject ==
  \A b \in DOMAIN workspace.boards :
    LET p == workspace.boards[b].projectId
    IN  \A x \in Exported(workspace, b) :
          /\ x.target \in Owned(workspace.targets, "projectId", {p})
          /\ x.reference \in Owned(workspace.references, "projectId", {p})
          /\ x.asset \notin Falsy => x.asset \in Owned(workspace.assets, "projectId", {p})
          /\ x.moment \notin Falsy => x.moment \in Owned(workspace.moments, "projectId", {p})

\* No signal is left about a Reference that was deleted, or is filed under
\* another project than its Reference: the app takes the project of a signal
\* from the page, the deletion takes it from the Reference or the project.
SignalsLive(w) ==
  \A x \in w.signals : /\ x.subject \in DOMAIN w.references
                       /\ w.references[x.subject].projectId = x.projectId

SignalsAboutLiving == SignalsLive(workspace)

Gone(c) == DOMAIN workspace[c] \ DOMAIN workspace'[c]
Left(c) == DOMAIN workspace'[c]

\* Nothing is lost that its owner does not lose: what an edit of a workspace
\* the database holds removes goes with its Reference, its Target or its
\* project, and at most one Reference goes without its project.
OnlyOwnedRemoved ==
  [][Accepted(workspace) =>
     /\ \A a \in Gone("assets") :
          workspace.assets[a].referenceId \notin Left("references")
     /\ \A t \in Gone("targets") :
          workspace.targets[t].referenceId \notin Left("references")
     /\ \A m \in Gone("moments") :
          workspace.moments[m].targetId \notin Left("targets")
     /\ \A s \in Gone("selections") :
          workspace.selections[s].targetId \notin Left("targets")
     /\ \A b \in Gone("boards") :
          workspace.boards[b].projectId \notin workspace'.projects
     /\ \A r, q \in Gone("references") :
          r = q \/ workspace.references[r].projectId \notin workspace'.projects
    ]_workspace
=============================================================================
