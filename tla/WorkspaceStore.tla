--------------------------- MODULE WorkspaceStore ---------------------------
(***************************************************************************)
(* What the persistence layer promises to its callers (the HTTP handlers,  *)
(* the MCP tools, website capture and reference analysis): one workspace   *)
(* under one revision, replaced as a whole by a compare-and-set on that    *)
(* revision, together with the digest of every media object the workspace  *)
(* refers to.  A call is answered once; an answer other than "committed"   *)
(* either changed nothing or, when the connection was lost around COMMIT,  *)
(* leaves the caller not knowing.                                          *)
(***************************************************************************)
EXTENDS Naturals

CONSTANTS
    Callers,        \* concurrent commit calls, of any process
    Media,          \* media ids
    Contents,       \* the bytes of a media object, up to their digest
    Absent,         \* no object, no row, no addition
    References,     \* Reference ids
    Workspaces      \* the workspaces the callers submit

Workspace == [references : SUBSET References, media : SUBSET Media]
EmptyWorkspace == [references |-> {}, media |-> {}]
Digests == [Media -> Contents \cup {Absent}]
NoDigests == [m \in Media |-> Absent]

VARIABLES
    revision,   \* workspace_state.revision
    workspace,  \* the workspace of that revision
    rows,       \* media id -> the digest media_objects records, or Absent
    call        \* caller -> its request and the answer it got

vars == <<revision, workspace, rows, call>>

Refusals == {"conflict", "missing", "collision", "invalid", "failed"}

NoCall == [status |-> "idle", expected |-> 0, workspace |-> EmptyWorkspace,
           additions |-> NoDigests, created |-> {}]

Init ==
    /\ revision = 0
    /\ workspace = EmptyWorkspace
    /\ rows = NoDigests
    /\ call = [c \in Callers |-> NoCall]

\* The caller submits a workspace derived from revision e, with the bytes of
\* the media that are new to it.
Request(c) ==
    /\ call[c].status # "open"
    /\ \E e \in 0..revision, w \in Workspaces, a \in Digests :
         call' = [call EXCEPT ![c] =
           [status |-> "open", expected |-> e, workspace |-> w,
            additions |-> a, created |-> {}]]
    /\ UNCHANGED <<revision, workspace, rows>>

\* The digests after w is installed with additions a: the addition wins, a
\* retained id keeps its row, an id the workspace no longer names loses it.
Installed(w, a) ==
    [m \in Media |-> CASE m \notin w.media -> Absent
                       [] m \in w.media /\ a[m] # Absent -> a[m]
                       [] OTHER -> rows[m]]

\* The call ends and is forgotten, but for its answer.
Refused(c, answer) == call' = [call EXCEPT ![c] = [NoCall EXCEPT !.status = answer]]

\* An acknowledged call keeps what its caller knows: base revision, creations.
Acknowledged(c, created) ==
    call' = [call EXCEPT ![c] =
      [status |-> "committed", expected |-> call[c].expected,
       workspace |-> EmptyWorkspace, additions |-> NoDigests, created |-> created]]

Replace(c) ==
    LET k == call[c] IN
    /\ k.expected = revision
    /\ \A m \in k.workspace.media : rows[m] # Absent \/ k.additions[m] # Absent
    /\ revision' = revision + 1
    /\ workspace' = k.workspace
    /\ rows' = Installed(k.workspace, k.additions)

\* The compare-and-set succeeds, and the answer names the References the
\* request created relative to the workspace it replaced.
Accept(c) ==
    /\ call[c].status = "open"
    /\ Replace(c)
    /\ Acknowledged(c, call[c].workspace.references \ workspace.references)

\* It succeeds, but the caller is told it failed.
AcceptUnacknowledged(c) ==
    /\ call[c].status = "open"
    /\ Replace(c)
    /\ Refused(c, "failed")

\* It changes nothing.  A conflict is reported only to a stale caller.
Refuse(c) ==
    /\ call[c].status = "open"
    /\ \E r \in Refusals :
         /\ r = "conflict" => call[c].expected # revision
         /\ Refused(c, r)
    /\ UNCHANGED <<revision, workspace, rows>>

Next == \E c \in Callers :
    \/ Request(c)
    \/ Accept(c)
    \/ AcceptUnacknowledged(c)
    \/ Refuse(c)

Spec == Init /\ [][Next]_vars

=============================================================================
