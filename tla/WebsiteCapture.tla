---------------------------- MODULE WebsiteCapture ----------------------------
(***************************************************************************)
(* captureReference: a website capture stores every screenshot the driver  *)
(* hands it as a checkpoint - a Target, a Moment and, unless the bytes are *)
(* known, an Asset - in a commit of its own, while users edit the same     *)
(* workspace and other processes capture the same Reference.  The store is *)
(* the atomic compare-and-set of WorkspaceStore, seen from one Reference.  *)
(*                                                                         *)
(* The driver's overall timeout makes the call return while a screenshot   *)
(* may still be on its way into the workspace; an abort only makes the     *)
(* driver stop at its next check.                                          *)
(***************************************************************************)
EXTENDS Integers, FiniteSets

CONSTANTS
    Captures,       \* calls of captureReference
    Processes, Process,     \* Process[c]: the server or MCP process of a call
    Digests,        \* screenshots, up to their SHA-256
    None,           \* no asset
    Urls, FirstUrl, \* what sourceUrl may be, and is at first
    Gone,           \* the Reference is deleted
    Retries,        \* revisionRetries
    Timeouts,       \* whether the driver may time out
    MaxShots, MaxEdits, MaxImports, MaxFaults       \* bounds of the model

Shots == 1..MaxShots
\* The ids one screenshot generates: those of its Asset and of its Moment.
Ids == Captures \X Shots
Assets == [id : Ids, digest : Digests]
Moments == [id : Ids, asset : Ids, digest : Digests]
Workspaces == [url : Urls \cup {Gone}, assets : SUBSET Assets, moments : SUBSET Moments]

ASSUME ConstantsAssumption ==
    /\ Process \in [Captures -> Processes] /\ None \notin Ids
    /\ FirstUrl \in Urls /\ Gone \notin Urls
    /\ Retries \in Nat /\ Timeouts \in BOOLEAN /\ MaxShots \in Nat
    /\ MaxEdits \in Nat /\ MaxImports \in Nat /\ MaxFaults \in Nat

VARIABLES
    revision, workspace,
    backup,             \* a workspace exported earlier
    capture,            \* one record per call
    installed,          \* the Moments captures ever committed
    met,                \* captures whose code ran at the same time
    edits, imports, faults

vars == <<revision, workspace, backup, capture, installed, met, edits, imports, faults>>
history == <<installed, met>>
counters == <<edits, imports, faults>>

Empty(url) == [url |-> url, assets |-> {}, moments |-> {}]

\* step is where the call's code is, answer what its caller was told.
Idle == [step |-> "idle", answer |-> "none", aborted |-> FALSE,
         known |-> [d \in Digests |-> None], captured |-> {},
         shot |-> 0, digest |-> None, attempt |-> 0,
         base |-> 0, seen |-> Empty(Gone)]

Init ==
    /\ revision = 0
    /\ workspace = Empty(FirstUrl)
    /\ backup = workspace
    /\ capture = [c \in Captures |-> Idle]
    /\ installed = {} /\ met = {} /\ edits = 0 /\ imports = 0 /\ faults = 0

Set(c, record) == capture' = [capture EXCEPT ![c] = record]
Unanswered(c) == capture[c].answer = "none"
InProgress(c) == capture[c].step # "idle" /\ Unanswered(c)
Running(c) == capture[c].step \notin {"idle", "over"}

\* The call is over, or only its code is if the caller was answered before.
Answered(c, answer) == IF Unanswered(c) THEN answer ELSE capture[c].answer

\* An exception: what the catch clause makes of it.
Failure(c) ==
    CASE capture[c].aborted -> "cancelled"
      [] ~capture[c].aborted /\ capture[c].captured = {} -> "failed"
      [] OTHER -> "partial"

\* The code ends; what matters of the call is its answer and what it did.
Over(c, answer, captured) ==
    Set(c, [Idle EXCEPT !.step = "over", !.answer = Answered(c, answer),
              !.captured = captured, !.shot = capture[c].shot])

Throw(c) == Over(c, Failure(c), capture[c].captured)

-----------------------------------------------------------------------------

\* One capture of a Reference at a time in a process: CAPTURE_BUSY otherwise.
Begin(c) ==
    /\ capture[c].step = "idle"
    /\ ~\E d \in Captures : Process[d] = Process[c] /\ InProgress(d)
    /\ Set(c, [Idle EXCEPT !.step = "load"])
    /\ met' = met \cup {{c, d} : d \in {b \in Captures : Running(b)}}
    /\ UNCHANGED <<revision, workspace, backup, installed, counters>>

\* The assets known by digest; of two with one digest, either.
Known(k) ==
    \A d \in Digests :
        LET same == {a.id : a \in {b \in workspace.assets : b.digest = d}} IN
        IF same = {} THEN k[d] = None ELSE k[d] \in same
ForgetKnown(k) == k = Idle.known                                   \* mutant
InitiallyKnown(k) == Known(k)

Load(c) ==
    /\ capture[c].step = "load"
    /\ IF workspace.url = Gone
       THEN Over(c, "failed", {})
       ELSE \E k \in [Digests -> Ids \cup {None}] :
              /\ InitiallyKnown(k)
              /\ Set(c, [capture[c] EXCEPT !.step = "drive", !.known = k])
    /\ UNCHANGED <<revision, workspace, backup, history, counters>>

\* The driver hands over a screenshot.
Shoot(c, d) ==
    /\ capture[c].step = "drive" /\ ~capture[c].aborted /\ capture[c].shot < MaxShots
    /\ Set(c, [capture[c] EXCEPT !.step = "read", !.shot = capture[c].shot + 1,
                 !.digest = d, !.attempt = 0])
    /\ UNCHANGED <<revision, workspace, backup, history, counters>>

\* A checkpoint starts from the state it loads: a missing Reference fails it.
Read(c) ==
    /\ capture[c].step = "read"
    /\ IF workspace.url = Gone THEN Throw(c)
       ELSE Set(c, [capture[c] EXCEPT !.step = "commit", !.base = revision,
                     !.seen = workspace])
    /\ UNCHANGED <<revision, workspace, backup, history, counters>>

\* The asset of an earlier screenshot with the same bytes, and whether the
\* loaded workspace still has it.  If not, it is created anew with its id.
Reused(c) == capture[c].known[capture[c].digest]
Reusable(c) == \E a \in capture[c].seen.assets : a.id = Reused(c)
AlwaysReusable(c) == Reused(c) # None                           \* mutant
Reuses(c) == Reusable(c)

Fresh(c) == <<c, capture[c].shot>>
AssetId(c) == IF Reused(c) = None THEN Fresh(c) ELSE Reused(c)

AppendToSeen(c, moment) ==
    [capture[c].seen EXCEPT
       !.assets = IF Reuses(c) THEN @ ELSE @ \cup {[id |-> AssetId(c), digest |-> capture[c].digest]},
       !.moments = @ \cup {moment}]

\* appendCheckpoint, over the workspace the checkpoint loaded.
AppendCheckpoint(c) ==
    AppendToSeen(c, [id |-> Fresh(c), asset |-> AssetId(c), digest |-> capture[c].digest])

NeverConflicts(c) == capture[c].base > revision                 \* mutant
Conflicts(c) == capture[c].base # revision

Install(c) ==
    /\ capture[c].step = "commit" /\ ~Conflicts(c)
    /\ revision' = revision + 1
    /\ workspace' = AppendCheckpoint(c)
    /\ installed' = installed \cup {Fresh(c)}

CapturedNewAssets(c) ==                                         \* mutant
    capture[c].captured \cup (IF Reuses(c) THEN {} ELSE {Fresh(c)})
CapturedAfter(c) == capture[c].captured \cup {Fresh(c)}

CommitCheckpoint(c) ==
    /\ Install(c)
    /\ LET captured == CapturedAfter(c) IN
       IF Unanswered(c)
       THEN Set(c, [capture[c] EXCEPT !.step = "next", !.captured = captured,
              !.known[capture[c].digest] = AssetId(c),
              !.seen = Empty(Gone), !.base = 0, !.digest = None, !.attempt = 0])
       ELSE Over(c, capture[c].answer, captured)
    /\ UNCHANGED <<backup, met, counters>>

SkipCheckpoint(c) ==                                            \* mutant
    Set(c, [capture[c] EXCEPT !.step = "next", !.seen = Empty(Gone), !.base = 0,
              !.digest = None, !.attempt = 0])
GiveUp(c) == Throw(c)

MayRetry(c) == capture[c].attempt < Retries

\* A revision conflict starts the checkpoint over, Retries times.
Conflict(c) ==
    /\ capture[c].step = "commit" /\ Conflicts(c)
    /\ IF MayRetry(c)
       THEN Set(c, [capture[c] EXCEPT !.step = "read", !.attempt = capture[c].attempt + 1,
                     !.seen = Empty(Gone), !.base = 0])
       ELSE GiveUp(c)
    /\ UNCHANGED <<revision, workspace, backup, history, counters>>

Fault == faults < MaxFaults /\ faults' = faults + 1

\* The commit took effect and its answer was lost.
CommitUnacknowledged(c) ==
    /\ Install(c) /\ Throw(c) /\ Fault
    /\ UNCHANGED <<backup, met, edits, imports>>

\* The store or the driver fails.
Fail(c) ==
    /\ capture[c].step \in {"load", "drive", "read", "commit"}
    /\ Throw(c) /\ Fault
    /\ UNCHANGED <<revision, workspace, backup, history, edits, imports>>

\* The callback returned: the driver returns too, or goes on unless aborted.
\* A passive observation may also end "partial".
Return(c, answer) ==
    /\ \/ capture[c].step = "next"
       \/ capture[c].step = "drive" /\ ~capture[c].aborted
    /\ Over(c, answer, capture[c].captured)
    /\ UNCHANGED <<revision, workspace, backup, history, counters>>

Proceed(c) ==
    /\ capture[c].step = "next" /\ ~capture[c].aborted
    /\ Set(c, [capture[c] EXCEPT !.step = "drive"])
    /\ UNCHANGED <<revision, workspace, backup, history, counters>>

StopsAfterShots(c) == capture[c].step = "next"                  \* mutant
Stops(c) == capture[c].step \in {"next", "drive"}

StopAborted(c) ==
    /\ Stops(c) /\ capture[c].aborted
    /\ Throw(c)
    /\ UNCHANGED <<revision, workspace, backup, history, counters>>

\* cancel or close of the scheduler.
Abort(c) ==
    /\ InProgress(c) /\ ~capture[c].aborted
    /\ Set(c, [capture[c] EXCEPT !.aborted = TRUE])
    /\ UNCHANGED <<revision, workspace, backup, history, counters>>

\* The overall timeout rejects the driver's promise.  A callback in progress
\* runs on; the driver itself stops.
Timeout(c) ==
    /\ Timeouts /\ Unanswered(c) /\ capture[c].step \in {"drive", "read", "commit"}
    /\ IF capture[c].step = "drive" THEN Throw(c)
       ELSE Set(c, [capture[c] EXCEPT !.answer = Failure(c)])
    /\ UNCHANGED <<revision, workspace, backup, history, counters>>

-----------------------------------------------------------------------------
(* The users, through the web page or MCP: each edit is a commit.          *)

Replace(new) ==
    /\ revision' = revision + 1
    /\ workspace' = new
    /\ UNCHANGED <<capture, history, faults>>

Edit(new) ==
    /\ edits < MaxEdits
    /\ edits' = edits + 1
    /\ Replace(new)
    /\ UNCHANGED <<backup, imports>>

EditUrl(u) ==
    /\ workspace.url \notin {Gone, u}
    /\ Edit([workspace EXCEPT !.url = u])

\* deleteReference cascades to the assets, targets and moments.
DeleteReference ==
    /\ workspace.url # Gone
    /\ Edit(Empty(Gone))

ExportBackup ==
    /\ imports < MaxImports
    /\ backup' = workspace
    /\ UNCHANGED <<revision, workspace, capture, history, counters>>

ImportBackup ==
    /\ imports < MaxImports
    /\ imports' = imports + 1
    /\ Replace(backup)
    /\ UNCHANGED <<backup, edits>>

-----------------------------------------------------------------------------

Answers == {"complete", "partial"}

Step(c) ==
    \/ Load(c) \/ Read(c) \/ CommitCheckpoint(c) \/ Conflict(c)
    \/ \E d \in Digests : Shoot(c, d)
    \/ \E a \in Answers : Return(c, a)
    \/ Proceed(c) \/ StopAborted(c)

CaptureNext(c) ==
    \/ Begin(c) \/ Step(c) \/ CommitUnacknowledged(c)
    \/ Fail(c) \/ Abort(c) \/ Timeout(c)

UserNext ==
    \/ \E u \in Urls : EditUrl(u)
    \/ DeleteReference \/ ExportBackup \/ ImportBackup

Next ==
    \/ \E c \in Captures : CaptureNext(c)
    \/ UserNext

Spec == Init /\ [][Next]_vars
FairSpec == Spec /\ \A c \in Captures : WF_vars(Step(c))

-----------------------------------------------------------------------------
(* Properties.                                                             *)

CaptureRecords ==
    [step : {"idle", "load", "drive", "read", "commit", "next", "over"},
     answer : {"none", "failed", "cancelled"} \cup Answers,
     aborted : BOOLEAN, known : [Digests -> Ids \cup {None}],
     captured : SUBSET Ids, shot : 0..MaxShots, digest : Digests \cup {None},
     attempt : 0..Retries, base : Nat, seen : Workspaces]

TypeOK ==
    /\ revision \in Nat /\ workspace \in Workspaces /\ backup \in Workspaces
    /\ capture \in [Captures -> CaptureRecords]
    /\ installed \in SUBSET Ids /\ met \in SUBSET SUBSET Captures
    /\ edits \in Nat /\ imports \in Nat /\ faults \in Nat

\* Only users remove or change what is there: a checkpoint adds to the
\* workspace of the moment it commits, however long ago it loaded its own,
\* so that a capture rolls back neither the URL, nor an edit, nor an earlier
\* checkpoint of its own or of another capture.
CheckpointsOnlyAdd ==
    [][edits' = edits /\ imports' = imports =>
         /\ workspace'.url = workspace.url
         /\ workspace.assets \subseteq workspace'.assets
         /\ workspace.moments \subseteq workspace'.moments]_vars

\* Every Moment shows the Asset its Target names, with the bytes it was
\* taken from, also when the Asset was deleted, restored or reused meanwhile.
MomentsHaveAssets ==
    /\ TypeOK
    /\ \A m \in workspace.moments :
         \E a \in workspace.assets : a.id = m.asset /\ a.digest = m.digest

\* No capture says more than it did: what it reports was committed, it is
\* complete only if every screenshot taken was.
AnswersTruthful ==
    \A c \in Captures :
        /\ capture[c].captured \subseteq installed
        /\ capture[c].answer = "complete" => {c} \X (1..capture[c].shot) \subseteq installed

\* A capture that is told it failed has added nothing by then, but for a
\* commit whose answer was lost: with a checkpoint it is partial.
FailureLeavesNothing ==
    [][\A c \in Captures :
         /\ Unanswered(c) /\ capture'[c].answer = "failed"
         /\ faults' = faults \/ installed' = installed
         => installed' \cap ({c} \X Shots) = {}]_vars

\* Screenshots with the same bytes share one Asset of the Reference, also
\* across captures and after users deleted it, but for captures that ran at
\* the same time: in two processes, or one that ran on after its timeout; and
\* for a restored workspace.
DuplicatesMet ==
    imports = 0 =>
        \A a, b \in workspace.assets :
            a.digest = b.digest /\ a # b => {a.id[1], b.id[1]} \in met

\* Every capture is answered: conflicts with users and other captures are
\* retried a bounded number of times.
CapturesAnswered ==
    \A c \in Captures : capture[c].step = "load" ~> ~Unanswered(c)

=============================================================================
