------------------------- MODULE CaptureProofs -----------------------------
(***************************************************************************)
(* Proofs about what becomes of captured screenshots: WebsiteCapture puts  *)
(* them into the workspace, PreviewService holds them in memory for a      *)
(* while.  For any number of captures, processes, screenshots, retries,    *)
(* edits, restores and faults: what checkpoints do to the workspace, what  *)
(* callers are told, and when bytes are stored twice.  For any number of   *)
(* previews and any sizes: the counter of bytes is what is stored, and a   *)
(* preview goes only when it is due.                                       *)
(***************************************************************************)
EXTENDS WebsiteCapture, PreviewService, FiniteSetTheorems, TLAPS

Checkpointing == {"read", "commit"}
Driven == {"drive", "read", "commit", "next"}
Going == {"load"} \cup Driven

\* Every Moment of a workspace has its Asset.
Complete(w) ==
    \A m \in w.moments : \E a \in w.assets : a.id = m.asset /\ a.digest = m.digest

\* The shape of a record, and what a checkpoint in progress works on.
Typed(r) ==
    /\ r \in CaptureRecords
    /\ r.step \in Checkpointing => r.digest \in Digests /\ r.shot \in Shots
    /\ r.step = "commit" => r.seen.url # Gone
    /\ Complete(r.seen)

\* What a call reports was committed; as long as it is unanswered it knows
\* all it committed; between screenshots it has committed all it took.
Report(c, r) ==
    /\ r.captured \subseteq installed
    /\ r.step \in {"drive", "next"} => {c} \X (1..r.shot) \subseteq r.captured
    /\ r.step \in Checkpointing => {c} \X (1..(r.shot - 1)) \subseteq r.captured
    /\ r.answer = "complete" => r.step = "over" /\ {c} \X (1..r.shot) \subseteq installed
    /\ r.answer = "none" => installed \cap ({c} \X Shots) \subseteq r.captured
    /\ r.step \in {"idle", "load"} => r.captured = {} /\ r.answer = "none" /\ r.shot = 0

\* A commit that does not conflict is made from the workspace it replaces.
Pending(r) ==
    r.step = "commit" => r.base <= revision /\ (r.base = revision => r.seen = workspace)

\* An id and a digest go together somewhere: in a workspace, in one a
\* checkpoint has loaded, or among the digests a call knows.
NamedIn(w, i, d) == \E a \in w.assets : a.id = i /\ a.digest = d
Named(i, d) ==
    \/ NamedIn(workspace, i, d) \/ NamedIn(backup, i, d)
    \/ \E c \in Captures : NamedIn(capture[c].seen, i, d) \/ capture[c].known[d] = i

\* An id has one digest, and the id of a screenshot that is not committed
\* has none.
Names ==
    /\ \A i \in Ids : \A d, e \in Digests : Named(i, d) /\ Named(i, e) => d = e
    /\ \A c \in Captures : \A n \in Shots : \A d \in Digests :
         Named(<<c, n>>, d) =>
            /\ n <= capture[c].shot
            /\ capture[c].step \in Checkpointing => n < capture[c].shot

\* Without a restore, a call knows every Asset it did not meet the maker of,
\* and what it knows is there.
Acquainted(c, r) ==
    imports = 0 /\ workspace.url # Gone /\ r.step \in Driven =>
        /\ \A b \in workspace.assets : r.known[b.digest] # None \/ {c, b.id[1]} \in met
        /\ \A d \in Digests : r.known[d] # None => \E a \in workspace.assets : a.id = r.known[d]

Companions ==
    \A c, d \in Captures :
        c # d /\ capture[c].step \in Going /\ capture[d].step \in Going => {c, d} \in met

Deduplicated ==
    /\ DuplicatesMet
    /\ imports = 0 /\ workspace.url = Gone => workspace.assets = {}

Store ==
    /\ revision \in Nat /\ workspace \in Workspaces /\ backup \in Workspaces
    /\ Complete(workspace) /\ Complete(backup)
    /\ installed \in SUBSET Ids /\ met \in SUBSET SUBSET Captures
    /\ edits \in Nat /\ imports \in Nat /\ faults \in Nat

RecordOK(c, r) == Typed(r) /\ Report(c, r) /\ Pending(r) /\ Acquainted(c, r)

Inv ==
    /\ Store
    /\ capture \in [Captures -> CaptureRecords]
    /\ \A c \in Captures : RecordOK(c, capture[c])
    /\ Names /\ Companions /\ Deduplicated

-----------------------------------------------------------------------------
(* Records and names.                                                      *)

LEMMA EmptyOK ==
    /\ Empty(Gone) \in Workspaces /\ Complete(Empty(Gone)) /\ Empty(Gone).assets = {}
    /\ Empty(FirstUrl) \in Workspaces /\ Complete(Empty(FirstUrl))
    /\ Empty(FirstUrl).assets = {} /\ Empty(Gone).url = Gone
  BY ConstantsAssumption DEF Empty, Workspaces, Complete

LEMMA IdleOK ==
    /\ Idle \in CaptureRecords /\ Idle.step = "idle" /\ Idle.answer = "none"
    /\ Idle.captured = {} /\ Idle.shot = 0 /\ Idle.seen = Empty(Gone)
    /\ \A d \in Digests : Idle.known[d] = None
<1>1. 0 \in 0..MaxShots /\ 0 \in 0..Retries
  BY ConstantsAssumption
<1>2. [d \in Digests |-> None] \in [Digests -> Ids \cup {None}]
  OBVIOUS
<1> HIDE DEF Empty
<1> QED
  BY <1>1, <1>2, EmptyOK DEF Idle, CaptureRecords

LEMMA Facts ==
    ASSUME Inv, NEW c \in Captures
    PROVE  /\ capture[c] \in CaptureRecords
           /\ Typed(capture[c]) /\ Report(c, capture[c])
           /\ Pending(capture[c]) /\ Acquainted(c, capture[c])
  BY DEF Inv, RecordOK

\* A record that names only what was named, or nothing.
OldNames(r) ==
    \A i \in Ids : \A d \in Digests :
        NamedIn(r.seen, i, d) \/ r.known[d] = i => Named(i, d)

\* The number of a screenshot only grows, and a checkpoint has its own.
ShotMoves(r, s) ==
    /\ s.shot >= r.shot
    /\ s.step \in Checkpointing =>
         \/ r.step \in Checkpointing /\ s.shot = r.shot
         \/ s.shot > r.shot

LEMMA NamesKept ==
    ASSUME Names, capture \in [Captures -> CaptureRecords],
           capture' \in [Captures -> CaptureRecords],
           \A i \in Ids : \A d \in Digests : Named(i, d)' => Named(i, d),
           \A c \in Captures : ShotMoves(capture[c], capture'[c])
    PROVE  Names'
<1>1. \A c \in Captures : capture[c].shot \in Int /\ capture'[c].shot \in Int
  BY ConstantsAssumption DEF CaptureRecords
<1>2. \A c \in Captures : \A n \in Shots : <<c, n>> \in Ids /\ n \in Int
  BY ConstantsAssumption DEF Ids, Shots
<1>3. ASSUME NEW c \in Captures, NEW n \in Shots, NEW d \in Digests, Named(<<c, n>>, d)'
      PROVE  /\ n <= capture'[c].shot
             /\ capture'[c].step \in Checkpointing => n < capture'[c].shot
  <2>1. Named(<<c, n>>, d)
    BY <1>2, <1>3
  <2>2. n <= capture[c].shot /\ (capture[c].step \in Checkpointing => n < capture[c].shot)
    BY <2>1 DEF Names
  <2>3. capture[c].shot \in Int /\ capture'[c].shot \in Int /\ n \in Int
    BY <1>1, <1>2
  <2>4. capture'[c].shot >= capture[c].shot
    BY DEF ShotMoves
  <2>5. ASSUME capture'[c].step \in Checkpointing PROVE n < capture'[c].shot
    <3>1. \/ capture[c].step \in Checkpointing /\ capture'[c].shot = capture[c].shot
          \/ capture'[c].shot > capture[c].shot
      BY <2>5 DEF ShotMoves
    <3> QED
      BY <2>2, <2>3, <3>1
  <2> QED
    BY <2>2, <2>3, <2>4, <2>5
<1>4. \A i \in Ids : \A d, e \in Digests : Named(i, d)' /\ Named(i, e)' => d = e
  BY DEF Names
<1> QED
  BY <1>3, <1>4 DEF Names

\* One call moves and the store stays.
LEMMA CaptureMoves ==
    ASSUME Inv, NEW c \in Captures, NEW r, RecordOK(c, r), OldNames(r),
           ShotMoves(capture[c], r),
           met \subseteq met', met' \in SUBSET SUBSET Captures,
           \/ r.step \in Going => capture[c].step \in Going
           \/ \A d \in Captures \ {c} : capture[d].step \in Going => {c, d} \in met',
           Set(c, r), UNCHANGED <<revision, workspace, backup, installed>>,
           UNCHANGED <<edits, imports>>, faults' \in Nat
    PROVE  Inv'
<1>1. /\ capture' \in [Captures -> CaptureRecords] /\ capture'[c] = r
      /\ \A d \in Captures \ {c} : capture'[d] = capture[d]
  BY DEF Set, Inv, RecordOK, Typed
<1>2. Store'
  BY DEF Inv, Store, Complete
<1>3. \A d \in Captures : RecordOK(d, capture[d])'
  <2> SUFFICES ASSUME NEW d \in Captures PROVE RecordOK(d, capture[d])'
    OBVIOUS
  <2>1. RecordOK(d, capture'[d])
    BY <1>1 DEF Inv
  <2>2. Typed(capture[d])'
    BY <2>1 DEF RecordOK, Typed, Complete
  <2>3. Report(d, capture[d])'
    BY <2>1 DEF RecordOK, Report
  <2>4. Pending(capture[d])' /\ Acquainted(d, capture[d])'
    BY <2>1 DEF RecordOK, Pending, Acquainted
  <2> QED
    BY <2>2, <2>3, <2>4 DEF RecordOK
<1>4. \A i \in Ids : \A d \in Digests : Named(i, d)' => Named(i, d)
  <2> SUFFICES ASSUME NEW i \in Ids, NEW d \in Digests, Named(i, d)' PROVE Named(i, d)
    OBVIOUS
  <2>1. CASE NamedIn(workspace, i, d)' \/ NamedIn(backup, i, d)'
    BY <2>1 DEF Named, NamedIn
  <2>2. CASE \E e \in Captures : NamedIn(capture[e].seen, i, d)' \/ (capture[e].known[d] = i)'
    <3>1. PICK e \in Captures : NamedIn(capture'[e].seen, i, d) \/ capture'[e].known[d] = i
      BY <2>2 DEF NamedIn
    <3> QED
      BY <1>1, <3>1 DEF OldNames, Named
  <2> QED
    BY <2>1, <2>2 DEF Named
<1>5. Names'
  <2>1. \A d \in Captures : ShotMoves(capture[d], capture'[d])
    <3>1. \A d \in Captures : capture[d].shot \in Int
      BY ConstantsAssumption DEF Inv, CaptureRecords
    <3> QED
      BY <1>1, <3>1 DEF ShotMoves
  <2> QED
    BY <1>1, <1>4, <2>1, NamesKept DEF Inv
<1>6. Companions'
  <2> SUFFICES ASSUME NEW d \in Captures, NEW e \in Captures, d # e,
                      capture'[d].step \in Going, capture'[e].step \in Going
               PROVE  {d, e} \in met'
    BY DEF Companions
  <2>1. CASE d # c /\ e # c
    BY <1>1, <2>1 DEF Inv, Companions
  <2>2. CASE d = c
    BY <1>1, <2>2 DEF Inv, Companions
  <2>3. CASE e = c
    <3>1. {d, e} = {e, d}
      OBVIOUS
    <3> QED
      BY <1>1, <2>3, <3>1 DEF Inv, Companions
  <2> QED
    BY <2>1, <2>2, <2>3
<1>7. Deduplicated'
  BY <1>1 DEF Inv, Deduplicated, DuplicatesMet
<1> QED
  BY <1>1, <1>2, <1>3, <1>5, <1>6, <1>7 DEF Inv

-----------------------------------------------------------------------------
(* The steps that leave the store alone.                                   *)

LEMMA MetStays ==
    ASSUME Inv, UNCHANGED met
    PROVE  met \subseteq met' /\ met' \in SUBSET SUBSET Captures
  BY DEF Inv, Store

Told == {"failed", "cancelled", "complete", "partial"}

LEMMA FailureTold == \A c : Failure(c) \in Told \ {"complete"}
  BY DEF Failure, Told

\* The code of a call ends.
LEMMA OverMoves ==
    ASSUME Inv, NEW c \in Captures, NEW a \in Told, capture[c].step \in Going,
           Over(c, a, capture[c].captured),
           a = "complete" => capture[c].step \in {"drive", "next"},
           UNCHANGED <<revision, workspace, backup, installed, met>>,
           UNCHANGED <<edits, imports>>, faults' \in Nat
    PROVE  Inv'
<1> DEFINE t == Answered(c, a)
           r == [Idle EXCEPT !.step = "over", !.answer = t,
                   !.captured = capture[c].captured, !.shot = capture[c].shot]
<1>1. capture[c] \in CaptureRecords /\ Report(c, capture[c])
  BY Facts
<1>2. /\ t \in Told
      /\ t = "complete" => {c} \X (1..capture[c].shot) \subseteq capture[c].captured
  <2>1. CASE Unanswered(c)
    BY <1>1, <2>1 DEF Answered, Report
  <2>2. CASE ~Unanswered(c)
    <3>1. capture[c].answer \in Told
      BY <1>1, <2>2 DEF Unanswered, CaptureRecords, Answers, Told
    <3>2. capture[c].answer # "complete"
      BY <1>1 DEF Report, Going, Driven
    <3> QED
      BY <2>2, <3>1, <3>2 DEF Answered
  <2> QED
    BY <2>1, <2>2
<1>3. Set(c, r)
  BY DEF Over
<1> HIDE DEF t
<1>4. /\ r \in CaptureRecords /\ r.step = "over" /\ r.answer = t /\ r.seen = Empty(Gone)
      /\ r.captured = capture[c].captured /\ r.shot = capture[c].shot
      /\ r.known = Idle.known
  BY <1>1, <1>2, IdleOK DEF CaptureRecords, Told, Answers
<1> HIDE DEF r
<1>5. Typed(r) /\ Pending(r) /\ Acquainted(c, r)
  BY <1>4, EmptyOK DEF Typed, Pending, Acquainted, Checkpointing, Driven
<1>6. Report(c, r)
  BY <1>1, <1>2, <1>4 DEF Report, Checkpointing, Told
<1>7. OldNames(r)
  BY <1>4, IdleOK, EmptyOK, ConstantsAssumption DEF OldNames, NamedIn
<1>8. ShotMoves(capture[c], r)
  BY <1>1, <1>4, ConstantsAssumption DEF ShotMoves, CaptureRecords, Checkpointing
<1>9. r.step \notin Going
  BY <1>4 DEF Going, Driven
<1> QED
  BY <1>3, <1>5, <1>6, <1>7, <1>8, <1>9, MetStays, CaptureMoves DEF RecordOK

LEMMA ThrowMoves ==
    ASSUME Inv, NEW c \in Captures, capture[c].step \in Going, Throw(c),
           UNCHANGED <<revision, workspace, backup, installed, met>>,
           UNCHANGED <<edits, imports>>, faults' \in Nat
    PROVE  Inv'
  BY OverMoves, FailureTold DEF Throw, Told

\* What a call knows after it loaded: the Assets that are there.
LEMMA LoadKeeps ==
    ASSUME Inv, NEW c \in Captures, Load(c)
    PROVE  Inv'
<1>0. /\ capture[c] \in CaptureRecords /\ Typed(capture[c]) /\ Report(c, capture[c])
      /\ capture[c].step = "load" /\ capture[c].captured = {} /\ capture[c].answer = "none"
      /\ capture[c].shot = 0
      /\ UNCHANGED <<revision, workspace, backup, installed, met, edits, imports>>
      /\ faults' \in Nat /\ workspace \in Workspaces
  BY Facts DEF Load, Report, history, counters, Inv, Store
<1>1. CASE Over(c, "failed", {})
  BY <1>0, <1>1, OverMoves DEF Told, Going
<1>2. CASE ~Over(c, "failed", {})
  <2>1. PICK k \in [Digests -> Ids \cup {None}] :
          /\ Known(k) /\ Set(c, [capture[c] EXCEPT !.step = "drive", !.known = k])
    BY <1>2 DEF Load, InitiallyKnown
  <2> DEFINE r == [capture[c] EXCEPT !.step = "drive", !.known = k]
  <2>2. /\ r \in CaptureRecords /\ r.step = "drive" /\ r.answer = "none" /\ r.captured = {}
        /\ r.shot = capture[c].shot /\ r.seen = capture[c].seen /\ r.known = k
    BY <1>0 DEF CaptureRecords
  <2> HIDE DEF r
  <2>3. ASSUME NEW d \in Digests
        PROVE  /\ k[d] # None => \E a \in workspace.assets : a.id = k[d] /\ a.digest = d
               /\ k[d] = None => \A a \in workspace.assets : a.digest # d
    <3> DEFINE same == {a.id : a \in {b \in workspace.assets : b.digest = d}}
    <3>1. IF same = {} THEN k[d] = None ELSE k[d] \in same
      BY <2>1 DEF Known
    <3>2. None \notin same
      BY <1>0, ConstantsAssumption DEF Workspaces, Assets
    <3>3. \A a \in workspace.assets : a.digest = d => a.id \in same
      OBVIOUS
    <3>4. k[d] \in same => \E a \in workspace.assets : a.id = k[d] /\ a.digest = d
      OBVIOUS
    <3> HIDE DEF same
    <3> QED
      BY <3>1, <3>2, <3>3, <3>4
  <2>4. Typed(r) /\ Pending(r)
    BY <1>0, <2>2 DEF Typed, Pending, Checkpointing
  <2>5. Acquainted(c, r)
    <3>1. \A b \in workspace.assets : b.digest \in Digests
      BY <1>0 DEF Workspaces, Assets
    <3> QED
      BY <2>2, <2>3, <3>1 DEF Acquainted
  <2>6. OldNames(r)
    BY <2>2, <2>3, ConstantsAssumption DEF OldNames, Named, NamedIn
  <2>7. Report(c, r)
    <3>1. 1..0 = {}
      OBVIOUS
    <3>2. {c} \X (1..r.shot) = {}
      BY <1>0, <2>2, <3>1
    <3>3. r.captured = capture[c].captured
      BY <1>0, <2>2
    <3> QED
      BY <1>0, <2>2, <3>2, <3>3 DEF Report, Checkpointing
  <2>8. ShotMoves(capture[c], r)
    BY <1>0, <2>2 DEF ShotMoves, Checkpointing
  <2>9. Set(c, r)
    BY <2>1 DEF r
  <2>10. capture[c].step \in Going
    BY <1>0 DEF Going
  <2> QED
    BY <1>0, <2>4, <2>5, <2>6, <2>7, <2>8, <2>9, <2>10, MetStays, CaptureMoves DEF RecordOK
<1> QED
  BY <1>1, <1>2 DEF Load

LEMMA BeginKeeps ==
    ASSUME Inv, NEW c \in Captures, Begin(c)
    PROVE  Inv'
<1> DEFINE r == [Idle EXCEPT !.step = "load"]
<1>1. capture[c].step = "idle" /\ Report(c, capture[c]) /\ Set(c, r)
  BY Facts DEF Begin
<1>2. capture[c].shot = 0 /\ capture[c].captured = {} /\ capture[c].answer = "none"
  BY <1>1 DEF Report
<1>3. /\ r \in CaptureRecords /\ r.step = "load" /\ r.answer = "none" /\ r.captured = {}
      /\ r.shot = 0 /\ r.seen = Empty(Gone) /\ \A d \in Digests : r.known[d] = None
  BY IdleOK DEF CaptureRecords
<1> HIDE DEF r
<1>4. Typed(r) /\ Pending(r) /\ Acquainted(c, r)
  BY <1>3, EmptyOK DEF Typed, Pending, Acquainted, Checkpointing, Driven
<1>5. Report(c, r)
  BY <1>1, <1>2, <1>3 DEF Report, Checkpointing
<1>6. OldNames(r)
  BY <1>3, EmptyOK, ConstantsAssumption DEF OldNames, NamedIn
<1>7. ShotMoves(capture[c], r)
  BY <1>2, <1>3 DEF ShotMoves, Checkpointing
<1>8. /\ UNCHANGED <<revision, workspace, backup, installed, edits, imports>>
      /\ faults' \in Nat /\ met \in SUBSET SUBSET Captures
      /\ met' = met \cup {{c, d} : d \in {b \in Captures : Running(b)}}
  BY DEF Begin, counters, Inv, Store
<1>9. ASSUME NEW d \in Captures, capture[d].step \in Going PROVE {c, d} \in met'
  BY <1>8, <1>9 DEF Running, Going, Driven
<1>10. met \subseteq met' /\ met' \in SUBSET SUBSET Captures
  BY <1>8
<1> QED
  BY <1>1, <1>4, <1>5, <1>6, <1>7, <1>8, <1>9, <1>10, CaptureMoves DEF RecordOK

LEMMA ShootKeeps ==
    ASSUME Inv, NEW c \in Captures, NEW d \in Digests, Shoot(c, d)
    PROVE  Inv'
<1> DEFINE r == [capture[c] EXCEPT !.step = "read", !.shot = capture[c].shot + 1,
                   !.digest = d, !.attempt = 0]
<1>1. /\ capture[c] \in CaptureRecords /\ Typed(capture[c]) /\ Report(c, capture[c])
      /\ Acquainted(c, capture[c]) /\ capture[c].step = "drive"
      /\ capture[c].shot < MaxShots /\ capture[c].shot \in Nat /\ MaxShots \in Nat
      /\ UNCHANGED <<revision, workspace, backup, installed, met, edits, imports>>
      /\ faults' \in Nat
  BY Facts, ConstantsAssumption
     DEF Shoot, history, counters, Inv, Store, CaptureRecords
<1>2. capture[c].shot + 1 \in 0..MaxShots /\ capture[c].shot + 1 \in Shots /\ 0 \in 0..Retries
  BY <1>1, ConstantsAssumption DEF Shots
<1>3. Set(c, r)
  BY DEF Shoot
<1>4. /\ r \in CaptureRecords /\ r.step = "read" /\ r.answer = capture[c].answer
      /\ r.captured = capture[c].captured /\ r.shot = capture[c].shot + 1 /\ r.digest = d
      /\ r.seen = capture[c].seen /\ r.known = capture[c].known
  BY <1>1, <1>2 DEF CaptureRecords
<1> HIDE DEF r
<1>5. Typed(r) /\ Pending(r) /\ Acquainted(c, r)
  BY <1>1, <1>2, <1>4 DEF Typed, Pending, Acquainted, Checkpointing, Driven
<1>6. Report(c, r)
  <2>1. r.shot - 1 = capture[c].shot
    BY <1>1, <1>4
  <2> QED
    BY <1>1, <1>4, <2>1 DEF Report, Checkpointing
<1>7. OldNames(r)
  BY <1>4 DEF OldNames, Named
<1>8. ShotMoves(capture[c], r)
  BY <1>1, <1>4 DEF ShotMoves
<1>9. capture[c].step \in Going
  BY <1>1 DEF Going, Driven
<1> QED
  BY <1>1, <1>3, <1>5, <1>6, <1>7, <1>8, <1>9, MetStays, CaptureMoves DEF RecordOK

LEMMA ReadKeeps ==
    ASSUME Inv, NEW c \in Captures, Read(c)
    PROVE  Inv'
<1> DEFINE r == [capture[c] EXCEPT !.step = "commit", !.base = revision, !.seen = workspace]
<1>1. /\ capture[c] \in CaptureRecords /\ Typed(capture[c]) /\ Report(c, capture[c])
      /\ Acquainted(c, capture[c]) /\ capture[c].step = "read" /\ capture[c].step \in Going
      /\ UNCHANGED <<revision, workspace, backup, installed, met, edits, imports>>
      /\ faults' \in Nat /\ workspace \in Workspaces /\ revision \in Nat /\ Complete(workspace)
  BY Facts DEF Read, history, counters, Inv, Store, Going, Driven
<1>2. CASE Throw(c)
  BY <1>1, <1>2, ThrowMoves
<1>3. CASE workspace.url # Gone /\ Set(c, r)
  <2>1. /\ r \in CaptureRecords /\ r.step = "commit" /\ r.answer = capture[c].answer
        /\ r.captured = capture[c].captured /\ r.shot = capture[c].shot
        /\ r.digest = capture[c].digest /\ r.base = revision
        /\ r.seen = workspace /\ r.known = capture[c].known
    BY <1>1 DEF CaptureRecords
  <2> HIDE DEF r
  <2>2. Typed(r) /\ Pending(r) /\ Acquainted(c, r)
    BY <1>1, <1>3, <2>1 DEF Typed, Pending, Acquainted, Checkpointing, Driven
  <2>3. Report(c, r)
    BY <1>1, <2>1 DEF Report, Checkpointing
  <2>4. OldNames(r)
    BY <2>1 DEF OldNames, Named
  <2>5. ShotMoves(capture[c], r)
    BY <1>1, <2>1, ConstantsAssumption DEF ShotMoves, CaptureRecords, Checkpointing
  <2> QED
    BY <1>1, <1>3, <2>2, <2>3, <2>4, <2>5, MetStays, CaptureMoves DEF RecordOK
<1> QED
  BY <1>2, <1>3 DEF Read

LEMMA ConflictKeeps ==
    ASSUME Inv, NEW c \in Captures, Conflict(c)
    PROVE  Inv'
<1> DEFINE r == [capture[c] EXCEPT !.step = "read", !.attempt = capture[c].attempt + 1,
                   !.seen = Empty(Gone), !.base = 0]
<1>1. /\ capture[c] \in CaptureRecords /\ Typed(capture[c]) /\ Report(c, capture[c])
      /\ Acquainted(c, capture[c]) /\ capture[c].step = "commit" /\ capture[c].step \in Going
      /\ UNCHANGED <<revision, workspace, backup, installed, met, edits, imports>>
      /\ faults' \in Nat
  BY Facts DEF Conflict, history, counters, Inv, Store, Going, Driven
<1>2. CASE Throw(c)
  BY <1>1, <1>2, ThrowMoves
<1>3. CASE MayRetry(c) /\ Set(c, r)
  <2>1. capture[c].attempt + 1 \in 0..Retries
    BY <1>1, <1>3, ConstantsAssumption DEF MayRetry, CaptureRecords
  <2>2. /\ r \in CaptureRecords /\ r.step = "read" /\ r.answer = capture[c].answer
        /\ r.captured = capture[c].captured /\ r.shot = capture[c].shot
        /\ r.digest = capture[c].digest
        /\ r.seen = Empty(Gone) /\ r.known = capture[c].known
    BY <1>1, <2>1, EmptyOK DEF CaptureRecords
  <2> HIDE DEF r
  <2>3. Typed(r) /\ Pending(r) /\ Acquainted(c, r)
    BY <1>1, <2>2, EmptyOK DEF Typed, Pending, Acquainted, Checkpointing, Driven
  <2>4. Report(c, r)
    BY <1>1, <2>2 DEF Report, Checkpointing
  <2>5. OldNames(r)
    BY <2>2, EmptyOK DEF OldNames, Named, NamedIn
  <2>6. ShotMoves(capture[c], r)
    BY <1>1, <2>2, ConstantsAssumption DEF ShotMoves, CaptureRecords, Checkpointing
  <2> QED
    BY <1>1, <1>3, <2>3, <2>4, <2>5, <2>6, MetStays, CaptureMoves DEF RecordOK
<1> QED
  BY <1>2, <1>3 DEF Conflict, GiveUp

LEMMA ProceedKeeps ==
    ASSUME Inv, NEW c \in Captures, Proceed(c)
    PROVE  Inv'
<1> DEFINE r == [capture[c] EXCEPT !.step = "drive"]
<1>1. /\ capture[c] \in CaptureRecords /\ Typed(capture[c]) /\ Report(c, capture[c])
      /\ Acquainted(c, capture[c]) /\ capture[c].step = "next" /\ capture[c].step \in Going
      /\ UNCHANGED <<revision, workspace, backup, installed, met, edits, imports>>
      /\ faults' \in Nat /\ Set(c, r)
  BY Facts DEF Proceed, history, counters, Inv, Store, Going, Driven
<1>2. /\ r \in CaptureRecords /\ r.step = "drive" /\ r.answer = capture[c].answer
      /\ r.captured = capture[c].captured /\ r.shot = capture[c].shot
      /\ r.seen = capture[c].seen /\ r.known = capture[c].known
  BY <1>1 DEF CaptureRecords
<1> HIDE DEF r
<1>3. Typed(r) /\ Pending(r) /\ Acquainted(c, r)
  BY <1>1, <1>2 DEF Typed, Pending, Acquainted, Checkpointing, Driven
<1>4. Report(c, r)
  BY <1>1, <1>2 DEF Report, Checkpointing
<1>5. OldNames(r)
  BY <1>2 DEF OldNames, Named
<1>6. ShotMoves(capture[c], r)
  BY <1>1, <1>2, ConstantsAssumption DEF ShotMoves, CaptureRecords, Checkpointing
<1> QED
  BY <1>1, <1>3, <1>4, <1>5, <1>6, MetStays, CaptureMoves DEF RecordOK

LEMMA AbortKeeps ==
    ASSUME Inv, NEW c \in Captures, Abort(c)
    PROVE  Inv'
<1> DEFINE r == [capture[c] EXCEPT !.aborted = TRUE]
<1>1. /\ capture[c] \in CaptureRecords /\ Typed(capture[c]) /\ Report(c, capture[c])
      /\ Pending(capture[c]) /\ Acquainted(c, capture[c])
      /\ UNCHANGED <<revision, workspace, backup, installed, met, edits, imports>>
      /\ faults' \in Nat /\ Set(c, r)
  BY Facts DEF Abort, history, counters, Inv, Store
<1>2. /\ r \in CaptureRecords /\ r.step = capture[c].step /\ r.answer = capture[c].answer
      /\ r.captured = capture[c].captured /\ r.shot = capture[c].shot
      /\ r.digest = capture[c].digest /\ r.base = capture[c].base
      /\ r.seen = capture[c].seen /\ r.known = capture[c].known
  BY <1>1 DEF CaptureRecords
<1> HIDE DEF r
<1>3. Typed(r) /\ Pending(r) /\ Acquainted(c, r) /\ Report(c, r)
  BY <1>1, <1>2 DEF Typed, Pending, Acquainted, Report
<1>4. OldNames(r)
  BY <1>2 DEF OldNames, Named
<1>5. ShotMoves(capture[c], r)
  BY <1>1, <1>2, ConstantsAssumption DEF ShotMoves, CaptureRecords
<1> QED
  BY <1>1, <1>2, <1>3, <1>4, <1>5, MetStays, CaptureMoves DEF RecordOK

\* The caller is answered while a checkpoint runs on.
LEMMA TimeoutKeeps ==
    ASSUME Inv, NEW c \in Captures, Timeout(c)
    PROVE  Inv'
<1> DEFINE a == Failure(c)
           r == [capture[c] EXCEPT !.answer = a]
<1>1. /\ capture[c] \in CaptureRecords /\ Typed(capture[c]) /\ Report(c, capture[c])
      /\ Pending(capture[c]) /\ Acquainted(c, capture[c])
      /\ capture[c].step \in {"drive"} \cup Checkpointing /\ capture[c].step \in Going
      /\ UNCHANGED <<revision, workspace, backup, installed, met, edits, imports>>
      /\ faults' \in Nat
  BY Facts DEF Timeout, history, counters, Inv, Store, Checkpointing, Going, Driven
<1>2. CASE Throw(c)
  BY <1>1, <1>2, ThrowMoves
<1>3. CASE Set(c, r)
  <2>1. a \in Told \ {"complete"}
    BY FailureTold
  <2> HIDE DEF a
  <2>2. /\ r \in CaptureRecords /\ r.step = capture[c].step /\ r.answer = a
        /\ r.captured = capture[c].captured /\ r.shot = capture[c].shot
        /\ r.digest = capture[c].digest /\ r.base = capture[c].base
        /\ r.seen = capture[c].seen /\ r.known = capture[c].known
    BY <1>1, <2>1 DEF CaptureRecords, Told, Answers
  <2> HIDE DEF r
  <2>3. Typed(r) /\ Pending(r) /\ Acquainted(c, r)
    BY <1>1, <2>2 DEF Typed, Pending, Acquainted
  <2>4. Report(c, r)
    BY <1>1, <2>1, <2>2 DEF Report, Told, Checkpointing
  <2>5. OldNames(r)
    BY <2>2 DEF OldNames, Named
  <2>6. ShotMoves(capture[c], r)
    BY <1>1, <2>2, ConstantsAssumption DEF ShotMoves, CaptureRecords
  <2> QED
    BY <1>1, <1>3, <2>3, <2>4, <2>5, <2>6, MetStays, CaptureMoves DEF RecordOK
<1> QED
  BY <1>2, <1>3 DEF Timeout

\* A call ends by itself, by an abort, or by a failure.
LEMMA EndsKeep ==
    ASSUME Inv, NEW c \in Captures,
           (\E a \in Answers : Return(c, a)) \/ StopAborted(c) \/ Fail(c)
    PROVE  Inv'
<1>1. ASSUME NEW a \in Answers, Return(c, a) PROVE Inv'
  <2>1. capture[c].step \in {"drive", "next"} /\ capture[c].step \in Going
    BY <1>1 DEF Return, Going, Driven
  <2>2. /\ UNCHANGED <<revision, workspace, backup, installed, met, edits, imports>>
        /\ faults' \in Nat /\ Over(c, a, capture[c].captured)
    BY <1>1 DEF Return, history, counters, Inv, Store
  <2> QED
    BY <2>1, <2>2, OverMoves DEF Answers, Told
<1>2. CASE StopAborted(c)
  <2>1. capture[c].step \in Going /\ Throw(c)
    BY <1>2 DEF StopAborted, Stops, Going, Driven
  <2> QED
    BY <1>2, <2>1, ThrowMoves DEF StopAborted, history, counters, Inv, Store
<1>3. CASE Fail(c)
  <2>1. capture[c].step \in Going /\ Throw(c)
    BY <1>3 DEF Fail, Going, Driven
  <2> QED
    BY <1>3, <2>1, ThrowMoves DEF Fail, Fault, history, Inv, Store
<1> QED
  BY <1>1, <1>2, <1>3

-----------------------------------------------------------------------------
(* Checkpoints.                                                            *)

LEMMA CheckpointFacts ==
    ASSUME Inv, NEW c \in Captures, Install(c)
    PROVE  /\ capture[c] \in CaptureRecords /\ Typed(capture[c]) /\ Report(c, capture[c])
           /\ Acquainted(c, capture[c]) /\ capture[c].step = "commit"
           /\ capture[c].seen = workspace /\ workspace.url # Gone
           /\ capture[c].digest \in Digests /\ capture[c].shot \in Shots
           /\ Fresh(c) \in Ids /\ AssetId(c) \in Ids
           /\ AssetId(c) = Fresh(c) \/ AssetId(c) = capture[c].known[capture[c].digest]
           /\ capture[c].known[capture[c].digest] = None => AssetId(c) = Fresh(c)
<1>1. /\ capture[c] \in CaptureRecords /\ Typed(capture[c]) /\ Report(c, capture[c])
      /\ Acquainted(c, capture[c]) /\ Pending(capture[c]) /\ capture[c].step = "commit"
  BY Facts DEF Install
<1>2. capture[c].seen = workspace
  BY <1>1 DEF Pending, Install, Conflicts
<1>3. capture[c].digest \in Digests /\ capture[c].shot \in Shots /\ workspace.url # Gone
  BY <1>1, <1>2 DEF Typed, Checkpointing
<1>4. Fresh(c) \in Ids
  BY <1>3 DEF Fresh, Ids
<1>5. Reused(c) \in Ids \cup {None}
  BY <1>1, <1>3 DEF Reused, CaptureRecords
<1> QED
  BY <1>1, <1>2, <1>3, <1>4, <1>5 DEF AssetId, Reused

\* What a checkpoint commits: the workspace it replaces with a Moment and,
\* unless it is there, its Asset.
LEMMA Appended ==
    ASSUME Inv, NEW c \in Captures, Install(c)
    PROVE  /\ workspace' \in Workspaces /\ workspace'.url = workspace.url
           /\ workspace.assets \subseteq workspace'.assets
           /\ workspace.moments \subseteq workspace'.moments
           /\ \A a \in workspace'.assets : a \in workspace.assets \/
                (/\ ~Reusable(c) /\ a.id = AssetId(c) /\ a.digest = capture[c].digest)
           /\ \A m \in workspace'.moments : m \in workspace.moments \/
                (m.asset = AssetId(c) /\ m.digest = capture[c].digest)
           /\ \E a \in workspace'.assets : a.id = AssetId(c)
           /\ ~Reusable(c) =>
                \E a \in workspace'.assets : a.id = AssetId(c) /\ a.digest = capture[c].digest
<1> DEFINE new == [id |-> AssetId(c), digest |-> capture[c].digest]
           moment == [id |-> Fresh(c), asset |-> AssetId(c), digest |-> capture[c].digest]
           assets == IF Reuses(c) THEN workspace.assets ELSE workspace.assets \cup {new}
           moments == workspace.moments \cup {moment}
<1>1. /\ capture[c].seen = workspace /\ Fresh(c) \in Ids /\ AssetId(c) \in Ids
      /\ capture[c].digest \in Digests /\ workspace \in Workspaces
  BY CheckpointFacts DEF Inv, Store
<1>2. new \in Assets /\ moment \in Moments
  BY <1>1 DEF Assets, Moments
<1>3. /\ new.id = AssetId(c) /\ new.digest = capture[c].digest
      /\ moment.asset = AssetId(c) /\ moment.digest = capture[c].digest
  OBVIOUS
<1>4. workspace' = [workspace EXCEPT !.assets = assets, !.moments = moments]
  BY <1>1 DEF Install, AppendCheckpoint, AppendToSeen
<1> HIDE DEF new, moment
<1>5. assets \in SUBSET Assets /\ moments \in SUBSET Moments
  BY <1>1, <1>2 DEF Workspaces
<1> HIDE DEF assets, moments
<1>6. /\ workspace' \in Workspaces /\ workspace'.url = workspace.url
      /\ workspace'.assets = assets /\ workspace'.moments = moments
  BY <1>1, <1>4, <1>5 DEF Workspaces
<1>7. \E a \in assets : a.id = AssetId(c)
  <2>1. CASE Reuses(c)
    <3>1. PICK a \in workspace.assets : a.id = Reused(c)
      BY <1>1, <2>1 DEF Reuses, Reusable
    <3>2. a.id \in Ids
      BY <1>1 DEF Workspaces, Assets
    <3>3. AssetId(c) = a.id
      BY <3>1, <3>2, ConstantsAssumption DEF AssetId
    <3> QED
      BY <2>1, <3>3 DEF assets
  <2>2. CASE ~Reuses(c)
    BY <1>3, <2>2 DEF assets
  <2> QED
    BY <2>1, <2>2
<1> QED
  BY <1>3, <1>6, <1>7 DEF assets, moments, Reuses

\* Without a restore, an Asset is made only by a call that knows of none.
LEMMA OwnAsset ==
    ASSUME Inv, NEW c \in Captures, Install(c), imports = 0, ~Reusable(c)
    PROVE  /\ capture[c].known[capture[c].digest] = None
           /\ AssetId(c) = Fresh(c) /\ Fresh(c)[1] = c
<1>1. /\ Acquainted(c, capture[c]) /\ capture[c].seen = workspace /\ workspace.url # Gone
      /\ capture[c].step \in Driven /\ capture[c].digest \in Digests
      /\ capture[c].known[capture[c].digest] = None => AssetId(c) = Fresh(c)
  BY CheckpointFacts DEF Driven
<1>2. capture[c].known[capture[c].digest] = None
  BY <1>1 DEF Acquainted, Reusable, Reused
<1> QED
  BY <1>1, <1>2 DEF Fresh

\* What the record of a call becomes when it installs a checkpoint.
Checkpointed(c, r) ==
    /\ Typed(r) /\ r.step \in {"next", "over"} /\ r.shot = capture[c].shot
    /\ r.seen = Empty(Gone)
    /\ \A d \in Digests : \/ r.known[d] \in {None, capture[c].known[d]}
                          \/ d = capture[c].digest /\ r.known[d] = AssetId(c)
    /\ r.captured \in {capture[c].captured, capture[c].captured \cup {Fresh(c)}}
    /\ r.answer # "complete"
    /\ r.answer = "none" =>
         capture[c].answer = "none" /\ r.captured = capture[c].captured \cup {Fresh(c)}
    /\ r.step = "next" =>
         /\ r.captured = capture[c].captured \cup {Fresh(c)}
         /\ r.known[capture[c].digest] = AssetId(c)
         /\ \A d \in Digests \ {capture[c].digest} : r.known[d] = capture[c].known[d]

LEMMA InstallReports ==
    ASSUME Inv, NEW c \in Captures, Install(c), NEW r, Checkpointed(c, r), Set(c, r)
    PROVE  \A e \in Captures : Report(e, capture[e])'
<1>1. /\ capture[c] \in CaptureRecords /\ Report(c, capture[c]) /\ capture[c].step = "commit"
      /\ capture[c].shot \in Shots /\ Fresh(c) = <<c, capture[c].shot>>
      /\ installed' = installed \cup {Fresh(c)}
  BY CheckpointFacts DEF Install, Fresh
<1>2. /\ capture'[c] = r /\ \A e \in Captures \ {c} : capture'[e] = capture[e]
  BY DEF Set, Inv
<1>3. Report(c, capture[c])'
  <2>1. r.captured \subseteq installed'
    BY <1>1 DEF Report, Checkpointed
  <2>2. ASSUME r.step = "next" PROVE {c} \X (1..r.shot) \subseteq r.captured
    <3>1. capture[c].shot \in Int
      BY <1>1, ConstantsAssumption DEF Shots
    <3>2. \A n \in 1..capture[c].shot : n = capture[c].shot \/ n \in 1..(capture[c].shot - 1)
      BY <3>1
    <3>3. {c} \X (1..(capture[c].shot - 1)) \subseteq capture[c].captured
      BY <1>1 DEF Report, Checkpointing
    <3>4. r.shot = capture[c].shot /\ r.captured = capture[c].captured \cup {Fresh(c)}
      BY <2>2 DEF Checkpointed
    <3> QED
      BY <1>1, <3>2, <3>3, <3>4
  <2>3. r.answer = "none" => installed' \cap ({c} \X Shots) \subseteq r.captured
    BY <1>1 DEF Report, Checkpointed
  <2>4. r.step \in {"next", "over"} /\ r.answer # "complete"
    BY DEF Checkpointed
  <2> QED
    BY <1>2, <2>1, <2>2, <2>3, <2>4 DEF Report, Checkpointing
<1>4. ASSUME NEW e \in Captures \ {c} PROVE Report(e, capture[e])'
  <2>1. Report(e, capture[e]) /\ capture'[e] = capture[e]
    BY <1>2, Facts
  <2>2. installed \subseteq installed'
    BY <1>1
  <2>3. installed' \cap ({e} \X Shots) \subseteq installed \cap ({e} \X Shots)
    BY <1>1
  <2> QED
    BY <2>1, <2>2, <2>3 DEF Report
<1> QED
  BY <1>3, <1>4

LEMMA InstallNamesOK ==
    ASSUME Inv, NEW c \in Captures, Install(c), NEW r, Checkpointed(c, r), Set(c, r),
           UNCHANGED backup
    PROVE  Names'
<1> DEFINE x == capture[c].digest
<1>1. /\ capture[c] \in CaptureRecords /\ capture[c].step = "commit"
      /\ x \in Digests /\ capture[c].shot \in Shots
      /\ Fresh(c) \in Ids /\ AssetId(c) \in Ids
      /\ AssetId(c) = Fresh(c) \/ AssetId(c) = capture[c].known[x]
  BY CheckpointFacts
<1>2. /\ capture'[c] = r /\ \A e \in Captures \ {c} : capture'[e] = capture[e]
  BY DEF Set, Inv
<1>3. ASSUME NEW i \in Ids, NEW d \in Digests, Named(i, d)'
      PROVE  Named(i, d) \/ (i = AssetId(c) /\ d = x)
  <2>1. CASE NamedIn(workspace, i, d)'
    <3>1. PICK a \in workspace'.assets : a.id = i /\ a.digest = d
      BY <2>1 DEF NamedIn
    <3>2. a \in workspace.assets \/ (a.id = AssetId(c) /\ a.digest = x)
      BY Appended
    <3> QED
      BY <3>1, <3>2 DEF Named, NamedIn
  <2>2. CASE NamedIn(backup, i, d)'
    BY <2>2 DEF Named, NamedIn
  <2>3. CASE \E e \in Captures : NamedIn(capture[e].seen, i, d)' \/ (capture[e].known[d] = i)'
    <3>1. PICK e \in Captures : NamedIn(capture'[e].seen, i, d) \/ capture'[e].known[d] = i
      BY <2>3 DEF NamedIn
    <3>2. CASE e # c
      BY <1>2, <3>1, <3>2 DEF Named
    <3>3. CASE e = c
      <4>1. r.known[d] = i
        BY <1>2, <3>1, <3>3, EmptyOK DEF Checkpointed, NamedIn
      <4>2. i # None
        BY ConstantsAssumption
      <4> QED
        BY <4>1, <4>2 DEF Checkpointed, Named
    <3> QED
      BY <3>2, <3>3
  <2> QED
    BY <1>3, <2>1, <2>2, <2>3 DEF Named
<1>4. AssetId(c) = Fresh(c) \/ Named(AssetId(c), x)
  BY <1>1 DEF Named
<1>5. \A d \in Digests : ~Named(Fresh(c), d)
  <2>1. capture[c].shot \in Int
    BY <1>1, ConstantsAssumption DEF Shots
  <2>2. \A d \in Digests : Named(<<c, capture[c].shot>>, d) => capture[c].shot < capture[c].shot
    BY <1>1 DEF Names, Inv, Checkpointing
  <2> QED
    BY <2>1, <2>2 DEF Fresh
<1>6. \A i \in Ids : \A d, e \in Digests : Named(i, d)' /\ Named(i, e)' => d = e
  <2> SUFFICES ASSUME NEW i \in Ids, NEW d \in Digests, NEW e \in Digests,
                      Named(i, d)', Named(i, e)'
               PROVE  d = e
    OBVIOUS
  <2>1. /\ Named(i, d) \/ (i = AssetId(c) /\ d = x)
        /\ Named(i, e) \/ (i = AssetId(c) /\ e = x)
    BY <1>3
  <2>2. Named(i, d) /\ Named(i, e) => d = e
    BY DEF Inv, Names
  <2>3. ASSUME i = AssetId(c), Named(i, d) \/ Named(i, e) PROVE Named(AssetId(c), x)
    BY <1>4, <1>5, <2>3
  <2>4. \A f \in Digests : Named(AssetId(c), x) /\ Named(AssetId(c), f) => x = f
    BY <1>1 DEF Inv, Names
  <2> QED
    BY <2>1, <2>2, <2>3, <2>4
<1>7. ASSUME NEW e \in Captures, NEW n \in Shots, NEW d \in Digests, Named(<<e, n>>, d)'
      PROVE  /\ n <= capture'[e].shot
             /\ capture'[e].step \in Checkpointing => n < capture'[e].shot
  <2>1. <<e, n>> \in Ids
    BY DEF Ids
  <2>2. Named(<<e, n>>, d) \/ <<e, n>> = Fresh(c)
    BY <1>3, <1>4, <2>1, <1>7
  <2>3. capture'[e].shot = capture[e].shot
    BY <1>2 DEF Checkpointed
  <2>4. CASE Named(<<e, n>>, d)
    <3>1. /\ n <= capture[e].shot
          /\ capture[e].step \in Checkpointing => n < capture[e].shot
      BY <2>4 DEF Inv, Names
    <3>2. capture'[e].step \in Checkpointing => capture[e].step \in Checkpointing
      BY <1>2 DEF Checkpointed, Checkpointing
    <3> QED
      BY <2>3, <3>1, <3>2
  <2>5. CASE <<e, n>> = Fresh(c)
    <3>1. e = c /\ n = capture[c].shot /\ n \in Int
      BY <2>5, ConstantsAssumption DEF Fresh, Shots
    <3>2. capture'[e].step \notin Checkpointing
      BY <1>2, <3>1 DEF Checkpointed, Checkpointing
    <3> QED
      BY <2>3, <3>1, <3>2
  <2> QED
    BY <2>2, <2>4, <2>5
<1> QED
  BY <1>6, <1>7 DEF Names

LEMMA InstallAcquaints ==
    ASSUME Inv, NEW c \in Captures, Install(c), NEW r, Checkpointed(c, r), Set(c, r),
           UNCHANGED <<met, imports>>
    PROVE  /\ \A e \in Captures : Acquainted(e, capture[e])'
           /\ Companions' /\ Deduplicated'
<1> DEFINE x == capture[c].digest
<1>1. /\ capture'[c] = r /\ \A e \in Captures \ {c} : capture'[e] = capture[e]
      /\ capture[c].step = "commit" /\ workspace.url # Gone
      /\ Acquainted(c, capture[c]) /\ x \in Digests
  BY CheckpointFacts DEF Set, Inv
<1>2. /\ workspace'.url = workspace.url /\ workspace.assets \subseteq workspace'.assets
      /\ workspace \in Workspaces /\ workspace' \in Workspaces
      /\ \A a \in workspace'.assets : a \in workspace.assets \/
           (/\ ~Reusable(c) /\ a.id = AssetId(c) /\ a.digest = x)
      /\ \E a \in workspace'.assets : a.id = AssetId(c)
  BY Appended DEF Inv, Store
<1>3. ASSUME imports = 0, NEW a \in workspace'.assets, a \notin workspace.assets
      PROVE  /\ a.digest = x /\ a.id[1] = c /\ capture[c].known[x] = None
             /\ \A b \in workspace'.assets : b.digest = x /\ b # a => {c, b.id[1]} \in met
  <2>1. /\ ~Reusable(c) /\ a.id = AssetId(c) /\ a.digest = x
        /\ capture[c].known[x] = None /\ AssetId(c) = Fresh(c) /\ Fresh(c)[1] = c
    BY <1>2, <1>3, OwnAsset
  <2>2. ASSUME NEW b \in workspace'.assets, b.digest = x, b # a PROVE {c, b.id[1]} \in met
    <3>1. b \in workspace.assets
      <4>1. CASE b \notin workspace.assets
        <5>1. b.id = a.id /\ b.digest = a.digest
          BY <1>2, <2>1, <4>1
        <5>2. a \in Assets /\ b \in Assets
          BY <1>2 DEF Workspaces
        <5> QED
          BY <2>2, <5>1, <5>2 DEF Assets
      <4> QED
        BY <4>1
    <3> QED
      BY <1>1, <1>3, <2>1, <2>2, <3>1 DEF Acquainted, Driven
  <2> QED
    BY <2>1, <2>2
<1>4. ASSUME NEW e \in Captures \ {c} PROVE Acquainted(e, capture[e])'
  <2> SUFFICES ASSUME imports = 0, capture[e].step \in Driven
               PROVE  /\ \A b \in workspace'.assets :
                           capture[e].known[b.digest] # None \/ {e, b.id[1]} \in met
                      /\ \A d \in Digests : capture[e].known[d] # None =>
                           \E a \in workspace'.assets : a.id = capture[e].known[d]
    BY <1>1 DEF Acquainted
  <2>1. Acquainted(e, capture[e])
    BY Facts
  <2>2. {e, c} \in met
    BY <1>1 DEF Inv, Companions, Going, Driven
  <2>3. ASSUME NEW b \in workspace'.assets
        PROVE  capture[e].known[b.digest] # None \/ {e, b.id[1]} \in met
    <3>1. CASE b \in workspace.assets
      BY <1>1, <2>1, <3>1 DEF Acquainted
    <3>2. CASE b \notin workspace.assets
      BY <1>3, <2>2, <3>2
    <3> QED
      BY <3>1, <3>2
  <2> QED
    BY <1>1, <1>2, <2>1, <2>3 DEF Acquainted
<1>5. Acquainted(c, capture[c])'
  <2> SUFFICES ASSUME imports = 0, r.step = "next"
               PROVE  /\ \A b \in workspace'.assets :
                           r.known[b.digest] # None \/ {c, b.id[1]} \in met
                      /\ \A d \in Digests : r.known[d] # None =>
                           \E a \in workspace'.assets : a.id = r.known[d]
    BY <1>1 DEF Acquainted, Checkpointed, Driven
  <2>1. /\ r.known[x] = AssetId(c) /\ AssetId(c) # None
        /\ \A d \in Digests \ {x} : r.known[d] = capture[c].known[d]
    BY CheckpointFacts, ConstantsAssumption DEF Checkpointed
  <2>2. ASSUME NEW b \in workspace'.assets
        PROVE  r.known[b.digest] # None \/ {c, b.id[1]} \in met
    <3>1. CASE b.digest = x
      BY <2>1, <3>1
    <3>2. CASE b.digest # x
      <4>1. b \in workspace.assets /\ b.digest \in Digests
        BY <1>2, <3>2 DEF Workspaces, Assets
      <4> QED
        BY <1>1, <2>1, <3>2, <4>1 DEF Acquainted, Driven
    <3> QED
      BY <3>1, <3>2
  <2>3. ASSUME NEW d \in Digests, r.known[d] # None
        PROVE  \E a \in workspace'.assets : a.id = r.known[d]
    BY <1>1, <1>2, <2>1, <2>3 DEF Acquainted, Driven
  <2> QED
    BY <2>2, <2>3
<1>6. Companions'
  <2>1. \A e \in Captures : capture'[e].step \in Going => capture[e].step \in Going
    BY <1>1 DEF Going, Driven
  <2> QED
    BY <2>1 DEF Inv, Companions
<1>7. Deduplicated'
  <2> SUFFICES ASSUME imports = 0, NEW a \in workspace'.assets, NEW b \in workspace'.assets,
                      a.digest = b.digest, a # b
               PROVE  {a.id[1], b.id[1]} \in met
    BY <1>1, <1>2 DEF Deduplicated, DuplicatesMet
  <2>1. CASE a \in workspace.assets /\ b \in workspace.assets
    BY <2>1 DEF Inv, Deduplicated, DuplicatesMet
  <2>2. CASE a \notin workspace.assets
    <3>1. a.digest = x /\ a.id[1] = c /\ {c, b.id[1]} \in met
      BY <1>3, <2>2
    <3> QED
      BY <3>1
  <2>3. CASE b \notin workspace.assets
    <3>1. b.digest = x /\ b.id[1] = c /\ {c, a.id[1]} \in met
      BY <1>3, <2>3
    <3>2. {a.id[1], b.id[1]} = {c, a.id[1]}
      BY <3>1
    <3> QED
      BY <3>1, <3>2
  <2> QED
    BY <2>1, <2>2, <2>3
<1> QED
  BY <1>4, <1>5, <1>6, <1>7

\* The Moment of a checkpoint has its Asset, also when the Asset is an
\* earlier one: its id has one digest wherever it is named.
LEMMA InstallComplete ==
    ASSUME Inv, NEW c \in Captures, Install(c)
    PROVE  Complete(workspace)'
<1> DEFINE x == capture[c].digest
<1>1. /\ capture[c].seen = workspace /\ x \in Digests /\ AssetId(c) \in Ids
      /\ AssetId(c) = Fresh(c) \/ AssetId(c) = capture[c].known[x]
      /\ capture[c].known[x] = None => AssetId(c) = Fresh(c)
  BY CheckpointFacts
<1>2. /\ workspace.assets \subseteq workspace'.assets
      /\ \A m \in workspace'.moments : m \in workspace.moments \/
           (m.asset = AssetId(c) /\ m.digest = x)
      /\ ~Reusable(c) => \E a \in workspace'.assets : a.id = AssetId(c) /\ a.digest = x
  BY Appended
<1>3. \E a \in workspace'.assets : a.id = AssetId(c) /\ a.digest = x
  <2>1. CASE Reusable(c)
    <3>1. PICK a \in workspace.assets : a.id = Reused(c)
      BY <1>1, <2>1 DEF Reusable
    <3>2. a.id \in Ids /\ a.digest \in Digests
      BY DEF Inv, Store, Workspaces, Assets
    <3>3. AssetId(c) = a.id /\ capture[c].known[x] = a.id
      BY <3>1, <3>2, ConstantsAssumption DEF AssetId, Reused
    <3>4. Named(a.id, a.digest) /\ Named(a.id, x)
      BY <3>3 DEF Named, NamedIn
    <3>5. a.digest = x
      BY <1>1, <3>2, <3>4 DEF Inv, Names
    <3> QED
      BY <1>2, <3>3, <3>5
  <2> QED
    BY <1>2, <2>1
<1>4. Complete(workspace)
  BY DEF Inv, Store
<1> QED
  BY <1>2, <1>3, <1>4 DEF Complete

LEMMA InstallMoves ==
    ASSUME Inv, NEW c \in Captures, Install(c), NEW r, Checkpointed(c, r), Set(c, r),
           UNCHANGED <<backup, met, edits, imports>>, faults' \in Nat
    PROVE  Inv'
<1>1. /\ capture' \in [Captures -> CaptureRecords] /\ capture'[c] = r
      /\ \A e \in Captures \ {c} : capture'[e] = capture[e]
  BY DEF Set, Inv, Checkpointed, Typed
<1>2. Store'
  <2>1. workspace' \in Workspaces /\ Complete(workspace)'
    BY Appended, InstallComplete
  <2>2. Fresh(c) \in Ids
    BY CheckpointFacts
  <2> QED
    BY <2>1, <2>2 DEF Inv, Store, Install, Complete
<1>3. ASSUME NEW e \in Captures PROVE Typed(capture[e])' /\ Pending(capture[e])'
  <2>1. Typed(capture'[e])
    BY <1>1, Facts DEF Checkpointed
  <2>2. Typed(capture[e])'
    BY <2>1 DEF Typed, Complete
  <2>3. Pending(capture[e])'
    <3>1. revision' = revision + 1 /\ revision \in Nat
      BY DEF Install, Inv, Store
    <3>2. CASE e = c
      BY <1>1, <3>2 DEF Pending, Checkpointed
    <3>3. CASE e # c
      <4>1. Pending(capture[e]) /\ capture[e].base \in Nat /\ capture'[e] = capture[e]
        BY <1>1, <3>3, Facts DEF CaptureRecords
      <4> QED
        BY <3>1, <4>1 DEF Pending
    <3> QED
      BY <3>2, <3>3
  <2> QED
    BY <2>2, <2>3
<1>4. /\ \A e \in Captures : Report(e, capture[e])' /\ Acquainted(e, capture[e])'
      /\ Names' /\ Companions' /\ Deduplicated'
  BY InstallReports, InstallNamesOK, InstallAcquaints
<1> QED
  BY <1>1, <1>2, <1>3, <1>4 DEF Inv, RecordOK

LEMMA CommitCheckpointKeeps ==
    ASSUME Inv, NEW c \in Captures, CommitCheckpoint(c)
    PROVE  Inv'
<1> DEFINE captured == CapturedAfter(c)
           known == [capture[c].known EXCEPT ![capture[c].digest] = AssetId(c)]
           on == [capture[c] EXCEPT !.step = "next", !.captured = captured, !.known = known,
                    !.seen = Empty(Gone), !.base = 0, !.digest = None, !.attempt = 0]
           off == [Idle EXCEPT !.step = "over", !.answer = capture[c].answer,
                     !.captured = captured, !.shot = capture[c].shot]
<1>1. /\ Install(c) /\ capture[c] \in CaptureRecords /\ Report(c, capture[c])
      /\ capture[c].step = "commit" /\ capture[c].digest \in Digests
      /\ Fresh(c) \in Ids /\ AssetId(c) \in Ids
      /\ UNCHANGED <<backup, met, edits, imports>> /\ faults' \in Nat
  BY CheckpointFacts DEF CommitCheckpoint, counters, Inv, Store
<1>2. /\ captured = capture[c].captured \cup {Fresh(c)} /\ captured \in SUBSET Ids
      /\ 0 \in 0..Retries
  BY <1>1, ConstantsAssumption DEF CapturedAfter, CaptureRecords
<1>3. capture[c].answer # "complete"
  BY <1>1 DEF Report
<1>4. CASE Unanswered(c)
  <2>1. Set(c, on)
    BY <1>4 DEF CommitCheckpoint
  <2>2. /\ known \in [Digests -> Ids \cup {None}]
        /\ known[capture[c].digest] = AssetId(c)
        /\ \A d \in Digests \ {capture[c].digest} : known[d] = capture[c].known[d]
    BY <1>1 DEF CaptureRecords
  <2> HIDE DEF captured, known
  <2>3. /\ on \in CaptureRecords /\ on.step = "next" /\ on.answer = capture[c].answer
        /\ on.captured = captured /\ on.known = known /\ on.shot = capture[c].shot
        /\ on.seen = Empty(Gone)
    BY <1>1, <1>2, <2>2, EmptyOK DEF CaptureRecords
  <2> HIDE DEF on
  <2>4. Typed(on)
    BY <2>3, EmptyOK DEF Typed, Checkpointing
  <2>5. Checkpointed(c, on)
    BY <1>2, <1>3, <2>2, <2>3, <2>4 DEF Checkpointed
  <2> QED
    BY <1>1, <2>1, <2>5, InstallMoves
<1>5. CASE ~Unanswered(c)
  <2>1. Set(c, off)
    BY <1>5 DEF CommitCheckpoint, Over, Answered
  <2> HIDE DEF captured
  <2>2. /\ off \in CaptureRecords /\ off.step = "over" /\ off.answer = capture[c].answer
        /\ off.captured = captured /\ off.known = Idle.known /\ off.shot = capture[c].shot
        /\ off.seen = Empty(Gone)
    BY <1>1, <1>2, IdleOK DEF CaptureRecords
  <2> HIDE DEF off
  <2>3. Typed(off)
    BY <2>2, EmptyOK DEF Typed, Checkpointing
  <2>4. Checkpointed(c, off)
    BY <1>2, <1>3, <1>5, <2>2, <2>3, IdleOK DEF Checkpointed, Unanswered
  <2> QED
    BY <1>1, <2>1, <2>4, InstallMoves
<1> QED
  BY <1>4, <1>5

LEMMA UnacknowledgedKeeps ==
    ASSUME Inv, NEW c \in Captures, CommitUnacknowledged(c)
    PROVE  Inv'
<1> DEFINE t == Answered(c, Failure(c))
           r == [Idle EXCEPT !.step = "over", !.answer = t,
                   !.captured = capture[c].captured, !.shot = capture[c].shot]
<1>1. /\ Install(c) /\ capture[c] \in CaptureRecords /\ Report(c, capture[c])
      /\ capture[c].step = "commit" /\ Set(c, r)
      /\ UNCHANGED <<backup, met, edits, imports>> /\ faults' \in Nat
  BY CheckpointFacts DEF CommitUnacknowledged, Throw, Over, Fault, Inv, Store
<1>2. t \in Told \ {"complete"}
  <2>1. capture[c].answer \in {"none"} \cup Told /\ capture[c].answer # "complete"
    BY <1>1 DEF CaptureRecords, Report, Told, Answers
  <2> QED
    BY <2>1, FailureTold DEF Answered, Unanswered
<1> HIDE DEF t
<1>3. /\ r \in CaptureRecords /\ r.step = "over" /\ r.answer = t /\ r.seen = Empty(Gone)
      /\ r.captured = capture[c].captured /\ r.shot = capture[c].shot /\ r.known = Idle.known
  BY <1>1, <1>2, IdleOK DEF CaptureRecords, Told, Answers
<1> HIDE DEF r
<1>4. Typed(r)
  BY <1>3, EmptyOK DEF Typed, Checkpointing
<1>5. Checkpointed(c, r)
  BY <1>2, <1>3, <1>4, IdleOK DEF Checkpointed, Told
<1> QED
  BY <1>1, <1>5, InstallMoves

-----------------------------------------------------------------------------
(* Users.                                                                  *)

\* A user writes a workspace of known Assets: after a restore any, else one
\* with the Assets there are or none.
LEMMA UserMoves ==
    ASSUME Inv, UNCHANGED <<capture, history, faults>>,
           edits' \in Nat, imports' \in Nat, revision' \in {revision, revision + 1},
           workspace' # workspace => revision' = revision + 1,
           workspace' \in Workspaces, Complete(workspace'),
           backup' \in {backup, workspace},
           \A i \in Ids : \A d \in Digests : NamedIn(workspace', i, d) => Named(i, d),
           \/ imports' # 0
           \/ /\ imports' = imports /\ workspace'.assets = workspace.assets
              /\ workspace'.url = Gone <=> workspace.url = Gone
           \/ workspace'.url = Gone /\ workspace'.assets = {}
    PROVE  Inv'
<1>1. /\ capture' = capture /\ installed' = installed /\ met' = met /\ faults' = faults
      /\ revision \in Nat
  BY DEF history, Inv, Store
<1>2. Store'
  BY <1>1 DEF Inv, Store, Complete
<1>3. ASSUME NEW c \in Captures PROVE RecordOK(c, capture[c])'
  <2>1. /\ capture[c] \in CaptureRecords /\ Typed(capture[c]) /\ Report(c, capture[c])
        /\ Pending(capture[c]) /\ Acquainted(c, capture[c])
    BY Facts
  <2>2. Typed(capture[c])' /\ Report(c, capture[c])'
    BY <1>1, <2>1 DEF Typed, Report, Complete
  <2>3. Pending(capture[c])'
    <3>1. capture[c].base \in Nat
      BY <2>1 DEF CaptureRecords
    <3> QED
      BY <1>1, <2>1, <3>1 DEF Pending
  <2>4. Acquainted(c, capture[c])'
    BY <1>1, <2>1 DEF Acquainted
  <2> QED
    BY <2>2, <2>3, <2>4 DEF RecordOK
<1>4. ASSUME NEW i \in Ids, NEW d \in Digests, Named(i, d)' PROVE Named(i, d)
  <2>1. CASE NamedIn(workspace, i, d)'
    BY <2>1 DEF NamedIn
  <2>2. CASE NamedIn(backup, i, d)'
    BY <2>2 DEF Named, NamedIn
  <2>3. CASE \E e \in Captures : NamedIn(capture[e].seen, i, d)' \/ (capture[e].known[d] = i)'
    BY <1>1, <2>3 DEF Named, NamedIn
  <2> QED
    BY <1>4, <2>1, <2>2, <2>3 DEF Named
<1>5. Names'
  <2>1. \A c \in Captures : ShotMoves(capture[c], capture'[c])
    BY <1>1, ConstantsAssumption DEF Inv, CaptureRecords, ShotMoves
  <2>2. capture' \in [Captures -> CaptureRecords]
    BY <1>1 DEF Inv
  <2> QED
    BY <1>4, <2>1, <2>2, NamesKept DEF Inv
<1>6. Companions' /\ Deduplicated'
  BY <1>1 DEF Inv, Companions, Deduplicated, DuplicatesMet
<1> QED
  BY <1>1, <1>2, <1>3, <1>5, <1>6 DEF Inv

LEMMA UsersKeep ==
    ASSUME Inv, UserNext
    PROVE  Inv'
<1>0. Store /\ Deduplicated
  BY DEF Inv
<1>1. ASSUME NEW u \in Urls, EditUrl(u) PROVE Inv'
  <2> DEFINE w == [workspace EXCEPT !.url = u]
  <2>1. /\ w \in Workspaces /\ w.assets = workspace.assets /\ w.moments = workspace.moments
        /\ w.url = u /\ u # Gone /\ workspace.url # Gone
    BY <1>0, <1>1, ConstantsAssumption DEF Store, Workspaces, EditUrl
  <2>2. Edit(w) /\ workspace' = w
    BY <1>1 DEF EditUrl, Edit, Replace
  <2> HIDE DEF w
  <2>3. /\ UNCHANGED <<capture, history, faults, backup, imports>> /\ edits' \in Nat
        /\ revision' = revision + 1 /\ imports' \in Nat
    BY <1>0, <2>2 DEF Edit, Replace, Store
  <2>4. Complete(w) /\ \A i, d : NamedIn(w, i, d) => Named(i, d)
    BY <1>0, <2>1 DEF Store, Complete, NamedIn, Named
  <2> QED
    BY <2>1, <2>2, <2>3, <2>4, UserMoves
<1>2. CASE DeleteReference
  <2>1. Edit(Empty(Gone)) /\ workspace' = Empty(Gone)
    BY <1>2 DEF DeleteReference, Edit, Replace
  <2>2. /\ UNCHANGED <<capture, history, faults, backup, imports>> /\ edits' \in Nat
        /\ revision' = revision + 1 /\ imports' \in Nat
    BY <1>0, <2>1 DEF Edit, Replace, Store
  <2>3. \A i, d : ~NamedIn(Empty(Gone), i, d)
    BY EmptyOK DEF NamedIn
  <2> QED
    BY <2>1, <2>2, <2>3, EmptyOK, UserMoves
<1>3. CASE ExportBackup
  <2>1. /\ UNCHANGED <<revision, workspace, capture, history, edits, imports, faults>>
        /\ backup' = workspace
    BY <1>3 DEF ExportBackup, counters
  <2>2. \A i, d : NamedIn(workspace, i, d) => Named(i, d)
    BY DEF Named
  <2> QED
    BY <1>0, <2>1, <2>2, UserMoves DEF Store
<1>4. CASE ImportBackup
  <2>1. /\ UNCHANGED <<capture, history, faults, backup, edits>> /\ imports' = imports + 1
        /\ revision' = revision + 1 /\ workspace' = backup
    BY <1>4 DEF ImportBackup, Replace
  <2>2. \A i, d : NamedIn(backup, i, d) => Named(i, d)
    BY DEF Named
  <2>3. imports' # 0 /\ imports' \in Nat
    BY <1>0, <2>1 DEF Store
  <2> QED
    BY <1>0, <2>1, <2>2, <2>3, UserMoves DEF Store
<1> QED
  BY <1>1, <1>2, <1>3, <1>4 DEF UserNext

-----------------------------------------------------------------------------
(* The invariant.                                                          *)

LEMMA Starts == Init => Inv
<1> SUFFICES ASSUME Init PROVE Inv
  OBVIOUS
<1>1. /\ workspace = Empty(FirstUrl) /\ backup = Empty(FirstUrl)
      /\ revision = 0 /\ installed = {} /\ met = {} /\ edits = 0 /\ imports = 0 /\ faults = 0
      /\ capture \in [Captures -> CaptureRecords] /\ \A c \in Captures : capture[c] = Idle
  BY IdleOK DEF Init
<1>2. Store
  BY <1>1, EmptyOK DEF Store
<1>3. ASSUME NEW c \in Captures PROVE RecordOK(c, Idle)
  <2>1. Typed(Idle) /\ Pending(Idle) /\ Acquainted(c, Idle)
    BY IdleOK, EmptyOK DEF Typed, Pending, Acquainted, Checkpointing, Driven
  <2>2. Report(c, Idle)
    BY <1>1, IdleOK DEF Report, Checkpointing
  <2> QED
    BY <2>1, <2>2 DEF RecordOK
<1>4. \A i \in Ids : \A d \in Digests : ~Named(i, d)
  BY <1>1, IdleOK, EmptyOK, ConstantsAssumption DEF Named, NamedIn
<1>5. Names
  <2>1. \A c \in Captures : \A n \in Shots : <<c, n>> \in Ids
    BY DEF Ids
  <2> QED
    BY <1>4, <2>1 DEF Names
<1>6. Companions /\ Deduplicated
  BY <1>1, IdleOK, EmptyOK DEF Companions, Deduplicated, DuplicatesMet, Going, Driven
<1> QED
  BY <1>1, <1>2, <1>3, <1>5, <1>6 DEF Inv

LEMMA CaptureKeeps ==
    ASSUME Inv, NEW c \in Captures, CaptureNext(c)
    PROVE  Inv'
  BY BeginKeeps, LoadKeeps, ShootKeeps, ReadKeeps, ConflictKeeps, ProceedKeeps, AbortKeeps,
     TimeoutKeeps, EndsKeep, CommitCheckpointKeeps, UnacknowledgedKeeps
     DEF CaptureNext, Step

LEMMA StutterKeeps ==
    ASSUME Inv, UNCHANGED vars
    PROVE  Inv'
  BY UserMoves DEF Inv, Store, vars, history, Named, NamedIn

LEMMA StepKeeps == Inv /\ [Next]_vars => Inv'
  BY CaptureKeeps, UsersKeep, StutterKeeps DEF Next

\* What each call has stored, knows and may still write, and that an id has
\* one digest: the inductive invariant.
THEOREM CaptureInvariant == Spec => []Inv
  BY Starts, StepKeeps, PTL DEF Spec

\* Every Moment has its Asset, with the bytes it was taken from, whatever is
\* deleted, restored or reused (appendCheckpoint).
THEOREM MomentsComplete == Spec => []MomentsHaveAssets
<1>1. Inv => MomentsHaveAssets
  BY DEF Inv, Store, Complete, MomentsHaveAssets, TypeOK
<1> QED
  BY <1>1, CaptureInvariant, PTL

\* What a call reports was committed, and all it took if it is complete
\* (captureReference and its catch clause).
THEOREM AnswersTrue == Spec => []AnswersTruthful
<1>1. Inv => AnswersTruthful
  BY DEF Inv, RecordOK, Report, AnswersTruthful
<1> QED
  BY <1>1, CaptureInvariant, PTL

\* Bytes are stored twice only by captures that ran at the same time, unless
\* a backup was restored.
THEOREM DuplicatesExplained == Spec => []DuplicatesMet
<1>1. Inv => DuplicatesMet
  BY DEF Inv, Deduplicated
<1> QED
  BY <1>1, CaptureInvariant, PTL

-----------------------------------------------------------------------------
(* Steps.                                                                  *)

\* A checkpoint adds to the workspace of the moment it commits.
THEOREM OnlyAdded == Spec => CheckpointsOnlyAdd
<1> DEFINE Adds == /\ workspace'.url = workspace.url
                   /\ workspace.assets \subseteq workspace'.assets
                   /\ workspace.moments \subseteq workspace'.moments
<1>1. Inv /\ [Next]_vars => [edits' = edits /\ imports' = imports => Adds]_vars
  <2> SUFFICES ASSUME Inv, Next, edits' = edits, imports' = imports PROVE Adds
    OBVIOUS
  <2>1. ASSUME NEW c \in Captures, CaptureNext(c) PROVE Adds
    <3>1. CASE CommitCheckpoint(c) \/ CommitUnacknowledged(c)
      BY <3>1, Appended DEF CommitCheckpoint, CommitUnacknowledged
    <3>2. CASE ~(CommitCheckpoint(c) \/ CommitUnacknowledged(c))
      BY <2>1, <3>2 DEF CaptureNext, Step, Begin, Load, Read, Conflict, Shoot, Return, Proceed,
         StopAborted, Fail, Abort, Timeout
    <3> QED
      BY <3>1, <3>2
  <2>2. CASE UserNext
    <3>1. edits \in Nat /\ imports \in Nat
      BY DEF Inv, Store
    <3>2. CASE ExportBackup
      BY <3>2 DEF ExportBackup
    <3>3. ASSUME NEW u \in Urls, EditUrl(u) PROVE FALSE
      BY <3>1, <3>3 DEF EditUrl, Edit
    <3>4. CASE DeleteReference \/ ImportBackup
      BY <3>1, <3>4 DEF DeleteReference, ImportBackup, Edit
    <3> QED
      BY <2>2, <3>2, <3>3, <3>4 DEF UserNext
  <2> QED
    BY <2>1, <2>2 DEF Next
<1> QED
  BY <1>1, CaptureInvariant, PTL DEF Spec, CheckpointsOnlyAdd

\* A call is told that it failed by an exception before its first
\* checkpoint, or by a Reference that is gone when it starts.
LEMMA FailsEmpty ==
    ASSUME Inv, NEW c \in Captures, CaptureNext(c),
           Unanswered(c), capture'[c].answer = "failed"
    PROVE  capture[c].captured = {} /\ (installed' = installed \/ faults' # faults)
<1>0. /\ capture \in [Captures -> CaptureRecords] /\ capture[c] \in CaptureRecords
      /\ faults \in Nat /\ Report(c, capture[c])
  BY Facts DEF Inv, Store
<1>1. ASSUME NEW r, Set(c, r) PROVE r.answer = "failed"
  BY <1>0, <1>1 DEF Set
<1>2. ASSUME NEW a, NEW x, Over(c, a, x) PROVE a = "failed"
  <2> DEFINE r == [Idle EXCEPT !.step = "over", !.answer = a, !.captured = x,
                     !.shot = capture[c].shot]
  <2>1. r.answer = a
    BY DEF Idle
  <2>2. Set(c, r)
    BY <1>2 DEF Over, Answered
  <2> HIDE DEF r
  <2> QED
    BY <1>1, <2>1, <2>2
<1>3. ASSUME Throw(c) PROVE capture[c].captured = {}
  BY <1>2, <1>3 DEF Throw, Failure
<1>4. ASSUME NEW r, Set(c, r), r.answer = capture[c].answer PROVE FALSE
  BY <1>1, <1>4 DEF Unanswered
<1>5. CASE Begin(c)
  BY <1>4, <1>5, IdleOK DEF Begin, Unanswered, Idle
<1>6. CASE Load(c)
  BY <1>0, <1>6 DEF Load, Report, history
<1>7. CASE Read(c)
  <2> DEFINE r == [capture[c] EXCEPT !.step = "commit", !.base = revision, !.seen = workspace]
  <2>1. r.answer = capture[c].answer
    BY <1>0 DEF CaptureRecords
  <2>2. CASE Set(c, r)
    BY <1>4, <2>1, <2>2
  <2> QED
    BY <1>3, <1>7, <2>2 DEF Read, history
<1>8. CASE Conflict(c)
  <2> DEFINE r == [capture[c] EXCEPT !.step = "read", !.attempt = capture[c].attempt + 1,
                     !.seen = Empty(Gone), !.base = 0]
  <2>1. r.answer = capture[c].answer
    BY <1>0 DEF CaptureRecords
  <2>2. CASE Set(c, r)
    BY <1>4, <2>1, <2>2
  <2> QED
    BY <1>3, <1>8, <2>2 DEF Conflict, GiveUp, history
<1>9. ASSUME NEW d \in Digests, Shoot(c, d) PROVE FALSE
  <2> DEFINE r == [capture[c] EXCEPT !.step = "read", !.shot = capture[c].shot + 1,
                     !.digest = d, !.attempt = 0]
  <2>1. r.answer = capture[c].answer /\ Set(c, r)
    BY <1>0, <1>9 DEF CaptureRecords, Shoot
  <2> QED
    BY <1>4, <2>1
<1>10. ASSUME NEW a \in Answers, Return(c, a) PROVE FALSE
  BY <1>2, <1>10 DEF Return, Answers
<1>11. CASE Proceed(c)
  <2> DEFINE r == [capture[c] EXCEPT !.step = "drive"]
  <2>1. r.answer = capture[c].answer /\ Set(c, r)
    BY <1>0, <1>11 DEF CaptureRecords, Proceed
  <2> QED
    BY <1>4, <2>1
<1>12. CASE Abort(c)
  <2> DEFINE r == [capture[c] EXCEPT !.aborted = TRUE]
  <2>1. r.answer = capture[c].answer /\ Set(c, r)
    BY <1>0, <1>12 DEF CaptureRecords, Abort
  <2> QED
    BY <1>4, <2>1
<1>13. CASE Timeout(c)
  <2> DEFINE f == Failure(c)
             r == [capture[c] EXCEPT !.answer = f]
  <2>1. ASSUME Set(c, r) PROVE capture[c].captured = {}
    <3>1. r.answer = f
      BY <1>0 DEF CaptureRecords
    <3>2. f = "failed"
      <4> HIDE DEF r, f
      <4> QED
        BY <1>1, <2>1, <3>1
    <3> QED
      BY <3>2 DEF Failure
  <2> QED
    BY <1>3, <1>13, <2>1 DEF Timeout, history
<1>14. CASE StopAborted(c) \/ Fail(c)
  BY <1>3, <1>14 DEF StopAborted, Fail, history
<1>15. CASE CommitUnacknowledged(c)
  BY <1>0, <1>3, <1>15 DEF CommitUnacknowledged, Fault
<1>16. CASE CommitCheckpoint(c)
  <2> DEFINE known == [capture[c].known EXCEPT ![capture[c].digest] = AssetId(c)]
             r == [capture[c] EXCEPT !.step = "next", !.captured = CapturedAfter(c),
                     !.known = known, !.seen = Empty(Gone), !.base = 0, !.digest = None,
                     !.attempt = 0]
  <2>1. r.answer = capture[c].answer
    BY <1>0 DEF CaptureRecords
  <2>2. Set(c, r)
    BY <1>16 DEF CommitCheckpoint
  <2> QED
    BY <1>4, <2>1, <2>2
<1> QED
  BY <1>5, <1>6, <1>7, <1>8, <1>9, <1>10, <1>11, <1>12, <1>13, <1>14, <1>15, <1>16
     DEF CaptureNext, Step

\* A call that is told it failed has stored nothing by then, but for a
\* commit whose answer was lost.
THEOREM FailuresEmpty == Spec => FailureLeavesNothing
<1> DEFINE Nothing ==
      \A c \in Captures :
        /\ Unanswered(c) /\ capture'[c].answer = "failed"
        /\ faults' = faults \/ installed' = installed
        => installed' \cap ({c} \X Shots) = {}
<1>1. Inv /\ [Next]_vars => [Nothing]_vars
  <2> SUFFICES ASSUME Inv, Next, NEW c \in Captures,
                      Unanswered(c), capture'[c].answer = "failed",
                      faults' = faults \/ installed' = installed
               PROVE  installed' \cap ({c} \X Shots) = {}
    OBVIOUS
  <2>1. CASE capture'[c] = capture[c]
    BY <2>1 DEF Unanswered
  <2>2. ASSUME NEW d \in Captures, CaptureNext(d) PROVE d = c \/ capture'[c] = capture[c]
    BY <2>2 DEF Inv, CaptureNext, Step, Begin, Load, Read, Conflict, Shoot, Return, Proceed,
       StopAborted, Fail, Abort, Timeout, CommitCheckpoint, CommitUnacknowledged, GiveUp,
       Throw, Over, Set
  <2>3. CASE UserNext
    BY <2>1, <2>3 DEF UserNext, EditUrl, DeleteReference, ExportBackup, ImportBackup, Edit, Replace
  <2>4. CASE CaptureNext(c)
    <3>1. capture[c].captured = {} /\ installed' = installed
      BY <2>4, FailsEmpty
    <3>2. installed \cap ({c} \X Shots) \subseteq capture[c].captured
      BY Facts DEF Report, Unanswered
    <3> QED
      BY <3>1, <3>2
  <2> QED
    BY <2>1, <2>2, <2>3, <2>4 DEF Next
<1> QED
  BY <1>1, CaptureInvariant, PTL DEF Spec, FailureLeavesNothing

----------------------------------------------------------------------------
(* Numbers: a set of them has a least one, so a set of them that has zero  *)
(* and with each number the next has them all.                             *)

LEMMA LessThan == \A a, b \in Nat : a < b => <<a, b>> \in OpToRel(<, Nat)
BY Zenon DEF OpToRel

LEMMA LeastNatural ==
  ASSUME NEW S \in SUBSET Nat, S # {}
  PROVE  \E x \in S : \A y \in S : x <= y
<1>1. PICK x \in S : \A y \in S : ~ (<<y, x>> \in OpToRel(<, Nat))
  <2>1. IsWellFoundedOn(OpToRel(<, Nat), Nat)
    BY NatLessThanWellFounded, Zenon
  <2> QED
    BY <2>1, WFMin, Zenon
<1>2. \A y \in S : ~(y < x)
  BY <1>1, LessThan, Zenon
<1> QED
  BY <1>2

LEMMA AllNaturals ==
  ASSUME NEW S \in SUBSET Nat, 0 \in S, \A n \in S : n + 1 \in S
  PROVE  \A n \in Nat : n \in S
<1> SUFFICES ASSUME Nat \ S # {} PROVE FALSE
  OBVIOUS
<1>1. PICK x \in Nat \ S : \A y \in Nat \ S : x <= y
  BY LeastNatural
<1>2. x - 1 \in Nat /\ ~(x <= x - 1)
  BY <1>1
<1>3. x - 1 \in S
  BY <1>1, <1>2
<1> QED
  BY <1>1, <1>2, <1>3


----------------------------------------------------------------------------
(* The bytes of a finite set of resources: the order in which they are     *)
(* added up does not matter.                                               *)

Sized(S) == IsFiniteSet(S) /\ \A r \in S : r.size \in Nat

Pick(S) == CHOOSE r \in S : TRUE

\* g adds up the sizes of every subset of S, one resource after the other.
AddsUp(S, g) ==
  g = [s \in SUBSET S |-> IF s = {} THEN 0 ELSE Pick(s).size + g[s \ {Pick(s)}]]

LEMMA BytesAre == \A S : Bytes(S) = (CHOOSE g : AddsUp(S, g))[S]
BY DEF Bytes, MapThenSumSet, MapThenFoldSet, AddsUp, Pick

LEMMA AddsUpIs ==
  ASSUME NEW S, NEW g, AddsUp(S, g)
  PROVE  /\ g[{}] = 0
         /\ \A s \in SUBSET S : s # {} => g[s] = Pick(s).size + g[s \ {Pick(s)}]
<1>1. \A s \in SUBSET S : g[s] = IF s = {} THEN 0 ELSE Pick(s).size + g[s \ {Pick(s)}]
  BY Zenon DEF AddsUp
<1> QED
  BY <1>1

LEMMA AddsUpOf ==
  ASSUME NEW S, NEW g, AddsUp(S, g), NEW T \in SUBSET S
  PROVE  AddsUp(T, [s \in SUBSET T |-> g[s]])
<1> DEFINE h == [s \in SUBSET T |-> g[s]]
           k == [s \in SUBSET T |-> IF s = {} THEN 0 ELSE Pick(s).size + h[s \ {Pick(s)}]]
<1>1. \A s \in SUBSET S : g[s] = IF s = {} THEN 0 ELSE Pick(s).size + g[s \ {Pick(s)}]
  BY Zenon DEF AddsUp
<1>2. ASSUME NEW s \in SUBSET T PROVE h[s] = k[s]
  <2>1. s \in SUBSET S /\ s \ {Pick(s)} \in SUBSET T
    OBVIOUS
  <2>2. h[s] = g[s] /\ h[s \ {Pick(s)}] = g[s \ {Pick(s)}]
    BY <2>1
  <2>3. g[s] = IF s = {} THEN 0 ELSE Pick(s).size + g[s \ {Pick(s)}]
    BY <1>1, <2>1
  <2> QED
    BY <2>2, <2>3
<1>3. h = k
  BY <1>2
<1> QED
  BY <1>3 DEF AddsUp

\* Every way to add them up gives the same, and one resource can be taken out.
Summed(S) ==
  /\ \E g : AddsUp(S, g)
  /\ \A g : AddsUp(S, g) => g[S] = Bytes(S)
  /\ Bytes(S) \in Nat
  /\ \A r \in S : Bytes(S) = r.size + Bytes(S \ {r})

LEMMA BytesOfNone == Summed({}) /\ Bytes({}) = 0
<1> DEFINE h == [s \in SUBSET {} |-> 0]
           k == [s \in SUBSET {} |-> IF s = {} THEN 0 ELSE Pick(s).size + h[s \ {Pick(s)}]]
<1>1. \A s \in SUBSET {} : s = {}
  OBVIOUS
<1>2. h = k
  BY <1>1
<1>3. AddsUp({}, h)
  BY <1>2 DEF AddsUp
<1>4. AddsUp({}, CHOOSE g : AddsUp({}, g))
  BY <1>3, Zenon
<1>5. Bytes({}) = 0
  BY <1>4, AddsUpIs, BytesAre
<1>6. \A g : AddsUp({}, g) => g[{}] = 0
  BY AddsUpIs
<1> QED
  BY <1>3, <1>5, <1>6 DEF Summed

\* The sum of a set whose proper subsets have one.
LEMMA SumGrows ==
  ASSUME NEW S, Sized(S), S # {},
         \A T \in SUBSET S : T # S => Summed(T)
  PROVE  Summed(S)
<1> DEFINE p == Pick(S)
           sum == p.size + Bytes(S \ {p})
           h == [s \in SUBSET S |-> IF s = S THEN sum ELSE Bytes(s)]
           k == [s \in SUBSET S |-> IF s = {} THEN 0 ELSE Pick(s).size + h[s \ {Pick(s)}]]
<1>1. \A s \in SUBSET S : s # {} => Pick(s) \in s
  BY DEF Pick
<1>2. p \in S /\ p.size \in Nat /\ S \ {p} \in SUBSET S /\ S \ {p} # S
  BY <1>1 DEF Sized
<1>3. Bytes(S \ {p}) \in Nat /\ sum \in Nat
  BY <1>2 DEF Summed
<1>4. ASSUME NEW s \in SUBSET S PROVE h[s] = k[s]
  <2>1. CASE s = {}
    <3>1. h[s] = Bytes({}) /\ k[s] = 0
      BY <2>1
    <3> QED
      BY <3>1, BytesOfNone
  <2>2. CASE s = S
    <3>1. h[S \ {p}] = Bytes(S \ {p})
      BY <1>2
    <3>2. k[S] = p.size + h[S \ {p}] /\ h[S] = sum
      OBVIOUS
    <3> QED
      BY <2>2, <3>1, <3>2
  <2>3. CASE s # {} /\ s # S
    <3>1. Pick(s) \in s /\ s \ {Pick(s)} \in SUBSET S /\ s \ {Pick(s)} # S
      BY <1>1, <2>3
    <3>2. h[s] = Bytes(s) /\ h[s \ {Pick(s)}] = Bytes(s \ {Pick(s)})
      BY <2>3, <3>1
    <3>3. Bytes(s) = Pick(s).size + Bytes(s \ {Pick(s)})
      BY <2>3, <3>1 DEF Summed
    <3>4. k[s] = Pick(s).size + h[s \ {Pick(s)}]
      BY <2>3
    <3> QED
      BY <3>2, <3>3, <3>4
  <2> QED
    BY <2>1, <2>2, <2>3
<1>5. h = k
  BY <1>4
<1>6. AddsUp(S, h)
  BY <1>5 DEF AddsUp
<1>7. ASSUME NEW g, AddsUp(S, g) PROVE g[S] = sum
  <2>1. g[S] = p.size + g[S \ {p}]
    BY <1>7, AddsUpIs
  <2> DEFINE T == S \ {p}
             f == [s \in SUBSET T |-> g[s]]
  <2>2. AddsUp(T, f)
    BY <1>2, <1>7, AddsUpOf
  <2>3. f[T] = g[T]
    OBVIOUS
  <2> HIDE DEF f
  <2>4. f[T] = Bytes(T)
    BY <1>2, <2>2 DEF Summed
  <2> QED
    BY <2>1, <2>3, <2>4
<1>8. Bytes(S) = sum
  <2>1. AddsUp(S, CHOOSE g : AddsUp(S, g))
    BY <1>6, Zenon
  <2> QED
    BY <1>7, <2>1, BytesAre
<1>9. ASSUME NEW r \in S PROVE Bytes(S) = r.size + Bytes(S \ {r})
  <2>1. CASE r = p
    BY <1>8, <2>1
  <2>2. CASE r # p
    <3> DEFINE R == (S \ {p}) \ {r}
    <3>1. /\ S \ {r} \in SUBSET S /\ S \ {r} # S /\ p \in S \ {r} /\ r \in S \ {p}
          /\ (S \ {r}) \ {p} = R /\ R \in SUBSET S /\ R # S
      BY <1>2, <2>2
    <3>2. Bytes(S \ {p}) = r.size + Bytes(R)
      BY <1>2, <3>1 DEF Summed
    <3>3. Bytes(S \ {r}) = p.size + Bytes(R)
      BY <3>1 DEF Summed
    <3>4. Bytes(R) \in Nat /\ r.size \in Nat
      BY <3>1 DEF Summed, Sized
    <3> HIDE DEF R, p
    <3> QED
      BY <1>2, <1>8, <3>2, <3>3, <3>4
  <2> QED
    BY <2>1, <2>2
<1>10. \A g : AddsUp(S, g) => g[S] = Bytes(S)
  BY <1>7, <1>8
<1> QED
  BY <1>3, <1>6, <1>8, <1>9, <1>10 DEF Summed

LEMMA SizedOf ==
  ASSUME NEW S, Sized(S), NEW T \in SUBSET S
  PROVE  /\ Sized(T) /\ Cardinality(T) \in Nat /\ Cardinality(S) \in Nat
         /\ Cardinality(T) <= Cardinality(S)
         /\ T # S => Cardinality(T) < Cardinality(S)
BY FS_Subset, FS_CardinalityType DEF Sized

LEMMA BytesSummed ==
  ASSUME NEW S, Sized(S)
  PROVE  Summed(S)
<1> DEFINE Small == {n \in Nat : \A T \in SUBSET S : Cardinality(T) <= n => Summed(T)}
<1>1. 0 \in Small
  <2> SUFFICES ASSUME NEW T \in SUBSET S, Cardinality(T) <= 0 PROVE Summed(T)
    OBVIOUS
  <2>1. Cardinality(T) = 0 /\ IsFiniteSet(T)
    BY SizedOf DEF Sized
  <2>2. T = {}
    BY <2>1, FS_EmptySet
  <2> QED
    BY <2>2, BytesOfNone
<1>2. ASSUME NEW n \in Small PROVE n + 1 \in Small
  <2> SUFFICES ASSUME NEW T \in SUBSET S, Cardinality(T) <= n + 1 PROVE Summed(T)
    OBVIOUS
  <2>1. Sized(T)
    BY SizedOf
  <2>2. ASSUME NEW U \in SUBSET T, U # T PROVE Summed(U)
    <3>1. U \in SUBSET S /\ Cardinality(U) \in Nat /\ Cardinality(T) \in Nat
          /\ Cardinality(U) < Cardinality(T)
      BY <2>1, <2>2, SizedOf
    <3>2. Cardinality(U) <= n
      BY <3>1
    <3> QED
      BY <3>1, <3>2
  <2> QED
    BY <2>1, <2>2, SumGrows, BytesOfNone
<1> HIDE DEF Small
<1>3. Cardinality(S) \in Small
  <2>1. Small \in SUBSET Nat /\ Cardinality(S) \in Nat
    BY FS_CardinalityType DEF Small, Sized
  <2> QED
    BY <1>1, <1>2, <2>1, AllNaturals
<1>4. S \in SUBSET S /\ Cardinality(S) <= Cardinality(S)
  BY FS_CardinalityType DEF Sized
<1> QED
  BY <1>3, <1>4 DEF Small

\* The bytes of two sets of resources.
LEMMA BytesOfBoth ==
  ASSUME NEW S, NEW T, Sized(S), Sized(T), S \cap T = {}
  PROVE  Sized(S \cup T) /\ Bytes(S \cup T) = Bytes(S) + Bytes(T)
<1> DEFINE Small == {n \in Nat : \A U \in SUBSET T :
                       Cardinality(U) <= n => Bytes(S \cup U) = Bytes(S) + Bytes(U)}
<1>1. 0 \in Small
  <2> SUFFICES ASSUME NEW U \in SUBSET T, Cardinality(U) <= 0
               PROVE  Bytes(S \cup U) = Bytes(S) + Bytes(U)
    OBVIOUS
  <2>1. Cardinality(U) = 0 /\ IsFiniteSet(U)
    BY SizedOf DEF Sized
  <2>2. U = {}
    BY <2>1, FS_EmptySet
  <2>3. Bytes(S) \in Nat /\ Bytes(U) = 0
    BY <2>2, BytesOfNone, BytesSummed DEF Summed
  <2>4. S \cup U = S
    BY <2>2
  <2>5. Bytes(S \cup U) = Bytes(S)
    BY <2>4, Zenon
  <2> HIDE DEF Small
  <2> QED
    BY <2>3, <2>5
<1>2. ASSUME NEW n \in Small PROVE n + 1 \in Small
  <2> SUFFICES ASSUME NEW U \in SUBSET T, Cardinality(U) <= n + 1
               PROVE  Bytes(S \cup U) = Bytes(S) + Bytes(U)
    OBVIOUS
  <2>1. CASE U = {}
    <3>1. S \cup U = S /\ Bytes(S) \in Nat /\ Bytes(U) = 0
      BY <2>1, BytesOfNone, BytesSummed DEF Summed
    <3> QED
      BY <3>1
  <2>2. CASE U # {}
    <3>1. PICK r \in U : TRUE
      BY <2>2
    <3> DEFINE V == U \ {r}
    <3>2. /\ Sized(U) /\ Sized(V) /\ Sized(S \cup U) /\ V \in SUBSET T
          /\ Cardinality(V) \in Nat /\ Cardinality(U) \in Nat /\ Cardinality(V) < Cardinality(U)
      <4>1. Sized(U)
        BY SizedOf
      <4>2. V \in SUBSET U /\ V # U
        BY <3>1
      <4>3. IsFiniteSet(S \cup U)
        BY <4>1, FS_Union DEF Sized
      <4> QED
        BY <4>1, <4>2, <4>3, SizedOf DEF Sized
    <3>3. Bytes(S \cup V) = Bytes(S) + Bytes(V)
      <4>1. Cardinality(V) <= n
        BY <3>2
      <4> QED
        BY <3>2, <4>1
    <3>4. (S \cup U) \ {r} = S \cup V /\ r \in S \cup U
      BY <3>1
    <3>5. Bytes(S \cup U) = r.size + Bytes(S \cup V)
      BY <3>2, <3>4, BytesSummed DEF Summed
    <3>6. Bytes(U) = r.size + Bytes(V)
      BY <3>1, <3>2, BytesSummed DEF Summed
    <3>7. r.size \in Nat /\ Bytes(S) \in Nat /\ Bytes(V) \in Nat
      BY <3>1, <3>2, BytesSummed DEF Summed, Sized
    <3> HIDE DEF V
    <3> QED
      BY <3>3, <3>5, <3>6, <3>7
  <2> QED
    BY <2>1, <2>2
<1> HIDE DEF Small
<1>3. Cardinality(T) \in Small
  <2>1. Small \in SUBSET Nat /\ Cardinality(T) \in Nat
    BY FS_CardinalityType DEF Small, Sized
  <2> QED
    BY <1>1, <1>2, <2>1, AllNaturals
<1>4. T \in SUBSET T /\ Cardinality(T) <= Cardinality(T)
  BY FS_CardinalityType DEF Sized
<1> QED
  BY <1>3, <1>4, FS_Union DEF Small, Sized

----------------------------------------------------------------------------
(* The jobs and the store                                                  *)

JobRecords ==
  [status : {"none", "complete", "failed", "cancelled"} \cup ActiveStatus,
   aborted : BOOLEAN, run : {"pending", "running", "ended"}, left : Unset .. Ttl,
   timer : BOOLEAN]

\* A job j as k, while the service is c and its Map holds M: its status says how far its
\* capture is, and a capture at work keeps its job in the Map, without a timer.
JobOK(j, k, M, c) ==
  /\ k \in JobRecords
  /\ k.run = "pending" => k.status \in {"queued", "cancelled"}
  /\ k.run = "running" => k.status \in {"capturing", "cancelled"}
  /\ k.run = "ended" => k.status \notin ActiveStatus
  /\ k.aborted <=> k.status = "cancelled"
  /\ k.run # "ended" =>
       /\ k.left = Unset /\ ~k.timer
       /\ c # "open" => k.aborted
       /\ c # "closed" => j \in M

\* The jobs of a Map M, among the jobs f, that have a status.
With(M, f, status) == {j \in M : f[j].status \in status}

\* The store S, which uses bytes, of the jobs f of a Map M.
StoreOK(S, bytes, M, f) ==
  /\ Sized(S) /\ \A r \in S : r.captureId \in Jobs /\ r.index \in Nat
  /\ bytes = Bytes(S) /\ bytes <= MaxBytes /\ Cardinality(S) <= MaxResources
  /\ {r.captureId : r \in S} = With(M, f, {"complete"})

MapOK(M, f, c) ==
  /\ M \subseteq Jobs /\ IsFiniteSet(M) /\ Cardinality(M) <= MaxJobs
  /\ Cardinality(With(M, f, ActiveStatus)) <= MaxActiveJobs
  /\ c = "closed" => M = {}

PreviewInv ==
  /\ job \in [Jobs -> JobRecords] /\ \A j \in Jobs : JobOK(j, job[j], jobs, closing)
  /\ closing \in {"open", "awaiting", "closed"} /\ awaited \subseteq Jobs
  /\ MapOK(jobs, job, closing)
  /\ StoreOK(resources, usedBytes, jobs, job)

LEMMA PreviewsSound == PreviewInv => StoreSound
<1> SUFFICES ASSUME PreviewInv PROVE StoreSound
  OBVIOUS
<1>1. PreviewTypeOK
  BY DEF PreviewInv, PreviewTypeOK, JobOK, JobRecords, MapOK, StoreOK, Sized
<1>2. StoreAccounted
  BY DEF PreviewInv, StoreAccounted, StoreOK, With
<1>3. AbandonedHoldsNothing
  <2> SUFFICES ASSUME NEW r \in resources
               PROVE  ~job[r.captureId].aborted /\ closing # "closed"
    BY DEF AbandonedHoldsNothing
  <2>1. r.captureId \in jobs /\ r.captureId \in Jobs /\ job[r.captureId].status = "complete"
    BY DEF PreviewInv, StoreOK, With
  <2>2. JobOK(r.captureId, job[r.captureId], jobs, closing)
    BY <2>1 DEF PreviewInv
  <2> QED
    BY <2>1, <2>2 DEF PreviewInv, JobOK, MapOK
<1>4. RunsInMap
  <2>1. Active = With(jobs, job, ActiveStatus)
    BY DEF Active, IsActive, With
  <2> QED
    BY <2>1 DEF RunsInMap, PreviewInv, JobOK, MapOK
<1> QED
  BY <1>1, <1>2, <1>3, <1>4 DEF StoreSound

LEMMA PreviewsBegin == InitPreviews => PreviewInv
<1> SUFFICES ASSUME InitPreviews PROVE PreviewInv
  OBVIOUS
<1>1. NoJob \in JobRecords
  BY Limits DEF NoJob, JobRecords, Unset
<1>2. job \in [Jobs -> JobRecords] /\ \A j \in Jobs : JobOK(j, job[j], jobs, closing)
  BY <1>1 DEF InitPreviews, JobOK, NoJob, ActiveStatus
<1>3. MapOK(jobs, job, closing)
  <2>1. With({}, job, ActiveStatus) = {}
    BY DEF With
  <2> QED
    BY <2>1, Limits, FS_EmptySet DEF InitPreviews, MapOK
<1>4. StoreOK(resources, usedBytes, jobs, job)
  BY Limits, FS_EmptySet, BytesOfNone DEF InitPreviews, StoreOK, Sized, With
<1> QED
  BY <1>2, <1>3, <1>4 DEF InitPreviews, PreviewInv

\* Resources of some jobs that end go, and those of one job that is complete come: what
\* stays in the Map as complete keeps its resources.
LEMMA StoreKeeps ==
  ASSUME PreviewInv, NEW gone, NEW added, Keep(gone, added),
         Sized(added), \A r \in added : r.captureId \in Jobs /\ r.index \in Nat,
         resources \cap added = {},
         Cardinality(resources \ ResourcesOf(gone)) + Cardinality(added) <= MaxResources,
         usedBytes - Bytes(ResourcesOf(gone)) + Bytes(added) <= MaxBytes,
         NEW M, NEW f,
         With(M, f, {"complete"}) =
           (With(jobs, job, {"complete"}) \ gone) \cup {r.captureId : r \in added}
  PROVE  StoreOK(resources', usedBytes', M, f)
<1> DEFINE R == ResourcesOf(gone)
           rest == resources \ R
<1>1. /\ Sized(resources) /\ usedBytes = Bytes(resources)
      /\ \A r \in resources : r.captureId \in Jobs /\ r.index \in Nat
      /\ {r.captureId : r \in resources} = With(jobs, job, {"complete"})
  BY DEF PreviewInv, StoreOK
<1>2. R \in SUBSET resources /\ rest \in SUBSET resources /\ R \cap rest = {}
      /\ R \cup rest = resources
  BY DEF ResourcesOf
<1>3. \A r \in resources : r \in rest <=> r.captureId \notin gone
  BY DEF ResourcesOf
<1> HIDE DEF rest, R
<1>4. Sized(R) /\ Sized(rest)
  BY <1>1, <1>2, SizedOf
<1>5. Bytes(R) \in Nat /\ Bytes(rest) \in Nat /\ Bytes(added) \in Nat
  BY <1>4, BytesSummed DEF Summed
<1>6. Bytes(resources) = Bytes(R) + Bytes(rest)
  BY <1>2, <1>4, BytesOfBoth
<1>7. resources' = rest \cup added /\ usedBytes' = usedBytes - Bytes(R) + Bytes(added)
  BY DEF Keep, Released, rest, R
<1>8. rest \cap added = {}
  BY <1>2
<1>9. Sized(rest \cup added) /\ Bytes(rest \cup added) = Bytes(rest) + Bytes(added)
  BY <1>4, <1>8, BytesOfBoth
<1>10. usedBytes' = Bytes(resources') /\ usedBytes' <= MaxBytes /\ Sized(resources')
  BY <1>1, <1>5, <1>6, <1>7, <1>9 DEF R
<1>11. Cardinality(resources') <= MaxResources
  <2>1. /\ IsFiniteSet(rest) /\ IsFiniteSet(added)
        /\ Cardinality(rest) + Cardinality(added) <= MaxResources
    BY <1>4 DEF Sized, rest, R
  <2>2. Cardinality(rest \cup added) = Cardinality(rest) + Cardinality(added)
    <3>1. /\ Cardinality(rest \cup added)
             = Cardinality(rest) + Cardinality(added) - Cardinality(rest \cap added)
          /\ Cardinality(rest \cap added) = 0
          /\ Cardinality(rest) \in Nat /\ Cardinality(added) \in Nat
      BY <1>8, <2>1, FS_Union, FS_EmptySet, FS_CardinalityType
    <3> QED
      BY <3>1
  <2> QED
    BY <1>7, <2>1, <2>2
<1>12. {r.captureId : r \in resources'} = With(M, f, {"complete"})
  <2>1. {r.captureId : r \in rest} = With(jobs, job, {"complete"}) \ gone
    <3>1. ASSUME NEW r \in rest PROVE r.captureId \in With(jobs, job, {"complete"}) \ gone
      BY <1>1, <1>2, <1>3
    <3>2. ASSUME NEW j \in With(jobs, job, {"complete"}) \ gone
          PROVE  \E r \in rest : j = r.captureId
      <4>1. PICK r \in resources : j = r.captureId
        BY <1>1
      <4> QED
        BY <1>3, <4>1
    <3> QED
      BY <3>1, <3>2
  <2>2. {r.captureId : r \in rest \cup added}
          = {r.captureId : r \in rest} \cup {r.captureId : r \in added}
    OBVIOUS
  <2> QED
    BY <1>7, <2>1, <2>2
<1>13. \A r \in resources' : r.captureId \in Jobs /\ r.index \in Nat
  BY <1>1, <1>2, <1>7
<1> QED
  BY <1>10, <1>11, <1>12, <1>13 DEF StoreOK

LEMMA NothingAdded ==
  ASSUME PreviewInv, NEW gone
  PROVE  /\ Sized({}) /\ Bytes({}) = 0
         /\ Cardinality(resources \ ResourcesOf(gone)) + Cardinality({}) <= MaxResources
         /\ usedBytes - Bytes(ResourcesOf(gone)) + Bytes({}) <= MaxBytes
<1> DEFINE R == ResourcesOf(gone)
           rest == resources \ R
<1>1. Sized(resources) /\ R \in SUBSET resources /\ rest \in SUBSET resources
      /\ R \cap rest = {} /\ R \cup rest = resources
      /\ usedBytes = Bytes(resources) /\ usedBytes <= MaxBytes
      /\ Cardinality(resources) <= MaxResources /\ MaxResources \in Nat /\ MaxBytes \in Nat
  BY Limits DEF PreviewInv, StoreOK, ResourcesOf
<1> HIDE DEF R, rest
<1>2. /\ Sized(R) /\ Sized(rest) /\ Cardinality(rest) <= Cardinality(resources)
      /\ Cardinality(rest) \in Nat /\ Cardinality(resources) \in Nat
  BY <1>1, SizedOf
<1>3. Bytes(R) \in Nat /\ Bytes(rest) \in Nat /\ usedBytes = Bytes(R) + Bytes(rest)
  BY <1>1, <1>2, BytesOfBoth, BytesSummed DEF Summed
<1>4. Sized({}) /\ Bytes({}) = 0 /\ Cardinality({}) = 0
  BY BytesOfNone, FS_EmptySet DEF Sized
<1>5. Cardinality(rest) + Cardinality({}) <= MaxResources
  BY <1>1, <1>2, <1>4
<1>6. usedBytes - Bytes(R) + Bytes({}) <= MaxBytes
  BY <1>1, <1>3, <1>4
<1> QED
  BY <1>4, <1>5, <1>6 DEF rest, R

----------------------------------------------------------------------------
(* The steps                                                               *)

LEMMA JobIs ==
  ASSUME PreviewInv, NEW j \in Jobs
  PROVE  /\ job[j] \in JobRecords /\ JobOK(j, job[j], jobs, closing)
         /\ job[j].left = 0 => job[j].run = "ended"
BY DEF PreviewInv, JobOK, Unset

LEMMA DueEnded ==
  ASSUME PreviewInv
  PROVE  Due \in SUBSET jobs /\ \A j \in Due : j \in Jobs /\ job[j].run = "ended"
<1>1. jobs \subseteq Jobs
  BY DEF PreviewInv, MapOK
<1> QED
  BY <1>1, JobIs DEF Due, Expired

\* Jobs that ended leave the Map, which may hold others now: all jobs are as they should be.
LEMMA JobLeaves ==
  ASSUME PreviewInv, NEW k \in Jobs, NEW b, NEW r,
         r = [job[k] EXCEPT !.timer = @ /\ b],
         NEW M, k \in jobs /\ job[k].run # "ended" => k \in M
  PROVE  r \in JobRecords /\ JobOK(k, r, M, closing) /\ r.status = job[k].status
<1> DEFINE t == job[k].timer /\ b
<1>1. job[k] \in JobRecords /\ JobOK(k, job[k], jobs, closing) /\ t \in BOOLEAN
  BY JobIs
<1>2. r = [job[k] EXCEPT !.timer = t]
  OBVIOUS
<1>3. ~job[k].timer => ~t
  OBVIOUS
<1> HIDE DEF t
<1>4. /\ r \in JobRecords /\ r.status = job[k].status /\ r.aborted = job[k].aborted
      /\ r.run = job[k].run /\ r.left = job[k].left /\ r.timer = t
  BY <1>1, <1>2 DEF JobRecords
<1> QED
  BY <1>1, <1>3, <1>4 DEF JobOK

LEMMA MapShrinks ==
  ASSUME PreviewInv, NEW M \in SUBSET jobs, NEW f, NEW c,
         \A k \in M : f[k].status \in ActiveStatus => job[k].status \in ActiveStatus,
         c = "closed" => M = {}
  PROVE  MapOK(M, f, c)
<1>1. MapOK(jobs, job, closing)
  BY DEF PreviewInv
<1>2. With(M, f, ActiveStatus) \in SUBSET With(jobs, job, ActiveStatus)
  BY DEF With
<1>3. With(jobs, job, ActiveStatus) \in SUBSET jobs
  BY DEF With
<1>4. IsFiniteSet(With(jobs, job, ActiveStatus)) /\ IsFiniteSet(jobs)
  BY <1>1, <1>3, FS_Subset DEF MapOK
<1>5. /\ IsFiniteSet(M) /\ Cardinality(M) <= Cardinality(jobs)
      /\ Cardinality(With(M, f, ActiveStatus)) <= Cardinality(With(jobs, job, ActiveStatus))
      /\ IsFiniteSet(With(M, f, ActiveStatus))
  BY <1>2, <1>4, FS_Subset
<1>6. /\ {Cardinality(M), Cardinality(jobs), Cardinality(With(M, f, ActiveStatus)),
          Cardinality(With(jobs, job, ActiveStatus)), MaxJobs, MaxActiveJobs} \subseteq Nat
  BY <1>4, <1>5, FS_CardinalityType, Limits
<1>7. Cardinality(M) <= MaxJobs /\ Cardinality(With(M, f, ActiveStatus)) <= MaxActiveJobs
  <2>1. Cardinality(jobs) <= MaxJobs /\ Cardinality(With(jobs, job, ActiveStatus)) <= MaxActiveJobs
    BY <1>1 DEF MapOK
  <2> QED
    BY <1>5, <1>6, <2>1
<1> QED
  BY <1>1, <1>5, <1>7 DEF MapOK

LEMMA StoreLeaves ==
  ASSUME PreviewInv, NEW gone, Keep(gone, {}), NEW M, NEW f,
         With(M, f, {"complete"}) = With(jobs, job, {"complete"}) \ gone
  PROVE  StoreOK(resources', usedBytes', M, f)
<1>1. {r.captureId : r \in {}} = {}
  OBVIOUS
<1>2. With(M, f, {"complete"}) =
        (With(jobs, job, {"complete"}) \ gone) \cup {r.captureId : r \in {}}
  BY <1>1
<1> QED
  BY <1>2, NothingAdded, StoreKeeps

LEMMA StoreSame ==
  ASSUME PreviewInv, UNCHANGED <<resources, usedBytes>>, NEW M, NEW f,
         With(M, f, {"complete"}) = With(jobs, job, {"complete"})
  PROVE  StoreOK(resources', usedBytes', M, f)
BY DEF PreviewInv, StoreOK

LEMMA LookSound ==
  ASSUME PreviewInv, Look
  PROVE  PreviewInv'
<1>1. /\ job' = [j \in Jobs |-> [job[j] EXCEPT !.timer = @ /\ j \notin Due]]
      /\ jobs' = jobs \ Due /\ Keep(Due, {}) /\ UNCHANGED <<closing, awaited>>
  BY DEF Look, Cleanup
<1>2. ASSUME NEW j \in Jobs
      PROVE  /\ job'[j] \in JobRecords /\ JobOK(j, job'[j], jobs', closing)
             /\ job'[j].status = job[j].status
  <2>1. job'[j] = [job[j] EXCEPT !.timer = @ /\ j \notin Due]
    BY <1>1
  <2> QED
    BY <1>1, <2>1, DueEnded, JobLeaves
<1>3. job' \in [Jobs -> JobRecords] /\ jobs \subseteq Jobs
  BY <1>1, <1>2 DEF PreviewInv, MapOK
<1>4. MapOK(jobs', job', closing')
  <2>1. closing' = "closed" => jobs' = {}
    BY <1>1 DEF PreviewInv, MapOK
  <2> QED
    BY <1>1, <1>2, <1>3, <2>1, MapShrinks
<1>5. With(jobs', job', {"complete"}) = With(jobs, job, {"complete"}) \ Due
  BY <1>1, <1>2, <1>3 DEF With
<1>6. StoreOK(resources', usedBytes', jobs', job')
  BY <1>1, <1>5, StoreLeaves
<1> QED
  BY <1>1, <1>2, <1>3, <1>4, <1>6 DEF PreviewInv

\* A call on j, after the cleanup: the other jobs are as they should be.
LEMMA OthersUntimed ==
  ASSUME PreviewInv, NEW j \in Jobs, NEW v \in JobRecords, job' = Untimed(Due, j, v),
         NEW M, jobs \ Due \subseteq M, JobOK(j, v, M, closing)
  PROVE  /\ job' \in [Jobs -> JobRecords] /\ job'[j] = v
         /\ \A k \in Jobs : JobOK(k, job'[k], M, closing)
         /\ \A k \in Jobs : k # j => job'[k].status = job[k].status
<1>1. /\ DOMAIN job' = Jobs /\ job'[j] = v
      /\ \A k \in Jobs : k # j => job'[k] = [job[k] EXCEPT !.timer = @ /\ k \notin Due]
      /\ job' = [k \in Jobs |-> job'[k]]
  BY DEF Untimed
<1>2. ASSUME NEW k \in Jobs, k # j
      PROVE  job'[k] \in JobRecords /\ JobOK(k, job'[k], M, closing) /\ job'[k].status = job[k].status
  <2>1. job'[k] = [job[k] EXCEPT !.timer = @ /\ k \notin Due]
    BY <1>1, <1>2
  <2>2. k \in jobs /\ job[k].run # "ended" => k \in M
    BY DueEnded
  <2> QED
    BY <2>1, <2>2, JobLeaves
<1>3. \A k \in Jobs : job'[k] \in JobRecords
  BY <1>1, <1>2
<1> QED
  BY <1>1, <1>2, <1>3

LEMMA OneMore ==
  ASSUME NEW S, IsFiniteSet(S), NEW x
  PROVE  IsFiniteSet(S \cup {x}) /\ Cardinality(S \cup {x}) <= Cardinality(S) + 1
         /\ Cardinality(S) \in Nat /\ Cardinality(S \cup {x}) \in Nat
BY FS_AddElement, FS_CardinalityType

LEMMA RequestSound ==
  ASSUME PreviewInv, NEW j \in Jobs, Request(j)
  PROVE  PreviewInv'
<1>1. /\ ~Refuses /\ j \notin jobs /\ job' = Untimed(Due, j, Queued)
      /\ jobs' = (jobs \ Due) \cup {j} /\ Keep(Due, {}) /\ UNCHANGED <<closing, awaited>>
      /\ closing \in {"open", "awaiting", "closed"}
  BY DEF Request, Unused, PreviewInv
<1>2. closing = "open" /\ jobs \subseteq Jobs /\ IsFiniteSet(jobs)
  BY <1>1 DEF Refuses, PreviewInv, MapOK
<1>3. Queued \in JobRecords /\ Queued.status = "queued" /\ JobOK(j, Queued, jobs', closing)
  BY <1>1, <1>2, Limits DEF Queued, JobRecords, ActiveStatus, JobOK, Unset
<1>4. /\ job' \in [Jobs -> JobRecords] /\ job'[j] = Queued
      /\ \A k \in Jobs : JobOK(k, job'[k], jobs', closing)
      /\ \A k \in Jobs : k # j => job'[k].status = job[k].status
  BY <1>1, <1>3, OthersUntimed
<1>5. MapOK(jobs', job', closing')
  <2> DEFINE rest == jobs \ Due
             busy == With(rest, job, ActiveStatus)
  <2>1. Active \ Due = busy
    BY DEF With, Active, IsActive
  <2>2. With(jobs', job', ActiveStatus) = busy \cup {j}
    BY <1>1, <1>2, <1>3, <1>4 DEF With, ActiveStatus
  <2>3. rest \in SUBSET jobs /\ busy \in SUBSET rest
    BY DEF With
  <2> HIDE DEF rest, busy
  <2>4. IsFiniteSet(rest) /\ IsFiniteSet(busy)
    BY <1>2, <2>3, FS_Subset
  <2>5. Cardinality(rest) \in Nat /\ Cardinality(busy) \in Nat
        /\ MaxJobs \in Nat /\ MaxActiveJobs \in Nat
    BY <2>4, FS_CardinalityType, Limits
  <2>6. Cardinality(rest) < MaxJobs /\ Cardinality(busy) < MaxActiveJobs
    BY <1>1, <2>1, <2>5 DEF Refuses, rest
  <2>7. /\ IsFiniteSet(rest \cup {j}) /\ Cardinality(rest \cup {j}) <= Cardinality(rest) + 1
        /\ Cardinality(busy \cup {j}) <= Cardinality(busy) + 1
        /\ Cardinality(rest \cup {j}) \in Nat /\ Cardinality(busy \cup {j}) \in Nat
    BY <2>4, OneMore
  <2>8. Cardinality(rest \cup {j}) <= MaxJobs /\ Cardinality(busy \cup {j}) <= MaxActiveJobs
    BY <2>5, <2>6, <2>7
  <2> QED
    BY <1>1, <1>2, <2>2, <2>7, <2>8 DEF MapOK, rest
<1>6. With(jobs', job', {"complete"}) = With(jobs, job, {"complete"}) \ Due
  BY <1>1, <1>2, <1>3, <1>4 DEF With
<1>7. StoreOK(resources', usedBytes', jobs', job')
  BY <1>1, <1>6, StoreLeaves
<1> QED
  BY <1>1, <1>4, <1>5, <1>7 DEF PreviewInv

LEMMA AbortedIs ==
  ASSUME PreviewInv, NEW j \in Jobs, IsActive(j), NEW c \in {closing, "awaiting"}, c # "closed",
         NEW M, j \in M
  PROVE  Aborted(j) \in JobRecords /\ JobOK(j, Aborted(j), M, c) /\ Aborted(j).status = "cancelled"
<1>1. job[j] \in JobRecords /\ JobOK(j, job[j], jobs, closing)
  BY JobIs
<1>2. /\ Aborted(j) \in JobRecords /\ Aborted(j).status = "cancelled" /\ Aborted(j).aborted
      /\ Aborted(j).run = job[j].run /\ Aborted(j).left = job[j].left
      /\ Aborted(j).timer = job[j].timer
  BY <1>1 DEF Aborted, JobRecords
<1> QED
  BY <1>1, <1>2 DEF JobOK, ActiveStatus

LEMMA CancelSound ==
  ASSUME PreviewInv, NEW j \in Jobs, Cancel(j)
  PROVE  PreviewInv'
<1>1. /\ j \in jobs /\ IsActive(j) /\ job' = Untimed(Due, j, Aborted(j))
      /\ jobs' = jobs \ Due /\ Keep(Due, {}) /\ UNCHANGED <<closing, awaited>>
      /\ jobs \subseteq Jobs /\ closing # "closed"
  BY DEF Cancel, Active, PreviewInv, MapOK
<1>2. job[j].run # "ended" /\ j \in jobs'
  <2>1. job[j].run # "ended"
    BY <1>1, JobIs DEF JobOK, IsActive
  <2> QED
    BY <1>1, <2>1, DueEnded
<1>3. /\ Aborted(j) \in JobRecords /\ JobOK(j, Aborted(j), jobs', closing)
      /\ Aborted(j).status = "cancelled"
  BY <1>1, <1>2, AbortedIs
<1>4. /\ job' \in [Jobs -> JobRecords] /\ job'[j] = Aborted(j)
      /\ \A k \in Jobs : JobOK(k, job'[k], jobs', closing)
      /\ \A k \in Jobs : k # j => job'[k].status = job[k].status
  BY <1>1, <1>3, OthersUntimed
<1>5. MapOK(jobs', job', closing')
  <2>1. \A k \in jobs' : job'[k].status \in ActiveStatus => job[k].status \in ActiveStatus
    BY <1>1, <1>3, <1>4 DEF ActiveStatus
  <2> QED
    BY <1>1, <2>1, MapShrinks
<1>6. With(jobs', job', {"complete"}) = With(jobs, job, {"complete"}) \ Due
  <2>1. job[j].status # "complete" /\ job'[j].status # "complete"
    BY <1>1, <1>3, <1>4 DEF IsActive, ActiveStatus
  <2> QED
    BY <1>1, <1>4, <2>1 DEF With
<1>7. StoreOK(resources', usedBytes', jobs', job')
  BY <1>1, <1>6, StoreLeaves
<1> QED
  BY <1>1, <1>4, <1>5, <1>7 DEF PreviewInv

LEMMA CloseSound ==
  ASSUME PreviewInv, Close
  PROVE  PreviewInv'
<1>1. /\ closing = "open" /\ closing' = "awaiting" /\ awaited' = Active
      /\ job' = [j \in Jobs |-> IF j \in Active THEN Aborted(j) ELSE job[j]]
      /\ UNCHANGED <<jobs, resources, usedBytes>> /\ jobs \subseteq Jobs
  BY DEF Close, PreviewInv, MapOK
<1>2. ASSUME NEW j \in Jobs
      PROVE  /\ job'[j] \in JobRecords /\ JobOK(j, job'[j], jobs, "awaiting")
             /\ job'[j].status \in ActiveStatus => job[j].status \in ActiveStatus
             /\ job'[j].status = "complete" <=> job[j].status = "complete"
  <2>1. CASE j \in Active
    <3>1. j \in jobs /\ IsActive(j) /\ job'[j] = Aborted(j)
      BY <1>1, <2>1 DEF Active
    <3>2. /\ Aborted(j) \in JobRecords /\ JobOK(j, Aborted(j), jobs, "awaiting")
          /\ Aborted(j).status = "cancelled"
      BY <3>1, AbortedIs
    <3> QED
      BY <3>1, <3>2 DEF IsActive, ActiveStatus
  <2>2. CASE j \notin Active
    <3>1. job'[j] = job[j] /\ job[j] \in JobRecords /\ JobOK(j, job[j], jobs, closing)
      BY <1>1, <2>2, JobIs
    <3>2. job[j].run # "ended" => job[j].aborted
      <4>1. ASSUME job[j].run # "ended" PROVE job[j].aborted
        <5>1. j \in jobs /\ job[j].run \in {"pending", "running"}
          BY <1>1, <3>1, <4>1 DEF JobOK, JobRecords
        <5>2. job[j].status \notin ActiveStatus
          BY <2>2, <5>1 DEF Active, IsActive
        <5> QED
          BY <3>1, <5>1, <5>2 DEF JobOK, ActiveStatus
      <4> QED
        BY <4>1
    <3> QED
      BY <1>1, <3>1, <3>2 DEF JobOK
  <2> QED
    BY <2>1, <2>2
<1>3. job' \in [Jobs -> JobRecords]
  BY <1>1, <1>2
<1>4. MapOK(jobs', job', closing')
  BY <1>1, <1>2, MapShrinks
<1>5. With(jobs', job', {"complete"}) = With(jobs, job, {"complete"})
  BY <1>1, <1>2 DEF With
<1>6. StoreOK(resources', usedBytes', jobs', job')
  BY <1>1, <1>5, StoreSame
<1>7. awaited' \subseteq Jobs
  BY <1>1 DEF Active
<1> QED
  BY <1>1, <1>2, <1>3, <1>4, <1>6, <1>7 DEF PreviewInv

\* A job j that is not complete becomes v, which is no more active or complete; nothing
\* else changes.
LEMMA OneBecomes ==
  ASSUME PreviewInv, NEW j \in Jobs, NEW v \in JobRecords, job' = [job EXCEPT ![j] = v],
         UNCHANGED <<jobs, resources, usedBytes, closing, awaited>>,
         JobOK(j, v, jobs, closing),
         v.status \in ActiveStatus => job[j].status \in ActiveStatus,
         v.status = "complete" <=> job[j].status = "complete"
  PROVE  PreviewInv'
<1>1. job' \in [Jobs -> JobRecords] /\ job'[j] = v /\ \A k \in Jobs : k # j => job'[k] = job[k]
  BY DEF PreviewInv
<1>2. \A k \in Jobs : JobOK(k, job'[k], jobs, closing)
  BY <1>1, JobIs
<1>3. jobs \subseteq Jobs
  BY DEF PreviewInv, MapOK
<1>4. \A k \in jobs : job'[k].status \in ActiveStatus => job[k].status \in ActiveStatus
  BY <1>1, <1>3
<1>5. MapOK(jobs', job', closing')
  BY <1>4, MapShrinks DEF PreviewInv, MapOK
<1>6. With(jobs', job', {"complete"}) = With(jobs, job, {"complete"})
  BY <1>1, <1>3 DEF With
<1>7. StoreOK(resources', usedBytes', jobs', job')
  BY <1>6, StoreSame
<1> QED
  BY <1>1, <1>2, <1>5, <1>7 DEF PreviewInv

\* A job that ends has a time to live, and a timer.
LEMMA EndedIs ==
  ASSUME PreviewInv, NEW j \in Jobs, NEW status \in {"complete", "failed", "cancelled"},
         status = "cancelled" <=> job[j].aborted, NEW M
  PROVE  /\ Ended(j, status) \in JobRecords /\ JobOK(j, Ended(j, status), M, closing)
         /\ Ended(j, status).status = status
<1>1. job[j] \in JobRecords /\ Ttl \in Unset .. Ttl
  BY JobIs, Limits DEF Unset
<1>2. /\ Ended(j, status) \in JobRecords /\ Ended(j, status).status = status
      /\ Ended(j, status).run = "ended" /\ Ended(j, status).aborted = job[j].aborted
  BY <1>1 DEF Ended, JobRecords
<1> QED
  BY <1>2 DEF JobOK, ActiveStatus

LEMMA RunSound ==
  ASSUME PreviewInv, NEW j \in Jobs, Start(j) \/ CaptureFails(j) \/ Discard(j)
  PROVE  PreviewInv'
<1>1. /\ job[j] \in JobRecords /\ JobOK(j, job[j], jobs, closing)
      /\ job[j].run # "ended" /\ job[j].status # "complete"
      /\ UNCHANGED <<jobs, resources, usedBytes, closing, awaited>>
  BY JobIs DEF Start, CaptureFails, Discard, JobOK
<1>2. ASSUME NEW status \in {"failed", "cancelled"}, status = "cancelled" <=> job[j].aborted,
             job' = [job EXCEPT ![j] = Ended(j, status)]
      PROVE  PreviewInv'
  <2>1. /\ Ended(j, status) \in JobRecords /\ JobOK(j, Ended(j, status), jobs, closing)
        /\ Ended(j, status).status = status
    BY <1>2, EndedIs
  <2> QED
    BY <1>1, <1>2, <2>1, OneBecomes DEF ActiveStatus
<1>3. CASE Start(j) /\ ~job[j].aborted
  <2> DEFINE v == [job[j] EXCEPT !.status = "capturing", !.run = "running"]
  <2>1. job' = [job EXCEPT ![j] = v]
    BY <1>3 DEF Start
  <2>2. /\ v \in JobRecords /\ v.status = "capturing" /\ v.run = "running"
        /\ v.aborted = job[j].aborted /\ v.left = job[j].left /\ v.timer = job[j].timer
    BY <1>1 DEF JobRecords, ActiveStatus
  <2> HIDE DEF v
  <2>3. job[j].status = "queued"
    BY <1>1, <1>3 DEF JobOK, Start
  <2>4. JobOK(j, v, jobs, closing)
    BY <1>1, <1>3, <2>2 DEF JobOK
  <2> QED
    BY <1>1, <2>1, <2>2, <2>3, <2>4, OneBecomes DEF ActiveStatus
<1>4. CASE Start(j) /\ job[j].aborted
  BY <1>2, <1>4 DEF Start
<1>5. CASE CaptureFails(j)
  BY <1>2, <1>5 DEF CaptureFails, FailureStatus
<1>6. CASE Discard(j)
  BY <1>2, <1>6 DEF Discard, SeesAbort
<1> QED
  BY <1>3, <1>4, <1>5, <1>6

\* The resources of the screenshots of one capture.
LEMMA AddedIs ==
  ASSUME NEW j \in Jobs, NEW sizes \in Seq(Nat)
  PROVE  LET S == Added(j, sizes) IN
         /\ Sized(S) /\ \A r \in S : r.captureId = j /\ r.index \in Nat
         /\ Cardinality(S) <= Len(sizes) /\ Cardinality(S) \in Nat /\ Len(sizes) \in Nat
         /\ Len(sizes) > 0 => {r.captureId : r \in S} = {j}
<1> DEFINE S == Added(j, sizes)
           n == Len(sizes)
           f == [i \in 1 .. n |-> [captureId |-> j, index |-> i, size |-> sizes[i]]]
<1>1. n \in Nat /\ DOMAIN sizes = 1 .. n /\ \A i \in 1 .. n : sizes[i] \in Nat
  OBVIOUS
<1>2. S = {f[i] : i \in 1 .. n}
  BY <1>1 DEF Added
<1>3. f \in Surjection(1 .. n, S)
  <2>1. f \in [1 .. n -> S]
    BY <1>2
  <2> QED
    BY <1>2, <2>1 DEF Surjection
<1>4. IsFiniteSet(1 .. n) /\ Cardinality(1 .. n) = n
  <2> HIDE DEF n
  <2> QED
    BY <1>1, FS_Interval
<1>5. \A r \in S : r.captureId = j /\ r.index \in Nat /\ r.size \in Nat
  BY <1>1 DEF Added
<1>6. n > 0 => {r.captureId : r \in S} = {j}
  <2> SUFFICES ASSUME n > 0 PROVE {r.captureId : r \in S} = {j}
    OBVIOUS
  <2>1. f[1] \in S
    BY <1>1, <1>2
  <2> QED
    BY <1>5, <2>1
<1> HIDE DEF f, S, n
<1>7. IsFiniteSet(S) /\ Cardinality(S) <= n /\ Cardinality(S) \in Nat
  BY <1>3, <1>4, FS_Surjection, FS_CardinalityType
<1> QED
  BY <1>1, <1>5, <1>6, <1>7 DEF Sized, S, n

LEMMA CompletesSound ==
  ASSUME PreviewInv, NEW j \in Jobs, NEW sizes \in Screenshots, Completes(j, sizes)
  PROVE  PreviewInv'
<1>1. /\ job[j] \in JobRecords /\ JobOK(j, job[j], jobs, closing)
      /\ job[j].run = "running" /\ ~job[j].aborted /\ jobs' = jobs \ Due
      /\ UNCHANGED <<closing, awaited>> /\ closing \in {"open", "awaiting", "closed"}
      /\ jobs \subseteq Jobs
  BY JobIs DEF Completes, SeesAbort, PreviewInv, MapOK
<1>2. closing = "open" /\ j \in jobs /\ job[j].status = "capturing"
  BY <1>1 DEF JobOK
<1>3. j \in jobs' /\ j \notin Due
  BY <1>1, <1>2, DueEnded
<1>4. ASSUME NEW status \in {"complete", "failed"}, job' = Untimed(Due, j, Ended(j, status))
      PROVE  /\ job' \in [Jobs -> JobRecords] /\ job'[j].status = status
             /\ \A k \in Jobs : JobOK(k, job'[k], jobs', closing)
             /\ \A k \in Jobs : k # j => job'[k].status = job[k].status
             /\ MapOK(jobs', job', closing')
  <2>1. /\ Ended(j, status) \in JobRecords /\ JobOK(j, Ended(j, status), jobs', closing)
        /\ Ended(j, status).status = status
    BY <1>1, <1>4, EndedIs
  <2>2. /\ job' \in [Jobs -> JobRecords] /\ job'[j] = Ended(j, status)
        /\ \A k \in Jobs : JobOK(k, job'[k], jobs', closing)
        /\ \A k \in Jobs : k # j => job'[k].status = job[k].status
    BY <1>1, <1>4, <2>1, OthersUntimed
  <2>3. \A k \in jobs' : job'[k].status \in ActiveStatus => job[k].status \in ActiveStatus
    BY <1>1, <2>1, <2>2 DEF ActiveStatus
  <2>4. MapOK(jobs', job', closing')
    BY <1>1, <1>2, <2>3, MapShrinks
  <2> QED
    BY <2>1, <2>2, <2>4
<1>5. CASE Stores(j, sizes)
  <2> DEFINE S == Added(j, sizes)
  <2>1. job' = Untimed(Due, j, Ended(j, "complete")) /\ Keep(Due, S)
    BY <1>5 DEF Completes
  <2>2. /\ Len(sizes) > 0
        /\ Cardinality(resources \ ResourcesOf(Due)) + Len(sizes) <= MaxResources
        /\ usedBytes - Bytes(ResourcesOf(Due)) + Bytes(S) <= MaxBytes
    BY <1>5 DEF Stores, Fits
  <2>3. /\ Sized(S) /\ \A r \in S : r.captureId = j /\ r.index \in Nat
        /\ Cardinality(S) <= Len(sizes) /\ Cardinality(S) \in Nat /\ Len(sizes) \in Nat
        /\ {r.captureId : r \in S} = {j}
    BY <2>2, CapturesAreSizes, AddedIs
  <2> HIDE DEF S
  <2>4. resources \cap S = {}
    <3>1. \A r \in resources : r.captureId # j
      BY <1>2 DEF PreviewInv, StoreOK, With
    <3> QED
      BY <2>3, <3>1
  <2>5. Cardinality(resources \ ResourcesOf(Due)) + Cardinality(S) <= MaxResources
    <3>1. Cardinality(resources \ ResourcesOf(Due)) \in Nat /\ MaxResources \in Nat
      <4>1. resources \ ResourcesOf(Due) \in SUBSET resources /\ Sized(resources)
        BY DEF PreviewInv, StoreOK
      <4> QED
        BY <4>1, SizedOf, Limits
    <3> QED
      BY <2>2, <2>3, <3>1
  <2>6. /\ job' \in [Jobs -> JobRecords] /\ job'[j].status = "complete"
        /\ \A k \in Jobs : JobOK(k, job'[k], jobs', closing)
        /\ \A k \in Jobs : k # j => job'[k].status = job[k].status
        /\ MapOK(jobs', job', closing')
    BY <1>4, <2>1
  <2>7. With(jobs', job', {"complete"}) =
          (With(jobs, job, {"complete"}) \ Due) \cup {r.captureId : r \in S}
    <3>1. With(jobs', job', {"complete"}) = (With(jobs, job, {"complete"}) \ Due) \cup {j}
      BY <1>1, <1>3, <2>6 DEF With
    <3> QED
      BY <2>3, <3>1
  <2>8. StoreOK(resources', usedBytes', jobs', job')
    BY <2>1, <2>2, <2>3, <2>4, <2>5, <2>7, StoreKeeps
  <2> QED
    BY <1>1, <2>6, <2>8 DEF PreviewInv
<1>6. CASE ~Stores(j, sizes)
  <2>1. job' = Untimed(Due, j, Ended(j, "failed")) /\ Keep(Due, {})
    BY <1>6 DEF Completes
  <2>2. /\ job' \in [Jobs -> JobRecords] /\ job'[j].status = "failed"
        /\ \A k \in Jobs : JobOK(k, job'[k], jobs', closing)
        /\ \A k \in Jobs : k # j => job'[k].status = job[k].status
        /\ MapOK(jobs', job', closing')
    BY <1>4, <2>1
  <2>3. With(jobs', job', {"complete"}) = With(jobs, job, {"complete"}) \ Due
    BY <1>1, <1>2, <2>2 DEF With
  <2>4. StoreOK(resources', usedBytes', jobs', job')
    BY <2>1, <2>3, StoreLeaves
  <2> QED
    BY <1>1, <2>2, <2>4 DEF PreviewInv
<1> QED
  BY <1>5, <1>6

LEMMA TickSound ==
  ASSUME PreviewInv, Tick
  PROVE  PreviewInv'
<1>1. /\ job' = [j \in Jobs |-> [job[j] EXCEPT !.left = IF @ > 0 THEN @ - 1 ELSE @]]
      /\ UNCHANGED <<jobs, resources, usedBytes, closing, awaited>> /\ jobs \subseteq Jobs
  BY DEF Tick, PreviewInv, MapOK
<1>2. ASSUME NEW j \in Jobs
      PROVE  /\ job'[j] \in JobRecords /\ JobOK(j, job'[j], jobs, closing)
             /\ job'[j].status = job[j].status
  <2> DEFINE left == IF job[j].left > 0 THEN job[j].left - 1 ELSE job[j].left
  <2>1. job[j] \in JobRecords /\ JobOK(j, job[j], jobs, closing) /\ job[j].left \in Unset .. Ttl
    BY JobIs DEF JobRecords
  <2>2. left \in Unset .. Ttl /\ (job[j].left = Unset => left = Unset)
    BY <2>1, Limits DEF Unset
  <2>3. job'[j] = [job[j] EXCEPT !.left = left]
    BY <1>1
  <2> HIDE DEF left
  <2>4. /\ job'[j] \in JobRecords /\ job'[j].status = job[j].status
        /\ job'[j].aborted = job[j].aborted /\ job'[j].run = job[j].run
        /\ job'[j].left = left /\ job'[j].timer = job[j].timer
    BY <2>1, <2>2, <2>3 DEF JobRecords
  <2> QED
    BY <2>1, <2>2, <2>4 DEF JobOK
<1>3. job' \in [Jobs -> JobRecords]
  BY <1>1, <1>2
<1>4. MapOK(jobs', job', closing')
  BY <1>1, <1>2, MapShrinks DEF PreviewInv, MapOK
<1>5. With(jobs', job', {"complete"}) = With(jobs, job, {"complete"})
  BY <1>1, <1>2 DEF With
<1>6. StoreOK(resources', usedBytes', jobs', job')
  BY <1>1, <1>5, StoreSame
<1> QED
  BY <1>1, <1>2, <1>3, <1>4, <1>6 DEF PreviewInv

LEMMA TimerSound ==
  ASSUME PreviewInv, NEW j \in Jobs, Timer(j)
  PROVE  PreviewInv'
<1> DEFINE v == [job[j] EXCEPT !.timer = @ /\ FALSE]
           M == jobs \ Fired(j)
<1>1. /\ job' = [job EXCEPT ![j].timer = FALSE] /\ jobs' = M
      /\ Keep(Fired(j), {}) /\ UNCHANGED <<closing, awaited>>
      /\ job[j].run = "ended" /\ jobs \subseteq Jobs
  BY JobIs DEF Timer, Expired, PreviewInv, MapOK
<1>2. job[j] \in JobRecords /\ job[j].timer \in BOOLEAN
  BY JobIs DEF JobRecords
<1>3. job'[j] = v /\ \A k \in Jobs : k # j => job'[k] = job[k]
  <2>1. job'[j] = [job[j] EXCEPT !.timer = FALSE] /\ \A k \in Jobs : k # j => job'[k] = job[k]
    BY <1>1 DEF PreviewInv
  <2> QED
    BY <1>2, <2>1
<1>4. v \in JobRecords /\ JobOK(j, v, M, closing) /\ v.status = job[j].status
  BY <1>1, JobLeaves
<1> HIDE DEF v
<1>5. ASSUME NEW k \in Jobs, k # j PROVE JobOK(k, job'[k], M, closing) /\ job'[k] \in JobRecords
  BY <1>3, <1>5, JobIs DEF JobOK, Fired
<1>6. /\ job' \in [Jobs -> JobRecords]
      /\ \A k \in Jobs : JobOK(k, job'[k], M, closing) /\ job'[k].status = job[k].status
  <2>1. \A k \in Jobs : job'[k] \in JobRecords
    BY <1>3, <1>4, <1>5
  <2>2. job' = [k \in Jobs |-> job'[k]]
    BY <1>1 DEF PreviewInv
  <2>3. job' \in [Jobs -> JobRecords]
    BY <2>1, <2>2
  <2> QED
    BY <1>3, <1>4, <1>5, <2>3
<1>7. MapOK(jobs', job', closing')
  <2>1. M \in SUBSET jobs /\ (closing = "closed" => M = {})
    BY DEF PreviewInv, MapOK
  <2>2. \A k \in M : job'[k].status \in ActiveStatus => job[k].status \in ActiveStatus
    BY <1>1, <1>6, <2>1
  <2> HIDE DEF M
  <2>3. MapOK(M, job', closing)
    BY <2>1, <2>2, MapShrinks
  <2> QED
    BY <1>1, <2>3
<1>8. With(jobs', job', {"complete"}) = With(jobs, job, {"complete"}) \ Fired(j)
  BY <1>1, <1>6 DEF With
<1>9. StoreOK(resources', usedBytes', jobs', job')
  BY <1>1, <1>8, StoreLeaves
<1> QED
  BY <1>1, <1>6, <1>7, <1>9 DEF PreviewInv

LEMMA CloseFinishSound ==
  ASSUME PreviewInv, CloseFinish
  PROVE  PreviewInv'
<1>1. /\ job' = [j \in Jobs |-> [job[j] EXCEPT !.timer = @ /\ j \notin jobs]]
      /\ jobs' = {} /\ resources' = {} /\ usedBytes' = 0
      /\ closing = "awaiting" /\ closing' = "closed" /\ awaited' = awaited
  BY DEF CloseFinish
<1>2. ASSUME NEW j \in Jobs PROVE job'[j] \in JobRecords /\ JobOK(j, job'[j], {}, "closed")
  <2> DEFINE t == job[j].timer /\ j \notin jobs
  <2>1. job[j] \in JobRecords /\ JobOK(j, job[j], jobs, closing) /\ t \in BOOLEAN
    BY JobIs DEF JobRecords
  <2>2. job'[j] = [job[j] EXCEPT !.timer = t] /\ (~job[j].timer => ~t)
    BY <1>1
  <2> HIDE DEF t
  <2>3. /\ job'[j] \in JobRecords /\ job'[j].status = job[j].status
        /\ job'[j].aborted = job[j].aborted /\ job'[j].run = job[j].run
        /\ job'[j].left = job[j].left /\ job'[j].timer = t
    BY <2>1, <2>2 DEF JobRecords
  <2> QED
    BY <1>1, <2>1, <2>2, <2>3 DEF JobOK
<1>3. job' \in [Jobs -> JobRecords]
  BY <1>1, <1>2
<1>4. MapOK({}, job', "closed")
  BY MapShrinks
<1>5. StoreOK({}, 0, {}, job')
  BY Limits, FS_EmptySet, BytesOfNone DEF StoreOK, Sized, With
<1> QED
  BY <1>1, <1>2, <1>3, <1>4, <1>5 DEF PreviewInv

LEMMA PreviewStep ==
  ASSUME PreviewInv, [PreviewNext]_previewVars
  PROVE  PreviewInv'
<1>1. CASE UNCHANGED previewVars
  BY <1>1 DEF previewVars, PreviewInv
<1>2. CASE Look \/ Close \/ CloseFinish \/ Tick
  BY <1>2, LookSound, CloseSound, CloseFinishSound, TickSound
<1>3. ASSUME NEW j \in Jobs, Request(j) \/ Cancel(j) \/ Start(j) \/ CaptureEnds(j) \/ Timer(j)
      PROVE  PreviewInv'
  BY <1>3, RequestSound, CancelSound, RunSound, CompletesSound, TimerSound DEF CaptureEnds
<1> QED
  BY <1>1, <1>2, <1>3 DEF PreviewNext

\* However calls, captures, timers and close() interleave, the counter of bytes is what is
\* stored, nothing is stored of a job that is not complete in the Map, an abandoned capture
\* holds nothing, and the limits bound what runs (#run, #expire, cancel and close of
\* ephemeral-preview-service.js).
THEOREM PreviewsHold == PreviewSpec => []StoreSound
<1>1. InitPreviews => PreviewInv
  BY PreviewsBegin
<1>2. PreviewInv /\ [PreviewNext]_previewVars => PreviewInv'
  BY PreviewStep
<1>3. PreviewInv => StoreSound
  BY PreviewsSound
<1> QED
  BY <1>1, <1>2, <1>3, PTL DEF PreviewSpec

\* A published screenshot goes when its job has expired or the service has closed, and at
\* no other call (cleanup and #expire of ephemeral-preview-service.js).
THEOREM RemovalsAreDue == PreviewSpec => RemovedOnlyWhenDue
<1>1. ASSUME [PreviewNext]_previewVars
      PROVE  \/ \A r \in resources \ resources' : job[r.captureId].left = 0 \/ closing' = "closed"
             \/ UNCHANGED previewVars
  <2>1. ASSUME NEW gone, NEW added, Keep(gone, added), \A j \in gone : job[j].left = 0
        PROVE  \A r \in resources \ resources' : job[r.captureId].left = 0
    BY <2>1 DEF Keep, ResourcesOf
  <2>2. \A j \in Due : job[j].left = 0
    BY DEF Due, Expired
  <2>3. CASE Look
    BY <2>1, <2>2, <2>3 DEF Look, Cleanup
  <2>4. CASE CloseFinish
    BY <2>4 DEF CloseFinish
  <2>5. CASE Close \/ Tick
    BY <2>5 DEF Close, Tick
  <2>6. ASSUME NEW j \in Jobs, Request(j) \/ Cancel(j)
        PROVE  \A r \in resources \ resources' : job[r.captureId].left = 0
    BY <2>1, <2>2, <2>6 DEF Request, Cancel
  <2>7. ASSUME NEW j \in Jobs, Start(j) \/ CaptureFails(j) \/ Discard(j)
        PROVE  resources' = resources
    BY <2>7 DEF Start, CaptureFails, Discard
  <2>8. ASSUME NEW j \in Jobs, NEW sizes \in Screenshots, Completes(j, sizes)
        PROVE  \A r \in resources \ resources' : job[r.captureId].left = 0
    <3>1. Keep(Due, Added(j, sizes)) \/ Keep(Due, {})
      BY <2>8 DEF Completes
    <3> QED
      BY <2>1, <2>2, <3>1
  <2>9. ASSUME NEW j \in Jobs, Timer(j)
        PROVE  \A r \in resources \ resources' : job[r.captureId].left = 0
    <3>1. Keep(Fired(j), {}) /\ \A k \in Fired(j) : job[k].left = 0
      BY <2>9 DEF Timer, Fired, Expired
    <3> QED
      BY <2>1, <3>1
  <2> QED
    BY <1>1, <2>3, <2>4, <2>5, <2>6, <2>7, <2>8, <2>9 DEF PreviewNext, CaptureEnds
<1>2. [PreviewNext]_previewVars =>
        [\A r \in resources \ resources' : job[r.captureId].left = 0
           \/ closing' = "closed"]_previewVars
  BY <1>1
<1> QED
  BY <1>2, PTL DEF PreviewSpec, RemovedOnlyWhenDue
=============================================================================
