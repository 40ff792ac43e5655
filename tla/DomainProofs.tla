---------------------------- MODULE DomainProofs ----------------------------
(***************************************************************************)
(* Proofs about the workspace and its edits (module Domain).               *)
(*                                                                         *)
(* The invariant Sound is inductive: each operation of domain.js keeps it  *)
(* under the condition it throws without (one lemma per operation), and an *)
(* edit is a chain of operations.  The database accepts a Sound workspace  *)
(* exactly when no entity of it names the empty id (AcceptedUnblanked);    *)
(* an edit leaves such a name only in what it adds (BlankLast), so what a  *)
(* refusal takes back is named by nothing.                                 *)
(*                                                                         *)
(* Two results follow: an edit either creates, or removes what it names    *)
(* and what that owns (RemovedWithOwner); and the rows of a workspace that *)
(* is Sound and Unblanked satisfy the keys of the schema and are read back *)
(* as it is (RowsKeepWorkspace).                                           *)
(***************************************************************************)
EXTENDS Domain, FiniteSetTheorems, TLAPS

Sound(w) == IsWorkspace(w) /\ Validates(w) /\ SignalsLive(w)

----------------------------------------------------------------------------
(* Filtering a sequence.                                                  *)

\* The members of a finite set of positions have each their rank, and every
\* rank its member: Nth is well defined.
LEMMA NthMember ==
  ASSUME NEW K \in SUBSET Nat, IsFiniteSet(K), NEW n \in 1 .. Cardinality(K)
  PROVE  /\ Nth(K, n) \in K
         /\ Cardinality({j \in K : j <= Nth(K, n)}) = n
<1> DEFINE upTo(i) == {j \in K : j <= i}
           rank == [i \in K |-> Cardinality(upTo(i))]
<1>1. Cardinality(K) \in Nat
  BY FS_CardinalityType
<1>2. ASSUME NEW i \in K
      PROVE  IsFiniteSet(upTo(i)) /\ rank[i] \in 1 .. Cardinality(K)
  <2>1. upTo(i) \in SUBSET K /\ {i} \in SUBSET upTo(i)
    OBVIOUS
  <2>2. IsFiniteSet(upTo(i)) /\ Cardinality(upTo(i)) <= Cardinality(K)
    BY <2>1, FS_Subset
  <2>3. Cardinality({i}) = 1 /\ Cardinality({i}) <= Cardinality(upTo(i))
    BY <2>1, <2>2, FS_Subset, FS_Singleton
  <2>4. Cardinality(upTo(i)) \in Nat
    BY <2>2, FS_CardinalityType
  <2> QED BY <1>1, <2>2, <2>3, <2>4
<1>3. ASSUME NEW i \in K, NEW k \in K, i < k
      PROVE  rank[i] # rank[k]
  <2>1. i \in Nat /\ k \in Nat /\ \A j \in K : j \in Nat
    OBVIOUS
  <2>2. \A j \in K : j <= i => j <= k
    BY <2>1, <1>3
  <2>3. upTo(i) \in SUBSET upTo(k)
    BY <2>2
  <2>4. k \in upTo(k) /\ k \notin upTo(i)
    BY <2>1, <1>3
  <2> QED BY <2>3, <2>4, <1>2, FS_Subset
<1>4. rank \in Injection(K, 1 .. Cardinality(K))
  <2>1. rank \in [K -> 1 .. Cardinality(K)]
    BY <1>2
  <2>2. ASSUME NEW i \in K, NEW k \in K, rank[i] = rank[k] PROVE i = k
    BY <2>2, <1>3
  <2> HIDE DEF rank
  <2> QED BY <2>1, <2>2 DEF Injection, IsInjective
<1>5. IsFiniteSet(1 .. Cardinality(K)) /\ Cardinality(1 .. Cardinality(K)) = Cardinality(K)
  BY <1>1, FS_Interval
<1>6. rank \in Surjection(K, 1 .. Cardinality(K))
  BY <1>4, <1>5, FS_Injection
<1>7. PICK k \in K : rank[k] = n
  BY <1>6 DEF Surjection
<1>8. \E i \in K : Cardinality({j \in K : j <= i}) = n
  BY <1>7
<1> QED BY <1>8 DEF Nth

\* What is left of a board's entries: only entries that are kept, none twice.
LEMMA WithoutEntries ==
  ASSUME NEW S, NEW ids \in Seq(S), NEW gone
  PROVE  LET left == Without(ids, gone)
         IN  /\ left \in Seq(S)
             /\ \A n \in DOMAIN left :
                  \E i \in DOMAIN ids : left[n] = ids[i] /\ ids[i] \notin gone
             /\ IsInjective(ids) => IsInjective(left)
<1> DEFINE K == {i \in DOMAIN ids : ids[i] \notin gone}
           size == Cardinality(K)
           left == Without(ids, gone)
<1>1. K \in SUBSET (1 .. Len(ids)) /\ Len(ids) \in Nat /\ DOMAIN ids = 1 .. Len(ids)
  OBVIOUS
<1>2. IsFiniteSet(K) /\ size \in Nat /\ K \in SUBSET Nat
  <2>1. IsFiniteSet(1 .. Len(ids))
    BY <1>1, FS_Interval
  <2> HIDE DEF K
  <2>2. IsFiniteSet(K)
    BY <1>1, <2>1, FS_Subset
  <2>3. size \in Nat
    BY <2>2, FS_CardinalityType
  <2>4. K \in SUBSET Nat
    BY <1>1
  <2> QED BY <2>2, <2>3, <2>4
<1>3. left = [n \in 1 .. size |-> ids[Nth(K, n)]]
  BY DEF Without
<1> HIDE DEF left
<1>4. \A n \in 1 .. size : /\ Nth(K, n) \in K
                           /\ Cardinality({j \in K : j <= Nth(K, n)}) = n
  <2> HIDE DEF K
  <2> QED BY <1>2, NthMember
<1>5. \A n \in 1 .. size : /\ Nth(K, n) \in DOMAIN ids
                           /\ ids[Nth(K, n)] \in S /\ ids[Nth(K, n)] \notin gone
  <2>1. \A i \in K : i \in DOMAIN ids /\ ids[i] \in S /\ ids[i] \notin gone
    BY <1>1
  <2> HIDE DEF K, size
  <2> QED BY <2>1, <1>4
<1>6. left \in Seq(S) /\ DOMAIN left = 1 .. size
  <2> HIDE DEF size, K
  <2>1. left \in [1 .. size -> S]
    BY <1>3, <1>5
  <2> QED BY <2>1, <1>2
<1>7. \A n \in DOMAIN left :
        \E i \in DOMAIN ids : left[n] = ids[i] /\ ids[i] \notin gone
  <2> HIDE DEF size, K
  <2> QED BY <1>3, <1>5, <1>6
<1>8. ASSUME IsInjective(ids) PROVE IsInjective(left)
  <2> SUFFICES ASSUME NEW a \in 1 .. size, NEW b \in 1 .. size, left[a] = left[b]
               PROVE  a = b
    BY <1>6 DEF IsInjective
  <2>1. ids[Nth(K, a)] = ids[Nth(K, b)]
    <3> HIDE DEF size, K
    <3> QED BY <1>3
  <2>2. Nth(K, a) = Nth(K, b)
    <3> HIDE DEF size, K
    <3> QED BY <2>1, <1>5, <1>8 DEF IsInjective
  <2> HIDE DEF size, K
  <2> QED BY <2>2, <1>4
<1> HIDE DEF K, size
<1> QED BY <1>6, <1>7, <1>8 DEF left

----------------------------------------------------------------------------
(* The operations.                                                        *)

LEMMA EmptySound == Sound(Empty)
BY DEF Sound, Empty, IsWorkspace, Partial, Validates, SignalsLive, ReferencesOwned,
       AssetsOwned, TargetsOwned, MomentsOwned, SelectionsOwned, BoardsOwned, SignalsOwned

\* A workspace is the record of its collections.
Assembled(P, R, A, T, M, S, B, G) ==
  [projects |-> P, references |-> R, assets |-> A, targets |-> T,
   moments |-> M, selections |-> S, boards |-> B, signals |-> G]

LEMMA ProjectCreated ==
  ASSUME NEW w, Sound(w), NEW p \in ProjectIds
  PROVE  LET v == CreateProject(w, p)
         IN  /\ Sound(v)
             /\ p \in v.projects /\ v.boards = w.boards
<1> DEFINE v == CreateProject(w, p)
<1>1. v = Assembled(w.projects \cup {p}, w.references, w.assets, w.targets,
                    w.moments, w.selections, w.boards, w.signals)
  <2>1. w = Assembled(w.projects, w.references, w.assets, w.targets,
                      w.moments, w.selections, w.boards, w.signals)
    BY DEF Sound, IsWorkspace, Assembled
  <2> QED BY <2>1 DEF Assembled, CreateProject
<1> HIDE DEF v
<1>2. IsWorkspace(v)
  BY <1>1 DEF Sound, IsWorkspace, Assembled
<1>3. Validates(v) /\ SignalsLive(v)
  BY <1>1 DEF Assembled, Sound, Validates, SignalsLive, ReferencesOwned,
     AssetsOwned, TargetsOwned, MomentsOwned, SelectionsOwned, BoardsOwned, SignalsOwned
<1> QED BY <1>1, <1>2, <1>3 DEF Sound, v, Assembled

LEMMA ReferenceCreated ==
  ASSUME NEW w, Sound(w), NEW p \in w.projects,
         NEW r \in ReferenceIds \ DOMAIN w.references
  PROVE  LET v == CreateReference(w, r, p)
         IN  /\ Sound(v)
             /\ r \in DOMAIN v.references /\ v.references[r].projectId = p
             /\ v.assets = w.assets /\ v.signals = w.signals
<1> DEFINE v == CreateReference(w, r, p)
           e == [projectId |-> p]
           E == [projectId : ProjectIds]
           C == Put(w.references, r, e)
<1>1. v = Assembled(w.projects, C, w.assets, w.targets,
                    w.moments, w.selections, w.boards, w.signals)
  <2>1. w = Assembled(w.projects, w.references, w.assets, w.targets,
                      w.moments, w.selections, w.boards, w.signals)
    BY DEF Sound, IsWorkspace, Assembled
  <2> QED BY <2>1 DEF Assembled, CreateReference
<1>2. e \in E
  BY DEF Sound, IsWorkspace, Partial
<1>3. Partial(w.references, ReferenceIds, E)
  BY DEF Sound, IsWorkspace
<1> HIDE DEF v, C, E
<1>4. /\ Partial(C, ReferenceIds, E)
      /\ DOMAIN C = DOMAIN w.references \cup {r}
      /\ C[r] = e
      /\ \A x \in DOMAIN w.references : x # r => C[x] = w.references[x]
  <2>1. r \in ReferenceIds
    BY DEF Sound, IsWorkspace, Partial
  <2> HIDE DEF e
  <2> QED BY <1>2, <1>3, <2>1 DEF C, Put, Partial
<1>5. IsWorkspace(v)
  BY <1>1, <1>4 DEF Sound, IsWorkspace, Assembled, E
<1>6. Validates(v) /\ SignalsLive(v)
  BY <1>1, <1>4 DEF Assembled, Sound, Validates, SignalsLive, ReferencesOwned,
     AssetsOwned, TargetsOwned, MomentsOwned, SelectionsOwned, BoardsOwned, SignalsOwned
<1> QED BY <1>1, <1>4, <1>5, <1>6 DEF Sound, v, Assembled

LEMMA AssetCreated ==
  ASSUME NEW w, Sound(w), NEW r \in DOMAIN w.references,
         NEW a \in AssetIds \ DOMAIN w.assets
  PROVE  LET v == CreateAsset(w, a, r)
         IN  /\ Sound(v)
             /\ a \in DOMAIN v.assets /\ v.assets[a].referenceId = r
             /\ v.references = w.references /\ v.targets = w.targets
             /\ v.moments = w.moments
<1> DEFINE v == CreateAsset(w, a, r)
           e == [projectId |-> w.references[r].projectId, referenceId |-> r]
           E == [projectId : ProjectIds, referenceId : ReferenceIds]
           C == Put(w.assets, a, e)
<1>1. v = Assembled(w.projects, w.references, C, w.targets,
                    w.moments, w.selections, w.boards, w.signals)
  <2>1. w = Assembled(w.projects, w.references, w.assets, w.targets,
                      w.moments, w.selections, w.boards, w.signals)
    BY DEF Sound, IsWorkspace, Assembled
  <2> QED BY <2>1 DEF Assembled, CreateAsset
<1>2. e \in E
  BY DEF Sound, IsWorkspace, Partial
<1>3. Partial(w.assets, AssetIds, E)
  BY DEF Sound, IsWorkspace
<1> HIDE DEF v, C, E
<1>4. /\ Partial(C, AssetIds, E)
      /\ DOMAIN C = DOMAIN w.assets \cup {a}
      /\ C[a] = e
      /\ \A x \in DOMAIN w.assets : x # a => C[x] = w.assets[x]
  <2>1. a \in AssetIds
    BY DEF Sound, IsWorkspace, Partial
  <2> HIDE DEF e
  <2> QED BY <1>2, <1>3, <2>1 DEF C, Put, Partial
<1>5. IsWorkspace(v)
  BY <1>1, <1>4 DEF Sound, IsWorkspace, Assembled, E
<1>6. Validates(v) /\ SignalsLive(v)
  BY <1>1, <1>4 DEF Assembled, Sound, Validates, SignalsLive, ReferencesOwned,
     AssetsOwned, TargetsOwned, MomentsOwned, SelectionsOwned, BoardsOwned, SignalsOwned
<1> QED BY <1>1, <1>4, <1>5, <1>6 DEF Sound, v, Assembled

LEMMA TargetCreated ==
  ASSUME NEW w, Sound(w), NEW r \in DOMAIN w.references,
         NEW a \in AssetIds \cup Falsy,
         CanTarget(w, r, a),
         NEW t \in TargetIds \ DOMAIN w.targets
  PROVE  LET v == CreateTarget(w, t, r, a)
         IN  /\ Sound(v)
             /\ t \in DOMAIN v.targets
             /\ v.targets[t].projectId = w.references[r].projectId
             /\ v.moments = w.moments /\ v.selections = w.selections
             /\ v.boards = w.boards
<1> DEFINE v == CreateTarget(w, t, r, a)
           e == [projectId |-> w.references[r].projectId, referenceId |-> r,
                 assetId |-> a]
           E == [projectId : ProjectIds, referenceId : ReferenceIds,
                   assetId : AssetIds \cup Falsy]
           C == Put(w.targets, t, e)
<1>1. v = Assembled(w.projects, w.references, w.assets, C,
                    w.moments, w.selections, w.boards, w.signals)
  <2>1. w = Assembled(w.projects, w.references, w.assets, w.targets,
                      w.moments, w.selections, w.boards, w.signals)
    BY DEF Sound, IsWorkspace, Assembled
  <2> QED BY <2>1 DEF Assembled, CreateTarget
<1>2. e \in E
  BY DEF Sound, IsWorkspace, Partial, CanTarget
<1>3. Partial(w.targets, TargetIds, E)
  BY DEF Sound, IsWorkspace
<1> HIDE DEF v, C, E
<1>4. /\ Partial(C, TargetIds, E)
      /\ DOMAIN C = DOMAIN w.targets \cup {t}
      /\ C[t] = e
      /\ \A x \in DOMAIN w.targets : x # t => C[x] = w.targets[x]
  <2>1. t \in TargetIds
    BY DEF Sound, IsWorkspace, Partial
  <2> HIDE DEF e
  <2> QED BY <1>2, <1>3, <2>1 DEF C, Put, Partial
<1>5. IsWorkspace(v)
  BY <1>1, <1>4 DEF Sound, IsWorkspace, Assembled, E
<1>6. Validates(v) /\ SignalsLive(v)
  BY <1>1, <1>4 DEF Assembled, Sound, Validates, SignalsLive, ReferencesOwned,
     AssetsOwned, TargetsOwned, MomentsOwned, SelectionsOwned, BoardsOwned, SignalsOwned, CanTarget
<1> QED BY <1>1, <1>4, <1>5, <1>6 DEF Sound, v, Assembled

LEMMA MomentCreated ==
  ASSUME NEW w, Sound(w), NEW t \in DOMAIN w.targets,
         NEW m \in MomentIds \ DOMAIN w.moments
  PROVE  LET v == CreateMoment(w, m, t)
         IN  /\ Sound(v)
             /\ m \in DOMAIN v.moments /\ v.moments[m].targetId = t
             /\ v.targets = w.targets /\ v.selections = w.selections
             /\ v.boards = w.boards
<1> DEFINE v == CreateMoment(w, m, t)
           e == [projectId |-> w.targets[t].projectId, targetId |-> t]
           E == [projectId : ProjectIds, targetId : TargetIds]
           C == Put(w.moments, m, e)
<1>1. v = Assembled(w.projects, w.references, w.assets, w.targets,
                    C, w.selections, w.boards, w.signals)
  <2>1. w = Assembled(w.projects, w.references, w.assets, w.targets,
                      w.moments, w.selections, w.boards, w.signals)
    BY DEF Sound, IsWorkspace, Assembled
  <2> QED BY <2>1 DEF Assembled, CreateMoment
<1>2. e \in E
  BY DEF Sound, IsWorkspace, Partial
<1>3. Partial(w.moments, MomentIds, E)
  BY DEF Sound, IsWorkspace
<1> HIDE DEF v, C, E
<1>4. /\ Partial(C, MomentIds, E)
      /\ DOMAIN C = DOMAIN w.moments \cup {m}
      /\ C[m] = e
      /\ \A x \in DOMAIN w.moments : x # m => C[x] = w.moments[x]
  <2>1. m \in MomentIds
    BY DEF Sound, IsWorkspace, Partial
  <2> HIDE DEF e
  <2> QED BY <1>2, <1>3, <2>1 DEF C, Put, Partial
<1>5. IsWorkspace(v)
  BY <1>1, <1>4 DEF Sound, IsWorkspace, Assembled, E
<1>6. Validates(v) /\ SignalsLive(v)
  BY <1>1, <1>4 DEF Assembled, Sound, Validates, SignalsLive, ReferencesOwned,
     AssetsOwned, TargetsOwned, MomentsOwned, SelectionsOwned, BoardsOwned, SignalsOwned
<1> QED BY <1>1, <1>4, <1>5, <1>6 DEF Sound, v, Assembled

LEMMA SelectionCreated ==
  ASSUME NEW w, Sound(w), NEW t \in DOMAIN w.targets,
         NEW m \in MomentIds \cup Falsy,
         NEW p,
         CanSelect(w, p, t, m),
         NEW s \in SelectionIds \ DOMAIN w.selections
  PROVE  LET v == CreateSelection(w, s, p, t, m)
         IN  /\ Sound(v)
             /\ s \in DOMAIN v.selections /\ v.selections[s].projectId = p
             /\ v.boards = w.boards
<1> DEFINE v == CreateSelection(w, s, p, t, m)
           e == [projectId |-> p, targetId |-> t, momentId |-> m]
           E == [projectId : ProjectIds, targetId : TargetIds,
                   momentId : MomentIds \cup Falsy]
           C == Put(w.selections, s, e)
<1>1. v = Assembled(w.projects, w.references, w.assets, w.targets,
                    w.moments, C, w.boards, w.signals)
  <2>1. w = Assembled(w.projects, w.references, w.assets, w.targets,
                      w.moments, w.selections, w.boards, w.signals)
    BY DEF Sound, IsWorkspace, Assembled
  <2> QED BY <2>1 DEF Assembled, CreateSelection
<1>2. e \in E
  BY DEF Sound, IsWorkspace, Partial, CanSelect, TargetsOwned, ReferencesOwned, Validates
<1>3. Partial(w.selections, SelectionIds, E)
  BY DEF Sound, IsWorkspace
<1> HIDE DEF v, C, E
<1>4. /\ Partial(C, SelectionIds, E)
      /\ DOMAIN C = DOMAIN w.selections \cup {s}
      /\ C[s] = e
      /\ \A x \in DOMAIN w.selections : x # s => C[x] = w.selections[x]
  <2>1. s \in SelectionIds
    BY DEF Sound, IsWorkspace, Partial
  <2> HIDE DEF e
  <2> QED BY <1>2, <1>3, <2>1 DEF C, Put, Partial
<1>5. IsWorkspace(v)
  BY <1>1, <1>4 DEF Sound, IsWorkspace, Assembled, E
<1>6. Validates(v) /\ SignalsLive(v)
  BY <1>1, <1>4 DEF Assembled, Sound, Validates, SignalsLive, ReferencesOwned,
     AssetsOwned, TargetsOwned, MomentsOwned, SelectionsOwned, BoardsOwned, SignalsOwned, CanSelect
<1> QED BY <1>1, <1>4, <1>5, <1>6 DEF Sound, v, Assembled

LEMMA BoardCreated ==
  ASSUME NEW w, Sound(w), NEW p \in w.projects,
         NEW b \in BoardIds \ DOMAIN w.boards
  PROVE  LET v == CreateBoard(w, b, p)
         IN  /\ Sound(v)
             /\ b \in DOMAIN v.boards
             /\ v.boards[b] = [projectId |-> p, selectionIds |-> << >>]
             /\ v.selections = w.selections
<1> DEFINE v == CreateBoard(w, b, p)
           e == [projectId |-> p, selectionIds |-> << >>]
           E == [projectId : ProjectIds, selectionIds : Seq(SelectionIds)]
           C == Put(w.boards, b, e)
<1>1. v = Assembled(w.projects, w.references, w.assets, w.targets,
                    w.moments, w.selections, C, w.signals)
  <2>1. w = Assembled(w.projects, w.references, w.assets, w.targets,
                      w.moments, w.selections, w.boards, w.signals)
    BY DEF Sound, IsWorkspace, Assembled
  <2> QED BY <2>1 DEF Assembled, CreateBoard
<1>2. e \in E
  BY DEF Sound, IsWorkspace, Partial
<1>3. Partial(w.boards, BoardIds, E)
  BY DEF Sound, IsWorkspace
<1> HIDE DEF v, C, E
<1>4. /\ Partial(C, BoardIds, E)
      /\ DOMAIN C = DOMAIN w.boards \cup {b}
      /\ C[b] = e
      /\ \A x \in DOMAIN w.boards : x # b => C[x] = w.boards[x]
  <2>1. b \in BoardIds
    BY DEF Sound, IsWorkspace, Partial
  <2> HIDE DEF e
  <2> QED BY <1>2, <1>3, <2>1 DEF C, Put, Partial
<1>5. IsWorkspace(v)
  BY <1>1, <1>4 DEF Sound, IsWorkspace, Assembled, E
<1>6. Validates(v) /\ SignalsLive(v)
  BY <1>1, <1>4 DEF Assembled, Sound, Validates, SignalsLive, ReferencesOwned,
     AssetsOwned, TargetsOwned, MomentsOwned, SelectionsOwned, BoardsOwned, SignalsOwned, IsInjective
<1> QED BY <1>1, <1>4, <1>5, <1>6 DEF Sound, v, Assembled

LEMMA BoardSet ==
  ASSUME NEW w, Sound(w), NEW b \in DOMAIN w.boards,
         NEW ids \in Seq(SelectionIds),
         IsInjective(ids),
         \A i \in DOMAIN ids : /\ ids[i] \in DOMAIN w.selections
                                /\ w.selections[ids[i]].projectId = w.boards[b].projectId
  PROVE  LET v == SetBoard(w, b, ids)
         IN  /\ Sound(v)
             /\ v.selections = w.selections
<1> DEFINE v == SetBoard(w, b, ids)
           e == [w.boards[b] EXCEPT !.selectionIds = ids]
           E == [projectId : ProjectIds, selectionIds : Seq(SelectionIds)]
           C == Put(w.boards, b, e)
<1>1. v = Assembled(w.projects, w.references, w.assets, w.targets,
                    w.moments, w.selections, C, w.signals)
  <2>1. w = Assembled(w.projects, w.references, w.assets, w.targets,
                      w.moments, w.selections, w.boards, w.signals)
    BY DEF Sound, IsWorkspace, Assembled
  <2> QED BY <2>1 DEF Assembled, SetBoard
<1>2. e \in E
  BY DEF Sound, IsWorkspace, Partial
<1>3. Partial(w.boards, BoardIds, E)
  BY DEF Sound, IsWorkspace
<1> HIDE DEF v, C, E
<1>4. /\ Partial(C, BoardIds, E)
      /\ DOMAIN C = DOMAIN w.boards \cup {b}
      /\ C[b] = e
      /\ \A x \in DOMAIN w.boards : x # b => C[x] = w.boards[x]
  <2>1. b \in BoardIds
    BY DEF Sound, IsWorkspace, Partial
  <2> HIDE DEF e
  <2> QED BY <1>2, <1>3, <2>1 DEF C, Put, Partial
<1>5. IsWorkspace(v)
  BY <1>1, <1>4 DEF Sound, IsWorkspace, Assembled, E
<1>6. Validates(v) /\ SignalsLive(v)
  <2>1. e.projectId = w.boards[b].projectId /\ e.selectionIds = ids
    BY DEF Sound, IsWorkspace, Partial
  <2> HIDE DEF e
  <2> QED BY <1>1, <1>4, <2>1 DEF Assembled, Sound, Validates, SignalsLive, ReferencesOwned,
     AssetsOwned, TargetsOwned, MomentsOwned, SelectionsOwned, BoardsOwned, SignalsOwned
<1> QED BY <1>1, <1>4, <1>5, <1>6 DEF Sound, v, Assembled

LEMMA SignalRecorded ==
  ASSUME NEW w, Sound(w), NEW r \in DOMAIN w.references
  PROVE  Sound(RecordSignal(w, w.references[r].projectId, r))
<1> DEFINE p == w.references[r].projectId
           v == RecordSignal(w, p, r)
<1>1. v = Assembled(w.projects, w.references, w.assets, w.targets, w.moments,
                    w.selections, w.boards,
                    w.signals \cup {[projectId |-> p, subject |-> r]})
  <2>1. w = Assembled(w.projects, w.references, w.assets, w.targets,
                      w.moments, w.selections, w.boards, w.signals)
    BY DEF Sound, IsWorkspace, Assembled
  <2> QED BY <2>1 DEF Assembled, RecordSignal
<1>2. p \in w.projects /\ p \in ProjectIds /\ r \in ReferenceIds
  BY DEF Sound, IsWorkspace, Partial, Validates, ReferencesOwned
<1> HIDE DEF v
<1>3. IsWorkspace(v)
  BY <1>1, <1>2 DEF Sound, IsWorkspace, Assembled
<1>4. Validates(v) /\ SignalsLive(v)
  BY <1>1, <1>2 DEF Assembled, Sound, Validates, SignalsLive, ReferencesOwned,
     AssetsOwned, TargetsOwned, MomentsOwned, SelectionsOwned, BoardsOwned, SignalsOwned
<1> QED BY <1>3, <1>4 DEF Sound, v

LEMMA ReferenceDeleted ==
  ASSUME NEW w, Sound(w), NEW r \in DOMAIN w.references
  PROVE  Sound(DeleteReference(w, r))
<1> DEFINE v == DeleteReference(w, r)
           T == Owned(w.targets, "referenceId", {r})
           M == Owned(w.moments, "targetId", T)
           S == Owned(w.selections, "targetId", T)
                  \cup Owned(w.selections, "momentId", M)
           A == Owned(w.assets, "referenceId", {r})
           entries(b) == Without(w.boards[b].selectionIds, S)
           B == [b \in DOMAIN w.boards |->
                   [w.boards[b] EXCEPT !.selectionIds = entries(b)]]
<1>1. v = Assembled(w.projects, Drop(w.references, {r}), Drop(w.assets, A),
                    Drop(w.targets, T), Drop(w.moments, M), Drop(w.selections, S),
                    B, {x \in w.signals : x.subject # r})
  BY DEF Assembled, DeleteReference
<1>2. /\ A = {a \in DOMAIN w.assets : w.assets[a].referenceId = r}
      /\ T = {t \in DOMAIN w.targets : w.targets[t].referenceId = r}
      /\ M = {m \in DOMAIN w.moments : w.moments[m].targetId \in T}
  BY DEF Owned
<1>3. S = {s \in DOMAIN w.selections : \/ w.selections[s].targetId \in T
                                       \/ w.selections[s].momentId \in M}
  BY DEF Owned
<1>4. ASSUME NEW b \in DOMAIN w.boards
      PROVE  /\ B[b] \in [projectId : ProjectIds, selectionIds : Seq(SelectionIds)]
             /\ B[b].projectId = w.boards[b].projectId
             /\ B[b].selectionIds = entries(b)
             /\ IsInjective(entries(b))
             /\ \A i \in DOMAIN entries(b) :
                  /\ entries(b)[i] \in DOMAIN w.selections \ S
                  /\ w.selections[entries(b)[i]].projectId = w.boards[b].projectId
  <2> DEFINE ids == w.boards[b].selectionIds
  <2>1. /\ w.boards[b] \in [projectId : ProjectIds, selectionIds : Seq(SelectionIds)]
        /\ ids \in Seq(SelectionIds)
    BY DEF Sound, IsWorkspace, Partial
  <2>2. /\ IsInjective(ids)
        /\ \A i \in DOMAIN ids :
             /\ ids[i] \in DOMAIN w.selections
             /\ w.selections[ids[i]].projectId = w.boards[b].projectId
    BY DEF Sound, Validates, BoardsOwned
  <2> HIDE DEF S
  <2>3. /\ entries(b) \in Seq(SelectionIds)
        /\ \A n \in DOMAIN entries(b) :
             \E i \in DOMAIN ids : entries(b)[n] = ids[i] /\ ids[i] \notin S
        /\ IsInjective(entries(b))
    <3> HIDE DEF ids
    <3>1. LET left == Without(ids, S)
          IN  /\ left \in Seq(SelectionIds)
              /\ \A n \in DOMAIN left :
                   \E i \in DOMAIN ids : left[n] = ids[i] /\ ids[i] \notin S
              /\ IsInjective(ids) => IsInjective(left)
      BY <2>1, WithoutEntries
    <3> QED BY <3>1, <2>2 DEF ids
  <2>4. B[b] = [w.boards[b] EXCEPT !.selectionIds = entries(b)]
    OBVIOUS
  <2> HIDE DEF entries
  <2> QED BY <2>1, <2>2, <2>3, <2>4
<1> HIDE DEF v, T, M, S, A, B, entries
<1>5. /\ DOMAIN B = DOMAIN w.boards
      /\ Partial(B, BoardIds, [projectId : ProjectIds, selectionIds : Seq(SelectionIds)])
  <2>1. DOMAIN B = DOMAIN w.boards /\ B = [b \in DOMAIN w.boards |-> B[b]]
    BY DEF B
  <2> QED BY <2>1, <1>4 DEF Sound, IsWorkspace, Partial
<1>6. /\ Partial(Drop(w.references, {r}), ReferenceIds,
               [projectId : ProjectIds])
      /\ DOMAIN Drop(w.references, {r}) = DOMAIN w.references \ {r}
      /\ \A x \in DOMAIN w.references \ {r} : Drop(w.references, {r})[x] = w.references[x]
  BY DEF Sound, IsWorkspace, Partial, Drop, Restrict
<1>7. /\ Partial(Drop(w.assets, A), AssetIds,
               [projectId : ProjectIds, referenceId : ReferenceIds])
      /\ DOMAIN Drop(w.assets, A) = DOMAIN w.assets \ A
      /\ \A x \in DOMAIN w.assets \ A : Drop(w.assets, A)[x] = w.assets[x]
  BY DEF Sound, IsWorkspace, Partial, Drop, Restrict
<1>8. /\ Partial(Drop(w.targets, T), TargetIds,
               [projectId : ProjectIds, referenceId : ReferenceIds,
                   assetId : AssetIds \cup Falsy])
      /\ DOMAIN Drop(w.targets, T) = DOMAIN w.targets \ T
      /\ \A x \in DOMAIN w.targets \ T : Drop(w.targets, T)[x] = w.targets[x]
  BY DEF Sound, IsWorkspace, Partial, Drop, Restrict
<1>9. /\ Partial(Drop(w.moments, M), MomentIds,
               [projectId : ProjectIds, targetId : TargetIds])
      /\ DOMAIN Drop(w.moments, M) = DOMAIN w.moments \ M
      /\ \A x \in DOMAIN w.moments \ M : Drop(w.moments, M)[x] = w.moments[x]
  BY DEF Sound, IsWorkspace, Partial, Drop, Restrict
<1>10. /\ Partial(Drop(w.selections, S), SelectionIds,
               [projectId : ProjectIds, targetId : TargetIds,
                   momentId : MomentIds \cup Falsy])
      /\ DOMAIN Drop(w.selections, S) = DOMAIN w.selections \ S
      /\ \A x \in DOMAIN w.selections \ S : Drop(w.selections, S)[x] = w.selections[x]
  BY DEF Sound, IsWorkspace, Partial, Drop, Restrict
<1>11. IsWorkspace(v)
  BY <1>1, <1>5, <1>6, <1>7, <1>8, <1>9, <1>10 DEF Sound, IsWorkspace, Assembled
<1>12. ReferencesOwned(v) /\ AssetsOwned(v) /\ SignalsOwned(v) /\ SignalsLive(v)
  <2>1. ReferencesOwned(v)
    BY <1>1, <1>6 DEF Assembled, Sound, Validates, ReferencesOwned
  <2>2. AssetsOwned(v)
    <3>1. /\ DOMAIN v.assets = DOMAIN w.assets \ A
          /\ \A x \in DOMAIN w.assets \ A : v.assets[x] = w.assets[x]
          /\ DOMAIN v.references = DOMAIN w.references \ {r}
          /\ \A x \in DOMAIN w.references \ {r} : v.references[x] = w.references[x]
      BY <1>1, <1>6, <1>7 DEF Assembled
    <3>2. ASSUME NEW a \in DOMAIN w.assets \ A
          PROVE  LET q == w.assets[a].referenceId
                 IN  /\ q \in DOMAIN w.references \ {r}
                     /\ w.assets[a].projectId = w.references[q].projectId
      BY <1>2 DEF Sound, Validates, AssetsOwned
    <3>3. ASSUME NEW a \in DOMAIN v.assets
          PROVE  /\ v.assets[a].referenceId \in DOMAIN v.references
                 /\ v.assets[a].projectId
                      = v.references[v.assets[a].referenceId].projectId
      <4>1. a \in DOMAIN w.assets \ A /\ v.assets[a] = w.assets[a]
        BY <3>1
      <4> QED BY <4>1, <3>1, <3>2
    <3> QED BY <3>3 DEF AssetsOwned
  <2>3. SignalsOwned(v)
    BY <1>1 DEF Assembled, Sound, Validates, SignalsOwned
  <2>4. SignalsLive(v)
    BY <1>1, <1>6 DEF Assembled, Sound, SignalsLive
  <2> QED BY <2>1, <2>2, <2>3, <2>4
<1>13. TargetsOwned(v) /\ MomentsOwned(v)
  <2>1. TargetsOwned(v)
    <3>1. /\ DOMAIN v.assets = DOMAIN w.assets \ A
          /\ \A x \in DOMAIN w.assets \ A : v.assets[x] = w.assets[x]
          /\ DOMAIN v.references = DOMAIN w.references \ {r}
          /\ \A x \in DOMAIN w.references \ {r} : v.references[x] = w.references[x]
          /\ DOMAIN v.targets = DOMAIN w.targets \ T
          /\ \A x \in DOMAIN w.targets \ T : v.targets[x] = w.targets[x]
      BY <1>1, <1>6, <1>7, <1>8 DEF Assembled
    <3>2. ASSUME NEW t \in DOMAIN w.targets \ T
          PROVE  LET q == w.targets[t].referenceId
                     a == w.targets[t].assetId
                 IN  /\ q \in DOMAIN w.references \ {r}
                     /\ w.targets[t].projectId = w.references[q].projectId
                     /\ a \notin Falsy => /\ a \in DOMAIN w.assets \ A
                                    /\ w.assets[a].referenceId = q
      BY <1>2 DEF Sound, Validates, TargetsOwned
    <3>3. ASSUME NEW t \in DOMAIN v.targets
          PROVE  LET q == v.targets[t].referenceId
                     a == v.targets[t].assetId
                 IN  /\ q \in DOMAIN v.references
                     /\ v.targets[t].projectId = v.references[q].projectId
                     /\ a \notin Falsy => /\ a \in DOMAIN v.assets
                                    /\ v.assets[a].referenceId = q
      <4>1. t \in DOMAIN w.targets \ T /\ v.targets[t] = w.targets[t]
        BY <3>1
      <4> QED BY <4>1, <3>1, <3>2
    <3> QED BY <3>3 DEF TargetsOwned
  <2>2. MomentsOwned(v)
    <3>1. v.moments = Drop(w.moments, M) /\ v.targets = Drop(w.targets, T)
      BY <1>1 DEF Assembled
    <3>2. SUFFICES ASSUME NEW m \in DOMAIN w.moments \ M
          PROVE  LET t == w.moments[m].targetId
                 IN  /\ t \in DOMAIN w.targets \ T
                     /\ w.moments[m].projectId = w.targets[t].projectId
      BY <3>1, <1>8, <1>9 DEF MomentsOwned
    <3> QED BY <1>2 DEF Sound, Validates, MomentsOwned
  <2> QED BY <2>1, <2>2
<1>14. SelectionsOwned(v)
  BY <1>1, <1>3, <1>8, <1>9, <1>10 DEF Assembled, Sound, Validates, SelectionsOwned
<1>15. BoardsOwned(v)
  <2>1. /\ v.projects = w.projects /\ v.boards = B
        /\ v.selections = Drop(w.selections, S)
    BY <1>1 DEF Assembled
  <2>2. SUFFICES ASSUME NEW b \in DOMAIN w.boards
        PROVE  /\ B[b].projectId \in w.projects
               /\ IsInjective(B[b].selectionIds)
               /\ \A i \in DOMAIN B[b].selectionIds :
                    /\ B[b].selectionIds[i] \in DOMAIN v.selections
                    /\ v.selections[B[b].selectionIds[i]].projectId = B[b].projectId
    BY <2>1, <1>5 DEF BoardsOwned
  <2>3. w.boards[b].projectId \in w.projects
    BY DEF Sound, Validates, BoardsOwned
  <2> QED BY <2>1, <2>3, <1>4, <1>10
<1> QED BY <1>11, <1>12, <1>13, <1>14, <1>15 DEF Sound, Validates, v

LEMMA ProjectDeleted ==
  ASSUME NEW w, Sound(w), NEW p \in w.projects
  PROVE  Sound(DeleteProject(w, p))
<1> DEFINE v == DeleteProject(w, p)
           R == Owned(w.references, "projectId", {p})
           A == Owned(w.assets, "projectId", {p})
           T == Owned(w.targets, "projectId", {p})
           M == Owned(w.moments, "projectId", {p})
           S == Owned(w.selections, "projectId", {p})
           B == Owned(w.boards, "projectId", {p})
<1>1. v = Assembled(w.projects \ {p}, Drop(w.references, R), Drop(w.assets, A),
                    Drop(w.targets, T), Drop(w.moments, M), Drop(w.selections, S),
                    Drop(w.boards, B), {x \in w.signals : x.projectId # p})
  BY DEF Assembled, DeleteProject
<1>2. /\ R = {r \in DOMAIN w.references : w.references[r].projectId = p}
      /\ A = {a \in DOMAIN w.assets : w.assets[a].projectId = p}
      /\ T = {t \in DOMAIN w.targets : w.targets[t].projectId = p}
      /\ M = {m \in DOMAIN w.moments : w.moments[m].projectId = p}
      /\ S = {s \in DOMAIN w.selections : w.selections[s].projectId = p}
      /\ B = {b \in DOMAIN w.boards : w.boards[b].projectId = p}
  BY DEF Owned
<1> HIDE DEF v, R, A, T, M, S, B
<1>3. /\ Partial(Drop(w.references, R), ReferenceIds,
               [projectId : ProjectIds])
      /\ DOMAIN Drop(w.references, R) = DOMAIN w.references \ R
      /\ \A x \in DOMAIN w.references \ R : Drop(w.references, R)[x] = w.references[x]
  BY DEF Sound, IsWorkspace, Partial, Drop, Restrict
<1>4. /\ Partial(Drop(w.assets, A), AssetIds,
               [projectId : ProjectIds, referenceId : ReferenceIds])
      /\ DOMAIN Drop(w.assets, A) = DOMAIN w.assets \ A
      /\ \A x \in DOMAIN w.assets \ A : Drop(w.assets, A)[x] = w.assets[x]
  BY DEF Sound, IsWorkspace, Partial, Drop, Restrict
<1>5. /\ Partial(Drop(w.targets, T), TargetIds,
               [projectId : ProjectIds, referenceId : ReferenceIds,
                   assetId : AssetIds \cup Falsy])
      /\ DOMAIN Drop(w.targets, T) = DOMAIN w.targets \ T
      /\ \A x \in DOMAIN w.targets \ T : Drop(w.targets, T)[x] = w.targets[x]
  BY DEF Sound, IsWorkspace, Partial, Drop, Restrict
<1>6. /\ Partial(Drop(w.moments, M), MomentIds,
               [projectId : ProjectIds, targetId : TargetIds])
      /\ DOMAIN Drop(w.moments, M) = DOMAIN w.moments \ M
      /\ \A x \in DOMAIN w.moments \ M : Drop(w.moments, M)[x] = w.moments[x]
  BY DEF Sound, IsWorkspace, Partial, Drop, Restrict
<1>7. /\ Partial(Drop(w.selections, S), SelectionIds,
               [projectId : ProjectIds, targetId : TargetIds,
                   momentId : MomentIds \cup Falsy])
      /\ DOMAIN Drop(w.selections, S) = DOMAIN w.selections \ S
      /\ \A x \in DOMAIN w.selections \ S : Drop(w.selections, S)[x] = w.selections[x]
  BY DEF Sound, IsWorkspace, Partial, Drop, Restrict
<1>8. /\ Partial(Drop(w.boards, B), BoardIds,
               [projectId : ProjectIds, selectionIds : Seq(SelectionIds)])
      /\ DOMAIN Drop(w.boards, B) = DOMAIN w.boards \ B
      /\ \A x \in DOMAIN w.boards \ B : Drop(w.boards, B)[x] = w.boards[x]
  BY DEF Sound, IsWorkspace, Partial, Drop, Restrict
<1>9. IsWorkspace(v)
  BY <1>1, <1>3, <1>4, <1>5, <1>6, <1>7, <1>8 DEF Sound, IsWorkspace, Assembled
<1>10. ReferencesOwned(v) /\ AssetsOwned(v) /\ SignalsOwned(v) /\ SignalsLive(v)
  <2>1. ReferencesOwned(v)
    BY <1>1, <1>2, <1>3 DEF Assembled, Sound, Validates, ReferencesOwned
  <2>2. AssetsOwned(v)
    BY <1>1, <1>2, <1>3, <1>4 DEF Assembled, Sound, Validates, AssetsOwned
  <2>3. SignalsOwned(v)
    BY <1>1 DEF Assembled, Sound, Validates, SignalsOwned
  <2>4. SignalsLive(v)
    BY <1>1, <1>2, <1>3 DEF Assembled, Sound, SignalsLive
  <2> QED BY <2>1, <2>2, <2>3, <2>4
<1>11. TargetsOwned(v) /\ MomentsOwned(v)
  <2>1. TargetsOwned(v)
    BY <1>1, <1>2, <1>3, <1>4, <1>5 DEF Assembled, Sound, Validates, AssetsOwned,
       TargetsOwned
  <2>2. MomentsOwned(v)
    BY <1>1, <1>2, <1>5, <1>6 DEF Assembled, Sound, Validates, MomentsOwned
  <2> QED BY <2>1, <2>2
<1>12. SelectionsOwned(v)
  BY <1>1, <1>2, <1>5, <1>6, <1>7 DEF Assembled, Sound, Validates, SelectionsOwned,
     MomentsOwned
<1>13. BoardsOwned(v)
  <2>1. /\ v.projects = w.projects \ {p} /\ v.boards = Drop(w.boards, B)
        /\ v.selections = Drop(w.selections, S)
    BY <1>1 DEF Assembled
  <2>2. SUFFICES ASSUME NEW b \in DOMAIN w.boards \ B
        PROVE  LET ids == w.boards[b].selectionIds
               IN  /\ w.boards[b].projectId \in w.projects \ {p}
                   /\ IsInjective(ids)
                   /\ \A i \in DOMAIN ids :
                        /\ ids[i] \in DOMAIN w.selections \ S
                        /\ w.selections[ids[i]].projectId = w.boards[b].projectId
    BY <2>1, <1>7, <1>8 DEF BoardsOwned
  <2> QED BY <1>2 DEF Sound, Validates, BoardsOwned
<1> QED BY <1>9, <1>10, <1>11, <1>12, <1>13 DEF Sound, Validates, v

----------------------------------------------------------------------------
(* The edits.                                                             *)

\* An entry is put at the end of a board.
LEMMA EntryAppended ==
  ASSUME NEW w, Sound(w), NEW b \in DOMAIN w.boards, NEW s \in DOMAIN w.selections,
         MayAdd(w, b, s)
  PROVE  Sound(SetBoard(w, b, Append(w.boards[b].selectionIds, s)))
<1> DEFINE old == w.boards[b].selectionIds
           new == Append(old, s)
<1>1. old \in Seq(SelectionIds) /\ s \in SelectionIds
  BY DEF Sound, IsWorkspace, Partial
<1>2. /\ IsInjective(old)
      /\ \A i \in DOMAIN old : /\ old[i] \in DOMAIN w.selections
                               /\ w.selections[old[i]].projectId = w.boards[b].projectId
  BY DEF Sound, Validates, BoardsOwned
<1>3. w.selections[s].projectId = w.boards[b].projectId /\ \A i \in DOMAIN old : old[i] # s
  BY DEF MayAdd, Range
<1> HIDE DEF old
<1>4. /\ new \in Seq(SelectionIds)
      /\ DOMAIN new = 1 .. Len(old) + 1 /\ DOMAIN old = 1 .. Len(old)
      /\ Len(old) \in Nat
      /\ new[Len(old) + 1] = s
      /\ \A i \in DOMAIN old : new[i] = old[i]
  BY <1>1
<1> HIDE DEF new
<1>5. IsInjective(new)
  <2> SUFFICES ASSUME NEW i \in DOMAIN new, NEW j \in DOMAIN new, new[i] = new[j]
               PROVE  i = j
    BY DEF IsInjective
  <2>1. (i \in DOMAIN old \/ i = Len(old) + 1) /\ (j \in DOMAIN old \/ j = Len(old) + 1)
    BY <1>4
  <2> QED BY <2>1, <1>2, <1>3, <1>4 DEF IsInjective
<1>6. \A i \in DOMAIN new : /\ new[i] \in DOMAIN w.selections
                            /\ w.selections[new[i]].projectId = w.boards[b].projectId
  <2> TAKE i \in DOMAIN new
  <2>1. i \in DOMAIN old \/ i = Len(old) + 1
    BY <1>4
  <2> QED BY <2>1, <1>2, <1>3, <1>4
<1>7. Sound(SetBoard(w, b, new))
  BY <1>4, <1>5, <1>6, BoardSet
<1> QED BY <1>7 DEF new, old

\* Every edit is a chain of operations, each under its condition.
LEMMA EditSound ==
  ASSUME Sound(workspace), Edit
  PROVE  Sound(workspace')
<1> DEFINE w == workspace
<1>1. CASE AddProject
  BY <1>1, ProjectCreated DEF AddProject
<1>2. CASE AddProjectWithBoard
  <2>1. PICK p \in ProjectIds \ w.projects, b \in NewBoard :
          w' = CreateBoard(CreateProject(w, p), b, p)
    BY <1>2 DEF AddProjectWithBoard
  <2> DEFINE v == CreateProject(w, p)
  <2>2. Sound(v) /\ p \in v.projects /\ v.boards = w.boards
    BY ProjectCreated
  <2> HIDE DEF v
  <2>3. b \in BoardIds \ DOMAIN v.boards
    BY <2>2 DEF NewBoard
  <2>4. Sound(CreateBoard(v, b, p))
    BY <2>2, <2>3, BoardCreated
  <2> QED BY <2>1, <2>4 DEF v
<1>3. CASE AddReference
  <2>1. PICK r \in NewReference, p \in w.projects : w' = CreateReference(w, r, p)
    BY <1>3 DEF AddReference
  <2> QED BY <2>1, ReferenceCreated DEF NewReference
<1>4. CASE CaptureReference
  <2>1. PICK r \in NewReference, p \in w.projects, a \in NewAsset :
          w' = RecordSignal(CreateAsset(CreateReference(w, r, p), a, r), p, r)
    BY <1>4 DEF CaptureReference
  <2> DEFINE v == CreateReference(w, r, p)
             u == CreateAsset(v, a, r)
  <2>2. /\ Sound(v) /\ r \in DOMAIN v.references /\ v.references[r].projectId = p
        /\ v.assets = w.assets
    BY ReferenceCreated DEF NewReference
  <2> HIDE DEF v
  <2>3. a \in AssetIds \ DOMAIN v.assets
    BY <2>2 DEF NewAsset
  <2>4. Sound(u) /\ u.references = v.references
    BY <2>2, <2>3, AssetCreated
  <2> HIDE DEF u
  <2>5. Sound(RecordSignal(u, u.references[r].projectId, r))
    BY <2>2, <2>4, SignalRecorded
  <2> QED BY <2>1, <2>2, <2>4, <2>5 DEF u, v
<1>5. CASE EnrichReference
  BY <1>5, SignalRecorded DEF EnrichReference
<1>6. CASE AddAsset
  <2>1. PICK a \in NewAsset, r \in DOMAIN w.references : w' = CreateAsset(w, a, r)
    BY <1>6 DEF AddAsset
  <2> QED BY <2>1, AssetCreated DEF NewAsset
<1>7. CASE AddTarget
  <2>1. PICK t \in NewTarget, r \in DOMAIN w.references,
             a \in DOMAIN w.assets \cup Falsy :
          CanTarget(w, r, a) /\ w' = CreateTarget(w, t, r, a)
    BY <1>7 DEF AddTarget
  <2>2. a \in AssetIds \cup Falsy
    BY DEF Sound, IsWorkspace, Partial
  <2> QED BY <2>1, <2>2, TargetCreated DEF NewTarget
<1>8. CASE AddMoment
  <2>1. PICK m \in NewMoment, t \in DOMAIN w.targets : w' = CreateMoment(w, m, t)
    BY <1>8 DEF AddMoment
  <2> QED BY <2>1, MomentCreated DEF NewMoment
<1>9. CASE Checkpoint
  <2>0. PICK r \in DOMAIN w.references, t \in NewTarget, m \in NewMoment :
          \E a \in NewAsset \cup Owned(w.assets, "referenceId", {r}) :
            w' = LET stored == IF a \in NewAsset THEN CreateAsset(w, a, r) ELSE w
                 IN  CreateMoment(CreateTarget(stored, t, r, a), m, t)
    BY <1>9 DEF Checkpoint
  <2>1. PICK a \in NewAsset \cup Owned(w.assets, "referenceId", {r}) :
          w' = LET stored == IF a \in NewAsset THEN CreateAsset(w, a, r) ELSE w
               IN  CreateMoment(CreateTarget(stored, t, r, a), m, t)
    BY <2>0
  <2> DEFINE v == IF a \in NewAsset THEN CreateAsset(w, a, r) ELSE w
             u == CreateTarget(v, t, r, a)
  <2>2. /\ Sound(v) /\ v.references = w.references /\ v.targets = w.targets
        /\ v.moments = w.moments
        /\ a \in DOMAIN v.assets /\ v.assets[a].referenceId = r
    <3>1. CASE a \in NewAsset
      BY <3>1, AssetCreated DEF NewAsset
    <3>2. CASE a \notin NewAsset
      BY <3>2 DEF Owned
    <3> QED BY <3>1, <3>2
  <2> HIDE DEF v
  <2>3. /\ a \in AssetIds \cup Falsy /\ CanTarget(v, r, a)
        /\ t \in TargetIds \ DOMAIN v.targets /\ r \in DOMAIN v.references
    BY <2>2 DEF CanTarget, NewTarget, Sound, IsWorkspace, Partial
  <2>4. Sound(u) /\ t \in DOMAIN u.targets /\ u.moments = v.moments
    BY <2>2, <2>3, TargetCreated
  <2> HIDE DEF u
  <2>5. m \in MomentIds \ DOMAIN u.moments
    BY <2>2, <2>4 DEF NewMoment
  <2>6. Sound(CreateMoment(u, m, t))
    BY <2>4, <2>5, MomentCreated
  <2> QED BY <2>1, <2>6 DEF u, v
<1>10. CASE AddSelection
  <2>1. PICK s \in NewSelection, p \in w.projects, t \in DOMAIN w.targets,
             m \in DOMAIN w.moments \cup Falsy :
          CanSelect(w, p, t, m) /\ w' = CreateSelection(w, s, p, t, m)
    BY <1>10 DEF AddSelection
  <2>2. m \in MomentIds \cup Falsy
    BY DEF Sound, IsWorkspace, Partial
  <2> QED BY <2>1, <2>2, SelectionCreated DEF NewSelection
<1>11. CASE AddToBoard
  BY <1>11, EntryAppended DEF AddToBoard
<1>12. CASE SaveSelection
  <2>1. PICK r \in DOMAIN w.references, t \in NewTarget, s \in NewSelection,
             a \in DOMAIN w.assets \cup {NoId}, m \in NewMoment \cup {NoId},
             b \in BoardIds :
          /\ CanTarget(w, r, a)
          /\ LET boards == Owned(w.boards, "projectId", {w.references[r].projectId})
             IN  b \in IF boards = {} THEN NewBoard ELSE boards
          /\ w' = PlaceOnBoard(Selected(w, t, r, a, m, s), b, s)
    BY <1>12 DEF SaveSelection
  <2> DEFINE p == w.references[r].projectId
             v == CreateTarget(w, t, r, a)
             u == IF m = NoId THEN v ELSE CreateMoment(v, m, t)
             x == CreateSelection(u, s, p, t, m)
             y == IF b \in DOMAIN x.boards THEN x ELSE CreateBoard(x, b, p)
  <2>2. /\ Sound(v) /\ t \in DOMAIN v.targets /\ v.targets[t].projectId = p
        /\ v.moments = w.moments /\ v.selections = w.selections /\ v.boards = w.boards
    <3>1. a \in AssetIds \cup Falsy /\ t \in TargetIds \ DOMAIN w.targets
      BY DEF Sound, IsWorkspace, Partial, NewTarget, Falsy
    <3> QED BY <2>1, <3>1, TargetCreated
  <2> HIDE DEF v
  <2>3. /\ Sound(u) /\ u.targets = v.targets /\ u.selections = w.selections
        /\ u.boards = w.boards
        /\ m \notin Falsy => m \in DOMAIN u.moments /\ u.moments[m].targetId = t
    <3>1. CASE m = NoId
      BY <3>1, <2>2 DEF Falsy
    <3>2. CASE m # NoId
      <4>1. m \in MomentIds \ DOMAIN v.moments
        BY <3>2, <2>2 DEF NewMoment
      <4> QED BY <3>2, <4>1, <2>2, MomentCreated
    <3> QED BY <3>1, <3>2
  <2> HIDE DEF u
  <2>4. /\ CanSelect(u, p, t, m) /\ t \in DOMAIN u.targets
        /\ m \in MomentIds \cup Falsy /\ s \in SelectionIds \ DOMAIN u.selections
    BY <2>2, <2>3 DEF CanSelect, NewMoment, NewSelection, Falsy
  <2>5. /\ Sound(x) /\ s \in DOMAIN x.selections /\ x.selections[s].projectId = p
        /\ x.boards = w.boards
    <3> HIDE DEF p
    <3> QED BY <2>3, <2>4, SelectionCreated
  <2>6. \A c \in DOMAIN x.boards : \A i \in DOMAIN x.boards[c].selectionIds :
          x.boards[c].selectionIds[i] # s
    <3>1. \A c \in DOMAIN w.boards : \A i \in DOMAIN w.boards[c].selectionIds :
            w.boards[c].selectionIds[i] \in DOMAIN w.selections
      BY DEF Sound, Validates, BoardsOwned
    <3> QED BY <3>1, <2>5 DEF NewSelection
  <2> HIDE DEF x
  <2>7. p \in x.projects
    BY <2>5 DEF Sound, Validates, SelectionsOwned
  <2>8. /\ Sound(y) /\ b \in DOMAIN y.boards /\ y.boards[b].projectId = p
        /\ y.selections = x.selections
        /\ \A i \in DOMAIN y.boards[b].selectionIds : y.boards[b].selectionIds[i] # s
    <3>1. CASE b \in DOMAIN x.boards
      <4>1. b \notin NewBoard
        BY <3>1, <2>5 DEF NewBoard
      <4>2. b \in Owned(w.boards, "projectId", {p})
        BY <2>1, <4>1
      <4>3. w.boards[b].projectId = p
        BY <4>2 DEF Owned
      <4> HIDE DEF p
      <4> QED BY <3>1, <4>3, <2>5, <2>6
    <3>2. CASE b \notin DOMAIN x.boards
      <4> HIDE DEF p
      <4>1. /\ Sound(CreateBoard(x, b, p)) /\ b \in DOMAIN CreateBoard(x, b, p).boards
            /\ CreateBoard(x, b, p).boards[b] = [projectId |-> p, selectionIds |-> << >>]
            /\ CreateBoard(x, b, p).selections = x.selections
        BY <3>2, <2>5, <2>7, BoardCreated
      <4> QED BY <3>2, <4>1
    <3> QED BY <3>1, <3>2
  <2>9. w' = SetBoard(y, b, Append(y.boards[b].selectionIds, s))
    BY <2>1, <2>5 DEF PlaceOnBoard, Selected, x, u, v
  <2> HIDE DEF y, p
  <2>10. MayAdd(y, b, s) /\ s \in DOMAIN y.selections
    BY <2>5, <2>8 DEF MayAdd, Range
  <2> QED BY <2>8, <2>9, <2>10, EntryAppended
<1>13. CASE ReorderBoard
  <2>0. PICK b \in DOMAIN w.boards :
          \E ids \in [DOMAIN w.boards[b].selectionIds -> Range(w.boards[b].selectionIds)] :
            CanReorder(w, b, ids) /\ w' = SetBoard(w, b, ids)
    BY <1>13 DEF ReorderBoard
  <2>1. PICK ids \in [DOMAIN w.boards[b].selectionIds -> Range(w.boards[b].selectionIds)] :
          CanReorder(w, b, ids) /\ w' = SetBoard(w, b, ids)
    BY <2>0
  <2> DEFINE old == w.boards[b].selectionIds
  <2>2. old \in Seq(SelectionIds)
    BY DEF Sound, IsWorkspace, Partial
  <2>3. \A i \in DOMAIN old : /\ old[i] \in DOMAIN w.selections
                              /\ w.selections[old[i]].projectId = w.boards[b].projectId
    BY DEF Sound, Validates, BoardsOwned
  <2>4. IsInjective(ids) /\ \A i \in DOMAIN ids : \E j \in DOMAIN old : ids[i] = old[j]
    BY <2>1 DEF CanReorder, Range
  <2>5. DOMAIN ids = DOMAIN old /\ ids \in [DOMAIN old -> Range(old)]
    BY <2>1
  <2> HIDE DEF old
  <2>6. ids \in Seq(SelectionIds)
    <3>1. DOMAIN old = 1 .. Len(old) /\ Len(old) \in Nat
      BY <2>2
    <3>2. \A j \in DOMAIN old : old[j] \in SelectionIds
      BY <2>2
    <3>3. \A i \in DOMAIN ids : ids[i] \in SelectionIds
      BY <3>2, <2>4
    <3>4. ids = [i \in 1 .. Len(old) |-> ids[i]]
      BY <3>1, <2>5
    <3>5. ids \in [1 .. Len(old) -> SelectionIds]
      BY <3>1, <3>3, <3>4, <2>5
    <3> QED BY <3>1, <3>5
  <2>7. \A i \in DOMAIN ids : /\ ids[i] \in DOMAIN w.selections
                              /\ w.selections[ids[i]].projectId = w.boards[b].projectId
    BY <2>3, <2>4
  <2>8. Sound(SetBoard(w, b, ids))
    BY <2>4, <2>6, <2>7, BoardSet
  <2> QED BY <2>1, <2>8
<1>14. CASE TakeOffBoard
  <2>1. PICK b \in DOMAIN w.boards : \E s \in Range(w.boards[b].selectionIds) :
          w' = RemoveFromBoard(w, b, s)
    BY <1>14 DEF TakeOffBoard
  <2>2. PICK s \in Range(w.boards[b].selectionIds) : w' = RemoveFromBoard(w, b, s)
    BY <2>1
  <2> DEFINE old == w.boards[b].selectionIds
             new == Without(old, {s})
  <2>3. old \in Seq(SelectionIds)
    BY DEF Sound, IsWorkspace, Partial
  <2>4. /\ IsInjective(old)
        /\ \A i \in DOMAIN old : /\ old[i] \in DOMAIN w.selections
                                 /\ w.selections[old[i]].projectId = w.boards[b].projectId
    BY DEF Sound, Validates, BoardsOwned
  <2>5. w' = SetBoard(w, b, new)
    BY <2>2 DEF RemoveFromBoard
  <2> HIDE DEF old
  <2>6. LET left == Without(old, {s})
        IN  /\ left \in Seq(SelectionIds)
            /\ \A n \in DOMAIN left :
                 \E i \in DOMAIN old : left[n] = old[i] /\ old[i] \notin {s}
            /\ IsInjective(old) => IsInjective(left)
    BY <2>3, WithoutEntries
  <2>7. Sound(SetBoard(w, b, new))
    BY <2>4, <2>6, BoardSet
  <2> QED BY <2>5, <2>7
<1>15. CASE RemoveReference
  BY <1>15, ReferenceDeleted DEF RemoveReference
<1>16. CASE RemoveProject
  BY <1>16, ProjectDeleted DEF RemoveProject
<1> QED BY <1>1, <1>2, <1>3, <1>4, <1>5, <1>6, <1>7, <1>8, <1>9, <1>10, <1>11, <1>12,
           <1>13, <1>14, <1>15, <1>16 DEF Edit

----------------------------------------------------------------------------
(* What an edit removes.                                                  *)

\* w is the record of its collections.
Shaped(w) == w = Assembled(w.projects, w.references, w.assets, w.targets,
                           w.moments, w.selections, w.boards, w.signals)

\* Nothing that has an id in w is missing in v.
Larger(w, v) ==
  /\ Shaped(v)
  /\ w.projects \subseteq v.projects
  /\ DOMAIN w.references \subseteq DOMAIN v.references
  /\ DOMAIN w.assets \subseteq DOMAIN v.assets
  /\ DOMAIN w.targets \subseteq DOMAIN v.targets
  /\ DOMAIN w.moments \subseteq DOMAIN v.moments
  /\ DOMAIN w.selections \subseteq DOMAIN v.selections
  /\ DOMAIN w.boards \subseteq DOMAIN v.boards

LEMMA SoundShaped == \A w : Sound(w) => Shaped(w)
BY DEF Sound, IsWorkspace, Shaped, Assembled

LEMMA LargerTransitive == \A u, v, w : Larger(u, v) /\ Larger(v, w) => Larger(u, w)
BY DEF Larger

\* A collection something is put into keeps its ids.
LEMMA PutKeeps == \A C, x, e : DOMAIN C \subseteq DOMAIN Put(C, x, e)
BY DEF Put

\* The operations that create something remove nothing.
LEMMA CreationsGrow ==
  ASSUME NEW w, Shaped(w)
  PROVE  /\ \A p : Larger(w, CreateProject(w, p))
         /\ \A r, p : Larger(w, CreateReference(w, r, p))
         /\ \A a, r : Larger(w, CreateAsset(w, a, r))
         /\ \A t, r, a : Larger(w, CreateTarget(w, t, r, a))
         /\ \A m, t : Larger(w, CreateMoment(w, m, t))
         /\ \A s, p, t, m : Larger(w, CreateSelection(w, s, p, t, m))
         /\ \A b, p : Larger(w, CreateBoard(w, b, p))
         /\ \A b, ids : Larger(w, SetBoard(w, b, ids))
         /\ \A p, r : Larger(w, RecordSignal(w, p, r))
<1>1. \A p : Larger(w, CreateProject(w, p))
  BY DEF Shaped, Assembled, Larger, CreateProject
<1>2. \A r, p : Larger(w, CreateReference(w, r, p))
  BY PutKeeps DEF Shaped, Assembled, Larger, CreateReference
<1>3. \A a, r : Larger(w, CreateAsset(w, a, r))
  BY PutKeeps DEF Shaped, Assembled, Larger, CreateAsset
<1>4. \A t, r, a : Larger(w, CreateTarget(w, t, r, a))
  BY PutKeeps DEF Shaped, Assembled, Larger, CreateTarget
<1>5. \A m, t : Larger(w, CreateMoment(w, m, t))
  BY PutKeeps DEF Shaped, Assembled, Larger, CreateMoment
<1>6. \A s, p, t, m : Larger(w, CreateSelection(w, s, p, t, m))
  BY PutKeeps DEF Shaped, Assembled, Larger, CreateSelection
<1>7. \A b, p : Larger(w, CreateBoard(w, b, p))
  BY PutKeeps DEF Shaped, Assembled, Larger, CreateBoard
<1>8. \A b, ids : Larger(w, SetBoard(w, b, ids))
  BY PutKeeps DEF Shaped, Assembled, Larger, SetBoard
<1>9. \A p, r : Larger(w, RecordSignal(w, p, r))
  BY DEF Shaped, Assembled, Larger, RecordSignal
<1> QED BY <1>1, <1>2, <1>3, <1>4, <1>5, <1>6, <1>7, <1>8, <1>9

\* What is missing in v belonged to something that is missing too.
RemovesOwned(w, v) ==
  /\ \A a \in DOMAIN w.assets \ DOMAIN v.assets :
       w.assets[a].referenceId \notin DOMAIN v.references
  /\ \A t \in DOMAIN w.targets \ DOMAIN v.targets :
       w.targets[t].referenceId \notin DOMAIN v.references
  /\ \A m \in DOMAIN w.moments \ DOMAIN v.moments :
       w.moments[m].targetId \notin DOMAIN v.targets
  /\ \A s \in DOMAIN w.selections \ DOMAIN v.selections :
       w.selections[s].targetId \notin DOMAIN v.targets
  /\ \A b \in DOMAIN w.boards \ DOMAIN v.boards :
       w.boards[b].projectId \notin v.projects
  /\ \A r, q \in DOMAIN w.references \ DOMAIN v.references :
       r = q \/ w.references[r].projectId \notin v.projects

LEMMA LargerRemovesNothing == \A w, v : Larger(w, v) => RemovesOwned(w, v)
BY DEF Larger, RemovesOwned

LEMMA DropDomain == \A C, S : DOMAIN Drop(C, S) = DOMAIN C \ S
BY DEF Drop, Restrict

LEMMA ReferenceDeletionOwned ==
  ASSUME NEW w, Sound(w), NEW r \in DOMAIN w.references
  PROVE  RemovesOwned(w, DeleteReference(w, r))
<1> DEFINE v == DeleteReference(w, r)
           T == Owned(w.targets, "referenceId", {r})
           M == Owned(w.moments, "targetId", T)
           S == Owned(w.selections, "targetId", T) \cup Owned(w.selections, "momentId", M)
<1>1. /\ DOMAIN v.references = DOMAIN w.references \ {r}
      /\ DOMAIN v.assets = DOMAIN w.assets \ Owned(w.assets, "referenceId", {r})
      /\ DOMAIN v.targets = DOMAIN w.targets \ T
      /\ DOMAIN v.moments = DOMAIN w.moments \ M
      /\ DOMAIN v.selections = DOMAIN w.selections \ S
      /\ DOMAIN v.boards = DOMAIN w.boards
  BY DropDomain DEF DeleteReference
<1>2. ASSUME NEW s \in S PROVE w.selections[s].targetId \in T
  <2>1. s \in DOMAIN w.selections
    BY DEF Owned
  <2>2. CASE w.selections[s].targetId \in T
    BY <2>2
  <2>3. CASE w.selections[s].momentId \in M
    <3>1. w.selections[s].momentId \in DOMAIN w.moments
          /\ w.moments[w.selections[s].momentId].targetId \in T
      BY <2>3 DEF Owned
    <3>2. w.selections[s].momentId \notin Falsy
      BY <3>1, OptionalIds DEF Sound, IsWorkspace, Partial, Falsy
    <3>3. w.moments[w.selections[s].momentId].targetId = w.selections[s].targetId
      BY <2>1, <3>2 DEF Sound, Validates, SelectionsOwned
    <3> QED BY <3>1, <3>3
  <2> QED BY <2>2, <2>3 DEF Owned
<1> HIDE DEF v
<1>3. \A t \in T : w.targets[t].referenceId = r
  BY DEF Owned
<1>4. \A m \in M : w.moments[m].targetId \in T
  BY DEF Owned
<1>5. \A a \in Owned(w.assets, "referenceId", {r}) : w.assets[a].referenceId = r
  BY DEF Owned
<1> HIDE DEF T, M, S
<1> QED BY <1>1, <1>2, <1>3, <1>4, <1>5 DEF RemovesOwned, v

LEMMA ProjectDeletionOwned ==
  ASSUME NEW w, Sound(w), NEW p \in w.projects
  PROVE  RemovesOwned(w, DeleteProject(w, p))
<1> DEFINE v == DeleteProject(w, p)
<1>1. /\ v.projects = w.projects \ {p}
      /\ DOMAIN v.references = DOMAIN w.references \ Owned(w.references, "projectId", {p})
      /\ DOMAIN v.assets = DOMAIN w.assets \ Owned(w.assets, "projectId", {p})
      /\ DOMAIN v.targets = DOMAIN w.targets \ Owned(w.targets, "projectId", {p})
      /\ DOMAIN v.moments = DOMAIN w.moments \ Owned(w.moments, "projectId", {p})
      /\ DOMAIN v.selections = DOMAIN w.selections \ Owned(w.selections, "projectId", {p})
      /\ DOMAIN v.boards = DOMAIN w.boards \ Owned(w.boards, "projectId", {p})
  BY DropDomain DEF DeleteProject
<1> HIDE DEF v
<1>2. \A a \in DOMAIN w.assets \ DOMAIN v.assets :
        w.assets[a].referenceId \notin DOMAIN v.references
  BY <1>1 DEF Owned, Sound, Validates, AssetsOwned
<1>3. \A t \in DOMAIN w.targets \ DOMAIN v.targets :
        w.targets[t].referenceId \notin DOMAIN v.references
  BY <1>1 DEF Owned, Sound, Validates, TargetsOwned
<1>4. \A m \in DOMAIN w.moments \ DOMAIN v.moments :
        w.moments[m].targetId \notin DOMAIN v.targets
  BY <1>1 DEF Owned, Sound, Validates, MomentsOwned
<1>5. \A s \in DOMAIN w.selections \ DOMAIN v.selections :
        w.selections[s].targetId \notin DOMAIN v.targets
  BY <1>1 DEF Owned, Sound, Validates, SelectionsOwned
<1>6. /\ \A b \in DOMAIN w.boards \ DOMAIN v.boards : w.boards[b].projectId \notin v.projects
      /\ \A r \in DOMAIN w.references \ DOMAIN v.references :
           w.references[r].projectId \notin v.projects
  BY <1>1 DEF Owned
<1> QED BY <1>2, <1>3, <1>4, <1>5, <1>6 DEF RemovesOwned, v

\* Only the two deletions remove anything, whatever chain of operations an edit is.
LEMMA EditRemovesOwned ==
  ASSUME Sound(workspace), Edit
  PROVE  RemovesOwned(workspace, workspace')
<1> DEFINE w == workspace
<1>0. Shaped(w)
  BY SoundShaped
<1>1. SUFFICES ASSUME ~RemoveReference, ~RemoveProject
               PROVE  Larger(w, w')
  BY LargerRemovesNothing, ReferenceDeletionOwned, ProjectDeletionOwned
     DEF RemoveReference, RemoveProject
<1>2. \A u, v : Larger(w, u) /\ Larger(u, v) => Larger(w, v)
  BY LargerTransitive
<1>3. CASE AddProject
  BY <1>0, <1>3, CreationsGrow DEF AddProject
<1>4. CASE AddProjectWithBoard
  <2>1. PICK p, b : w' = CreateBoard(CreateProject(w, p), b, p)
    BY <1>4 DEF AddProjectWithBoard
  <2>2. Larger(w, CreateProject(w, p))
    BY <1>0, CreationsGrow
  <2>3. Shaped(CreateProject(w, p))
    BY <2>2 DEF Larger
  <2>4. Larger(CreateProject(w, p), CreateBoard(CreateProject(w, p), b, p))
    BY <2>3, CreationsGrow
  <2> QED BY <2>1, <2>2, <2>4, <1>2
<1>5. CASE AddReference
  BY <1>0, <1>5, CreationsGrow DEF AddReference
<1>6. CASE CaptureReference
  <2>1. PICK r, p, a : w' = RecordSignal(CreateAsset(CreateReference(w, r, p), a, r), p, r)
    BY <1>6 DEF CaptureReference
  <2> DEFINE u == CreateReference(w, r, p)
             v == CreateAsset(u, a, r)
  <2>2. Larger(w, u)
    BY <1>0, CreationsGrow
  <2> HIDE DEF u
  <2>3. Larger(u, v)
    BY <2>2, CreationsGrow DEF Larger
  <2> HIDE DEF v
  <2>4. Larger(v, RecordSignal(v, p, r))
    BY <2>3, CreationsGrow DEF Larger
  <2> QED BY <2>1, <2>2, <2>3, <2>4, <1>2 DEF u, v
<1>7. CASE EnrichReference
  BY <1>0, <1>7, CreationsGrow DEF EnrichReference
<1>8. CASE AddAsset
  BY <1>0, <1>8, CreationsGrow DEF AddAsset
<1>9. CASE AddTarget
  BY <1>0, <1>9, CreationsGrow DEF AddTarget
<1>10. CASE AddMoment
  BY <1>0, <1>10, CreationsGrow DEF AddMoment
<1>11. CASE Checkpoint
  <2>1. PICK r, t, m, a, stored :
          /\ stored \in {w, CreateAsset(w, a, r)}
          /\ w' = CreateMoment(CreateTarget(stored, t, r, a), m, t)
    BY <1>11 DEF Checkpoint
  <2>2. Larger(w, w)
    BY <1>0 DEF Larger
  <2>3. Larger(w, stored)
    BY <1>0, <2>1, <2>2, CreationsGrow
  <2> DEFINE u == CreateTarget(stored, t, r, a)
  <2>4. Larger(stored, u)
    BY <2>3, CreationsGrow DEF Larger
  <2> HIDE DEF u
  <2>5. Larger(u, CreateMoment(u, m, t))
    BY <2>4, CreationsGrow DEF Larger
  <2> QED BY <2>1, <2>3, <2>4, <2>5, <1>2 DEF u
<1>12. CASE AddSelection
  BY <1>0, <1>12, CreationsGrow DEF AddSelection
<1>13. CASE AddToBoard
  BY <1>0, <1>13, CreationsGrow DEF AddToBoard
<1>14. CASE SaveSelection
  <2>1. PICK r, t, a, m, s, b : w' = PlaceOnBoard(Selected(w, t, r, a, m, s), b, s)
    BY <1>14 DEF SaveSelection
  <2> DEFINE u == CreateTarget(w, t, r, a)
             v == IF m = NoId THEN u ELSE CreateMoment(u, m, t)
             x == CreateSelection(v, s, w.references[r].projectId, t, m)
             y == IF b \in DOMAIN x.boards THEN x ELSE CreateBoard(x, b, x.selections[s].projectId)
  <2>2. Larger(w, u)
    BY <1>0, CreationsGrow
  <2> HIDE DEF u
  <2>3. Larger(u, u) /\ \A n, o : Larger(u, CreateMoment(u, n, o))
    BY <2>2, CreationsGrow DEF Larger
  <2>4. Larger(u, v)
    BY <2>3
  <2> HIDE DEF v
  <2>5. Larger(v, x)
    BY <2>4, CreationsGrow DEF Larger
  <2> HIDE DEF x
  <2>6. Larger(x, x) /\ \A n, o : Larger(x, CreateBoard(x, n, o))
    BY <2>5, CreationsGrow DEF Larger
  <2>7. Larger(x, y)
    BY <2>6
  <2> HIDE DEF y
  <2>8. \A ids : Larger(y, SetBoard(y, b, ids))
    BY <2>7, CreationsGrow DEF Larger
  <2>9. w' = SetBoard(y, b, Append(y.boards[b].selectionIds, s))
    BY <2>1 DEF PlaceOnBoard, Selected, y, x, v, u
  <2> QED BY <2>2, <2>4, <2>5, <2>7, <2>8, <2>9, <1>2
<1>15. CASE ReorderBoard
  BY <1>0, <1>15, CreationsGrow DEF ReorderBoard
<1>16. CASE TakeOffBoard
  BY <1>0, <1>16, CreationsGrow DEF TakeOffBoard, RemoveFromBoard
<1> QED BY <1>1, <1>3, <1>4, <1>5, <1>6, <1>7, <1>8, <1>9, <1>10, <1>11, <1>12, <1>13,
           <1>14, <1>15, <1>16 DEF Edit

----------------------------------------------------------------------------
(* Blank ids: only an edit that is given one leaves one, in what it adds. *)

Unblanked(w) == BlankTargets(w) \cup BlankSelections(w) = {}

\* Nothing names a blank entity: it was added by the last edit.
BlankLast(w) ==
  /\ \A m \in DOMAIN w.moments : w.moments[m].targetId \notin BlankTargets(w)
  /\ \A s \in DOMAIN w.selections : w.selections[s].targetId \notin BlankTargets(w)
  /\ \A b \in DOMAIN w.boards : \A i \in DOMAIN w.boards[b].selectionIds :
       w.boards[b].selectionIds[i] \notin BlankSelections(w)

LEMMA UnblankedLast == \A w : Unblanked(w) => BlankLast(w)
BY DEF Unblanked, BlankLast

Clean(w) == Shaped(w) /\ Unblanked(w)

LEMMA CleanCollections ==
  ASSUME NEW w, Clean(w), NEW v, Shaped(v),
         \A t \in DOMAIN v.targets :
           \/ t \in DOMAIN w.targets /\ v.targets[t] = w.targets[t]
           \/ v.targets[t].assetId # EmptyId,
         \A s \in DOMAIN v.selections :
           \/ s \in DOMAIN w.selections /\ v.selections[s] = w.selections[s]
           \/ v.selections[s].momentId # EmptyId
  PROVE  Clean(v)
<1>1. \A t \in DOMAIN w.targets : w.targets[t].assetId # EmptyId
  BY DEF Clean, Unblanked, BlankTargets, Owned
<1>2. \A s \in DOMAIN w.selections : w.selections[s].momentId # EmptyId
  BY DEF Clean, Unblanked, BlankSelections, Owned
<1> QED BY <1>1, <1>2 DEF Clean, Unblanked, BlankTargets, BlankSelections, Owned

\* What an operation puts in and what the others keep.
LEMMA PutHas ==
  ASSUME NEW C, NEW x, NEW e, NEW y \in DOMAIN Put(C, x, e)
  PROVE  IF y = x THEN Put(C, x, e)[y] = e
                  ELSE y \in DOMAIN C /\ Put(C, x, e)[y] = C[y]
BY DEF Put

LEMMA DropHas ==
  ASSUME NEW C, NEW S, NEW y \in DOMAIN Drop(C, S)
  PROVE  y \in DOMAIN C \ S /\ Drop(C, S)[y] = C[y]
BY DEF Drop, Restrict

\* No operation that is not given the empty id adds it.
LEMMA OperationsClean ==
  ASSUME NEW w, Clean(w)
  PROVE  /\ \A p : Clean(CreateProject(w, p))
         /\ \A r, p : Clean(CreateReference(w, r, p))
         /\ \A a, r : Clean(CreateAsset(w, a, r))
         /\ \A t, r, a : a # EmptyId => Clean(CreateTarget(w, t, r, a))
         /\ \A m, t : Clean(CreateMoment(w, m, t))
         /\ \A s, p, t, m : m # EmptyId => Clean(CreateSelection(w, s, p, t, m))
         /\ \A b, p : Clean(CreateBoard(w, b, p))
         /\ \A b, ids : Clean(SetBoard(w, b, ids))
         /\ \A p, r : Clean(RecordSignal(w, p, r))
         /\ \A r : Clean(DeleteReference(w, r))
         /\ \A p : Clean(DeleteProject(w, p))
<1>0. Shaped(w)
  BY DEF Clean
<1>1. \A v : /\ Shaped(v) /\ v.targets = w.targets /\ v.selections = w.selections
             => Clean(v)
  BY CleanCollections
<1>2. \A p : Clean(CreateProject(w, p))
  BY <1>0, <1>1 DEF Shaped, Assembled, CreateProject
<1>3. \A r, p : Clean(CreateReference(w, r, p))
  BY <1>0, <1>1 DEF Shaped, Assembled, CreateReference
<1>4. \A a, r : Clean(CreateAsset(w, a, r))
  BY <1>0, <1>1 DEF Shaped, Assembled, CreateAsset
<1>5. ASSUME NEW t, NEW r, NEW a, a # EmptyId
      PROVE  Clean(CreateTarget(w, t, r, a))
  <2> DEFINE v == CreateTarget(w, t, r, a)
             e == [projectId |-> w.references[r].projectId, referenceId |-> r, assetId |-> a]
  <2>1. Shaped(v) /\ v.targets = Put(w.targets, t, e) /\ v.selections = w.selections
    BY <1>0 DEF Shaped, Assembled, CreateTarget
  <2>2. e.assetId # EmptyId
    BY <1>5
  <2> HIDE DEF v, e
  <2>3. \A x \in DOMAIN v.targets :
          \/ x \in DOMAIN w.targets /\ v.targets[x] = w.targets[x]
          \/ v.targets[x].assetId # EmptyId
    BY <2>1, <2>2, PutHas
  <2>4. Clean(v)
    BY <2>1, <2>3, CleanCollections
  <2> QED BY <2>4 DEF v
<1>6. \A m, t : Clean(CreateMoment(w, m, t))
  BY <1>0, <1>1 DEF Shaped, Assembled, CreateMoment
<1>7. ASSUME NEW s, NEW p, NEW t, NEW m, m # EmptyId
      PROVE  Clean(CreateSelection(w, s, p, t, m))
  <2> DEFINE v == CreateSelection(w, s, p, t, m)
             e == [projectId |-> p, targetId |-> t, momentId |-> m]
  <2>1. Shaped(v) /\ v.selections = Put(w.selections, s, e) /\ v.targets = w.targets
    BY <1>0 DEF Shaped, Assembled, CreateSelection
  <2>2. e.momentId # EmptyId
    BY <1>7
  <2> HIDE DEF v, e
  <2>3. \A x \in DOMAIN v.selections :
          \/ x \in DOMAIN w.selections /\ v.selections[x] = w.selections[x]
          \/ v.selections[x].momentId # EmptyId
    BY <2>1, <2>2, PutHas
  <2>4. Clean(v)
    BY <2>1, <2>3, CleanCollections
  <2> QED BY <2>4 DEF v
<1>8. \A b, p : Clean(CreateBoard(w, b, p))
  BY <1>0, <1>1 DEF Shaped, Assembled, CreateBoard
<1>9. \A b, ids : Clean(SetBoard(w, b, ids))
  BY <1>0, <1>1 DEF Shaped, Assembled, SetBoard
<1>10. \A p, r : Clean(RecordSignal(w, p, r))
  BY <1>0, <1>1 DEF Shaped, Assembled, RecordSignal
<1>11. ASSUME NEW v, Shaped(v), NEW T, NEW S,
              v.targets = Drop(w.targets, T), v.selections = Drop(w.selections, S)
       PROVE  Clean(v)
  <2>1. /\ \A t \in DOMAIN v.targets : t \in DOMAIN w.targets /\ v.targets[t] = w.targets[t]
        /\ \A s \in DOMAIN v.selections :
             s \in DOMAIN w.selections /\ v.selections[s] = w.selections[s]
    BY <1>11, DropHas
  <2> QED BY <1>11, <2>1, CleanCollections
<1>12. ASSUME NEW r PROVE Clean(DeleteReference(w, r))
  <2> DEFINE v == DeleteReference(w, r)
             T == Owned(w.targets, "referenceId", {r})
             S == Owned(w.selections, "targetId", T)
                    \cup Owned(w.selections, "momentId", Owned(w.moments, "targetId", T))
  <2>1. Shaped(v) /\ v.targets = Drop(w.targets, T) /\ v.selections = Drop(w.selections, S)
    BY DEF Shaped, Assembled, DeleteReference
  <2> HIDE DEF v, T, S
  <2>2. Clean(v)
    BY <2>1, <1>11
  <2> QED BY <2>2 DEF v
<1>13. ASSUME NEW p PROVE Clean(DeleteProject(w, p))
  <2> DEFINE v == DeleteProject(w, p)
             T == Owned(w.targets, "projectId", {p})
             S == Owned(w.selections, "projectId", {p})
  <2>1. Shaped(v) /\ v.targets = Drop(w.targets, T) /\ v.selections = Drop(w.selections, S)
    BY DEF Shaped, Assembled, DeleteProject
  <2> HIDE DEF v, T, S
  <2>2. Clean(v)
    BY <2>1, <1>11
  <2> QED BY <2>2 DEF v
<1> QED BY <1>2, <1>3, <1>4, <1>5, <1>6, <1>7, <1>8, <1>9, <1>10, <1>12, <1>13

\* After an edit of a workspace without blank ids nothing names a blank entity.
LEMMA EditBlankLast ==
  ASSUME Sound(workspace), Unblanked(workspace), Edit
  PROVE  BlankLast(workspace')
<1> DEFINE w == workspace
<1>0. Clean(w) /\ Shaped(w)
  BY SoundShaped DEF Clean
<1>1. ASSUME Clean(w') PROVE BlankLast(w')
  BY <1>1, UnblankedLast DEF Clean
<1>2. NoId # EmptyId /\ EmptyId \notin AssetIds /\ EmptyId \notin MomentIds
  BY OptionalIds
<1>3. CASE AddTarget
  <2>1. PICK t \in NewTarget, r \in DOMAIN w.references, a \in DOMAIN w.assets \cup Falsy :
          w' = CreateTarget(w, t, r, a)
    BY <1>3 DEF AddTarget
  <2> DEFINE v == CreateTarget(w, t, r, a)
             e == [projectId |-> w.references[r].projectId, referenceId |-> r, assetId |-> a]
  <2>2. /\ v.targets = Put(w.targets, t, e) /\ v.selections = w.selections
        /\ v.moments = w.moments /\ v.boards = w.boards
    BY <1>0 DEF Shaped, Assembled, CreateTarget
  <2> HIDE DEF v, e
  <2>3. \A x \in BlankTargets(v) : x = t
    <3> SUFFICES ASSUME NEW x \in BlankTargets(v), x # t
                 PROVE  FALSE
      OBVIOUS
    <3>1. x \in DOMAIN w.targets /\ v.targets[x] = w.targets[x]
      BY <2>2, PutHas DEF BlankTargets, Owned
    <3> QED BY <3>1 DEF Unblanked, BlankTargets, Owned
  <2>4. BlankSelections(v) = {}
    BY <2>2 DEF Unblanked, BlankSelections
  <2>5. t \notin DOMAIN w.targets
    BY DEF NewTarget
  <2>6. /\ \A m \in DOMAIN w.moments : w.moments[m].targetId \in DOMAIN w.targets
        /\ \A s \in DOMAIN w.selections : w.selections[s].targetId \in DOMAIN w.targets
    BY DEF Sound, Validates, MomentsOwned, SelectionsOwned
  <2>7. BlankLast(v)
    BY <2>2, <2>3, <2>4, <2>5, <2>6 DEF BlankLast
  <2> QED BY <2>1, <2>7 DEF v
<1>4. CASE AddSelection
  <2>1. PICK s \in NewSelection, p \in w.projects, t \in DOMAIN w.targets,
             m \in DOMAIN w.moments \cup Falsy :
          w' = CreateSelection(w, s, p, t, m)
    BY <1>4 DEF AddSelection
  <2> DEFINE v == CreateSelection(w, s, p, t, m)
             e == [projectId |-> p, targetId |-> t, momentId |-> m]
  <2>2. /\ v.selections = Put(w.selections, s, e) /\ v.targets = w.targets
        /\ v.moments = w.moments /\ v.boards = w.boards
    BY <1>0 DEF Shaped, Assembled, CreateSelection
  <2> HIDE DEF v, e
  <2>3. \A x \in BlankSelections(v) : x = s
    <3> SUFFICES ASSUME NEW x \in BlankSelections(v), x # s
                 PROVE  FALSE
      OBVIOUS
    <3>1. x \in DOMAIN w.selections /\ v.selections[x] = w.selections[x]
      BY <2>2, PutHas DEF BlankSelections, Owned
    <3> QED BY <3>1 DEF Unblanked, BlankSelections, Owned
  <2>4. BlankTargets(v) = {}
    BY <2>2 DEF Unblanked, BlankTargets
  <2>5. s \notin DOMAIN w.selections
    BY DEF NewSelection
  <2>6. \A b \in DOMAIN w.boards : \A i \in DOMAIN w.boards[b].selectionIds :
          w.boards[b].selectionIds[i] \in DOMAIN w.selections
    BY DEF Sound, Validates, BoardsOwned
  <2>7. BlankLast(v)
    BY <2>2, <2>3, <2>4, <2>5, <2>6 DEF BlankLast
  <2> QED BY <2>1, <2>7 DEF v
<1>5. CASE AddProject
  BY <1>0, <1>1, <1>5, OperationsClean DEF AddProject
<1>6. CASE AddProjectWithBoard
  <2>1. PICK p, b : w' = CreateBoard(CreateProject(w, p), b, p)
    BY <1>6 DEF AddProjectWithBoard
  <2>2. Clean(CreateProject(w, p))
    BY <1>0, OperationsClean
  <2>3. Clean(CreateBoard(CreateProject(w, p), b, p))
    BY <2>2, OperationsClean
  <2> QED BY <1>1, <2>1, <2>3
<1>7. CASE AddReference
  BY <1>0, <1>1, <1>7, OperationsClean DEF AddReference
<1>8. CASE CaptureReference
  <2>1. PICK r, p, a : w' = RecordSignal(CreateAsset(CreateReference(w, r, p), a, r), p, r)
    BY <1>8 DEF CaptureReference
  <2> DEFINE u == CreateReference(w, r, p)
             v == CreateAsset(u, a, r)
  <2>2. Clean(u)
    BY <1>0, OperationsClean
  <2> HIDE DEF u
  <2>3. Clean(v)
    BY <2>2, OperationsClean
  <2> HIDE DEF v
  <2>4. Clean(RecordSignal(v, p, r))
    BY <2>3, OperationsClean
  <2> QED BY <1>1, <2>1, <2>4 DEF u, v
<1>9. CASE EnrichReference
  BY <1>0, <1>1, <1>9, OperationsClean DEF EnrichReference
<1>10. CASE AddAsset
  BY <1>0, <1>1, <1>10, OperationsClean DEF AddAsset
<1>11. CASE AddMoment
  BY <1>0, <1>1, <1>11, OperationsClean DEF AddMoment
<1>12. CASE Checkpoint
  <2>1. PICK r, t, m, a, stored :
          /\ a \in NewAsset \cup Owned(w.assets, "referenceId", {r})
          /\ stored \in {w, CreateAsset(w, a, r)}
          /\ w' = CreateMoment(CreateTarget(stored, t, r, a), m, t)
    BY <1>12 DEF Checkpoint
  <2>2. a # EmptyId
    BY <1>2, <2>1 DEF NewAsset, Owned, Sound, IsWorkspace, Partial
  <2>3. Clean(stored)
    BY <1>0, <2>1, OperationsClean
  <2> DEFINE u == CreateTarget(stored, t, r, a)
  <2>4. Clean(u)
    BY <2>2, <2>3, OperationsClean
  <2> HIDE DEF u
  <2>5. Clean(CreateMoment(u, m, t))
    BY <2>4, OperationsClean
  <2> QED BY <1>1, <2>1, <2>5 DEF u
<1>13. CASE AddToBoard
  BY <1>0, <1>1, <1>13, OperationsClean DEF AddToBoard
<1>14. CASE SaveSelection
  <2>1. PICK r, t, a, m, s, b :
          /\ a \in DOMAIN w.assets \cup {NoId} /\ m \in NewMoment \cup {NoId}
          /\ w' = PlaceOnBoard(Selected(w, t, r, a, m, s), b, s)
    BY <1>14 DEF SaveSelection
  <2> DEFINE u == CreateTarget(w, t, r, a)
             v == IF m = NoId THEN u ELSE CreateMoment(u, m, t)
             x == CreateSelection(v, s, w.references[r].projectId, t, m)
             y == IF b \in DOMAIN x.boards THEN x ELSE CreateBoard(x, b, x.selections[s].projectId)
  <2>2. a # EmptyId /\ m # EmptyId
    BY <1>2, <2>1 DEF NewMoment, Sound, IsWorkspace, Partial
  <2>3. Clean(u)
    BY <1>0, <2>2, OperationsClean
  <2> HIDE DEF u
  <2>4. Clean(v)
    BY <2>3, OperationsClean
  <2> HIDE DEF v
  <2>5. Clean(x)
    BY <2>2, <2>4, OperationsClean
  <2> HIDE DEF x
  <2>6. Clean(y)
    BY <2>5, OperationsClean
  <2> HIDE DEF y
  <2>7. Clean(SetBoard(y, b, Append(y.boards[b].selectionIds, s)))
    BY <2>6, OperationsClean
  <2>8. w' = SetBoard(y, b, Append(y.boards[b].selectionIds, s))
    BY <2>1 DEF PlaceOnBoard, Selected, y, x, v, u
  <2> QED BY <1>1, <2>7, <2>8
<1>15. CASE ReorderBoard
  BY <1>0, <1>1, <1>15, OperationsClean DEF ReorderBoard
<1>16. CASE TakeOffBoard
  BY <1>0, <1>1, <1>16, OperationsClean DEF TakeOffBoard, RemoveFromBoard
<1>17. CASE RemoveReference
  BY <1>0, <1>1, <1>17, OperationsClean DEF RemoveReference
<1>18. CASE RemoveProject
  BY <1>0, <1>1, <1>18, OperationsClean DEF RemoveProject
<1> QED BY <1>3, <1>4, <1>5, <1>6, <1>7, <1>8, <1>9, <1>10, <1>11, <1>12, <1>13, <1>14,
           <1>15, <1>16, <1>17, <1>18 DEF Edit

\* The workspace before a refused one: what is left without the blank entities.
Unrefused(w) ==
  [w EXCEPT !.targets = Drop(@, BlankTargets(w)),
            !.selections = Drop(@, BlankSelections(w))]

LEMMA RefusedSound ==
  ASSUME NEW w, Sound(w), BlankLast(w)
  PROVE  Sound(Unrefused(w)) /\ Unblanked(Unrefused(w))
<1> DEFINE v == Unrefused(w)
           T == BlankTargets(w)
           S == BlankSelections(w)
<1>1. v = Assembled(w.projects, w.references, w.assets, Drop(w.targets, T),
                    w.moments, Drop(w.selections, S), w.boards, w.signals)
  <2>1. w = Assembled(w.projects, w.references, w.assets, w.targets,
                      w.moments, w.selections, w.boards, w.signals)
    BY DEF Sound, IsWorkspace, Assembled
  <2>2. v = [w EXCEPT !.targets = Drop(w.targets, T), !.selections = Drop(w.selections, S)]
    BY DEF Unrefused
  <2> HIDE DEF v, T, S
  <2> QED BY <2>1, <2>2 DEF Assembled
<1>2. /\ T = {t \in DOMAIN w.targets : w.targets[t].assetId = EmptyId}
      /\ S = {s \in DOMAIN w.selections : w.selections[s].momentId = EmptyId}
  BY DEF BlankTargets, BlankSelections, Owned
<1>3. /\ \A m \in DOMAIN w.moments : w.moments[m].targetId \notin T
      /\ \A s \in DOMAIN w.selections : w.selections[s].targetId \notin T
      /\ \A b \in DOMAIN w.boards : \A i \in DOMAIN w.boards[b].selectionIds :
           w.boards[b].selectionIds[i] \notin S
  BY DEF BlankLast
<1> HIDE DEF v, T, S
<1>4. /\ Partial(Drop(w.targets, T), TargetIds,
               [projectId : ProjectIds, referenceId : ReferenceIds,
                assetId : AssetIds \cup Falsy])
      /\ DOMAIN Drop(w.targets, T) = DOMAIN w.targets \ T
      /\ \A x \in DOMAIN w.targets \ T : Drop(w.targets, T)[x] = w.targets[x]
  BY DEF Sound, IsWorkspace, Partial, Drop, Restrict
<1>5. /\ Partial(Drop(w.selections, S), SelectionIds,
               [projectId : ProjectIds, targetId : TargetIds,
                momentId : MomentIds \cup Falsy])
      /\ DOMAIN Drop(w.selections, S) = DOMAIN w.selections \ S
      /\ \A x \in DOMAIN w.selections \ S : Drop(w.selections, S)[x] = w.selections[x]
  BY DEF Sound, IsWorkspace, Partial, Drop, Restrict
<1>6. IsWorkspace(v)
  BY <1>1, <1>4, <1>5 DEF Sound, IsWorkspace, Assembled
<1>7. ReferencesOwned(v) /\ AssetsOwned(v) /\ SignalsOwned(v) /\ SignalsLive(v)
  BY <1>1 DEF Assembled, Sound, Validates, ReferencesOwned, AssetsOwned, SignalsOwned,
     SignalsLive
<1>8. TargetsOwned(v)
  BY <1>1, <1>4 DEF Assembled, Sound, Validates, TargetsOwned
<1>9. MomentsOwned(v)
  BY <1>1, <1>3, <1>4 DEF Assembled, Sound, Validates, MomentsOwned
<1>10. SelectionsOwned(v)
  BY <1>1, <1>3, <1>4, <1>5 DEF Assembled, Sound, Validates, SelectionsOwned
<1>11. BoardsOwned(v)
  BY <1>1, <1>3, <1>5 DEF Assembled, Sound, Validates, BoardsOwned
<1>12. Unblanked(v)
  BY <1>1, <1>2, <1>4, <1>5 DEF Assembled, Unblanked, BlankTargets, BlankSelections, Owned
<1> QED BY <1>6, <1>7, <1>8, <1>9, <1>10, <1>11, <1>12 DEF Sound, Validates, v

----------------------------------------------------------------------------
(* The rows of a workspace.                                               *)

TableNames ==
  {"projects", "references", "assets", "targets", "moments", "selections",
   "boards", "board_selections", "signals"}

LEMMA Tables ==
  /\ Range(InsertOrder) = TableNames
  /\ Position("projects") = 1 /\ Position("references") = 2 /\ Position("assets") = 3
  /\ Position("targets") = 4 /\ Position("moments") = 5 /\ Position("selections") = 6
  /\ Position("boards") = 7 /\ Position("board_selections") = 8 /\ Position("signals") = 9
<1>1. DOMAIN InsertOrder = 1 .. 9
  BY DEF InsertOrder
<1>2. /\ InsertOrder[1] = "projects" /\ InsertOrder[2] = "references"
      /\ InsertOrder[3] = "assets" /\ InsertOrder[4] = "targets"
      /\ InsertOrder[5] = "moments" /\ InsertOrder[6] = "selections"
      /\ InsertOrder[7] = "boards" /\ InsertOrder[8] = "board_selections"
      /\ InsertOrder[9] = "signals"
  BY DEF InsertOrder
<1>3. \A i \in 1 .. 9 : i \in {1, 2, 3, 4, 5, 6, 7, 8, 9}
  OBVIOUS
<1>4. Range(InsertOrder) = TableNames
  BY <1>1, <1>2, <1>3 DEF Range, TableNames
<1>5. \A i, k \in 1 .. 9 : InsertOrder[i] = InsertOrder[k] => i = k
  BY <1>2, <1>3
<1>6. \A i \in 1 .. 9 : Position(InsertOrder[i]) = i
  BY <1>1, <1>5 DEF Position
<1> QED BY <1>2, <1>4, <1>6

\* What workspaceToRows puts into each table.
Bare(w) == [b \in DOMAIN w.boards |-> [w.boards[b] EXCEPT !.selectionIds = << >>]]

LEMMA RowsByTable ==
  ASSUME NEW w
  PROVE  LET rows == Rows(w)
         IN  /\ rows["projects"] = {[id |-> p] : p \in w.projects}
             /\ rows["references"] = RowOf(w.references)
             /\ rows["assets"] = RowOf(w.assets)
             /\ rows["targets"] = RowOf(w.targets)
             /\ rows["moments"] = RowOf(w.moments)
             /\ rows["selections"] = RowOf(w.selections)
             /\ rows["boards"] = RowOf(Bare(w))
             /\ rows["board_selections"] = BoardRows(w)
             /\ rows["signals"] = w.signals
<1>1. TableNames = Range(InsertOrder)
  BY Tables
<1>2. Rows(w) =
        [table \in TableNames |->
           CASE table = "projects"         -> {[id |-> p] : p \in w.projects}
             [] table = "board_selections" -> BoardRows(w)
             [] table = "signals"          -> w.signals
             [] table = "boards"           -> RowOf(Bare(w))
             [] OTHER                      -> RowOf(w[table])]
  BY <1>1 DEF Rows, Bare
<1> QED BY <1>2 DEF TableNames

\* The entries of one board.
EntryOf(w, b, i) ==
  [board_id |-> b, selection_id |-> w.boards[b].selectionIds[i], position |-> i - 1]

LEMMA BoardRowsAre ==
  ASSUME NEW w, NEW x
  PROVE  x \in BoardRows(w) <=>
           \E b \in DOMAIN w.boards :
             \E i \in DOMAIN w.boards[b].selectionIds : x = EntryOf(w, b, i)
BY DEF BoardRows, EntryOf

LEMMA BoardShape ==
  ASSUME NEW w, Sound(w), NEW b \in DOMAIN w.boards
  PROVE  LET ids == w.boards[b].selectionIds
         IN  /\ ids \in Seq(SelectionIds) /\ IsInjective(ids)
             /\ DOMAIN ids = 1 .. Len(ids) /\ Len(ids) \in Nat
             /\ w.boards[b] = [projectId |-> w.boards[b].projectId, selectionIds |-> ids]
             /\ \A i \in DOMAIN ids : ids[i] \in DOMAIN w.selections
<1>1. w.boards[b] \in [projectId : ProjectIds, selectionIds : Seq(SelectionIds)]
  BY DEF Sound, IsWorkspace, Partial
<1>2. IsInjective(w.boards[b].selectionIds)
      /\ \A i \in DOMAIN w.boards[b].selectionIds :
           w.boards[b].selectionIds[i] \in DOMAIN w.selections
  BY DEF Sound, Validates, BoardsOwned
<1> QED BY <1>1, <1>2

\* The database's keys hold of the entries: a board has a Selection once, and one entry
\* at each position.
LEMMA RowsUnique == ASSUME NEW w, Sound(w) PROVE EntriesUnique(Rows(w))
<1> SUFFICES ASSUME NEW x \in BoardRows(w), NEW y \in BoardRows(w),
                    x.board_id = y.board_id,
                    x.selection_id = y.selection_id \/ x.position = y.position
             PROVE  x = y
  BY RowsByTable DEF EntriesUnique
<1>1. PICK b, i : b \in DOMAIN w.boards /\ i \in DOMAIN w.boards[b].selectionIds /\ x = EntryOf(w, b, i)
  BY BoardRowsAre
<1>2. PICK c, k : c \in DOMAIN w.boards /\ k \in DOMAIN w.boards[c].selectionIds /\ y = EntryOf(w, c, k)
  BY BoardRowsAre
<1>3. b = c
  BY <1>1, <1>2 DEF EntryOf
<1> DEFINE ids == w.boards[b].selectionIds
<1>4. IsInjective(ids) /\ i \in 1 .. Len(ids) /\ k \in 1 .. Len(ids) /\ Len(ids) \in Nat
  BY <1>1, <1>2, <1>3, BoardShape
<1>5. ids[i] = ids[k] \/ i - 1 = k - 1
  BY <1>1, <1>2, <1>3 DEF EntryOf
<1>6. i = k
  BY <1>1, <1>2, <1>3, <1>4, <1>5 DEF IsInjective
<1> QED BY <1>1, <1>2, <1>3, <1>6

----------------------------------------------------------------------------
(* Foreign keys.                                                          *)

\* A key of one field, and one of two that is not looked at when one is null.
LEMMA SingleKey ==
  ASSUME NEW rows, NEW t, NEW parent, NEW f, NEW k,
         Position(parent) < Position(t),
         \A row \in rows[t] : \E named \in rows[parent] : Field(named, k) = Field(row, f)
  PROVE  Inserts(rows, [table |-> t, fields |-> <<f>>, parent |-> parent, key |-> <<k>>])
<1>1. \A row, g : FieldsOf(row, <<g>>) = <<Field(row, g)>>
  BY DEF FieldsOf
<1> QED BY <1>1 DEF Inserts

LEMMA DoubleKey ==
  ASSUME NEW rows, NEW t, NEW parent, NEW f, NEW g, NEW k, NEW l,
         Position(parent) < Position(t),
         \A row \in rows[t] :
           \/ Field(row, f) = NoId
           \/ \E named \in rows[parent] :
                Field(named, k) = Field(row, f) /\ Field(named, l) = Field(row, g)
  PROVE  Inserts(rows, [table |-> t, fields |-> <<f, g>>, parent |-> parent, key |-> <<k, l>>])
<1>1. \A row, a, c : FieldsOf(row, <<a, c>>) = <<Field(row, a), Field(row, c)>>
  BY DEF FieldsOf
<1>2. \A v, u : v \in Range(<<v, u>>)
  BY DEF Range
<1> QED BY <1>1, <1>2 DEF Inserts

\* A field of the row of an entity.
LEMMA EntityFields ==
  ASSUME NEW C, NEW row \in RowOf(C)
  PROVE  /\ row.id \in DOMAIN C /\ Field(row, "id") = row.id
         /\ \A f : f \notin {"id", "entity"} => Field(row, f) = C[row.id][f]
BY DEF RowOf, Field

LEMMA EntityRow ==
  ASSUME NEW C, NEW x \in DOMAIN C
  PROVE  \E row \in RowOf(C) : row.id = x
<1>1. [id |-> x, entity |-> C[x]] \in RowOf(C)
  BY DEF RowOf
<1>2. [id |-> x, entity |-> C[x]].id = x
  OBVIOUS
<1> QED BY <1>1, <1>2

\* The row a key of two fields names.
LEMMA RowNamed ==
  ASSUME NEW C, NEW x \in DOMAIN C, NEW f, f \notin {"id", "entity"}
  PROVE  \E row \in RowOf(C) : Field(row, "id") = x /\ Field(row, f) = C[x][f]
BY EntityRow, EntityFields

LEMMA ProjectRowNamed ==
  ASSUME NEW w, NEW p \in w.projects
  PROVE  \E row \in {[id |-> q] : q \in w.projects} : Field(row, "id") = p
<1>1. [id |-> p] \in {[id |-> q] : q \in w.projects}
  OBVIOUS
<1>2. Field([id |-> p], "id") = p
  BY DEF Field
<1> QED BY <1>1, <1>2

\* Everything is of a project there is.
LEMMA AllOfProjects ==
  ASSUME NEW w, Sound(w)
  PROVE  /\ \A x \in DOMAIN w.references : w.references[x]["projectId"] \in w.projects
         /\ \A x \in DOMAIN w.assets : w.assets[x]["projectId"] \in w.projects
         /\ \A x \in DOMAIN w.targets : w.targets[x]["projectId"] \in w.projects
         /\ \A x \in DOMAIN w.moments : w.moments[x]["projectId"] \in w.projects
         /\ \A x \in DOMAIN w.selections : w.selections[x]["projectId"] \in w.projects
         /\ \A x \in DOMAIN w.boards : w.boards[x]["projectId"] \in w.projects
         /\ \A x \in w.signals : x["projectId"] \in w.projects
<1>1. \A x \in DOMAIN w.references : w.references[x].projectId \in w.projects
  BY DEF Sound, Validates, ReferencesOwned
<1>2. \A x \in DOMAIN w.assets : w.assets[x].projectId \in w.projects
  BY <1>1 DEF Sound, Validates, AssetsOwned
<1>3. \A x \in DOMAIN w.targets : w.targets[x].projectId \in w.projects
  BY <1>1 DEF Sound, Validates, TargetsOwned
<1>4. \A x \in DOMAIN w.moments : w.moments[x].projectId \in w.projects
  BY <1>3 DEF Sound, Validates, MomentsOwned
<1>5. \A x \in DOMAIN w.selections : w.selections[x].projectId \in w.projects
  BY DEF Sound, Validates, SelectionsOwned
<1>6. \A x \in DOMAIN w.boards : w.boards[x].projectId \in w.projects
  BY DEF Sound, Validates, BoardsOwned
<1>7. \A x \in w.signals : x.projectId \in w.projects
  BY DEF Sound, Validates, SignalsOwned
<1> QED BY <1>1, <1>2, <1>3, <1>4, <1>5, <1>6, <1>7

LEMMA ProjectKeys ==
  ASSUME NEW w, Sound(w),
         NEW t \in {"references", "assets", "targets", "moments", "selections", "boards",
                    "signals"}
  PROVE  Inserts(Rows(w), [table |-> t, fields |-> <<"projectId">>,
                           parent |-> "projects", key |-> <<"id">>])
<1> DEFINE rows == Rows(w)
<1>1. Position("projects") < Position(t)
  BY Tables
<1>2. rows["projects"] = {[id |-> q] : q \in w.projects}
  BY RowsByTable
<1>3. ASSUME NEW C, rows[t] = RowOf(C), \A x \in DOMAIN C : C[x]["projectId"] \in w.projects
      PROVE  \A row \in rows[t] : Field(row, "projectId") \in w.projects
  BY <1>3, EntityFields
<1>4. \A b \in DOMAIN w.boards : Bare(w)[b]["projectId"] = w.boards[b]["projectId"]
  <2> SUFFICES ASSUME NEW b \in DOMAIN w.boards
               PROVE  Bare(w)[b]["projectId"] = w.boards[b]["projectId"]
    OBVIOUS
  <2>1. w.boards[b] = [projectId |-> w.boards[b].projectId,
                       selectionIds |-> w.boards[b].selectionIds]
    BY BoardShape
  <2> QED BY <2>1 DEF Bare
<1>5. DOMAIN Bare(w) = DOMAIN w.boards
  BY DEF Bare
<1>6. \A row \in rows[t] : Field(row, "projectId") \in w.projects
  <2>1. CASE t = "references"
    BY <1>3, <2>1, AllOfProjects, RowsByTable
  <2>2. CASE t = "assets"
    BY <1>3, <2>2, AllOfProjects, RowsByTable
  <2>3. CASE t = "targets"
    BY <1>3, <2>3, AllOfProjects, RowsByTable
  <2>4. CASE t = "moments"
    BY <1>3, <2>4, AllOfProjects, RowsByTable
  <2>5. CASE t = "selections"
    BY <1>3, <2>5, AllOfProjects, RowsByTable
  <2>6. CASE t = "boards"
    BY <1>3, <1>4, <1>5, <2>6, AllOfProjects, RowsByTable
  <2>7. CASE t = "signals"
    <3>1. rows[t] = w.signals
      BY <2>7, RowsByTable
    <3>2. \A x \in w.signals : "projectId" \in DOMAIN x
      BY DEF Sound, IsWorkspace
    <3> QED BY <3>1, <3>2, AllOfProjects DEF Field
  <2> QED BY <2>1, <2>2, <2>3, <2>4, <2>5, <2>6, <2>7
<1> HIDE DEF rows
<1>7. \A row \in rows[t] : \E named \in rows["projects"] :
        Field(named, "id") = Field(row, "projectId")
  BY <1>2, <1>6, ProjectRowNamed
<1> QED BY <1>1, <1>7, SingleKey DEF rows

\* An Asset or a Target names a Reference, a Moment or a Selection a Target of its own
\* project; the Asset of a Target is of its Reference and the Moment of a Selection of its
\* Target, unless there is none.
LEMMA OwnerKeys ==
  ASSUME NEW w, Sound(w), Unblanked(w)
  PROVE  /\ \A t \in {"assets", "targets"} :
              Inserts(Rows(w), [table |-> t, fields |-> <<"referenceId", "projectId">>,
                                parent |-> "references", key |-> <<"id", "projectId">>])
         /\ \A t \in {"moments", "selections"} :
              Inserts(Rows(w), [table |-> t, fields |-> <<"targetId", "projectId">>,
                                parent |-> "targets", key |-> <<"id", "projectId">>])
         /\ Inserts(Rows(w), [table |-> "targets", fields |-> <<"assetId", "referenceId">>,
                              parent |-> "assets", key |-> <<"id", "referenceId">>])
         /\ Inserts(Rows(w), [table |-> "selections", fields |-> <<"momentId", "targetId">>,
                              parent |-> "moments", key |-> <<"id", "targetId">>])
<1> DEFINE rows == Rows(w)
<1>1. /\ rows["references"] = RowOf(w.references) /\ rows["assets"] = RowOf(w.assets)
      /\ rows["targets"] = RowOf(w.targets) /\ rows["moments"] = RowOf(w.moments)
      /\ rows["selections"] = RowOf(w.selections)
  BY RowsByTable
<1> HIDE DEF rows
\* A key of the table that C fills, into the one that D fills.
<1>2. ASSUME NEW C, NEW D, NEW t, NEW parent, NEW f, NEW g,
             rows[t] = RowOf(C), rows[parent] = RowOf(D), Position(parent) < Position(t),
             {f, g} \cap {"id", "entity"} = {},
             \A x \in DOMAIN C : \/ C[x][f] = NoId
                                 \/ C[x][f] \in DOMAIN D /\ D[C[x][f]][g] = C[x][g]
      PROVE  Inserts(rows, [table |-> t, fields |-> <<f, g>>,
                            parent |-> parent, key |-> <<"id", g>>])
  <2>1. f \notin {"id", "entity"} /\ g \notin {"id", "entity"}
    BY <1>2
  <2>2. \A row \in rows[t] :
          \/ Field(row, f) = NoId
          \/ \E named \in rows[parent] :
               Field(named, "id") = Field(row, f) /\ Field(named, g) = Field(row, g)
    <3> SUFFICES ASSUME NEW row \in RowOf(C), Field(row, f) # NoId
                 PROVE  \E named \in RowOf(D) :
                          Field(named, "id") = Field(row, f) /\ Field(named, g) = Field(row, g)
      BY <1>2
    <3>1. /\ row.id \in DOMAIN C
          /\ Field(row, f) = C[row.id][f] /\ Field(row, g) = C[row.id][g]
      BY <2>1, EntityFields
    <3>2. C[row.id][f] \in DOMAIN D /\ D[C[row.id][f]][g] = C[row.id][g]
      BY <1>2, <3>1
    <3>3. \E named \in RowOf(D) :
            Field(named, "id") = C[row.id][f] /\ Field(named, g) = D[C[row.id][f]][g]
      BY <2>1, <3>2, RowNamed
    <3> QED BY <3>1, <3>2, <3>3
  <2> QED BY <1>2, <2>2, DoubleKey
<1>3. Inserts(rows, [table |-> "assets", fields |-> <<"referenceId", "projectId">>,
                     parent |-> "references", key |-> <<"id", "projectId">>])
  <2>1. \A x \in DOMAIN w.assets :
          /\ w.assets[x]["referenceId"] \in DOMAIN w.references
          /\ w.references[w.assets[x]["referenceId"]]["projectId"] = w.assets[x]["projectId"]
    BY DEF Sound, Validates, AssetsOwned
  <2> QED BY <1>1, <1>2, <2>1, Tables
<1>4. Inserts(rows, [table |-> "targets", fields |-> <<"referenceId", "projectId">>,
                     parent |-> "references", key |-> <<"id", "projectId">>])
  <2>1. \A x \in DOMAIN w.targets :
          /\ w.targets[x]["referenceId"] \in DOMAIN w.references
          /\ w.references[w.targets[x]["referenceId"]]["projectId"] = w.targets[x]["projectId"]
    BY DEF Sound, Validates, TargetsOwned
  <2> QED BY <1>1, <1>2, <2>1, Tables
<1>5. Inserts(rows, [table |-> "moments", fields |-> <<"targetId", "projectId">>,
                     parent |-> "targets", key |-> <<"id", "projectId">>])
  <2>1. \A x \in DOMAIN w.moments :
          /\ w.moments[x]["targetId"] \in DOMAIN w.targets
          /\ w.targets[w.moments[x]["targetId"]]["projectId"] = w.moments[x]["projectId"]
    BY DEF Sound, Validates, MomentsOwned
  <2> QED BY <1>1, <1>2, <2>1, Tables
<1>6. Inserts(rows, [table |-> "selections", fields |-> <<"targetId", "projectId">>,
                     parent |-> "targets", key |-> <<"id", "projectId">>])
  <2>1. \A x \in DOMAIN w.selections :
          /\ w.selections[x]["targetId"] \in DOMAIN w.targets
          /\ w.targets[w.selections[x]["targetId"]]["projectId"] = w.selections[x]["projectId"]
    BY DEF Sound, Validates, SelectionsOwned
  <2> QED BY <1>1, <1>2, <2>1, Tables
<1>7. Inserts(rows, [table |-> "targets", fields |-> <<"assetId", "referenceId">>,
                     parent |-> "assets", key |-> <<"id", "referenceId">>])
  <2>1. \A x \in DOMAIN w.targets :
          \/ w.targets[x]["assetId"] = NoId
          \/ /\ w.targets[x]["assetId"] \in DOMAIN w.assets
             /\ w.assets[w.targets[x]["assetId"]]["referenceId"] = w.targets[x]["referenceId"]
    <3>1. \A x \in DOMAIN w.targets : w.targets[x].assetId # EmptyId
      BY DEF Unblanked, BlankTargets, Owned
    <3> QED BY <3>1 DEF Sound, Validates, TargetsOwned, Falsy
  <2> QED BY <1>1, <1>2, <2>1, Tables
<1>8. Inserts(rows, [table |-> "selections", fields |-> <<"momentId", "targetId">>,
                     parent |-> "moments", key |-> <<"id", "targetId">>])
  <2>1. \A x \in DOMAIN w.selections :
          \/ w.selections[x]["momentId"] = NoId
          \/ /\ w.selections[x]["momentId"] \in DOMAIN w.moments
             /\ w.moments[w.selections[x]["momentId"]]["targetId"] = w.selections[x]["targetId"]
    <3>1. \A x \in DOMAIN w.selections : w.selections[x].momentId # EmptyId
      BY DEF Unblanked, BlankSelections, Owned
    <3> QED BY <3>1 DEF Sound, Validates, SelectionsOwned, Falsy
  <2> QED BY <1>1, <1>2, <2>1, Tables
<1> QED BY <1>3, <1>4, <1>5, <1>6, <1>7, <1>8 DEF rows

LEMMA EntryKeys ==
  ASSUME NEW w, Sound(w)
  PROVE  /\ Inserts(Rows(w), [table |-> "board_selections", fields |-> <<"board_id">>,
                              parent |-> "boards", key |-> <<"id">>])
         /\ Inserts(Rows(w), [table |-> "board_selections", fields |-> <<"selection_id">>,
                              parent |-> "selections", key |-> <<"id">>])
<1> DEFINE rows == Rows(w)
<1>1. /\ rows["board_selections"] = BoardRows(w)
      /\ rows["boards"] = RowOf(Bare(w)) /\ rows["selections"] = RowOf(w.selections)
  BY RowsByTable
<1> HIDE DEF rows
<1>2. ASSUME NEW row \in BoardRows(w)
      PROVE  /\ Field(row, "board_id") \in DOMAIN w.boards
             /\ Field(row, "selection_id") \in DOMAIN w.selections
  <2>1. PICK b, i : /\ b \in DOMAIN w.boards /\ i \in DOMAIN w.boards[b].selectionIds
                    /\ row = EntryOf(w, b, i)
    BY BoardRowsAre
  <2>2. /\ Field(row, "board_id") = b
        /\ Field(row, "selection_id") = w.boards[b].selectionIds[i]
    BY <2>1 DEF EntryOf, Field
  <2>3. w.boards[b].selectionIds[i] \in DOMAIN w.selections
    BY <2>1, BoardShape
  <2> QED BY <2>1, <2>2, <2>3
<1>3. DOMAIN Bare(w) = DOMAIN w.boards
  BY DEF Bare
<1>4. \A row \in rows["board_selections"] :
        \E named \in rows["boards"] : Field(named, "id") = Field(row, "board_id")
  BY <1>1, <1>2, <1>3, EntityRow, EntityFields
<1>5. \A row \in rows["board_selections"] :
        \E named \in rows["selections"] : Field(named, "id") = Field(row, "selection_id")
  BY <1>1, <1>2, EntityRow, EntityFields
<1> QED BY <1>4, <1>5, Tables, SingleKey DEF rows

\* The database takes every row in the order in which commit inserts them.
LEMMA RowsInserted ==
  ASSUME NEW w, Sound(w), Unblanked(w), NEW fk \in ForeignKeys
  PROVE  Inserts(Rows(w), fk)
BY ProjectKeys, OwnerKeys, EntryKeys DEF ForeignKeys

----------------------------------------------------------------------------
(* Reading the rows back.                                                 *)

\* A collection is what its rows say.
LEMMA EntitiesRead ==
  ASSUME NEW C, C = [x \in DOMAIN C |-> C[x]]
  PROVE  Entities(RowOf(C)) = C
<1>1. {row.id : row \in RowOf(C)} = DOMAIN C
  <2>1. \A row \in RowOf(C) : row.id \in DOMAIN C
    BY EntityFields
  <2>2. \A x \in DOMAIN C : \E row \in RowOf(C) : row.id = x
    BY EntityRow
  <2> QED BY <2>1, <2>2
<1>2. ASSUME NEW x \in DOMAIN C
      PROVE  (CHOOSE row \in RowOf(C) : row.id = x).entity = C[x]
  <2>1. \E row \in RowOf(C) : row.id = x
    BY EntityRow
  <2>2. \A row \in RowOf(C) : row.id = x => row.entity = C[x]
    BY DEF RowOf
  <2> QED BY <2>1, <2>2
<1> QED BY <1>1, <1>2 DEF Entities

\* The entries of a board are read in the order they were written.
LEMMA EntriesRead ==
  ASSUME NEW w, Sound(w), NEW b \in DOMAIN w.boards,
         NEW rows, rows["board_selections"] = BoardRows(w)
  PROVE  EntriesOf(rows, b) = w.boards[b].selectionIds
<1> DEFINE ids == w.boards[b].selectionIds
           own == {x \in BoardRows(w) : x.board_id = b}
           n == Len(ids)
           entry == [i \in 1 .. n |-> EntryOf(w, b, i)]
<1>1. ids \in Seq(SelectionIds) /\ DOMAIN ids = 1 .. n /\ n \in Nat
  BY BoardShape
<1>2. ASSUME NEW x
      PROVE  x \in own <=> \E i \in 1 .. n : x = EntryOf(w, b, i)
  BY <1>1, BoardRowsAre DEF EntryOf
<1> HIDE DEF own, n, ids
<1>3. \A i, k \in 1 .. n : EntryOf(w, b, i) = EntryOf(w, b, k) => i = k
  <2> SUFFICES ASSUME NEW i \in 1 .. n, NEW k \in 1 .. n, EntryOf(w, b, i) = EntryOf(w, b, k)
               PROVE  i = k
    OBVIOUS
  <2>1. i - 1 = k - 1
    BY DEF EntryOf
  <2> QED BY <1>1, <2>1
<1>4. entry \in Bijection(1 .. n, own)
  <2>1. entry \in [1 .. n -> own]
    BY <1>2
  <2>2. \A i, k \in 1 .. n : entry[i] = entry[k] => i = k
    BY <1>3
  <2>3. \A x \in own : \E i \in 1 .. n : entry[i] = x
    BY <1>2
  <2> HIDE DEF entry
  <2> QED BY <2>1, <2>2, <2>3 DEF Bijection, Injection, Surjection, IsInjective
<1>5. Cardinality(own) = n
  BY <1>1, <1>4, FS_CountingElements DEF ExistsBijection
<1>6. ASSUME NEW i \in 1 .. n
      PROVE  (CHOOSE x \in own : x.position = i - 1).selection_id = ids[i]
  <2>1. EntryOf(w, b, i) \in own /\ EntryOf(w, b, i).position = i - 1
    BY <1>2 DEF EntryOf
  <2>2. \A x \in own : x.position = i - 1 => x.selection_id = ids[i]
    <3> SUFFICES ASSUME NEW x \in own, x.position = i - 1
                 PROVE  x.selection_id = ids[i]
      OBVIOUS
    <3>1. PICK k \in 1 .. n : x = EntryOf(w, b, k)
      BY <1>2
    <3>2. k - 1 = i - 1 /\ x.selection_id = ids[k]
      BY <3>1 DEF EntryOf, ids
    <3>3. k = i
      BY <1>1, <3>2
    <3> QED BY <3>2, <3>3
  <2> QED BY <2>1, <2>2
<1>7. EntriesOf(rows, b) = [i \in 1 .. n |-> ids[i]]
  BY <1>5, <1>6 DEF EntriesOf, own
<1>8. ids = [i \in 1 .. n |-> ids[i]]
  BY <1>1
<1> QED BY <1>7, <1>8 DEF ids

LEMMA ReadBack ==
  ASSUME NEW w, Sound(w)
  PROVE  FromRows(Rows(w)) = w
<1> DEFINE rows == Rows(w)
           read == FromRows(rows)
           boards == Entities(rows["boards"])
<1>1. w = Assembled(w.projects, w.references, w.assets, w.targets,
                    w.moments, w.selections, w.boards, w.signals)
  BY DEF Sound, IsWorkspace, Assembled
<1>2. /\ Entities(RowOf(w.references)) = w.references
      /\ Entities(RowOf(w.assets)) = w.assets
      /\ Entities(RowOf(w.targets)) = w.targets
      /\ Entities(RowOf(w.moments)) = w.moments
      /\ Entities(RowOf(w.selections)) = w.selections
  BY EntitiesRead DEF Sound, IsWorkspace, Partial
<1>3. boards = Bare(w)
  <2>1. Bare(w) = [b \in DOMAIN Bare(w) |-> Bare(w)[b]]
    BY DEF Bare
  <2> QED BY <2>1, EntitiesRead, RowsByTable
<1>4. [b \in DOMAIN boards |-> [boards[b] EXCEPT !.selectionIds = EntriesOf(rows, b)]] = w.boards
  <2>1. DOMAIN boards = DOMAIN w.boards
    BY <1>3 DEF Bare
  <2>2. ASSUME NEW b \in DOMAIN w.boards
        PROVE  [boards[b] EXCEPT !.selectionIds = EntriesOf(rows, b)] = w.boards[b]
    <3>1. EntriesOf(rows, b) = w.boards[b].selectionIds
      BY EntriesRead, RowsByTable
    <3>2. w.boards[b] = [projectId |-> w.boards[b].projectId,
                         selectionIds |-> w.boards[b].selectionIds]
      BY BoardShape
    <3>3. boards[b] = [projectId |-> w.boards[b].projectId, selectionIds |-> << >>]
      BY <1>3, <3>2 DEF Bare
    <3> HIDE DEF boards, rows
    <3> QED BY <3>1, <3>2, <3>3
  <2>3. w.boards = [b \in DOMAIN w.boards |-> w.boards[b]]
    BY DEF Sound, IsWorkspace, Partial
  <2> HIDE DEF boards, rows
  <2> QED BY <2>1, <2>2, <2>3
<1>5. {row.id : row \in {[id |-> p] : p \in w.projects}} = w.projects
  <2> DEFINE named == {[id |-> p] : p \in w.projects}
  <2>1. \A row \in named : row.id \in w.projects
    OBVIOUS
  <2>2. ASSUME NEW p \in w.projects PROVE \E row \in named : row.id = p
    <3>1. [id |-> p] \in named /\ [id |-> p].id = p
      OBVIOUS
    <3> QED BY <3>1
  <2> HIDE DEF named
  <2>3. {row.id : row \in named} = w.projects
    BY <2>1, <2>2
  <2> QED BY <2>3 DEF named
<1>6. DOMAIN Empty = {"projects", "references", "assets", "targets", "moments", "selections",
                      "boards", "signals"}
  BY DEF Empty
<1>7. /\ read["projects"] = w.projects /\ read["references"] = w.references
      /\ read["assets"] = w.assets /\ read["targets"] = w.targets
      /\ read["moments"] = w.moments /\ read["selections"] = w.selections
      /\ read["boards"] = w.boards /\ read["signals"] = w.signals
  <2>1. /\ rows["projects"] = {[id |-> p] : p \in w.projects}
        /\ rows["references"] = RowOf(w.references)
        /\ rows["assets"] = RowOf(w.assets)
        /\ rows["targets"] = RowOf(w.targets)
        /\ rows["moments"] = RowOf(w.moments)
        /\ rows["selections"] = RowOf(w.selections)
        /\ rows["signals"] = w.signals
    BY RowsByTable
  <2> HIDE DEF rows
  <2> QED BY <1>2, <1>4, <1>5, <1>6, <2>1 DEF FromRows
<1>8. read = [c \in DOMAIN Empty |-> read[c]]
  BY DEF FromRows
<1> HIDE DEF read
<1>9. read = Assembled(w.projects, w.references, w.assets, w.targets,
                       w.moments, w.selections, w.boards, w.signals)
  BY <1>6, <1>7, <1>8 DEF Assembled
<1> QED BY <1>1, <1>9 DEF read

----------------------------------------------------------------------------
(* What the database accepts.                                             *)

\* A blank id is no null, and no row has it: its foreign key fails.
LEMMA BlankFails ==
  ASSUME NEW w, Sound(w), NEW C, NEW D, NEW x \in DOMAIN C, NEW t, NEW parent, NEW f, NEW g,
         Rows(w)[t] = RowOf(C), Rows(w)[parent] = RowOf(D),
         {f, g} \cap {"id", "entity"} = {},
         C[x][f] = EmptyId, C[x][g] # NoId, EmptyId \notin DOMAIN D
  PROVE  ~Inserts(Rows(w), [table |-> t, fields |-> <<f, g>>,
                            parent |-> parent, key |-> <<"id", g>>])
<1> DEFINE rows == Rows(w)
           fk == [table |-> t, fields |-> <<f, g>>, parent |-> parent, key |-> <<"id", g>>]
<1>1. PICK row \in RowOf(C) : row.id = x
  BY EntityRow
<1>2. Field(row, f) = EmptyId /\ Field(row, g) # NoId
  <2>1. f \notin {"id", "entity"} /\ g \notin {"id", "entity"}
    OBVIOUS
  <2> QED BY <1>1, <2>1, EntityFields
<1>3. \A r, a, c : FieldsOf(r, <<a, c>>) = <<Field(r, a), Field(r, c)>>
  BY DEF FieldsOf
<1>4. NoId \notin Range(<<Field(row, f), Field(row, g)>>)
  <2>1. NoId # EmptyId
    BY OptionalIds
  <2> QED BY <1>2, <2>1 DEF Range
<1>5. ASSUME NEW named \in RowOf(D) PROVE Field(named, "id") # EmptyId
  BY EntityFields
<1>6. ASSUME NEW named \in RowOf(D)
      PROVE  <<Field(named, "id"), Field(named, g)>> # <<Field(row, f), Field(row, g)>>
  BY <1>2, <1>5
<1>7. /\ fk.table = t /\ fk.parent = parent
      /\ FieldsOf(row, fk.fields) = <<Field(row, f), Field(row, g)>>
      /\ \A named : FieldsOf(named, fk.key) = <<Field(named, "id"), Field(named, g)>>
  BY <1>3
<1>8. row \in rows[fk.table]
  BY <1>1, <1>7
<1>9. \A named \in rows[fk.parent] : FieldsOf(named, fk.key) # FieldsOf(row, fk.fields)
  BY <1>6, <1>7
<1> HIDE DEF fk, rows
<1>10. ~Inserts(rows, fk)
  BY <1>4, <1>7, <1>8, <1>9 DEF Inserts
<1> QED BY <1>10 DEF fk, rows

\* The database accepts exactly the workspaces without blank ids.
LEMMA AcceptedUnblanked ==
  ASSUME NEW w, Sound(w)
  PROVE  Accepted(w) <=> Unblanked(w)
<1>1. ASSUME Unblanked(w) PROVE Accepted(w)
  BY <1>1, RowsUnique, RowsInserted DEF Accepted
<1>2. ASSUME NEW t \in BlankTargets(w) PROVE ~Accepted(w)
  <2> DEFINE fk == [table |-> "targets", fields |-> <<"assetId", "referenceId">>,
                    parent |-> "assets", key |-> <<"id", "referenceId">>]
  <2>1. t \in DOMAIN w.targets /\ w.targets[t]["assetId"] = EmptyId
    BY DEF BlankTargets, Owned
  <2>2. w.targets[t]["referenceId"] # NoId /\ EmptyId \notin DOMAIN w.assets
    BY <2>1, OptionalIds DEF Sound, IsWorkspace, Partial
  <2>3. Rows(w)["targets"] = RowOf(w.targets) /\ Rows(w)["assets"] = RowOf(w.assets)
    BY RowsByTable
  <2>4. ~Inserts(Rows(w), fk)
    BY <2>1, <2>2, <2>3, BlankFails
  <2>5. fk \in ForeignKeys
    BY DEF ForeignKeys
  <2> QED BY <2>4, <2>5 DEF Accepted
<1>3. ASSUME NEW s \in BlankSelections(w) PROVE ~Accepted(w)
  <2> DEFINE fk == [table |-> "selections", fields |-> <<"momentId", "targetId">>,
                    parent |-> "moments", key |-> <<"id", "targetId">>]
  <2>1. s \in DOMAIN w.selections /\ w.selections[s]["momentId"] = EmptyId
    BY DEF BlankSelections, Owned
  <2>2. w.selections[s]["targetId"] # NoId /\ EmptyId \notin DOMAIN w.moments
    BY <2>1, OptionalIds DEF Sound, IsWorkspace, Partial
  <2>3. Rows(w)["selections"] = RowOf(w.selections) /\ Rows(w)["moments"] = RowOf(w.moments)
    BY RowsByTable
  <2>4. ~Inserts(Rows(w), fk)
    BY <2>1, <2>2, <2>3, BlankFails
  <2>5. fk \in ForeignKeys
    BY DEF ForeignKeys
  <2> QED BY <2>4, <2>5 DEF Accepted
<1> QED BY <1>1, <1>2, <1>3 DEF Unblanked

----------------------------------------------------------------------------
(* The theorems.                                                          *)

\* The inductive invariant: the workspace is sound, and nothing names what a
\* refused commit takes back.
THEOREM WorkspaceSound == Spec => [](Sound(workspace) /\ BlankLast(workspace))
<1>1. Init => Sound(workspace) /\ BlankLast(workspace)
  BY EmptySound DEF Init, BlankLast, Empty
<1>2. Sound(workspace) /\ BlankLast(workspace) /\ [Next]_workspace
        => (Sound(workspace) /\ BlankLast(workspace))'
  <2> SUFFICES ASSUME Sound(workspace), BlankLast(workspace), [Next]_workspace
               PROVE  Sound(workspace') /\ BlankLast(workspace')
    OBVIOUS
  <2>1. CASE Accepted(workspace) /\ Edit
    BY <2>1, EditSound, EditBlankLast, AcceptedUnblanked
  <2>2. CASE Refused
    <3>1. workspace' = Unrefused(workspace)
      BY <2>2 DEF Refused, Unrefused
    <3> QED BY <3>1, RefusedSound, UnblankedLast
  <2>3. CASE UNCHANGED workspace
    BY <2>3
  <2> QED BY <2>1, <2>2, <2>3 DEF Next
<1> QED BY <1>1, <1>2, PTL DEF Spec

\* The collections keep their shape.
THEOREM TypeCorrect == Spec => []TypeOK
<1>1. Sound(workspace) => TypeOK
  BY DEF Sound, TypeOK
<1> QED BY <1>1, WorkspaceSound, PTL

\* Every edit leaves a workspace validateWorkspace accepts: unlike the runs,
\* for any number of ids of every kind.
THEOREM EditsValid == Spec => []Valid
<1>1. Sound(workspace) => Valid
  BY DEF Sound, Valid
<1> QED BY <1>1, WorkspaceSound, PTL

\* No signal outlives its Reference or sits in another project.
THEOREM SignalsFollow == Spec => []SignalsAboutLiving
<1>1. Sound(workspace) => SignalsAboutLiving
  BY DEF Sound, SignalsAboutLiving
<1> QED BY <1>1, WorkspaceSound, PTL

\* What a board exports belongs to the board's project.
THEOREM ExportsOwned == Spec => []ExportsStayInProject
<1>1. Sound(workspace) => ExportsStayInProject
  <2> SUFFICES ASSUME Sound(workspace), NEW b \in DOMAIN workspace.boards,
                      NEW s \in Range(workspace.boards[b].selectionIds)
               PROVE  LET p == workspace.boards[b].projectId
                          t == workspace.selections[s].targetId
                          m == workspace.selections[s].momentId
                          r == workspace.targets[t].referenceId
                          a == workspace.targets[t].assetId
                      IN  /\ t \in Owned(workspace.targets, "projectId", {p})
                          /\ r \in Owned(workspace.references, "projectId", {p})
                          /\ a \notin Falsy => a \in Owned(workspace.assets, "projectId", {p})
                          /\ m \notin Falsy => m \in Owned(workspace.moments, "projectId", {p})
    BY DEF ExportsStayInProject, Exported
  <2> DEFINE p == workspace.boards[b].projectId
             t == workspace.selections[s].targetId
             m == workspace.selections[s].momentId
             r == workspace.targets[t].referenceId
             a == workspace.targets[t].assetId
  <2>1. s \in DOMAIN workspace.selections /\ workspace.selections[s].projectId = p
    BY DEF Sound, Validates, BoardsOwned, Range
  <2>2. /\ t \in DOMAIN workspace.targets /\ workspace.targets[t].projectId = p
        /\ m \notin Falsy => m \in DOMAIN workspace.moments /\ workspace.moments[m].targetId = t
    BY <2>1 DEF Sound, Validates, SelectionsOwned
  <2>3. /\ r \in DOMAIN workspace.references /\ workspace.references[r].projectId = p
        /\ a \notin Falsy => a \in DOMAIN workspace.assets /\ workspace.assets[a].referenceId = r
    BY <2>2 DEF Sound, Validates, TargetsOwned
  <2>4. m \notin Falsy => workspace.moments[m].projectId = p
    BY <2>2 DEF Sound, Validates, MomentsOwned
  <2>5. a \notin Falsy => workspace.assets[a].projectId = p
    BY <2>3 DEF Sound, Validates, AssetsOwned
  <2> QED BY <2>2, <2>3, <2>4, <2>5 DEF Owned
<1> QED BY <1>1, WorkspaceSound, PTL

\* No edit removes what its owner keeps: an Asset or a Target goes with its Reference, a
\* Moment or a Selection with its Target, a board with its project, and several References
\* at once only with their project.
THEOREM RemovedWithOwner == Spec => OnlyOwnedRemoved
<1>1. Sound(workspace) /\ Accepted(workspace) /\ [Next]_workspace
        => \/ RemovesOwned(workspace, workspace')
           \/ UNCHANGED workspace
  BY EditRemovesOwned DEF Next, Refused
<1>2. RemovesOwned(workspace, workspace') =>
        /\ \A a \in Gone("assets") : workspace.assets[a].referenceId \notin Left("references")
        /\ \A t \in Gone("targets") : workspace.targets[t].referenceId \notin Left("references")
        /\ \A m \in Gone("moments") : workspace.moments[m].targetId \notin Left("targets")
        /\ \A s \in Gone("selections") :
             workspace.selections[s].targetId \notin Left("targets")
        /\ \A b \in Gone("boards") : workspace.boards[b].projectId \notin workspace'.projects
        /\ \A r, q \in Gone("references") :
             r = q \/ workspace.references[r].projectId \notin workspace'.projects
  BY DEF RemovesOwned, Gone, Left
<1> DEFINE A == Accepted(workspace)
           O == Sound(workspace)
           R == RemovesOwned(workspace, workspace')
<1>3. O /\ [Next]_workspace => [A => R]_workspace
  BY <1>1
<1> QED BY <1>2, <1>3, WorkspaceSound, PTL DEF Spec, OnlyOwnedRemoved

\* Whatever was edited, the database takes the rows of the workspace, in the
\* order in which they are inserted, unless one names the empty id, and read
\* back they are the workspace, the order of every board included.
THEOREM RowsKeepWorkspace == Spec => []RowsFaithful
<1>1. Sound(workspace) => RowsFaithful
  BY AcceptedUnblanked, ReadBack DEF RowsFaithful, Unblanked
<1> QED BY <1>1, WorkspaceSound, PTL
=============================================================================
