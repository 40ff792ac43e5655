------------------------ MODULE CaptureSchedulerProofs ------------------------
(***************************************************************************)
(* Proofs about CaptureScheduler, for every limit, every set of References *)
(* and any number of jobs: the slots are never over-committed and never    *)
(* left idle while jobs wait, and every job in progress stays in the Map.  *)
(***************************************************************************)
EXTENDS CaptureScheduler, FiniteSetTheorems, WellFoundedInduction, TLAPS

-----------------------------------------------------------------------------
(* Counting in creation order.                                             *)

LEMMA JobsFinite ==
    /\ IsFiniteSet(Jobs) /\ Jobs \subseteq Int
    /\ \A S \in SUBSET Jobs : IsFiniteSet(S) /\ Cardinality(S) \in Nat
  <1>1. IsFiniteSet(Jobs) /\ Jobs \subseteq Int
    BY LimitsAssumption, FS_Interval DEF Jobs
  <1>2. ASSUME NEW S \in SUBSET Jobs PROVE IsFiniteSet(S) /\ Cardinality(S) \in Nat
    BY <1>1, FS_Subset, FS_CardinalityType
  <1> QED
    BY <1>1, <1>2

LEMMA SubsetsWellFounded ==
    IsWellFoundedOn(StrictSubsetOrdering(Jobs), SUBSET Jobs)
  BY FS_StrictSubsetOrderingWellFounded, FS_FiniteSubsetsOfFinite, JobsFinite

\* A set of jobs has an oldest and a newest member: the one with the least
\* set of jobs before, or after, it.
LEMMA Oldest ==
    ASSUME NEW S \in SUBSET Jobs, S # {}
    PROVE  \E m \in S : \A k \in S : m <= k
  <1> DEFINE UpTo(j) == {k \in Jobs : k <= j}
             T == {UpTo(j) : j \in S}
  <1>1. PICK x \in T : \A y \in T : ~(<<y, x>> \in StrictSubsetOrdering(Jobs))
    <2>1. T \subseteq SUBSET Jobs /\ T # {}
      OBVIOUS
    <2> QED
      BY <2>1, SubsetsWellFounded, WFMin
  <1>2. PICK m \in S : x = UpTo(m)
    OBVIOUS
  <1>3. ASSUME NEW k \in S PROVE m <= k
    <2> SUFFICES ASSUME k < m PROVE FALSE
      BY JobsFinite
    <2>0. m \in Jobs /\ k \in Jobs /\ \A i \in Jobs : i \in Int
      BY JobsFinite
    <2>1. UpTo(k) \subseteq UpTo(m) /\ m \in UpTo(m) /\ m \notin UpTo(k)
      <3> HIDE DEF T
      <3> QED
        BY <2>0
    <2>2. <<UpTo(k), x>> \in StrictSubsetOrdering(Jobs)
      BY <2>1, <1>2 DEF StrictSubsetOrdering
    <2> QED
      BY <2>2, <1>1
  <1> QED
    BY <1>3

LEMMA Newest ==
    ASSUME NEW S \in SUBSET Jobs, S # {}
    PROVE  \E m \in S : \A k \in S : k <= m
  <1> DEFINE From(j) == {k \in Jobs : k >= j}
             T == {From(j) : j \in S}
  <1>1. PICK x \in T : \A y \in T : ~(<<y, x>> \in StrictSubsetOrdering(Jobs))
    <2>1. T \subseteq SUBSET Jobs /\ T # {}
      OBVIOUS
    <2> QED
      BY <2>1, SubsetsWellFounded, WFMin
  <1>2. PICK m \in S : x = From(m)
    OBVIOUS
  <1>3. ASSUME NEW k \in S PROVE k <= m
    <2> SUFFICES ASSUME k > m PROVE FALSE
      BY JobsFinite
    <2>0. m \in Jobs /\ k \in Jobs /\ \A i \in Jobs : i \in Int
      BY JobsFinite
    <2>1. From(k) \subseteq From(m) /\ m \in From(m) /\ m \notin From(k)
      <3> HIDE DEF T
      <3> QED
        BY <2>0
    <2>2. <<From(k), x>> \in StrictSubsetOrdering(Jobs)
      BY <2>1, <1>2 DEF StrictSubsetOrdering
    <2> QED
      BY <2>2, <1>1
  <1> QED
    BY <1>3

\* #drain with n slots, over a queue without aborted jobs: it starts what it
\* shifts, at most n jobs, and n unless it empties the queue.
LEMMA ShiftedBounds ==
    ASSUME NEW n \in Nat, queue \in SUBSET Jobs, queue \cap aborted = {}
    PROVE  /\ Shifted(n) \in SUBSET queue /\ Started(n) = Shifted(n)
           /\ Cardinality(Shifted(n)) \in Nat /\ Cardinality(Shifted(n)) <= n
           /\ queue # Shifted(n) => Cardinality(Shifted(n)) = n
  <1> DEFINE S == Shifted(n)
  <1>1. S \in SUBSET queue /\ Started(n) = S /\ S \in SUBSET Jobs
    BY DEF Shifted, Started
  <1>2. \A j \in queue : ToStart(j) = {i \in queue : i < j} /\ ToStart(j) \in SUBSET Jobs
    BY DEF ToStart
  <1>3. Cardinality(S) \in Nat /\ IsFiniteSet(S)
    BY <1>1, JobsFinite
  <1>4. Cardinality(S) <= n
    <2>1. CASE S = {}
      BY <2>1, FS_EmptySet
    <2>2. CASE S # {}
      <3>1. PICK m \in S : \A k \in S : k <= m
        BY <1>1, <2>2, Newest
      <3>2. S \ {m} \in SUBSET ToStart(m)
        <4> SUFFICES ASSUME NEW k \in S \ {m} PROVE k \in ToStart(m)
          OBVIOUS
        <4>1. k \in Jobs /\ m \in Jobs /\ k \in queue /\ m \in queue /\ k <= m /\ k # m
          BY <1>1, <3>1
        <4>2. k < m
          BY <4>1, JobsFinite
        <4> QED
          BY <4>1, <4>2, <1>2
      <3>3. Cardinality(S \ {m}) = Cardinality(S) - 1
        BY <1>3, FS_RemoveElement
      <3>4. Cardinality(S \ {m}) <= Cardinality(ToStart(m)) /\ Cardinality(ToStart(m)) < n
        BY <1>1, <1>2, <3>2, JobsFinite, FS_Subset DEF Shifted
      <3>5. Cardinality(ToStart(m)) \in Nat
        BY <1>1, <1>2, JobsFinite
      <3> QED
        BY <1>3, <3>3, <3>4, <3>5
    <2> QED
      BY <2>1, <2>2
  <1>5. ASSUME queue # S PROVE Cardinality(S) >= n
    <2>1. queue \ S \in SUBSET Jobs /\ queue \ S # {}
      BY <1>1, <1>5
    <2>2. PICK m \in queue \ S : \A k \in queue \ S : m <= k
      BY <2>1, Oldest
    <2>3. ToStart(m) \in SUBSET S
      <3> SUFFICES ASSUME NEW k \in ToStart(m), k \notin S PROVE FALSE
        OBVIOUS
      <3>1. k \in queue /\ k < m /\ m <= k
        BY <1>2, <2>2
      <3> QED
        BY <3>1, JobsFinite
    <2>4. Cardinality(ToStart(m)) >= n
      <3>1. ~(Cardinality(ToStart(m)) < n)
        BY <2>2 DEF Shifted
      <3>2. Cardinality(ToStart(m)) \in Nat
        BY <2>2, <1>2, JobsFinite
      <3> QED
        BY <3>1, <3>2
    <2>5. Cardinality(ToStart(m)) <= Cardinality(S)
      BY <2>3, <1>3, FS_Subset
    <2>6. Cardinality(ToStart(m)) \in Nat
      BY <2>2, <1>2, JobsFinite
    <2> QED
      BY <2>4, <2>5, <2>6, <1>3
  <1> QED
    BY <1>1, <1>3, <1>4, <1>5

\* #trimHistory only drops jobs that are over.
LEMMA TrimKeepsActive ==
    ASSUME NEW known, NEW st
    PROVE  /\ Trim(known, st) \in SUBSET known
           /\ \A j \in known : st[j] \in ActiveStatus => j \in Trim(known, st)
  BY DEF Trim

-----------------------------------------------------------------------------
(* The inductive invariant.  A slot is taken by a capture in progress or by *)
(* one that answered and has not been cleaned up after; the queue holds the *)
(* queued jobs, none of them aborted; the Map has one job per Reference.    *)

SlotsCounted == active = Cardinality(Capturing \cup settling)

QueueSound ==
    /\ \A j \in Jobs : status[j] = "queued" <=> j \in queue
    /\ \A j \in settling : status[j] = "over"
    /\ queue \cap aborted = {}
    /\ \A j \in aborted : status[j] # "none"

MapSound ==
    /\ \A j \in Jobs : IsActive(j) => j \in jobs
    /\ \A j, k \in jobs : ref[j] = ref[k] => j = k
    /\ \A j \in jobs : status[j] # "none"

Inv == TypeOK /\ SlotsCounted /\ QueueSound /\ MapSound /\ NoIdleSlot

LEMMA InvInit == Init => Inv
  <1> SUFFICES ASSUME Init PROVE Inv
    OBVIOUS
  <1>1. Capturing \cup settling = {} /\ queue = {}
    BY DEF Init, Capturing, With
  <1>2. SlotsCounted
    BY <1>1, FS_EmptySet DEF Init, SlotsCounted
  <1>3. TypeOK
    <2>1. active \in 0..MaxConcurrent
      BY LimitsAssumption DEF Init
    <2>2. /\ ref \in [Jobs -> References \cup {NoReference}]
          /\ status \in [Jobs -> {"none", "over"} \cup ActiveStatus]
      BY DEF Init
    <2> QED
      BY <2>1, <2>2 DEF Init, TypeOK
  <1>4. QueueSound /\ MapSound /\ NoIdleSlot
    BY DEF Init, QueueSound, MapSound, NoIdleSlot, IsActive, ActiveStatus
  <1> QED
    BY <1>2, <1>3, <1>4 DEF Inv

\* What a drain does to slots and queue, when n of the slots are free.
LEMMA DrainPreserves ==
    ASSUME NEW n \in 0..MaxConcurrent, NEW busy \in SUBSET Jobs,
           TypeOK, QueueSound, Drain(n),
           Cardinality(busy) = MaxConcurrent - n,
           busy \cap queue = {}
    PROVE  /\ active' \in 0..MaxConcurrent
           /\ active' = Cardinality(busy \cup Started(n))
           /\ queue' # {} => active' = MaxConcurrent
           /\ queue' \in SUBSET Jobs
           /\ queue' = queue \ Started(n) /\ Started(n) \in SUBSET queue
           /\ status' \in [Jobs -> {"none", "over"} \cup ActiveStatus]
           /\ \A j \in Jobs : status'[j] = IF j \in Started(n) THEN "capturing" ELSE status[j]
  <1>1. queue \in SUBSET Jobs /\ queue \cap aborted = {} /\ n \in Nat /\ MaxConcurrent \in Nat
    BY LimitsAssumption DEF TypeOK, QueueSound
  <1>2. /\ Shifted(n) \in SUBSET queue /\ Started(n) = Shifted(n)
        /\ Cardinality(Shifted(n)) \in Nat /\ Cardinality(Shifted(n)) <= n
        /\ queue # Shifted(n) => Cardinality(Shifted(n)) = n
    BY <1>1, ShiftedBounds
  <1>3. active' = (MaxConcurrent - n) + Cardinality(Shifted(n))
    BY <1>2 DEF Drain
  <1>4. queue' = queue \ Shifted(n)
    BY DEF Drain
  <1>5. Cardinality(busy \cup Started(n)) = Cardinality(busy) + Cardinality(Started(n))
    <2>1. busy \cap Started(n) = {} /\ Started(n) \in SUBSET Jobs
      BY <1>1, <1>2
    <2>2. Cardinality(busy \cup Started(n)) =
            Cardinality(busy) + Cardinality(Started(n)) - Cardinality(busy \cap Started(n))
      BY <2>1, JobsFinite, FS_Union
    <2>3. Cardinality(busy \cap Started(n)) = 0
      BY <2>1, FS_EmptySet
    <2>4. Cardinality(busy) \in Int /\ Cardinality(Started(n)) \in Int
      BY <2>1, JobsFinite
    <2> QED
      BY <2>2, <2>3, <2>4
  <1>6. queue' # {} => active' = MaxConcurrent
    BY <1>1, <1>2, <1>3, <1>4
  <1>7. /\ status' \in [Jobs -> {"none", "over"} \cup ActiveStatus]
        /\ \A j \in Jobs : status'[j] = IF j \in Started(n) THEN "capturing" ELSE status[j]
    BY DEF Drain, TypeOK, ActiveStatus
  <1> QED
    BY <1>1, <1>2, <1>3, <1>4, <1>5, <1>6, <1>7

\* Dropping finished jobs from the Map, and changing no job to active.
LEMMA MapPreserved ==
    ASSUME MapSound, status \in [Jobs -> {"none", "over"} \cup ActiveStatus],
           jobs \in SUBSET Jobs, UNCHANGED ref,
           jobs' \in SUBSET jobs, \A j \in jobs : status'[j] \in ActiveStatus => j \in jobs',
           \A j \in Jobs : status'[j] \in ActiveStatus => status[j] \in ActiveStatus,
           \A j \in Jobs : status'[j] = "none" => status[j] = "none"
    PROVE  MapSound'
  BY DEF MapSound, IsActive

LEMMA EnqueueInv ==
    ASSUME Inv, NEW j \in Jobs, NEW r \in References, Enqueue(j, r)
    PROVE  Inv'
  <1> DEFINE kept == {k \in jobs : ref[k] # r}
  <1>1. /\ status[j] = "none" /\ ~Busy(r)
        /\ status' = [status EXCEPT ![j] = "queued"]
        /\ queue' = queue \cup {j}
        /\ jobs' = Trim(kept \cup {j}, status')
        /\ ref' = [ref EXCEPT ![j] = r] /\ draining' = TRUE
        /\ UNCHANGED <<aborted, active, settling, closing, awaited>>
    BY DEF Enqueue
  <1>2. jobs' \in SUBSET (kept \cup {j})
        /\ \A k \in kept \cup {j} : status'[k] \in ActiveStatus => k \in jobs'
    BY <1>1, TrimKeepsActive
  <1>3. TypeOK'
    <2>1. status' \in [Jobs -> {"none", "over"} \cup ActiveStatus]
      BY <1>1 DEF Inv, TypeOK, ActiveStatus
    <2>2. ref' \in [Jobs -> References \cup {NoReference}]
      BY <1>1 DEF Inv, TypeOK
    <2> QED
      BY <2>1, <2>2, <1>1, <1>2 DEF Inv, TypeOK
  <1>4. \A k \in Jobs : status'[k] = IF k = j THEN "queued" ELSE status[k]
    BY <1>1 DEF Inv, TypeOK
  <1>5. \A k \in Jobs : ref'[k] = IF k = j THEN r ELSE ref[k]
    BY <1>1 DEF Inv, TypeOK
  <1>6. Capturing' = Capturing /\ SlotsCounted'
    <2>1. Capturing' = Capturing
      BY <1>1, <1>4 DEF Capturing, With
    <2> QED
      BY <2>1, <1>1 DEF Inv, SlotsCounted
  <1>7. QueueSound'
    BY <1>1, <1>4 DEF Inv, QueueSound, TypeOK
  <1>8. MapSound'
    <2>1. ASSUME NEW k \in Jobs, status'[k] \in ActiveStatus PROVE k \in jobs'
      <3>1. k # j => k \in jobs /\ ref[k] # r
        BY <2>1, <1>1, <1>4 DEF Inv, MapSound, Busy, IsActive
      <3> QED
        BY <3>1, <2>1, <1>2
    <2>2. \A k, l \in jobs' : ref'[k] = ref'[l] => k = l
      BY <1>2, <1>5 DEF Inv, MapSound, TypeOK
    <2>3. \A k \in jobs' : status'[k] # "none"
      BY <1>2, <1>4 DEF Inv, MapSound, TypeOK
    <2> QED
      BY <2>1, <2>2, <2>3 DEF MapSound, IsActive
  <1>9. NoIdleSlot'
    BY <1>1 DEF NoIdleSlot
  <1> QED
    BY <1>3, <1>6, <1>7, <1>8, <1>9 DEF Inv

LEMMA CancelInv ==
    ASSUME Inv, NEW j \in Jobs, CancelQueued(j) \/ CancelCapturing(j)
    PROVE  Inv'
  <1>1. CASE CancelQueued(j)
    <2>1. /\ j \in jobs /\ status[j] = "queued"
          /\ aborted' = aborted \cup {j} /\ queue' = queue \ {j}
          /\ status' = [status EXCEPT ![j] = "over"]
          /\ jobs' = Trim(jobs, status')
          /\ UNCHANGED <<ref, active, settling, draining, closing, awaited>>
      BY <1>1 DEF CancelQueued
    <2>2. jobs' \in SUBSET jobs
          /\ \A k \in jobs : status'[k] \in ActiveStatus => k \in jobs'
      BY <2>1, TrimKeepsActive
    <2>3. \A k \in Jobs : status'[k] = IF k = j THEN "over" ELSE status[k]
      BY <2>1 DEF Inv, TypeOK
    <2>4. TypeOK'
      <3>1. status' \in [Jobs -> {"none", "over"} \cup ActiveStatus]
        BY <2>1 DEF Inv, TypeOK
      <3> QED
        BY <3>1, <2>1, <2>2 DEF Inv, TypeOK
    <2>5. SlotsCounted'
      <3>1. Capturing' = Capturing
        BY <2>1, <2>3 DEF Capturing, With
      <3> QED
        BY <3>1, <2>1 DEF Inv, SlotsCounted
    <2>6. QueueSound'
      BY <2>1, <2>3 DEF Inv, QueueSound, TypeOK
    <2>7. MapSound'
      BY <2>1, <2>2, <2>3, MapPreserved DEF Inv, TypeOK, ActiveStatus
    <2>8. NoIdleSlot'
      BY <2>1 DEF Inv, NoIdleSlot
    <2> QED
      BY <2>4, <2>5, <2>6, <2>7, <2>8 DEF Inv
  <1>2. CASE CancelCapturing(j)
    <2>1. /\ status[j] = "capturing" /\ aborted' = aborted \cup {j}
          /\ UNCHANGED <<ref, status, jobs, queue, active, settling, draining, closing, awaited>>
      BY <1>2 DEF CancelCapturing
    <2>2. QueueSound'
      BY <2>1 DEF Inv, QueueSound, TypeOK
    <2>3. Capturing' = Capturing
      BY <2>1 DEF Capturing, With
    <2>4. TypeOK' /\ SlotsCounted' /\ MapSound' /\ NoIdleSlot'
      BY <2>1, <2>3 DEF Inv, TypeOK, SlotsCounted, MapSound, NoIdleSlot, IsActive
    <2> QED
      BY <2>2, <2>4 DEF Inv
  <1> QED
    BY <1>1, <1>2

LEMMA CloseInv ==
    ASSUME Inv, Close
    PROVE  Inv'
  <1>1. /\ awaited' = CloseCancels /\ aborted' = aborted \cup CloseCancels
        /\ queue' = queue \ CloseCancels
        /\ jobs' = Trim(jobs, status') /\ closing' = TRUE
        /\ UNCHANGED <<ref, active, settling, draining>>
    BY DEF Close
  <1>2. \A k \in Jobs : status'[k] =
          IF k \in CloseCancels /\ status[k] = "queued" THEN "over" ELSE status[k]
    BY DEF Close
  <1>3. CloseCancels \in SUBSET Jobs
    BY DEF CloseCancels, Inv, TypeOK
  <1>4. jobs' \in SUBSET jobs
        /\ \A k \in jobs : status'[k] \in ActiveStatus => k \in jobs'
    BY <1>1, TrimKeepsActive
  <1>5. TypeOK'
    <2>1. status' \in [Jobs -> {"none", "over"} \cup ActiveStatus]
      BY DEF Close, Inv, TypeOK
    <2> QED
      BY <2>1, <1>1, <1>3, <1>4 DEF Inv, TypeOK
  <1>6. SlotsCounted'
    <2>1. Capturing' = Capturing
      BY <1>2 DEF Capturing, With
    <2> QED
      BY <2>1, <1>1 DEF Inv, SlotsCounted
  <1>7. QueueSound'
    <2>1. \A k \in Jobs : status[k] = "queued" => k \in CloseCancels
      BY DEF Inv, MapSound, IsActive, ActiveStatus, CloseCancels, TypeOK
    <2>2. \A k \in CloseCancels : status[k] # "none"
      BY DEF CloseCancels, Inv, MapSound
    <2> QED
      BY <1>1, <1>2, <1>3, <2>1, <2>2 DEF Inv, QueueSound, TypeOK
  <1>8. MapSound'
    <2>1. \A k \in Jobs : status'[k] \in ActiveStatus => status[k] \in ActiveStatus
      BY <1>2 DEF ActiveStatus
    <2>2. \A k \in Jobs : status'[k] = "none" => status[k] = "none"
      BY <1>2
    <2> QED
      BY <1>1, <1>4, <2>1, <2>2, MapPreserved DEF Inv, TypeOK
  <1>9. NoIdleSlot'
    BY <1>1 DEF Inv, NoIdleSlot
  <1> QED
    BY <1>5, <1>6, <1>7, <1>8, <1>9 DEF Inv

LEMMA DrainMicrotaskInv ==
    ASSUME Inv, DrainMicrotask
    PROVE  Inv'
  <1> DEFINE n == MaxConcurrent - active
             busy == Capturing \cup settling
  <1>1. /\ Drain(n) /\ draining' = FALSE
        /\ UNCHANGED <<ref, aborted, jobs, settling, closing, awaited>>
    BY DEF DrainMicrotask
  <1>2. n \in 0..MaxConcurrent /\ Cardinality(busy) = MaxConcurrent - n
    BY LimitsAssumption DEF Inv, TypeOK, SlotsCounted
  <1>3. busy \in SUBSET Jobs /\ busy \cap queue = {}
    BY DEF Inv, TypeOK, QueueSound, Capturing, With
  <1>4. /\ active' \in 0..MaxConcurrent
        /\ active' = Cardinality(busy \cup Started(n))
        /\ queue' # {} => active' = MaxConcurrent
        /\ queue' \in SUBSET Jobs
        /\ queue' = queue \ Started(n) /\ Started(n) \in SUBSET queue
        /\ status' \in [Jobs -> {"none", "over"} \cup ActiveStatus]
        /\ \A j \in Jobs : status'[j] = IF j \in Started(n) THEN "capturing" ELSE status[j]
    BY <1>1, <1>2, <1>3, DrainPreserves DEF Inv
  <1> HIDE DEF n
  <1>5. TypeOK'
    BY <1>1, <1>4 DEF Inv, TypeOK
  <1>6. SlotsCounted'
    <2>1. Capturing' = Capturing \cup Started(n)
      BY <1>3, <1>4 DEF Capturing, With, Inv, TypeOK
    <2>2. (Capturing \cup settling)' = busy \cup Started(n)
      BY <1>1, <2>1
    <2> QED
      BY <1>4, <2>2 DEF SlotsCounted
  <1>7. QueueSound'
    BY <1>1, <1>4 DEF Inv, QueueSound, TypeOK
  <1>8. MapSound'
    BY <1>1, <1>4 DEF Inv, MapSound, QueueSound, IsActive, ActiveStatus, TypeOK
  <1>9. NoIdleSlot'
    BY <1>4 DEF NoIdleSlot
  <1> QED
    BY <1>5, <1>6, <1>7, <1>8, <1>9 DEF Inv

LEMMA SettleInv ==
    ASSUME Inv, NEW j \in Jobs, Settle(j)
    PROVE  Inv'
  <1>1. /\ status[j] = "capturing"
        /\ status' = [status EXCEPT ![j] = "over"]
        /\ settling' = settling \cup {j}
        /\ UNCHANGED <<ref, aborted, jobs, queue, active, draining, closing, awaited>>
    BY DEF Settle
  <1>2. \A k \in Jobs : status'[k] = IF k = j THEN "over" ELSE status[k]
    BY <1>1 DEF Inv, TypeOK
  <1>3. status' \in [Jobs -> {"none", "over"} \cup ActiveStatus]
    BY <1>1 DEF Inv, TypeOK
  <1>4. TypeOK'
    BY <1>1, <1>3 DEF Inv, TypeOK
  <1>5. SlotsCounted'
    <2>1. (Capturing \cup settling)' = Capturing \cup settling
      BY <1>1, <1>2 DEF Capturing, With
    <2> QED
      BY <2>1, <1>1 DEF Inv, SlotsCounted
  <1>6. QueueSound'
    BY <1>1, <1>2 DEF Inv, QueueSound, TypeOK
  <1>7. MapSound'
    BY <1>1, <1>2, MapPreserved DEF Inv, TypeOK, ActiveStatus, MapSound, IsActive
  <1>8. NoIdleSlot'
    BY <1>1 DEF Inv, NoIdleSlot
  <1> QED
    BY <1>4, <1>5, <1>6, <1>7, <1>8 DEF Inv

LEMMA FinishInv ==
    ASSUME Inv, NEW j \in Jobs, Finish(j)
    PROVE  Inv'
  <1> DEFINE n == MaxConcurrent - (active - 1)
             busy == Capturing \cup (settling \ {j})
  <1>1. /\ j \in settling /\ Drain(n) /\ settling' = settling \ {j}
        /\ jobs' = Trim(jobs, status)
        /\ UNCHANGED <<ref, aborted, draining, closing, awaited>>
    BY DEF Finish, DrainFreed
  <1>2. n \in 0..MaxConcurrent /\ Cardinality(busy) = MaxConcurrent - n
    <2>1. Capturing \cup settling \in SUBSET Jobs /\ j \in Capturing \cup settling
      BY <1>1 DEF Inv, TypeOK, Capturing, With
    <2>2. busy = (Capturing \cup settling) \ {j}
      BY <1>1 DEF Inv, QueueSound, Capturing, With
    <2>3. Cardinality(busy) \in Nat
      BY <2>1, <2>2, JobsFinite
    <2>4. Cardinality((Capturing \cup settling) \ {j}) = Cardinality(Capturing \cup settling) - 1
      BY <2>1, JobsFinite, FS_RemoveElement
    <2>5. Cardinality(busy) = active - 1
      BY <2>2, <2>4 DEF Inv, SlotsCounted
    <2> QED
      BY <2>3, <2>5, LimitsAssumption DEF Inv, TypeOK
  <1>3. busy \in SUBSET Jobs /\ busy \cap queue = {}
    BY DEF Inv, TypeOK, QueueSound, Capturing, With
  <1>4. /\ active' \in 0..MaxConcurrent
        /\ active' = Cardinality(busy \cup Started(n))
        /\ queue' # {} => active' = MaxConcurrent
        /\ queue' \in SUBSET Jobs
        /\ queue' = queue \ Started(n) /\ Started(n) \in SUBSET queue
        /\ status' \in [Jobs -> {"none", "over"} \cup ActiveStatus]
        /\ \A k \in Jobs : status'[k] = IF k \in Started(n) THEN "capturing" ELSE status[k]
    BY <1>1, <1>2, <1>3, DrainPreserves DEF Inv
  <1>5. jobs' \in SUBSET jobs /\ \A k \in jobs : IsActive(k) => k \in jobs'
    BY <1>1, TrimKeepsActive DEF IsActive
  <1> HIDE DEF n
  <1>6. TypeOK'
    BY <1>1, <1>4, <1>5 DEF Inv, TypeOK
  <1>7. SlotsCounted'
    <2>1. Capturing' = Capturing \cup Started(n)
      BY <1>3, <1>4 DEF Capturing, With, Inv, TypeOK
    <2>2. (Capturing \cup settling)' = busy \cup Started(n)
      BY <1>1, <2>1
    <2> QED
      BY <1>4, <2>2 DEF SlotsCounted
  <1>8. QueueSound'
    BY <1>1, <1>4 DEF Inv, QueueSound, TypeOK
  <1>9. MapSound'
    <2>1. \A k \in Jobs : status'[k] \in ActiveStatus => IsActive(k)
      BY <1>4 DEF Inv, QueueSound, IsActive, ActiveStatus, TypeOK
    <2> QED
      BY <1>1, <1>4, <1>5, <2>1 DEF Inv, MapSound, IsActive, TypeOK
  <1>10. NoIdleSlot'
    BY <1>4 DEF NoIdleSlot
  <1> QED
    BY <1>6, <1>7, <1>8, <1>9, <1>10 DEF Inv

LEMMA InvStep == Inv /\ [Next]_vars => Inv'
  <1> SUFFICES ASSUME Inv, [Next]_vars PROVE Inv'
    OBVIOUS
  <1>1. CASE Close
    BY <1>1, CloseInv
  <1>2. CASE DrainMicrotask
    BY <1>2, DrainMicrotaskInv
  <1>3. ASSUME NEW j \in Jobs, NEW r \in References, Enqueue(j, r) PROVE Inv'
    BY <1>3, EnqueueInv
  <1>4. ASSUME NEW j \in Jobs, CancelQueued(j) \/ CancelCapturing(j) PROVE Inv'
    BY <1>4, CancelInv
  <1>5. ASSUME NEW j \in Jobs, Settle(j) PROVE Inv'
    BY <1>5, SettleInv
  <1>6. ASSUME NEW j \in Jobs, Finish(j) PROVE Inv'
    BY <1>6, FinishInv
  <1>7. CASE UNCHANGED vars
    BY <1>7 DEF vars, Inv, TypeOK, SlotsCounted, QueueSound, MapSound, NoIdleSlot,
                Capturing, With, IsActive
  <1> QED
    BY <1>1, <1>2, <1>3, <1>4, <1>5, <1>6, <1>7 DEF Next

\* The invariant holds in every behaviour of the scheduler.
THEOREM SchedulerInvariant == Spec => []Inv
  BY InvInit, InvStep, PTL DEF Spec

-----------------------------------------------------------------------------
(* What it gives.                                                          *)

\* The scheduler's state is well formed: in particular the count of slots
\* taken stays between none and maxConcurrent.
THEOREM TypeCorrect == Spec => []TypeOK
  <1>1. Inv => TypeOK
    BY DEF Inv
  <1> QED
    BY <1>1, SchedulerInvariant, PTL

\* At most maxConcurrent captures run at a time.
THEOREM CapturesBounded == Spec => []ConcurrencyBounded
  <1>1. Inv => ConcurrencyBounded
    <2> SUFFICES ASSUME Inv PROVE ConcurrencyBounded
      OBVIOUS
    <2>1. Capturing \cup settling \in SUBSET Jobs /\ Capturing \in SUBSET (Capturing \cup settling)
      BY DEF Inv, TypeOK, Capturing, With
    <2>2. Cardinality(Capturing) <= active
      BY <2>1, JobsFinite, FS_Subset DEF Inv, SlotsCounted
    <2>3. Cardinality(Capturing) \in Nat /\ active \in Nat /\ active <= MaxConcurrent
      BY <2>1, JobsFinite, LimitsAssumption DEF Inv, TypeOK
    <2> QED
      BY <2>2, <2>3, LimitsAssumption DEF ConcurrencyBounded
  <1> QED
    BY <1>1, SchedulerInvariant, PTL

\* Trimming the history never loses a job in progress, and no Reference has
\* two.
THEOREM JobsTracked == Spec => []ActiveJobsTracked
  <1>1. Inv => ActiveJobsTracked
    BY DEF Inv, MapSound, ActiveJobsTracked, TypeOK
  <1> QED
    BY <1>1, SchedulerInvariant, PTL

\* No slot is left idle while a job waits, unless a drain is on its way.
THEOREM SlotsUsed == Spec => []NoIdleSlot
  <1>1. Inv => NoIdleSlot
    BY DEF Inv
  <1> QED
    BY <1>1, SchedulerInvariant, PTL

\* close() awaits and cancels every job in progress.
THEOREM CloseComplete == Spec => CloseDrains
  <1>1. Inv /\ [Next]_vars =>
          [closing' # closing =>
             \A j \in Jobs : IsActive(j) => j \in awaited' /\ status'[j] # "queued"]_vars
    <2> SUFFICES ASSUME Inv, Next, closing' # closing
                 PROVE  \A j \in Jobs : IsActive(j) => j \in awaited' /\ status'[j] # "queued"
      BY DEF vars
    <2>1. Close
      BY DEF Next, Enqueue, DrainMicrotask, CancelQueued, CancelCapturing, Settle, Finish
    <2>2. /\ awaited' = CloseCancels
          /\ \A j \in Jobs : status'[j] =
               IF j \in CloseCancels /\ status[j] = "queued" THEN "over" ELSE status[j]
      BY <2>1 DEF Close
    <2>3. \A j \in Jobs : IsActive(j) => j \in CloseCancels
      BY DEF Inv, MapSound, CloseCancels
    <2> QED
      BY <2>2, <2>3
  <1> QED
    BY <1>1, SchedulerInvariant, PTL DEF Spec, CloseDrains

=============================================================================
