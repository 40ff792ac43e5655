-------------------------- MODULE ChromeCaptureProofs --------------------------
(***************************************************************************)
(* Proofs about ChromeCapture: whatever the browser and its connections    *)
(* do, the proxy stays within its limits (ProxyInv), nothing is left when  *)
(* a call has answered (CleanupInv), and a cancelled capture is quiet,     *)
(* because its socket is open only when its work is over (Quiet).  Of the  *)
(* page it observes: stray clicks are one ahead of its returns at most     *)
(* (GuidedInv) and the Moments chosen differ (MomentsChosen).              *)
(***************************************************************************)
EXTENDS ChromeCapture, FiniteSetTheorems, SequenceTheorems, TLAPS

----------------------------------------------------------------------------
(* The proxy                                                               *)

Connections ==
  [kind : Kinds, stage : {"unused", "resolving", "refused", "open"},
   client : {"none", "open", "gone"}, upstream : {"none", "open", "gone"}, early : BOOLEAN]

\* What a connection r and its slots say of each other.
Slotted(c, r, slots) ==
  /\ r.stage \in {"unused", "resolving"} =>
       r.upstream = "none" /\ <<c, "upstream">> \notin slots
  /\ r.stage # "open" => <<c, "client">> \notin slots
  /\ r.client = "none" <=> r.stage = "unused"
  /\ r.upstream = "open" => <<c, "upstream">> \in slots
  /\ <<c, "upstream">> \in slots => r.upstream = "open"
  /\ <<c, "client">> \in slots => r.client = "open" \/ r.early

ServerInv ==
  /\ server \in {"none", "starting"} => \A c \in Conns : conn[c].stage = "unused"
  /\ server = "stopped" => closed

ProxyInv ==
  /\ ProxyTypeOK
  /\ IsFiniteSet(sockets) /\ Cardinality(sockets) <= MaxSockets
  /\ \A c \in Conns : Slotted(c, conn[c], sockets)
  /\ ClosedReachesNobody /\ ServerInv
  /\ passed <= usedBytes /\ passed <= MaxBytes

\* One connection becomes r, its slots among those of S.
ConnBecomes(c, r, S) ==
  /\ conn' = [conn EXCEPT ![c] = r]
  /\ sockets' = S
  /\ \A d \in Conns, e \in Ends : d # c => (<<d, e>> \in S <=> <<d, e>> \in sockets)

\* A handler or an event of one connection, which keeps its account.
LEMMA ConnKeeps ==
  ASSUME ProxyInv, NEW c \in Conns, NEW r \in Connections, NEW S,
         ConnBecomes(c, r, S),
         S \subseteq Conns \X Ends, IsFiniteSet(S), Cardinality(S) <= MaxSockets,
         Slotted(c, r, S),
         closed => r.upstream # "open",
         conn[c].stage = "unused" => server = "listening",
         UNCHANGED <<server, closed>>,
         usedBytes' \in 0 .. MaxBytes + 1, passed' \in Nat,
         passed' <= usedBytes', passed' <= MaxBytes, died' \in BOOLEAN
  PROVE  ProxyInv'
<1>1. conn'[c] = r /\ \A d \in Conns : d # c => conn'[d] = conn[d]
  BY DEF ConnBecomes, ProxyInv, ProxyTypeOK
<1>2. conn' \in [Conns -> Connections]
  BY DEF ConnBecomes, ProxyInv, ProxyTypeOK, Connections
<1>3. ProxyTypeOK'
  BY <1>2 DEF ConnBecomes, ProxyInv, ProxyTypeOK, Connections
<1>4. ASSUME NEW d \in Conns PROVE Slotted(d, conn'[d], sockets')
  <2>1. CASE d = c
    BY <2>1, <1>1 DEF ConnBecomes
  <2>2. CASE d # c
    <3>1. Slotted(d, conn[d], sockets)
      BY DEF ProxyInv
    <3>2. \A e \in Ends : <<d, e>> \in sockets' <=> <<d, e>> \in sockets
      BY <2>2 DEF ConnBecomes
    <3> QED
      BY <2>2, <1>1, <3>1, <3>2 DEF Slotted, Ends
  <2> QED
    BY <2>1, <2>2
<1>5. ClosedReachesNobody'
  BY <1>1 DEF ProxyInv, ClosedReachesNobody
<1>6. ServerInv'
  BY <1>1 DEF ProxyInv, ServerInv
<1> QED
  BY <1>3, <1>4, <1>5, <1>6 DEF ProxyInv, ConnBecomes

LEMMA SlotAdded ==
  ASSUME NEW S, IsFiniteSet(S), NEW x
  PROVE  IsFiniteSet(S \cup {x}) /\ Cardinality(S \cup {x}) <= Cardinality(S) + 1
         /\ Cardinality(S) \in Nat /\ Cardinality(S \cup {x}) \in Nat
BY FS_AddElement, FS_CardinalityType

LEMMA SlotsTaken ==
  ASSUME NEW S, IsFiniteSet(S), NEW T, T \subseteq S
  PROVE  IsFiniteSet(T) /\ Cardinality(T) <= Cardinality(S)
         /\ Cardinality(S) \in Nat /\ Cardinality(T) \in Nat
BY FS_Subset, FS_CardinalityType

\* What the type of a connection says of one of its ends.
LEMMA ConnTyped ==
  ASSUME ProxyInv, NEW c \in Conns
  PROVE  conn[c] \in Connections /\ Slotted(c, conn[c], sockets)
BY DEF ProxyInv, ProxyTypeOK, Connections

LEMMA AcceptKeeps ==
  ASSUME ProxyInv, NEW c \in Conns, Accept(c)
  PROVE  ProxyInv'
<1>1. PICK kind \in Kinds :
        conn' = [conn EXCEPT ![c] = [Unused EXCEPT !.kind = kind, !.stage = "resolving",
                                                   !.client = "open"]]
  BY DEF Accept
<1> DEFINE r == [Unused EXCEPT !.kind = kind, !.stage = "resolving", !.client = "open"]
<1>2. /\ r \in Connections /\ r.stage = "resolving" /\ r.client = "open" /\ r.upstream = "none"
  BY DEF Unused, Connections, Kinds
<1>3. Slotted(c, conn[c], sockets) /\ conn[c].stage = "unused" /\ server = "listening"
  BY ConnTyped DEF Accept
<1>4. conn' = [conn EXCEPT ![c] = r]
  BY <1>1
<1> HIDE DEF r
<1>5. Slotted(c, r, sockets)
  BY <1>2, <1>3 DEF Slotted
<1>6. ConnBecomes(c, r, sockets)
  BY <1>4 DEF ConnBecomes, Accept
<1> QED
  BY <1>2, <1>3, <1>5, <1>6, ConnKeeps DEF Accept, ProxyInv, ProxyTypeOK

LEMMA ResolvedKeeps ==
  ASSUME ProxyInv, NEW c \in Conns, Resolved(c)
  PROVE  ProxyInv'
<1> DEFINE k == conn[c]
           up == <<c, "upstream">>
           cl == <<c, "client">>
<1>1. /\ k \in Connections /\ k.stage = "resolving"
      /\ up \notin sockets /\ cl \notin sockets
      /\ k.upstream = "none" /\ k.client \in {"open", "gone"}
      /\ sockets \subseteq Conns \X Ends /\ IsFiniteSet(sockets) /\ Cardinality(sockets) \in Nat
  BY ConnTyped, FS_CardinalityType DEF Resolved, Slotted, Connections, ProxyInv, ProxyTypeOK
<1>2. /\ UNCHANGED <<server, closed, usedBytes, passed>>
      /\ usedBytes' \in 0 .. MaxBytes + 1 /\ passed' \in Nat
      /\ passed' <= usedBytes' /\ passed' <= MaxBytes
  BY DEF Resolved, ProxyInv, ProxyTypeOK
<1>7. died' \in BOOLEAN
  BY DEF Resolved, Unhandled, ProxyInv, ProxyTypeOK
<1>3. CASE Refuse(c)
  <2> DEFINE r == [k EXCEPT !.stage = "refused"]
  <2>1. /\ r \in Connections /\ r.stage = "refused" /\ r.upstream = "none"
        /\ r.client = k.client
    BY <1>1 DEF Connections
  <2>2. conn' = [conn EXCEPT ![c] = r]
    BY <1>3 DEF Refuse
  <2> HIDE DEF r
  <2>3. Slotted(c, r, sockets) /\ ConnBecomes(c, r, sockets)
    BY <2>1, <2>2, <1>1, <1>3 DEF Slotted, ConnBecomes, Refuse
  <2> QED
    BY <2>1, <2>3, <1>1, <1>2, <1>7, ConnKeeps DEF ProxyInv
<1>4. CASE Forward(c)
  <2> DEFINE r == [[k EXCEPT !.stage = "open"] EXCEPT !.upstream = "open"]
             S == sockets \cup {up}
  <2>1. /\ r \in Connections /\ r.stage = "open" /\ r.upstream = "open" /\ r.client = k.client
    BY <1>1 DEF Connections
  <2>2. conn' = [conn EXCEPT ![c] = r]
    BY <1>4 DEF Forward, ProxyInv, ProxyTypeOK
  <2>3. /\ ~closed /\ S \subseteq Conns \X Ends
        /\ Cardinality(sockets) + 1 <= MaxSockets
    BY <1>1, <1>4 DEF Forward, Admits, AdmitsAfterClose, Ends
  <2>6. IsFiniteSet(S) /\ Cardinality(S) <= Cardinality(sockets) + 1 /\ Cardinality(S) \in Nat
    BY <1>1, SlotAdded
  <2>4. Slotted(c, r, S)
    BY <2>1, <1>1 DEF Slotted
  <2>5. ConnBecomes(c, r, S)
    BY <2>2, <1>4 DEF ConnBecomes, Forward
  <2> HIDE DEF r, S
  <2>7. Cardinality(S) <= MaxSockets
    BY <2>3, <2>6, <1>1, ProxyLimits
  <2> QED
    BY <2>1, <2>3, <2>4, <2>5, <2>6, <2>7, <1>1, <1>2, <1>7, ConnKeeps
<1>5. CASE Tunnel(c)
  <2> DEFINE r == [[[k EXCEPT !.stage = "open"] EXCEPT !.upstream = "open"]
                     EXCEPT !.early = (k.client = "gone")]
             S == sockets \cup {<<c, e>> : e \in Ends}
  <2>1. /\ r \in Connections /\ r.stage = "open" /\ r.upstream = "open" /\ r.client = k.client
        /\ r.early <=> k.client = "gone"
    BY <1>1 DEF Connections
  <2>2. conn' = [conn EXCEPT ![c] = r]
    BY <1>5 DEF Tunnel, ProxyInv, ProxyTypeOK
  <2>3. S = (sockets \cup {up}) \cup {cl}
    BY DEF Ends
  <2>4. /\ ~closed /\ S \subseteq Conns \X Ends
    BY <1>1, <1>5 DEF Tunnel, Admits, Ends
  <2>5. IsFiniteSet(S) /\ Cardinality(S) <= MaxSockets
    <3>1. /\ IsFiniteSet(sockets \cup {up})
          /\ Cardinality(sockets \cup {up}) <= Cardinality(sockets) + 1
          /\ Cardinality(sockets \cup {up}) \in Nat
      BY <1>1, SlotAdded
    <3>2. /\ IsFiniteSet(S) /\ Cardinality(S) <= Cardinality(sockets \cup {up}) + 1
          /\ Cardinality(S) \in Nat
      BY <2>3, <3>1, SlotAdded
    <3>3. Cardinality(sockets) + 2 <= MaxSockets
      BY <1>5 DEF Tunnel, Admits, AdmitsAfterClose
    <3> HIDE DEF S
    <3> QED
      BY <1>1, <3>1, <3>2, <3>3, ProxyLimits
  <2>6. Slotted(c, r, S)
    BY <2>1, <2>3, <1>1 DEF Slotted
  <2>7. ConnBecomes(c, r, S)
    BY <2>2, <2>3, <1>5 DEF ConnBecomes, Tunnel
  <2> HIDE DEF r, S
  <2> QED
    BY <2>1, <2>4, <2>5, <2>6, <2>7, <1>1, <1>2, <1>7, ConnKeeps
<1>6. CASE HalfTunnel(c)
  <2> DEFINE kept == k.kind = "connect"
             state == IF kept THEN "open" ELSE "gone"
             r == [[[k EXCEPT !.stage = "refused"] EXCEPT !.client = "gone"]
                     EXCEPT !.upstream = state]
             S == IF kept THEN sockets \cup {up} ELSE sockets
  <2>1. /\ r \in Connections /\ r.stage = "refused" /\ r.client = "gone"
        /\ r.upstream = state
    BY <1>1 DEF Connections
  <2>2. conn' = [conn EXCEPT ![c] = r]
    BY <1>6 DEF HalfTunnel, ProxyInv, ProxyTypeOK
  <2>3. /\ ~closed /\ S \subseteq Conns \X Ends
        /\ Cardinality(sockets) + 1 <= MaxSockets
    BY <1>1, <1>6 DEF HalfTunnel, Admits, AdmitsAfterClose, Ends
  <2>6. IsFiniteSet(S) /\ Cardinality(S) <= Cardinality(sockets) + 1 /\ Cardinality(S) \in Nat
    <3>1. CASE kept
      <4>1. S = sockets \cup {up}
        BY <3>1
      <4> QED
        BY <1>1, <4>1, SlotAdded
    <3>2. CASE ~kept
      BY <1>1, <3>2
    <3> QED
      BY <3>1, <3>2
  <2>4. Slotted(c, r, S)
    BY <2>1, <1>1 DEF Slotted
  <2>5. ConnBecomes(c, r, S)
    BY <2>2, <1>6 DEF ConnBecomes, HalfTunnel
  <2> HIDE DEF r, S
  <2>7. Cardinality(S) <= MaxSockets
    BY <2>3, <2>6, <1>1, ProxyLimits
  <2> QED
    BY <2>1, <2>3, <2>4, <2>5, <2>6, <2>7, <1>1, <1>2, <1>7, ConnKeeps
<1> QED
  BY <1>3, <1>4, <1>5, <1>6 DEF Resolved, Unhandled
\* Ends of a connection are destroyed: their slots are free.
LEMMA DestroyKeeps ==
  ASSUME ProxyInv, NEW c \in Conns, NEW ends \in SUBSET Ends, Destroy(c, ends),
         conn[c].stage # "unused",
         UNCHANGED <<server, closed>>,
         usedBytes' \in 0 .. MaxBytes + 1, passed' \in Nat,
         passed' <= usedBytes', passed' <= MaxBytes, died' \in BOOLEAN
  PROVE  ProxyInv'
<1> DEFINE k == conn[c]
           client == IF "client" \in ends /\ k.client = "open" THEN "gone" ELSE k.client
           upstream == IF "upstream" \in ends /\ k.upstream = "open" THEN "gone" ELSE k.upstream
           r == Destroyed(c, ends)
           S == sockets \ Emitted(c, ends)
<1>1. k \in Connections /\ Slotted(c, k, sockets)
  BY ConnTyped
<1>2. /\ r \in Connections /\ r.stage = k.stage /\ r.early = k.early
      /\ r.client = client /\ r.upstream = upstream
  BY <1>1 DEF Destroyed, Connections
<1>3. /\ <<c, "client">> \in S <=>
           <<c, "client">> \in sockets /\ ~("client" \in ends /\ k.client = "open")
      /\ <<c, "upstream">> \in S <=>
           <<c, "upstream">> \in sockets /\ ~("upstream" \in ends /\ k.upstream = "open")
  BY DEF Emitted, Ends
<1>4. \A d \in Conns, e \in Ends : d # c => (<<d, e>> \in S <=> <<d, e>> \in sockets)
  BY DEF Emitted
<1>5. ConnBecomes(c, r, S)
  BY <1>4 DEF ConnBecomes, Destroy
<1>6. S \subseteq sockets
  OBVIOUS
<1>7. /\ S \subseteq Conns \X Ends /\ IsFiniteSet(S) /\ Cardinality(S) <= Cardinality(sockets)
      /\ Cardinality(sockets) \in Nat /\ Cardinality(S) \in Nat
  BY <1>6, SlotsTaken DEF ProxyInv, ProxyTypeOK
<1> HIDE DEF r, S
<1>8. Slotted(c, r, S)
  BY <1>1, <1>2, <1>3 DEF Slotted
<1>9. closed => r.upstream # "open"
  BY <1>2 DEF ProxyInv, ClosedReachesNobody
<1>10. Cardinality(S) <= MaxSockets
  BY <1>7, ProxyLimits DEF ProxyInv
<1> QED
  BY <1>2, <1>5, <1>7, <1>8, <1>9, <1>10, ConnKeeps

LEMMA ChunkKeeps ==
  ASSUME ProxyInv, NEW c \in Conns, Chunk(c)
  PROVE  ProxyInv'
<1>1. /\ usedBytes \in 0 .. MaxBytes + 1 /\ passed \in Nat /\ passed <= usedBytes
      /\ usedBytes <= MaxBytes /\ usedBytes' = usedBytes + 1 /\ passed <= MaxBytes
      /\ UNCHANGED <<server, closed>> /\ conn[c].stage = "open" /\ died' \in BOOLEAN
  BY DEF Chunk, ProxyInv, ProxyTypeOK
<1>2. usedBytes' \in 0 .. MaxBytes + 1
  BY <1>1, ProxyLimits
<1>3. CASE WithinBudget(usedBytes + 1) /\ passed' = passed + 1 /\ UNCHANGED <<conn, sockets>>
  <2>1. passed' \in Nat /\ passed' <= usedBytes' /\ passed' <= MaxBytes
    BY <1>1, <1>3, ProxyLimits DEF WithinBudget
  <2> QED
    BY <1>1, <1>2, <1>3, <2>1
    DEF ProxyInv, ProxyTypeOK, Slotted, ClosedReachesNobody, ServerInv
<1>4. CASE ~WithinBudget(usedBytes + 1) /\ Destroy(c, Ends) /\ UNCHANGED passed
  <2>1. passed' \in Nat /\ passed' <= usedBytes' /\ passed' <= MaxBytes
    BY <1>1, <1>4, ProxyLimits
  <2> QED
    BY <1>1, <1>2, <1>4, <2>1, DestroyKeeps
<1> QED
  BY <1>3, <1>4 DEF Chunk

LEMMA LeavesKeeps ==
  ASSUME ProxyInv, NEW c \in Conns, ClientLeaves(c) \/ UpstreamEnds(c)
  PROVE  ProxyInv'
<1>1. /\ UNCHANGED <<server, closed>> /\ usedBytes' \in 0 .. MaxBytes + 1 /\ passed' \in Nat
      /\ passed' <= usedBytes' /\ passed' <= MaxBytes /\ died' \in BOOLEAN
  BY DEF ClientLeaves, UpstreamEnds, ProxyInv, ProxyTypeOK
<1>2. Destroy(c, {"client"}) \/ Destroy(c, {"upstream"}) \/ Destroy(c, Ends)
  BY DEF ClientLeaves, UpstreamEnds
<1>4. conn[c].stage # "unused"
  BY ConnTyped DEF ClientLeaves, UpstreamEnds, Slotted
<1>3. {"client"} \in SUBSET Ends /\ {"upstream"} \in SUBSET Ends /\ Ends \in SUBSET Ends
  BY DEF Ends
<1> QED
  BY <1>1, <1>2, <1>3, <1>4, DestroyKeeps
\* close(): what is in the set is destroyed, and nothing else is open upstream.
LEMMA CloseKeeps ==
  ASSUME ProxyInv, CloseProxy
  PROVE  ProxyInv' /\ closed' /\ \A c \in Conns : conn'[c].upstream # "open"
<1> DEFINE ends(c) == {e \in Ends : <<c, e>> \in sockets}
<1>1. ASSUME NEW c \in Conns
      PROVE  /\ conn'[c] \in Connections /\ conn'[c].stage = conn[c].stage
             /\ conn'[c].early = conn[c].early
             /\ conn'[c].client = IF <<c, "client">> \in sockets /\ conn[c].client = "open"
                                  THEN "gone" ELSE conn[c].client
             /\ conn'[c].upstream = IF <<c, "upstream">> \in sockets /\ conn[c].upstream = "open"
                                    THEN "gone" ELSE conn[c].upstream
  <2>1. conn'[c] = Destroyed(c, ends(c))
    BY DEF CloseProxy
  <2>2. /\ "client" \in ends(c) <=> <<c, "client">> \in sockets
        /\ "upstream" \in ends(c) <=> <<c, "upstream">> \in sockets
    BY DEF Ends
  <2>3. conn[c] \in Connections
    BY ConnTyped
  <2> HIDE DEF ends
  <2> QED
    BY <2>1, <2>2, <2>3 DEF Destroyed, Connections
<1>2. sockets' \subseteq sockets
  BY DEF CloseProxy
<1>3. /\ sockets' \subseteq Conns \X Ends /\ IsFiniteSet(sockets')
      /\ Cardinality(sockets') <= MaxSockets
  <2>1. /\ IsFiniteSet(sockets') /\ Cardinality(sockets') <= Cardinality(sockets)
        /\ Cardinality(sockets) \in Nat /\ Cardinality(sockets') \in Nat
    BY <1>2, SlotsTaken DEF ProxyInv
  <2> QED
    BY <1>2, <2>1, ProxyLimits DEF ProxyInv, ProxyTypeOK
<1>4. ASSUME NEW c \in Conns
      PROVE  Slotted(c, conn'[c], sockets') /\ conn'[c].upstream # "open"
  <2>1. Slotted(c, conn[c], sockets)
    BY ConnTyped
  <2>2. \A e \in Ends : <<c, e>> \in sockets' <=> <<c, e>> \in sockets /\ conn[c][e] # "open"
    BY DEF CloseProxy
  <2>3. /\ <<c, "client">> \in sockets' <=> <<c, "client">> \in sockets /\ conn[c].client # "open"
        /\ <<c, "upstream">> \in sockets' <=> <<c, "upstream">> \in sockets /\ conn[c].upstream # "open"
    BY <2>2 DEF Ends
  <2> QED
    BY <1>1, <2>1, <2>3 DEF Slotted
<1>5. conn' \in [Conns -> Connections]
  <2>1. conn' = [c \in Conns |-> conn'[c]]
    BY DEF CloseProxy
  <2> QED
    BY <1>1, <2>1
<1>6. /\ closed' = TRUE /\ usedBytes' = usedBytes /\ passed' = passed /\ died' = died
      /\ server' \in {"none", "starting", "listening", "stopped"}
      /\ server' \in {"none", "starting"} => server = server'
  BY DEF CloseProxy, ProxyInv, ProxyTypeOK
<1>7. ProxyTypeOK'
  BY <1>3, <1>5, <1>6 DEF ProxyInv, ProxyTypeOK, Connections
<1>8. ServerInv'
  BY <1>1, <1>6 DEF ServerInv, ProxyInv
<1>9. ClosedReachesNobody'
  BY <1>4 DEF ClosedReachesNobody
<1> QED
  BY <1>3, <1>4, <1>6, <1>7, <1>8, <1>9 DEF ProxyInv

\* Only the server changes: it was not started, or it was never reached.
LEMMA ServerKeeps ==
  ASSUME ProxyInv, UNCHANGED <<closed, sockets, conn, usedBytes, passed, died>>,
         server' \in {"none", "starting", "listening", "stopped"},
         server' \in {"none", "starting"} => server \in {"none", "starting"},
         server' = "stopped" => server = "stopped"
  PROVE  ProxyInv'
<1>1. ProxyTypeOK' /\ ClosedReachesNobody'
  BY DEF ProxyInv, ProxyTypeOK, ClosedReachesNobody
<1>2. ServerInv'
  BY DEF ProxyInv, ServerInv
<1>3. \A c \in Conns : Slotted(c, conn'[c], sockets')
  BY DEF ProxyInv
<1> QED
  BY <1>1, <1>2, <1>3 DEF ProxyInv

LEMMA ProxyBegins == InitProxy => ProxyInv
<1> SUFFICES ASSUME InitProxy PROVE ProxyInv
  OBVIOUS
<1>1. Unused \in Connections /\ Unused.stage = "unused" /\ Unused.client = "none"
      /\ Unused.upstream = "none"
  BY DEF Unused, Connections, Kinds
<1>2. \A c \in Conns : conn[c] = Unused
  BY DEF InitProxy
<1>3. sockets = {} /\ IsFiniteSet(sockets) /\ Cardinality(sockets) = 0
  BY FS_EmptySet DEF InitProxy
<1>7. conn \in [Conns -> Connections] /\ usedBytes \in 0 .. MaxBytes + 1
  BY <1>1, ProxyLimits DEF InitProxy
<1>4. ProxyTypeOK
  BY <1>7 DEF InitProxy, ProxyTypeOK, Connections
<1>5. \A c \in Conns : Slotted(c, conn[c], sockets)
  BY <1>1, <1>2, <1>3 DEF Slotted
<1>6. ClosedReachesNobody /\ ServerInv
  BY <1>1, <1>2 DEF InitProxy, ClosedReachesNobody, ServerInv
<1> QED
  BY <1>3, <1>4, <1>5, <1>6, ProxyLimits DEF ProxyInv, InitProxy

LEMMA ProxySound ==
  ASSUME ProxyInv
  PROVE  ProxyTypeOK /\ ClosedReachesNobody /\ SlotsAccounted /\ BudgetKept
<1>1. \A s \in sockets :
        conn[s[1]][s[2]] = "open" \/ (s[2] = "client" /\ conn[s[1]].early)
  <2> SUFFICES ASSUME NEW s \in sockets
               PROVE  conn[s[1]][s[2]] = "open" \/ (s[2] = "client" /\ conn[s[1]].early)
    OBVIOUS
  <2>1. PICK c \in Conns, e \in Ends : s = <<c, e>>
    BY DEF ProxyInv, ProxyTypeOK
  <2>2. Slotted(c, conn[c], sockets)
    BY ConnTyped
  <2>3. CASE e = "client"
    BY <2>1, <2>2, <2>3 DEF Slotted
  <2>4. CASE e = "upstream"
    BY <2>1, <2>2, <2>4 DEF Slotted
  <2> QED
    BY <2>3, <2>4 DEF Ends
<1>2. \A c \in Conns : conn[c].upstream = "open" => <<c, "upstream">> \in sockets
  BY ConnTyped DEF Slotted
<1> QED
  BY <1>1, <1>2 DEF ProxyInv, SlotsAccounted, BudgetKept

----------------------------------------------------------------------------
(* The observation                                                         *)

Outcomes == {"executed", "blocked", "failed"}
GuidedRuns ==
  [snapshot : Places, home : {"own", "other"}, records : Seq(Outcomes), navigations : Nat,
   clicks : Nat, strays : Nat, returns : Nat, moves : Nat,
   awaits : {"first", "click", "reply", "snapshot", "over"},
   flight : {"none", "sent", "clicked", "blocked"}]
Loops ==
  [total : Totals, index : Nat, samples : Seq([index : Nat, image : Images]),
   failed : BOOLEAN]

SamplesOf(total) == [index : 0 .. total - 1, image : Images]

ObservationInv ==
  /\ page \in Places /\ guided \in GuidedRuns /\ obs \in Loops
  /\ obs.index \in 0 .. obs.total /\ obs.samples \in Seq(SamplesOf(obs.total))

LEMMA ObservationSound == ObservationInv => ObservationTypeOK
BY DEF ObservationInv, ObservationTypeOK, GuidedRuns, Loops, Outcomes, SamplesOf

LEMMA ObservationBegins == InitObservation => ObservationInv
<1> SUFFICES ASSUME InitObservation PROVE ObservationInv
  OBVIOUS
<1>1. page \in Places /\ Start \in Places
  BY ObservationSettings DEF InitObservation, Start, Places
<1>2. guided \in GuidedRuns
  BY <1>1 DEF InitObservation, NotGuided, GuidedRuns, Outcomes
<1>3. PICK total \in Totals :
        obs = [total |-> total, index |-> 0, samples |-> <<>>, failed |-> FALSE]
  BY DEF InitObservation
<1>4. obs \in Loops /\ obs.index \in 0 .. obs.total /\ obs.samples \in Seq(SamplesOf(obs.total))
  BY <1>3, ObservationSettings DEF Loops
<1> QED
  BY <1>1, <1>2, <1>4 DEF ObservationInv

\* The run of the actions becomes another.
LEMMA GuidedBecomes ==
  ASSUME ObservationInv, guided' \in GuidedRuns, UNCHANGED <<page, obs>>
  PROVE  ObservationInv'
BY DEF ObservationInv

LEMMA RecordAppended ==
  ASSUME NEW g \in GuidedRuns, NEW outcome \in Outcomes,
         NEW awaits \in {"snapshot", "over"}
  PROVE  [g EXCEPT !.records = Append(@, outcome), !.awaits = awaits] \in GuidedRuns
<1> DEFINE longer == Append(g.records, outcome)
<1>1. longer \in Seq(Outcomes)
  BY DEF GuidedRuns
<1>2. [g EXCEPT !.records = Append(@, outcome), !.awaits = awaits] =
        [g EXCEPT !.records = longer, !.awaits = awaits]
  OBVIOUS
<1> HIDE DEF longer
<1>3. [g EXCEPT !.records = longer, !.awaits = awaits] \in GuidedRuns
  BY <1>1 DEF GuidedRuns
<1> QED
  BY <1>2, <1>3

LEMMA ClickedTyped ==
  ASSUME ObservationInv
  PROVE  Clicked \in GuidedRuns
<1> DEFINE strays == IF page.origin # guided.home THEN guided.strays + 1 ELSE guided.strays
           clicks == guided.clicks + 1
<1>1. guided \in GuidedRuns /\ strays \in Nat /\ clicks \in Nat
  BY DEF ObservationInv, GuidedRuns
<1>2. Clicked = [guided EXCEPT !.clicks = clicks, !.strays = strays]
  BY <1>1 DEF Clicked, GuidedRuns
<1> HIDE DEF strays, clicks
<1> QED
  BY <1>1, <1>2 DEF GuidedRuns

\* A step of the run sends no action, and clicks only what was in flight.
SendsNothing ==
  /\ guided'.flight = "sent" => guided.flight = "sent"
  /\ guided'.clicks # guided.clicks => guided.flight = "sent" /\ guided'.flight # "sent"

LEMMA GuidedKeeps ==
  ASSUME ObservationInv,
         \/ FirstSnapshot(TRUE) \/ FirstSnapshot(FALSE)
         \/ SendAction \/ Evaluated \/ Replied \/ ActionFails
  PROVE  ObservationInv' /\ (SendsNothing \/ SendAction)
<1>1. guided \in GuidedRuns /\ page \in Places /\ Clicked \in GuidedRuns
  BY ClickedTyped DEF ObservationInv
<1>2. \A outcome \in Outcomes :
        /\ Ended(outcome) \in GuidedRuns
        /\ Ended(outcome).flight = guided.flight /\ Ended(outcome).clicks = guided.clicks
  BY <1>1, RecordAppended DEF Ended, GuidedRuns
<1>3. UNCHANGED <<page, obs>>
  BY DEF FirstSnapshot, SendAction, Evaluated, Replied, ActionFails
<1>4. guided' \in GuidedRuns /\ (SendsNothing \/ SendAction)
  <2>1. CASE FirstSnapshot(TRUE) \/ FirstSnapshot(FALSE)
    <3>1. \/ guided' = [guided EXCEPT !.awaits = "over"]
          \/ guided' = [guided EXCEPT !.snapshot = page, !.home = page.origin, !.returns = 0,
                                      !.awaits = "click"]
          \/ guided' = Ended("failed")
      BY <2>1 DEF FirstSnapshot
    <3>2. page.origin \in {"own", "other"}
      BY <1>1 DEF Places, Start
    <3>3. CASE guided' = [guided EXCEPT !.awaits = "over"]
      BY <3>3, <1>1 DEF GuidedRuns, SendsNothing
    <3>4. CASE guided' = [guided EXCEPT !.snapshot = page, !.home = page.origin,
                                        !.returns = 0, !.awaits = "click"]
      <4>1. guided' \in GuidedRuns
        <5>1. 0 \in Nat /\ "click" \in {"first", "click", "reply", "snapshot", "over"}
          OBVIOUS
        <5> QED
          BY <3>2, <3>4, <5>1, <1>1, Zenon DEF GuidedRuns
      <4> QED
        BY <3>4, <4>1, <1>1 DEF GuidedRuns, SendsNothing
    <3>5. CASE guided' = Ended("failed")
      BY <3>5, <1>2 DEF Outcomes, SendsNothing
    <3> QED
      BY <3>1, <3>3, <3>4, <3>5
  <2>2. CASE SendAction
    BY <2>2, <1>1 DEF SendAction, GuidedRuns
  <2>3. CASE Evaluated
    BY <2>3, <1>1 DEF Evaluated, GuidedRuns, SendsNothing
  <2>4. CASE Replied
    <3>1. CASE guided' = [guided EXCEPT !.records = Append(@, "executed"),
                                        !.awaits = "snapshot", !.flight = "none"]
      <4> DEFINE longer == Append(guided.records, "executed")
      <4>1. longer \in Seq(Outcomes)
        BY <1>1 DEF GuidedRuns, Outcomes
      <4>2. guided' = [guided EXCEPT !.records = longer, !.awaits = "snapshot", !.flight = "none"]
        BY <3>1
      <4> HIDE DEF longer
      <4>3. guided' \in GuidedRuns
        BY <4>1, <4>2, <1>1, Zenon DEF GuidedRuns
      <4> QED
        BY <4>2, <4>3, <1>1 DEF GuidedRuns, SendsNothing
    <3>2. CASE guided' = [Ended("blocked") EXCEPT !.flight = "none"]
      BY <3>2, <1>2 DEF GuidedRuns, SendsNothing, Outcomes
    <3> QED
      BY <2>4, <3>1, <3>2 DEF Replied
  <2>5. CASE ActionFails
    BY <2>5, <1>2 DEF ActionFails, Outcomes, SendsNothing
  <2> QED
    BY <2>1, <2>2, <2>3, <2>4, <2>5
<1> QED
  BY <1>3, <1>4, GuidedBecomes

\* The snapshot after a click clicks nothing.
LEMMA SnapshotKeeps ==
  ASSUME ObservationInv, NEW ok \in BOOLEAN, NextSnapshot(ok)
  PROVE  ObservationInv' /\ SendsNothing
<1> DEFINE last == Len(Records)
           outcome == IF ok THEN "blocked" ELSE "failed"
           amended == [Records EXCEPT ![last] = outcome]
<1>1. guided \in GuidedRuns /\ page \in Places /\ Records \in Seq(Outcomes)
  BY DEF ObservationInv, GuidedRuns, Records
<1>2. amended \in Seq(Outcomes)
  <2>1. Records \in [1 .. last -> Outcomes] /\ last \in Nat
    BY <1>1
  <2>2. amended \in [1 .. last -> Outcomes]
    BY <2>1 DEF Outcomes
  <2> QED
    BY <2>1, <2>2, IsASeq
<1>3. PICK navigations \in Nat, awaits \in {"click", "over"} :
        \/ guided' = [guided EXCEPT !.snapshot = page, !.navigations = navigations,
                                    !.awaits = awaits]
        \/ guided' = [guided EXCEPT !.awaits = "over", !.records = amended]
  <2> DEFINE count == guided.navigations + IF page # guided.snapshot THEN 1 ELSE 0
             next == IF last = MaxActions THEN "over" ELSE "click"
  <2>1. count \in Nat /\ next \in {"click", "over"}
    BY <1>1 DEF GuidedRuns
  <2>2. [guided EXCEPT !.awaits = "over", !.records[last] = outcome] =
          [guided EXCEPT !.awaits = "over", !.records = amended]
    BY <1>1 DEF GuidedRuns, Records
  <2>3. \/ guided' = [guided EXCEPT !.snapshot = page, !.navigations = count, !.awaits = next]
        \/ guided' = [guided EXCEPT !.awaits = "over", !.records[last] = outcome]
    BY DEF NextSnapshot
  <2> QED
    BY <2>1, <2>2, <2>3
<1> HIDE DEF amended
<1>4. guided' \in GuidedRuns /\ SendsNothing
  BY <1>1, <1>2, <1>3 DEF GuidedRuns, SendsNothing
<1> QED
  BY <1>4, GuidedBecomes DEF NextSnapshot

LEMMA PageKeeps ==
  ASSUME ObservationInv, \/ Unfollowed \/ \E to \in Places : PageMoves(to)
  PROVE  ObservationInv' /\ SendsNothing
<1>0. guided \in GuidedRuns /\ page \in Places
  BY DEF ObservationInv
<1>1. CASE Unfollowed
  <2>1. Start \in Places
    BY DEF Start, Places
  <2>2. CASE guided.flight = "sent"
    BY <1>1, <2>2 DEF Unfollowed, ObservationInv, SendsNothing
  <2>3. CASE guided.flight # "sent"
    <3>1. page' = Start /\ guided' = [guided EXCEPT !.snapshot = Start, !.navigations = 0,
                                                    !.moves = 0, !.flight = "none"]
      BY <1>1, <2>3 DEF Unfollowed
    <3>2. guided' \in GuidedRuns
      BY <3>1, <2>1, <1>0, Zenon DEF GuidedRuns
    <3>3. SendsNothing
      BY <3>1, <1>0 DEF GuidedRuns, SendsNothing
    <3> QED
      BY <1>1, <2>1, <3>1, <3>2, <3>3 DEF Unfollowed, ObservationInv
  <2> QED
    BY <2>2, <2>3
<1>2. ASSUME NEW to \in Places, PageMoves(to)
      PROVE  ObservationInv' /\ SendsNothing
  <2> DEFINE back == page.origin # guided.home /\ to.origin = guided.home
             returns == IF back THEN guided.returns + 1 ELSE guided.returns
             moves == guided.moves + 1
  <2>1. guided' = [guided EXCEPT !.moves = moves, !.returns = returns]
    BY <1>2 DEF PageMoves
  <2>2. returns \in Nat /\ moves \in Nat
    BY <1>0 DEF GuidedRuns
  <2> HIDE DEF returns, moves
  <2>3. guided' \in GuidedRuns /\ SendsNothing
    BY <2>1, <2>2, <1>0 DEF GuidedRuns, SendsNothing
  <2> QED
    BY <1>2, <2>3 DEF PageMoves, ObservationInv
<1> QED
  BY <1>1, <1>2

LEMMA SamplingKeeps ==
  ASSUME ObservationInv, Sample \/ SampleFails
  PROVE  ObservationInv' /\ guided' = guided
<1>1. obs \in Loops /\ obs.index \in 0 .. obs.total /\ obs.samples \in Seq(SamplesOf(obs.total))
      /\ obs.total \in Nat
  BY ObservationSettings DEF ObservationInv, Loops
<1>2. CASE SampleFails
  BY <1>2, <1>1 DEF SampleFails, ObservationInv, Loops
<1>3. CASE Sample
  <2>4. obs.index # obs.total
    BY <1>3, Zenon DEF Sample, SamplingOver
  <2>1. obs.index < obs.total
    BY <1>1, <2>4
  <2>2. CASE obs' = [obs EXCEPT !.index = @ + 1]
    BY <2>1, <2>2, <1>1, <1>3 DEF Sample, ObservationInv, Loops
  <2>3. CASE \E image \in Images :
               obs' = [obs EXCEPT !.index = @ + 1,
                                  !.samples = Append(@, [index |-> obs.index, image |-> image])]
    <3>1. PICK image \in Images :
            obs' = [obs EXCEPT !.index = @ + 1,
                               !.samples = Append(@, [index |-> obs.index, image |-> image])]
      BY <2>3
    <3> DEFINE s == [index |-> obs.index, image |-> image]
               longer == Append(obs.samples, s)
    <3>2. s \in SamplesOf(obs.total) /\ s \in [index : Nat, image : Images]
      BY <1>1, <2>1 DEF SamplesOf
    <3>3. obs.samples \in Seq([index : Nat, image : Images])
      BY <1>1 DEF Loops
    <3> HIDE DEF s
    <3>4. longer \in Seq(SamplesOf(obs.total)) /\ longer \in Seq([index : Nat, image : Images])
      BY <1>1, <3>2, <3>3
    <3>5. obs' = [obs EXCEPT !.index = @ + 1, !.samples = longer]
      BY <3>1 DEF s
    <3> DEFINE next == obs.index + 1
    <3>8. obs' = [obs EXCEPT !.index = next, !.samples = longer] /\ next \in Nat
      BY <3>5, <1>1
    <3> HIDE DEF longer, next
    <3>6. /\ obs' \in Loops /\ obs'.total = obs.total /\ obs'.index = next
          /\ obs'.samples = longer
      BY <3>8, <3>4, <1>1 DEF Loops
    <3>7. obs'.index \in 0 .. obs'.total /\ obs'.samples \in Seq(SamplesOf(obs'.total))
      BY <3>4, <3>6, <2>1, <1>1 DEF next
    <3> QED
      BY <3>6, <3>7, <1>3 DEF Sample, ObservationInv
  <2> QED
    BY <2>2, <2>3, <1>3 DEF Sample
<1> QED
  BY <1>2, <1>3

----------------------------------------------------------------------------
(* The capture                                                             *)

OwnTypeOK ==
  /\ mode \in Modes /\ cancelled \in BOOLEAN /\ aborted \in BOOLEAN
  /\ work \in {"resolving", "finding", "profile", "listening", "connecting", "setup",
               "loading", "reading", "shooting", "guided", "sampling", "storing",
               "returned", "threw"}
  /\ profile \in {"none", "made", "removed", "left"}
  /\ browser \in {"none", "running", "killed", "gone"}
  /\ cdp \in {"none", "open", "closed"}
  /\ answer \in {"pending", "answering", "timing out", "returned", "threw", "timed out"}
  /\ cleaner \in [Cleaners -> {"off", "exit", "draining", "done"}]
  /\ shots \in Nat

\* What a cleanup that began when the work was over has released so far.
Releases(k) ==
  /\ WorkOver /\ cdp # "open" /\ browser # "running"
  /\ cleaner[k] \in {"draining", "done"} => server \in {"none", "stopped"}
  /\ cleaner[k] = "done" => profile # "made"

\* The final cleanup began after the work unless the timer was first, the late one always
\* did; a proxy is about to listen while the work waits for it.
CleanupInv ==
  /\ server = "starting" <=> work = "listening"
  /\ work \in {"resolving", "finding", "profile"} => server = "none"
  /\ answer \in {"answering", "returned", "threw"} => Releases("final")
  /\ answer \in {"returned", "threw"} => cleaner["final"] = "done"
  /\ cleaner["late"] # "off" => Releases("late")

\* The socket of a cancelled capture is closed, or nobody is left to use it.
Quiet == cancelled /\ cdp = "open" => WorkOver

Inv == OwnTypeOK /\ ProxyInv /\ ObservationInv /\ CleanupInv /\ Quiet

\* What a step may do to a cancelled capture.
StaysQuiet ==
  cancelled => /\ browser' = "running" => browser = "running"
               /\ shots' = shots /\ SendsNothing

LEMMA Starts == Init => Inv
<1> SUFFICES ASSUME Init PROVE Inv
  OBVIOUS
<1>1. ProxyInv /\ ObservationInv
  BY ProxyBegins, ObservationBegins DEF Init
<1>2. OwnTypeOK
  BY DEF Init, OwnTypeOK, Cleaners
<1>3. CleanupInv /\ Quiet
  BY DEF Init, InitProxy, CleanupInv, Quiet, Cleaners
<1> QED
  BY <1>1, <1>2, <1>3 DEF Inv

\* A step of the work: no cleanup has released anything yet, nor will it by this step.
LEMMA WorkingKeeps ==
  ASSUME Inv, ~WorkOver, Aside,
         UNCHANGED <<closed, sockets, conn, usedBytes, passed, died>>,
         server' \in {"none", "starting", "listening", "stopped"},
         server' \in {"none", "starting"} => server \in {"none", "starting"},
         server' = "stopped" => server = "stopped",
         server' = "starting" <=> work' = "listening",
         work' \in {"resolving", "finding", "profile"} => server' = "none",
         ObservationInv', OwnTypeOK', Quiet'
  PROVE  Inv'
<1>1. ProxyInv'
  BY ServerKeeps DEF Inv
<1>2. CleanupInv'
  BY DEF Inv, CleanupInv, Aside, Releases
<1> QED
  BY <1>1, <1>2 DEF Inv

\* A step of the work that leaves proxy and observation alone.
LEMMA PlainKeeps ==
  ASSUME Inv, ~WorkOver, Aside, work # "listening", work' # "listening",
         UNCHANGED <<proxyVars, observationVars>>, OwnTypeOK', Quiet',
         work' \in {"resolving", "finding", "profile"} => server = "none"
  PROVE  Inv'
<1>1. server' = server /\ server # "starting"
  BY DEF Inv, CleanupInv, proxyVars
<1>2. ObservationInv'
  BY DEF Inv, ObservationInv, observationVars
<1>3. UNCHANGED <<closed, sockets, conn, usedBytes, passed, died>>
  BY DEF proxyVars
<1>4. server \in {"none", "starting", "listening", "stopped"}
  BY DEF Inv, ProxyInv, ProxyTypeOK
<1> QED
  BY <1>1, <1>2, <1>3, <1>4, WorkingKeeps

\* The state of a capture between its awaits.
LEMMA Working ==
  ASSUME Inv
  PROVE  /\ mode \in {"scroll", "auto", "guided"}
         /\ ~WorkOver => ~(cancelled /\ cdp = "open")
         /\ work = "listening" <=> server = "starting"
         /\ work \in {"resolving", "finding", "profile"} => server = "none"
         /\ server \in {"none", "starting", "listening", "stopped"}
BY CaptureModes DEF Inv, OwnTypeOK, Quiet, CleanupInv, ProxyInv, ProxyTypeOK

LEMMA LookupKeeps ==
  ASSUME Inv, ResolveUrl \/ FindChrome \/ Connect \/ Prepare \/ Shoot
  PROVE  Inv' /\ StaysQuiet
<1>1. ~WorkOver /\ work # "listening" /\ Aside /\ UNCHANGED <<proxyVars, observationVars>>
  BY DEF ResolveUrl, FindChrome, Connect, Prepare, Shoot, Replies, WorkOver
<1>2. OwnTypeOK
  BY DEF Inv
<1>3. ~(cancelled /\ cdp = "open") /\ mode \in {"scroll", "auto", "guided"}
  BY <1>1, Working
<1>4. OwnTypeOK' /\ Quiet'
  <2>1. CASE ResolveUrl
    BY <2>1, <1>2, <1>3 DEF ResolveUrl, Aside, IfActive, OwnTypeOK, Quiet, WorkOver
  <2>2. CASE FindChrome
    BY <2>2, <1>2, <1>3 DEF FindChrome, Aside, IfActive, OwnTypeOK, Quiet, WorkOver
  <2>3. CASE Connect
    BY <2>3, <1>2, <1>3 DEF Connect, Aside, IfActive, OwnTypeOK, Quiet, WorkOver
  <2>4. CASE Prepare
    BY <2>4, <1>2, <1>3 DEF Prepare, Aside, IfActive, Loop, Replies, OwnTypeOK, Quiet, WorkOver
  <2>5. CASE Shoot
    <3>2. shots \in Nat
      BY <1>2 DEF OwnTypeOK
    <3>1. shots' \in Nat
      BY <2>5, <3>2 DEF Shoot
    <3> QED
      BY <2>5, <3>1, <1>2, <1>3 DEF Shoot, Aside, OwnTypeOK, Quiet, WorkOver
  <2> QED
    BY <2>1, <2>2, <2>3, <2>4, <2>5
<1>7. work \in {"resolving", "finding", "profile"} => server = "none"
  BY Working
<1>6. /\ work' # "listening"
      /\ work' \in {"resolving", "finding", "profile"} => server = "none"
  BY <1>3, <1>7 DEF ResolveUrl, FindChrome, Connect, Prepare, Shoot, IfActive, Loop
<1>5. StaysQuiet
  BY <1>1, <1>3 DEF ResolveUrl, FindChrome, Connect, Prepare, Shoot, Replies,
              StaysQuiet, SendsNothing, observationVars
<1> QED
  BY <1>1, <1>4, <1>5, <1>6, PlainKeeps

\* Profile, proxy and browser: a cancelled work stops after the profile.
LEMMA MakingKeeps ==
  ASSUME Inv, MakeProfile \/ ListenAndSpawn \/ Fails
  PROVE  Inv' /\ StaysQuiet
<1>1. /\ ~WorkOver /\ Aside /\ UNCHANGED observationVars
      /\ UNCHANGED <<closed, sockets, conn, usedBytes, passed, died>>
  BY DEF MakeProfile, ListenAndSpawn, Fails, WorkOver
<1>2. ObservationInv'
  BY <1>1 DEF Inv, ObservationInv, observationVars
<1>3. OwnTypeOK
  BY DEF Inv
<1>4. /\ ~(cancelled /\ cdp = "open")
      /\ work = "listening" <=> server = "starting"
      /\ work \in {"resolving", "finding", "profile"} => server = "none"
      /\ server \in {"none", "starting", "listening", "stopped"}
  BY <1>1, Working
<1>5. CASE MakeProfile
  <2>1. OwnTypeOK' /\ Quiet'
    BY <1>5, <1>3, <1>4 DEF MakeProfile, Aside, IfActive, OwnTypeOK, Quiet, WorkOver
  <2>2. /\ server' \in {"none", "starting", "listening", "stopped"}
        /\ server' \in {"none", "starting"} => server \in {"none", "starting"}
        /\ server' = "stopped" => server = "stopped"
        /\ server' = "starting" <=> work' = "listening"
        /\ work' \notin {"resolving", "finding", "profile"}
    BY <1>5, <1>4 DEF MakeProfile, IfActive
  <2> QED
    BY <1>1, <1>2, <1>5, <2>1, <2>2, WorkingKeeps DEF StaysQuiet, SendsNothing, observationVars, MakeProfile
<1>6. CASE ListenAndSpawn
  <2>1. OwnTypeOK' /\ Quiet'
    BY <1>6, <1>3, <1>4 DEF ListenAndSpawn, Aside, IfActive, OwnTypeOK, Quiet, WorkOver
  <2>2. server' = "listening" /\ server = "starting" /\ work' # "listening"
        /\ work' \notin {"resolving", "finding", "profile"}
    BY <1>6 DEF ListenAndSpawn, Listening, IfActive
  <2>3. StaysQuiet
    BY <1>6, <1>1 DEF ListenAndSpawn, IfActive, StaysQuiet, SendsNothing, observationVars
  <2> QED
    BY <1>1, <1>2, <2>1, <2>2, <2>3, WorkingKeeps
<1>7. CASE Fails
  <2>1. OwnTypeOK' /\ Quiet'
    BY <1>7, <1>3, <1>4 DEF Fails, Throws, Aside, OwnTypeOK, Quiet, WorkOver
  <2>2. /\ server' \in {"none", "starting", "listening", "stopped"}
        /\ server' \in {"none", "starting"} => server \in {"none", "starting"}
        /\ server' = "stopped" => server = "stopped"
        /\ server' # "starting" /\ work' # "listening"
        /\ work' \notin {"resolving", "finding", "profile"}
    BY <1>7, <1>4 DEF Fails, Throws
  <2> QED
    BY <1>1, <1>2, <1>7, <2>1, <2>2, WorkingKeeps DEF StaysQuiet, SendsNothing, observationVars, Fails
<1> QED
  BY <1>5, <1>6, <1>7
\* Guided actions and samples: a cancelled capture sends no more.
LEMMA ObservingKeeps ==
  ASSUME Inv, Guide \/ Observe
  PROVE  Inv' /\ StaysQuiet
<1>1. /\ ~WorkOver /\ work # "listening" /\ work' # "listening" /\ Aside
      /\ UNCHANGED <<proxyVars, profile, browser, cdp, shots>>
  BY DEF Guide, Observe, Throws, WorkOver
<1>2. OwnTypeOK /\ ObservationInv
  BY DEF Inv
<1>3. /\ ~(cancelled /\ cdp = "open") /\ server # "starting"
      /\ server \in {"none", "starting", "listening", "stopped"}
  BY <1>1, Working
<1>4. work' \in {"guided", "sampling", "threw"}
  BY DEF Guide, Observe, Throws
<1>5. OwnTypeOK' /\ Quiet'
  BY <1>1, <1>2, <1>3, <1>4 DEF Aside, OwnTypeOK, Quiet, WorkOver
<1>6. ObservationInv' /\ (cancelled => SendsNothing)
  <2>1. CASE Guide
    <3>1. CASE ~cancelled /\ SendAction
      BY <3>1, <1>2, GuidedKeeps
    <3>2. CASE FirstSnapshot(TRUE) \/ FirstSnapshot(FALSE) \/ Replied \/ ActionFails
      <4>1. ~SendAction
        BY <3>2, <1>2 DEF FirstSnapshot, Replied, ActionFails, SendAction, Ended,
                          ObservationInv, GuidedRuns
      <4> QED
        BY <3>2, <4>1, <1>2, GuidedKeeps
    <3>3. CASE NextSnapshot(TRUE) \/ NextSnapshot(FALSE)
      BY <3>3, <1>2, SnapshotKeeps
    <3>4. CASE Unfollowed
      BY <3>4, <1>2, PageKeeps
    <3> QED
      BY <2>1, <3>1, <3>2, <3>3, <3>4 DEF Guide
  <2>2. CASE Observe
    <3>1. CASE UNCHANGED observationVars
      BY <3>1, <1>2 DEF ObservationInv, observationVars, SendsNothing
    <3>2. CASE Sample \/ SampleFails
      BY <3>2, <1>2, SamplingKeeps DEF SendsNothing
    <3> QED
      BY <2>2, <3>1, <3>2 DEF Observe
  <2> QED
    BY <2>1, <2>2
<1>7. StaysQuiet
  BY <1>1, <1>6 DEF StaysQuiet
<1>8. server' = server /\ UNCHANGED <<closed, sockets, conn, usedBytes, passed, died>>
  BY <1>1 DEF proxyVars
<1> QED
  BY <1>1, <1>3, <1>4, <1>5, <1>6, <1>7, <1>8, WorkingKeeps

\* The screenshots: a cancelled capture hands out no more.
LEMMA DeliveringKeeps ==
  ASSUME Inv, Deliver \/ Stored
  PROVE  Inv' /\ StaysQuiet
<1>1. /\ ~WorkOver /\ work # "listening" /\ Aside
      /\ UNCHANGED <<proxyVars, observationVars, profile, browser, cdp>>
  BY DEF Deliver, Stored, WorkOver
<1>2. OwnTypeOK
  BY DEF Inv
<1>3. ~(cancelled /\ cdp = "open")
  BY <1>1, Working
<1>4. /\ work' \in {"shooting", "storing", "returned", "threw"}
      /\ shots' \in Nat /\ (cancelled => shots' = shots)
  <2>1. shots \in Nat
    BY <1>2 DEF OwnTypeOK
  <2>4. shots + 1 \in Nat
    BY <2>1
  <2>2. CASE Deliver
    BY <2>1, <2>4, <2>2 DEF Deliver, IfActive, Throws
  <2>3. CASE Stored
    BY <2>1, <2>4, <2>3 DEF Stored, IfActive
  <2> QED
    BY <2>2, <2>3
<1>5. OwnTypeOK' /\ Quiet'
  BY <1>1, <1>2, <1>3, <1>4 DEF Aside, OwnTypeOK, Quiet, WorkOver
<1>6. StaysQuiet
  BY <1>1, <1>4 DEF StaysQuiet, SendsNothing, observationVars
<1> QED
  BY <1>1, <1>4, <1>5, <1>6, PlainKeeps

\* Steps of others leave the work and what it may do where they are.
LEMMA BesideKeeps ==
  ASSUME Inv, ProxyInv', ObservationInv', SendsNothing,
         UNCHANGED own, server' = server
  PROVE  Inv' /\ StaysQuiet
<1>1. OwnTypeOK' /\ Quiet'
  <2>1. OwnTypeOK /\ Quiet
    BY DEF Inv
  <2>2. OwnTypeOK'
    <3>1. /\ mode' = mode /\ work' = work /\ profile' = profile /\ browser' = browser
          /\ cdp' = cdp /\ cancelled' = cancelled /\ aborted' = aborted /\ answer' = answer
          /\ cleaner' = cleaner /\ shots' = shots
      BY DEF own
    <3>2. OwnTypeOK
      BY <2>1
    <3> QED
      <4>1. mode' \in Modes /\ cancelled' \in BOOLEAN /\ aborted' \in BOOLEAN
        BY <3>1, <3>2 DEF OwnTypeOK
      <4>2. work' \in {"resolving", "finding", "profile", "listening", "connecting", "setup",
               "loading", "reading", "shooting", "guided", "sampling", "storing",
               "returned", "threw"}
        BY <3>1, <3>2 DEF OwnTypeOK
      <4>3. shots' \in Nat
        BY <3>1, <3>2 DEF OwnTypeOK
      <4>4. cleaner' \in [Cleaners -> {"off", "exit", "draining", "done"}]
        BY <3>1, <3>2 DEF OwnTypeOK
      <4> QED
        BY <3>1, <3>2, <4>1, <4>2, <4>3, <4>4 DEF OwnTypeOK
  <2>3. Quiet'
    BY <2>1 DEF own, Quiet, WorkOver
  <2> QED
    BY <2>2, <2>3
<1>2. CleanupInv'
  BY DEF Inv, own, CleanupInv, Releases, WorkOver
<1> QED
  BY <1>1, <1>2 DEF Inv, StaysQuiet, own

LEMMA EnvironmentKeeps ==
  ASSUME Inv, BrowserConnects \/ ProxyResolves \/ ProxyCarries \/ BrowserDisconnects \/ PageActs
  PROVE  Inv' /\ StaysQuiet
<1>1. UNCHANGED own
  BY DEF BrowserConnects, ProxyResolves, ProxyCarries, BrowserDisconnects, PageActs, own
<1>2. ProxyInv /\ ObservationInv
  BY DEF Inv
<1>3. CASE PageActs
  <2>1. ObservationInv' /\ SendsNothing
    <3>1. CASE Evaluated
      <4>1. ~SendAction
        BY <3>1, <1>2 DEF Evaluated, SendAction, Clicked, ObservationInv, GuidedRuns
      <4> QED
        BY <3>1, <4>1, <1>2, GuidedKeeps
    <3> QED
      BY <1>3, <1>2, <3>1, PageKeeps DEF PageActs
  <2>2. ProxyInv' /\ server' = server
    BY <1>3, <1>2 DEF PageActs, proxyVars, ProxyInv, ProxyTypeOK, Slotted,
                      ClosedReachesNobody, ServerInv
  <2> QED
    BY <1>1, <2>1, <2>2, BesideKeeps
<1>4. CASE BrowserConnects \/ ProxyResolves \/ ProxyCarries \/ BrowserDisconnects
  <2>1. UNCHANGED observationVars
    BY <1>4 DEF BrowserConnects, ProxyResolves, ProxyCarries, BrowserDisconnects
  <2>2. ObservationInv' /\ SendsNothing
    BY <1>2, <2>1 DEF ObservationInv, observationVars, SendsNothing
  <2>3. PICK c \in Conns : Accept(c) \/ Resolved(c) \/ Chunk(c) \/ UpstreamEnds(c) \/ ClientLeaves(c)
    BY <1>4 DEF BrowserConnects, ProxyResolves, ProxyCarries, BrowserDisconnects
  <2>4. ProxyInv'
    BY <1>2, <2>3, AcceptKeeps, ResolvedKeeps, ChunkKeeps, LeavesKeeps
  <2>5. server' = server
    BY <2>3 DEF Accept, Resolved, Chunk, UpstreamEnds, ClientLeaves
  <2> QED
    BY <1>1, <2>2, <2>4, <2>5, BesideKeeps
<1> QED
  BY <1>3, <1>4

----------------------------------------------------------------------------
(* The end of the call                                                     *)

\* A cleanup that may release what it finds, and no more than it did before.
LEMMA ReleaseKept ==
  ASSUME NEW k \in Cleaners, Releases(k),
         UNCHANGED work, cdp' \in {cdp, "closed"}, browser' \in {browser, "killed", "gone"},
         cleaner'[k] = cleaner[k],
         server' = server \/ server' = "stopped",
         profile' = profile \/ profile' # "made"
  PROVE  Releases(k)'
BY DEF Releases, WorkOver

\* cleanup() of k is called: its browser and socket are gone at once.
LEMMA BeginsKeeps ==
  ASSUME Inv, NEW k \in Cleaners, Begins(k), UNCHANGED <<proxyVars, observationVars>>,
         UNCHANGED <<mode, work, profile, shots>>,
         cancelled' \in BOOLEAN, aborted' \in BOOLEAN,
         \/ k = "abort" /\ answer' = answer
         \/ /\ k = "final" /\ answer = "pending"
            /\ answer' = IF WorkOver THEN "answering" ELSE "timing out"
         \/ k = "late" /\ WorkOver /\ cleaner["late"] = "off" /\ answer' = answer
  PROVE  Inv' /\ StaysQuiet
<1>1. OwnTypeOK /\ CleanupInv /\ Quiet /\ ObservationInv /\ ProxyInv
  BY DEF Inv
<1>2. ProxyInv' /\ ObservationInv' /\ server' = server
  BY <1>1 DEF proxyVars, observationVars, ProxyInv, ProxyTypeOK, Slotted,
              ClosedReachesNobody, ServerInv, ObservationInv
<1>3. /\ cdp' \in {cdp, "closed"} /\ browser' \in {browser, "killed"}
      /\ cdp' # "open" /\ browser' # "running"
      /\ cleaner'[k] = "exit" /\ \A j \in Cleaners : j # k => cleaner'[j] = cleaner[j]
      /\ cleaner' \in [Cleaners -> {"off", "exit", "draining", "done"}]
  BY <1>1 DEF Begins, OwnTypeOK
<1>4. OwnTypeOK' /\ Quiet'
  BY <1>1, <1>3 DEF OwnTypeOK, Quiet
<1>5. Releases("final")' \/ ~Releases("final") \/ k = "final"
  BY <1>2, <1>3, ReleaseKept DEF Cleaners
<1>6. Releases("late")' \/ ~Releases("late") \/ k = "late"
  BY <1>2, <1>3, ReleaseKept DEF Cleaners
<1>7. WorkOver => Releases(k)'
  BY <1>3 DEF Releases, WorkOver
<1>8. CleanupInv'
  <2>1. CASE k = "abort"
    BY <2>1, <1>1, <1>2, <1>3, <1>5, <1>6 DEF CleanupInv, Cleaners
  <2>2. CASE k = "final"
    BY <2>2, <1>1, <1>2, <1>3, <1>6, <1>7 DEF CleanupInv, Cleaners
  <2>3. CASE k = "late"
    BY <2>3, <1>1, <1>2, <1>3, <1>5, <1>7 DEF CleanupInv, Cleaners
  <2> QED
    BY <2>1, <2>2, <2>3 DEF Cleaners
<1>9. StaysQuiet
  BY <1>3 DEF StaysQuiet, SendsNothing, observationVars
<1> QED
  BY <1>2, <1>4, <1>8, <1>9 DEF Inv

LEMMA CallEndKeeps ==
  ASSUME Inv, Abort \/ Finally \/ LateCleanup
  PROVE  Inv' /\ StaysQuiet
<1>1. {"abort", "final", "late"} \subseteq Cleaners /\ aborted \in BOOLEAN
  BY DEF Cleaners, Inv, OwnTypeOK
<1>2. CASE Abort
  BY <1>1, <1>2, BeginsKeeps DEF Abort
<1>3. CASE Finally
  BY <1>1, <1>3, BeginsKeeps DEF Finally
<1>4. CASE LateCleanup
  <2>1. cancelled \in BOOLEAN
    BY DEF Inv, OwnTypeOK
  <2> QED
    BY <1>1, <1>4, <2>1, BeginsKeeps DEF LateCleanup, Settles
<1> QED
  BY <1>2, <1>3, <1>4

\* The browser exits, the answer is given, the profile is removed.
LEMMA ExitKeeps ==
  ASSUME Inv, BrowserExits
  PROVE  Inv' /\ StaysQuiet
<1>1. OwnTypeOK /\ CleanupInv /\ Quiet /\ ObservationInv /\ ProxyInv
  BY DEF Inv
<1>2. ProxyInv' /\ ObservationInv' /\ server' = server
  BY <1>1 DEF BrowserExits, proxyVars, observationVars, ProxyInv, ProxyTypeOK, Slotted,
              ClosedReachesNobody, ServerInv, ObservationInv
<1>3. OwnTypeOK' /\ Quiet'
  BY <1>1 DEF BrowserExits, OwnTypeOK, Quiet, WorkOver
<1>4. \A k \in Cleaners : Releases(k) => Releases(k)'
  BY <1>2, ReleaseKept DEF BrowserExits
<1>5. CleanupInv'
  BY <1>1, <1>2, <1>4 DEF BrowserExits, CleanupInv, Cleaners
<1>6. StaysQuiet
  BY DEF BrowserExits, StaysQuiet, SendsNothing, observationVars
<1> QED
  BY <1>2, <1>3, <1>5, <1>6 DEF Inv

LEMMA AnswerKeeps ==
  ASSUME Inv, Answer
  PROVE  Inv' /\ StaysQuiet
<1>1. OwnTypeOK /\ CleanupInv /\ Quiet /\ ObservationInv /\ ProxyInv
  BY DEF Inv
<1>2. ProxyInv' /\ ObservationInv' /\ server' = server
  BY <1>1 DEF Answer, proxyVars, observationVars, ProxyInv, ProxyTypeOK, Slotted,
              ClosedReachesNobody, ServerInv, ObservationInv
<1>3. /\ answer = "timing out" => answer' = "timed out"
      /\ answer = "answering" => answer' \in {"returned", "threw"}
      /\ answer \in {"answering", "timing out"} /\ cleaner["final"] = "done"
  BY <1>1 DEF Answer, CleanupInv, Releases, WorkOver
<1>4. OwnTypeOK' /\ Quiet'
  BY <1>1, <1>3 DEF Answer, OwnTypeOK, Quiet, WorkOver
<1>5. \A k \in Cleaners : Releases(k) => Releases(k)'
  BY <1>2, ReleaseKept DEF Answer
<1>6. CleanupInv'
  BY <1>1, <1>2, <1>3, <1>5 DEF Answer, CleanupInv, Cleaners
<1>7. StaysQuiet
  BY DEF Answer, StaysQuiet, SendsNothing, observationVars
<1> QED
  BY <1>2, <1>4, <1>6, <1>7 DEF Inv

\* A cleanup goes on: it closes the proxy, or removes the profile.
LEMMA CleanupKeeps ==
  ASSUME Inv, NEW k \in Cleaners, CloseProxyOf(k) \/ RemoveProfileOf(k)
  PROVE  Inv' /\ StaysQuiet
<1>1. OwnTypeOK /\ CleanupInv /\ Quiet /\ ObservationInv /\ ProxyInv
  BY DEF Inv
<1>2. /\ UNCHANGED <<mode, work, browser, cdp, cancelled, aborted, answer, shots>>
      /\ UNCHANGED observationVars
  BY DEF CloseProxyOf, RemoveProfileOf
<1>3. /\ \A j \in Cleaners : j # k => cleaner'[j] = cleaner[j]
      /\ cleaner[k] \in {"exit", "draining"} /\ cleaner'[k] \in {"draining", "done"}
      /\ cleaner' \in [Cleaners -> {"off", "exit", "draining", "done"}]
  BY <1>1 DEF CloseProxyOf, RemoveProfileOf, OwnTypeOK
<1>4. profile' = profile \/ profile' \in {"removed", "left"}
  BY DEF CloseProxyOf, RemoveProfileOf
<1>5. ProxyInv' /\ (server' = server \/ (server = "listening" /\ server' = "stopped"))
  <2>1. CASE UNCHANGED proxyVars
    BY <1>1, <2>1 DEF proxyVars, ProxyInv, ProxyTypeOK, Slotted, ClosedReachesNobody, ServerInv
  <2>2. CASE CloseProxy
    BY <1>1, <2>2, CloseKeeps DEF CloseProxy
  <2> QED
    BY <2>1, <2>2 DEF CloseProxyOf, RemoveProfileOf
<1>6. OwnTypeOK' /\ Quiet' /\ ObservationInv'
  <2>1. OwnTypeOK'
    <3>1. profile' \in {"none", "made", "removed", "left"}
      BY <1>1, <1>4 DEF OwnTypeOK
    <3>2. shots' \in Nat /\ mode' \in Modes /\ cancelled' \in BOOLEAN /\ aborted' \in BOOLEAN
      BY <1>1, <1>2 DEF OwnTypeOK
    <3> QED
      BY <1>1, <1>2, <1>3, <3>1, <3>2 DEF OwnTypeOK
  <2>2. Quiet'
    BY <1>1, <1>2 DEF Quiet, WorkOver
  <2>3. ObservationInv'
    BY <1>1, <1>2 DEF ObservationInv, observationVars
  <2> QED
    BY <2>1, <2>2, <2>3
<1>7. \A j \in Cleaners : j # k /\ Releases(j) => Releases(j)'
  BY <1>2, <1>3, <1>4, <1>5, ReleaseKept
<1>8. Releases(k) => Releases(k)'
  <2> SUFFICES ASSUME Releases(k) PROVE Releases(k)'
    OBVIOUS
  <2>1. /\ WorkOver' /\ cdp' # "open" /\ browser' # "running"
    BY <1>2 DEF Releases, WorkOver
  <2>2. CASE CloseProxyOf(k)
    <3>1. server # "starting"
      BY <1>1 DEF CleanupInv, Releases, WorkOver
    <3>2. server' \in {"none", "stopped"} /\ cleaner'[k] = "draining"
      BY <2>2, <1>1, <3>1 DEF CloseProxyOf, CloseProxy, proxyVars, ProxyInv, ProxyTypeOK, OwnTypeOK
    <3> QED
      BY <2>1, <3>2 DEF Releases
  <2>3. CASE RemoveProfileOf(k)
    <3>1. server' = server /\ server \in {"none", "stopped"} /\ profile' # "made"
      BY <2>3, <1>1 DEF RemoveProfileOf, proxyVars, Releases, OwnTypeOK
    <3> QED
      BY <2>1, <3>1 DEF Releases
  <2> QED
    BY <2>2, <2>3
<1>9. CleanupInv'
  <2>1. /\ server' = "starting" <=> work' = "listening"
        /\ work' \in {"resolving", "finding", "profile"} => server' = "none"
    BY <1>1, <1>2, <1>5 DEF CleanupInv
  <2>2. \A j \in Cleaners : Releases(j) => Releases(j)'
    BY <1>7, <1>8
  <2>3. /\ cleaner["late"] = "off" => cleaner'["late"] = "off"
        /\ cleaner["final"] = "done" => cleaner'["final"] = "done"
    BY <1>3 DEF Cleaners
  <2>4. "final" \in Cleaners /\ "late" \in Cleaners
    BY DEF Cleaners
  <2> QED
    BY <1>1, <1>2, <2>1, <2>2, <2>3, <2>4 DEF CleanupInv
<1>10. StaysQuiet
  BY <1>2 DEF StaysQuiet, SendsNothing, observationVars
<1> QED
  BY <1>5, <1>6, <1>9, <1>10 DEF Inv

LEMMA StepKeeps ==
  ASSUME Inv, [Next]_vars
  PROVE  Inv' /\ (StaysQuiet \/ UNCHANGED vars)
<1>1. CASE UNCHANGED vars
  <2>1. UNCHANGED own /\ UNCHANGED <<proxyVars, observationVars>>
    BY <1>1 DEF vars
  <2>2. ProxyInv' /\ ObservationInv' /\ SendsNothing /\ server' = server
    BY <2>1 DEF Inv, proxyVars, observationVars, ProxyInv, ProxyTypeOK, Slotted,
                ClosedReachesNobody, ServerInv, ObservationInv, SendsNothing
  <2> QED
    BY <1>1, <2>1, <2>2, BesideKeeps
<1>2. CASE WorkStep
  BY <1>2, LookupKeeps, MakingKeeps, ObservingKeeps, DeliveringKeeps DEF WorkStep
<1>3. CASE Abort \/ Finally \/ LateCleanup
  BY <1>3, CallEndKeeps
<1>4. CASE Answer \/ BrowserExits
  BY <1>4, AnswerKeeps, ExitKeeps
<1>5. CASE Cleanup
  BY <1>5, CleanupKeeps DEF Cleanup
<1>6. CASE BrowserConnects \/ ProxyResolves \/ ProxyCarries \/ BrowserDisconnects \/ PageActs
  BY <1>6, EnvironmentKeeps
<1> QED
  BY <1>1, <1>2, <1>3, <1>4, <1>5, <1>6 DEF Next

----------------------------------------------------------------------------
(* Theorems                                                                *)

\* The proxy within its limits, the cleanups in their order, nobody at work
\* on the socket of a cancelled capture (captureWebsite, createCaptureProxy).
THEOREM CaptureInvariant == Spec => []Inv
<1>1. Inv /\ [Next]_vars => Inv'
  BY StepKeeps
<1> QED
  BY Starts, <1>1, PTL DEF Spec

\* However handlers, clients, upstreams and close() interleave, a closed proxy
\* reaches nobody, its slots are accounted for and its budget is kept
\* (admit, consume and close of capture-proxy.js).
THEOREM ProxyHolds == Spec => []ProxyContained
<1>1. Inv => ProxyContained
  BY ProxySound, ObservationSound DEF Inv, ProxyContained, TypeOK, OwnTypeOK
<1> QED
  BY <1>1, CaptureInvariant, PTL

\* When a call has answered, and has been cleaned up after if it timed out,
\* nothing of it is left (the finally blocks of chrome-capture.js).
THEOREM AnswersRelease == Spec => []AnswerReleases
<1>1. Inv => AnswerReleases
  <2> SUFFICES ASSUME Inv, Answered, answer = "timed out" => cleaner["late"] = "done"
               PROVE  NothingHeld
    BY DEF AnswerReleases
  <2>1. PICK k \in Cleaners : Releases(k) /\ cleaner[k] = "done"
    <3>1. "final" \in Cleaners /\ "late" \in Cleaners
      BY DEF Cleaners
    <3>2. CASE answer = "timed out"
      BY <3>1, <3>2 DEF Inv, CleanupInv
    <3>3. CASE answer \in {"returned", "threw"}
      BY <3>1, <3>3 DEF Inv, CleanupInv
    <3> QED
      BY <3>2, <3>3 DEF Answered
  <2>2. cdp # "open" /\ browser # "running" /\ server \in {"none", "stopped"} /\ profile # "made"
    BY <2>1 DEF Releases
  <2>3. \A c \in Conns : conn[c].upstream # "open"
    <3>1. CASE server = "none"
      BY <3>1, ConnTyped DEF Inv, ProxyInv, ServerInv, Slotted
    <3>2. CASE server = "stopped"
      BY <3>2 DEF Inv, ProxyInv, ServerInv, ClosedReachesNobody
    <3> QED
      BY <2>2, <3>1, <3>2
  <2> QED
    BY <2>2, <2>3 DEF NothingHeld
<1> QED
  BY <1>1, CaptureInvariant, PTL

\* A cancelled capture starts no browser, delivers nothing and sends the page nothing;
\* what was sent before, the page may still run (active() between the awaits of
\* chrome-capture.js and guided-executor.js, and the closed socket).
THEOREM CancelledIsQuiet == Spec => QuietAfterCancel
<1>1. Inv /\ [Next]_vars =>
        [cancelled => /\ browser' = "running" => browser = "running"
                      /\ shots' = shots
                      /\ guided'.flight = "sent" => guided.flight = "sent"
                      /\ guided'.clicks # guided.clicks =>
                           guided.flight = "sent" /\ guided'.flight # "sent"]_vars
  BY StepKeeps DEF StaysQuiet, SendsNothing
<1> QED
  BY <1>1, CaptureInvariant, PTL DEF Spec, QuietAfterCancel

----------------------------------------------------------------------------
(* The guided actions                                                      *)

\* Records and Samples are names for fields.
USE DEF Records, Samples

AllExecuted(records) == \A i \in DOMAIN records : records[i] = "executed"
Executed(records) == Cardinality({i \in DOMAIN records : records[i] = "executed"})

\* Until the run ends every record is of a click that was made; an action in flight makes
\* the next one, though the run may have ended by then.
GuidedCounts ==
  LET n == Len(Records) IN
  /\ guided.awaits = "first" => n = 0 /\ guided.clicks = 0 /\ guided.flight = "none"
  /\ guided.awaits \in {"click", "reply", "snapshot"} => AllExecuted(Records)
  /\ guided.awaits = "click" => n < MaxActions /\ guided.clicks = n /\ guided.flight = "none"
  /\ guided.awaits = "reply" =>
       n < MaxActions /\ guided.clicks = IF guided.flight = "clicked" THEN n + 1 ELSE n
  /\ guided.awaits = "snapshot" =>
       n \in 1 .. MaxActions /\ guided.clicks = n /\ guided.flight = "none"
  /\ guided.awaits = "over" =>
       /\ n <= MaxActions
       /\ Executed(Records) <= guided.clicks /\ guided.clicks <= Executed(Records) + 1
       /\ guided.flight = "sent" => guided.clicks = Executed(Records)

\* One stray click may be ahead of the returns; when an action is sent, and while the page
\* is where the run began, none is.
GuidedPlaces ==
  LET followed == guided.awaits \in {"click", "reply", "snapshot"} IN
  /\ guided.strays <= guided.returns + 1
  /\ guided.awaits = "first" => guided.strays = 0
  /\ followed => guided.snapshot.origin = guided.home
  /\ (followed \/ guided.flight = "sent") /\ page.origin = guided.home =>
       guided.strays <= guided.returns
  /\ guided.awaits = "click" \/ guided.flight = "sent" => guided.strays <= guided.returns

GuidedInv == GuidedCounts /\ GuidedPlaces

\* The samples are in the order of their indices.
SamplesOrdered ==
  \A i \in DOMAIN Samples :
    /\ Samples[i].index < obs.index
    /\ \A j \in DOMAIN Samples : i < j => Samples[i].index < Samples[j].index

LEMMA ExecutedAll ==
  ASSUME NEW records \in Seq(Outcomes), AllExecuted(records)
  PROVE  Executed(records) = Len(records) /\ Len(records) \in Nat
<1>1. DOMAIN records = 1 .. Len(records) /\ Len(records) \in Nat
  OBVIOUS
<1>2. {i \in DOMAIN records : records[i] = "executed"} = 1 .. Len(records)
  BY <1>1 DEF AllExecuted
<1>3. Cardinality(1 .. Len(records)) = Len(records)
  <2> DEFINE n == Len(records)
  <2>1. n \in Nat
    BY <1>1
  <2> HIDE DEF n
  <2>2. Cardinality(1 .. n) = n
    BY <2>1, FS_Interval
  <2> QED
    BY <2>2 DEF n
<1> QED
  BY <1>1, <1>2, <1>3 DEF Executed

\* Only the last record is not of an executed action.
LEMMA ExecutedButLast ==
  ASSUME NEW records \in Seq(Outcomes), Len(records) # 0,
         records[Len(records)] # "executed",
         \A i \in 1 .. Len(records) - 1 : records[i] = "executed"
  PROVE  Executed(records) = Len(records) - 1 /\ Len(records) \in Nat
<1> DEFINE n == Len(records)
<1>1. /\ DOMAIN records = 1 .. n /\ n \in Nat /\ n >= 1 /\ records[n] # "executed"
      /\ \A i \in 1 .. n - 1 : records[i] = "executed"
  OBVIOUS
<1> HIDE DEF n
<1>2. {i \in DOMAIN records : records[i] = "executed"} = 1 .. n - 1
  <2>1. \A i \in 1 .. n : i \in 1 .. n - 1 \/ i = n
    BY <1>1
  <2> QED
    BY <1>1, <2>1
<1>3. Cardinality(1 .. n - 1) = n - 1
  <2> DEFINE m == n - 1
  <2>1. m \in Nat
    BY <1>1
  <2> HIDE DEF m
  <2>2. Cardinality(1 .. m) = m
    BY <2>1, FS_Interval
  <2> QED
    BY <2>2 DEF m
<1> QED
  BY <1>1, <1>2, <1>3 DEF Executed, n

LEMMA ClicksCounted ==
  ASSUME ObservationInv, GuidedInv
  PROVE  ClicksContained
<1>1. guided \in GuidedRuns /\ Records \in Seq(Outcomes) /\ MaxActions \in Nat
      /\ guided.clicks \in Nat
  BY ObservationSettings DEF ObservationInv, GuidedRuns
<1>2. guided.strays <= guided.returns + 1
  BY DEF GuidedInv, GuidedPlaces
<1>3. CASE guided.awaits = "first"
  <2>1. AllExecuted(Records) /\ Len(Records) = 0 /\ guided.clicks = 0
    BY <1>1, <1>3 DEF GuidedInv, GuidedCounts, AllExecuted
  <2> QED
    BY <1>1, <1>2, <2>1, ExecutedAll DEF ClicksContained, Executed
<1>4. CASE guided.awaits \in {"click", "reply", "snapshot"}
  <2>1. /\ AllExecuted(Records) /\ Len(Records) <= MaxActions
        /\ guided.clicks \in {Len(Records), Len(Records) + 1}
    BY <1>1, <1>4 DEF GuidedInv, GuidedCounts
  <2> QED
    BY <1>1, <1>2, <2>1, ExecutedAll DEF ClicksContained, Executed
<1>5. CASE guided.awaits = "over"
  BY <1>2, <1>5 DEF GuidedInv, GuidedCounts, ClicksContained, Executed
<1> QED
  BY <1>1, <1>3, <1>4, <1>5 DEF GuidedRuns

\* The run ends with a record of an action that was not executed, which has perhaps
\* clicked, or may yet click.
LEMMA RunEnds ==
  ASSUME ObservationInv, GuidedInv, guided' \in GuidedRuns, UNCHANGED page,
         (guided.awaits = "first" /\ MaxActions # 0) \/ guided.awaits \in {"click", "reply"},
         guided'.awaits = "over",
         NEW outcome \in {"blocked", "failed"}, guided'.records = Append(Records, outcome),
         guided'.clicks = guided.clicks, guided'.flight \in {guided.flight, "none"},
         guided'.strays = guided.strays, guided'.returns = guided.returns,
         guided'.home = guided.home
  PROVE  GuidedInv'
<1> DEFINE longer == Append(Records, outcome)
<1>1. /\ Records \in Seq(Outcomes) /\ outcome \in Outcomes /\ MaxActions \in Nat
      /\ AllExecuted(Records) /\ Len(Records) < MaxActions
      /\ guided.clicks \in {Len(Records), Len(Records) + 1}
      /\ guided.flight = "sent" => guided.clicks = Len(Records)
      /\ Len(Records) \in Nat
  <2>1. Records \in Seq(Outcomes) /\ outcome \in Outcomes /\ MaxActions \in Nat
    BY ObservationSettings DEF ObservationInv, GuidedRuns, Outcomes
  <2> QED
    BY <2>1 DEF GuidedInv, GuidedCounts, AllExecuted
<1>2. /\ longer \in Seq(Outcomes) /\ Len(longer) = Len(Records) + 1
      /\ longer[Len(Records) + 1] = outcome
      /\ \A i \in 1 .. Len(Records) : longer[i] = Records[i]
  BY <1>1
<1>3. \A i \in 1 .. Len(Records) : Records[i] = "executed"
  BY <1>1 DEF AllExecuted
<1> HIDE DEF longer
<1>4. Executed(longer) = Len(Records)
  <2>1. /\ Len(longer) # 0 /\ longer[Len(longer)] # "executed"
        /\ \A i \in 1 .. Len(longer) - 1 : longer[i] = "executed"
    BY <1>1, <1>2, <1>3
  <2>2. Executed(longer) = Len(longer) - 1
    BY <1>2, <2>1, ExecutedButLast
  <2> QED
    BY <1>1, <1>2, <2>2
<1>5. Records' = longer
  BY DEF longer
<1>6. /\ Executed(longer) <= guided'.clicks /\ guided'.clicks <= Executed(longer) + 1
      /\ guided'.flight = "sent" => guided'.clicks = Executed(longer)
  BY <1>1, <1>4
<1>7. Len(longer) <= MaxActions
  BY <1>1, <1>2
<1>8. GuidedCounts'
  BY <1>5, <1>6, <1>7 DEF GuidedCounts, Executed
<1>9. GuidedPlaces'
  BY DEF GuidedInv, GuidedPlaces
<1> QED
  BY <1>8, <1>9 DEF GuidedInv

LEMMA SnapshotTaken ==
  ASSUME ObservationInv, GuidedInv, NEW ok \in BOOLEAN, FirstSnapshot(ok)
  PROVE  GuidedInv'
<1>1. guided \in GuidedRuns /\ page \in Places /\ page' = page /\ guided.awaits = "first"
      /\ MaxActions \in Nat
  BY ObservationSettings DEF ObservationInv, FirstSnapshot
<1>2. guided' \in GuidedRuns
  BY GuidedKeeps DEF FirstSnapshot, ObservationInv
<1>3. /\ Len(Records) = 0 /\ guided.clicks = 0 /\ guided.strays = 0 /\ AllExecuted(Records)
      /\ guided.flight = "none"
  BY <1>1 DEF GuidedInv, GuidedCounts, GuidedPlaces, GuidedRuns, AllExecuted
<1>4. CASE MaxActions = 0
  <2>1. guided' = [guided EXCEPT !.awaits = "over"]
    BY <1>4 DEF FirstSnapshot
  <2>2. Executed(Records) = 0
    BY <1>1, <1>3, ExecutedAll DEF GuidedRuns
  <2>3. /\ guided'.awaits = "over" /\ guided'.records = guided.records
        /\ guided'.clicks = 0 /\ guided'.strays = 0 /\ guided'.flight = "none"
        /\ guided'.returns \in Nat
    BY <1>1, <1>3, <2>1 DEF GuidedRuns
  <2>4. Len(Records)' = 0 /\ Executed(Records)' = 0
    BY <1>3, <2>2, <2>3 DEF Executed
  <2>5. GuidedCounts'
    BY <1>4, <2>3, <2>4 DEF GuidedCounts
  <2>6. GuidedPlaces'
    BY <2>3 DEF GuidedPlaces
  <2> QED
    BY <2>5, <2>6 DEF GuidedInv
<1>5. CASE MaxActions # 0 /\ ok
  <2>1. guided' = [guided EXCEPT !.snapshot = page, !.home = page.origin, !.returns = 0,
                                 !.awaits = "click"]
    BY <1>5 DEF FirstSnapshot
  <2>2. /\ guided'.awaits = "click" /\ guided'.records = guided.records
        /\ guided'.clicks = 0 /\ guided'.strays = 0 /\ guided'.returns = 0
        /\ guided'.snapshot = page /\ guided'.home = page.origin /\ guided'.flight = "none"
    BY <1>1, <1>3, <2>1 DEF GuidedRuns
  <2>3. Records' = Records /\ AllExecuted(Records)' /\ Len(Records)' = 0
    BY <1>3, <2>2 DEF AllExecuted
  <2>4. GuidedCounts'
    BY <1>1, <1>5, <2>2, <2>3 DEF GuidedCounts
  <2>5. GuidedPlaces'
    BY <2>2 DEF GuidedPlaces
  <2> QED
    BY <2>4, <2>5 DEF GuidedInv
<1>6. CASE MaxActions # 0 /\ ~ok
  <2>1. guided' = Ended("failed")
    BY <1>6 DEF FirstSnapshot
  <2>2. /\ guided'.awaits = "over" /\ guided'.records = Append(Records, "failed")
        /\ guided'.clicks = guided.clicks /\ guided'.flight = guided.flight
        /\ guided'.strays = guided.strays /\ guided'.returns = guided.returns
        /\ guided'.home = guided.home
    BY <1>1, <2>1 DEF Ended, GuidedRuns
  <2> QED
    BY <1>1, <1>2, <1>6, <2>2, RunEnds
<1> QED
  BY <1>4, <1>5, <1>6

LEMMA ActionSent ==
  ASSUME ObservationInv, GuidedInv, SendAction
  PROVE  GuidedInv'
<1>1. /\ guided \in GuidedRuns /\ guided.awaits = "click" /\ page' = page
      /\ guided' = [guided EXCEPT !.awaits = "reply", !.flight = "sent"]
  BY DEF ObservationInv, SendAction
<1>2. /\ guided'.awaits = "reply" /\ guided'.records = guided.records
      /\ guided'.clicks = guided.clicks /\ guided'.flight = "sent"
      /\ guided'.strays = guided.strays /\ guided'.returns = guided.returns
      /\ guided'.home = guided.home /\ guided'.snapshot = guided.snapshot
  BY <1>1 DEF GuidedRuns
<1>3. GuidedCounts'
  BY <1>1, <1>2 DEF GuidedInv, GuidedCounts, AllExecuted
<1>4. GuidedPlaces'
  BY <1>1, <1>2 DEF GuidedInv, GuidedPlaces
<1> QED
  BY <1>3, <1>4 DEF GuidedInv

\* What a click does to the run.
LEMMA ClickedIs ==
  ASSUME ObservationInv
  PROVE  /\ Clicked \in GuidedRuns /\ Clicked.records = Records
         /\ Clicked.clicks = guided.clicks + 1
         /\ Clicked.strays = IF page.origin # guided.home THEN guided.strays + 1
                             ELSE guided.strays
         /\ Clicked.returns = guided.returns /\ Clicked.awaits = guided.awaits
         /\ Clicked.snapshot = guided.snapshot /\ Clicked.home = guided.home
<1> DEFINE strays == IF page.origin # guided.home THEN guided.strays + 1 ELSE guided.strays
           clicks == guided.clicks + 1
<1>1. guided \in GuidedRuns /\ Clicked \in GuidedRuns
  BY ClickedTyped DEF ObservationInv
<1>2. Clicked = [guided EXCEPT !.clicks = clicks, !.strays = strays]
  BY DEF Clicked
<1> HIDE DEF strays, clicks
<1>3. /\ Clicked.records = Records /\ Clicked.clicks = clicks /\ Clicked.strays = strays
      /\ Clicked.returns = guided.returns /\ Clicked.awaits = guided.awaits
      /\ Clicked.snapshot = guided.snapshot /\ Clicked.home = guided.home
  BY <1>1, <1>2 DEF GuidedRuns
<1> QED
  BY <1>1, <1>3 DEF clicks, strays

\* The page clicks, or does not: a stray click was sent while none was ahead.
LEMMA FlightEnds ==
  ASSUME ObservationInv, GuidedInv, Evaluated
  PROVE  GuidedInv'
<1>1. /\ guided \in GuidedRuns /\ guided.flight = "sent" /\ page' = page
      /\ guided.strays <= guided.returns
      /\ {guided.strays, guided.returns, guided.clicks} \subseteq Nat
      /\ guided.awaits \in {"reply", "over"}
  <2>1. guided \in GuidedRuns /\ guided.flight = "sent" /\ page' = page
    BY DEF ObservationInv, Evaluated
  <2> QED
    BY <2>1 DEF GuidedInv, GuidedPlaces, GuidedCounts, GuidedRuns
<1>2. CASE guided' = [Clicked EXCEPT !.flight = "clicked"]
  <2>1. /\ guided'.awaits = guided.awaits /\ guided'.records = guided.records
        /\ guided'.clicks = guided.clicks + 1 /\ guided'.flight = "clicked"
        /\ guided'.strays = IF page.origin # guided.home THEN guided.strays + 1
                            ELSE guided.strays
        /\ guided'.returns = guided.returns
        /\ guided'.home = guided.home /\ guided'.snapshot = guided.snapshot
    <3> DEFINE c == Clicked
    <3>1. /\ c \in GuidedRuns /\ c.records = Records /\ c.clicks = guided.clicks + 1
          /\ c.strays = IF page.origin # guided.home THEN guided.strays + 1
                        ELSE guided.strays
          /\ c.returns = guided.returns /\ c.awaits = guided.awaits
          /\ c.snapshot = guided.snapshot /\ c.home = guided.home
      BY ClickedIs
    <3>2. guided' = [c EXCEPT !.flight = "clicked"]
      BY <1>2
    <3> HIDE DEF c
    <3> QED
      BY <3>1, <3>2 DEF GuidedRuns
  <2>2. GuidedCounts'
    <3>1. CASE guided.awaits = "reply"
      BY <1>1, <2>1, <3>1 DEF GuidedInv, GuidedCounts, AllExecuted
    <3>2. CASE guided.awaits = "over"
      <4> DEFINE e == Executed(Records)
      <4>1. Executed(Records)' = e /\ Len(Records)' = Len(Records)
        BY <2>1 DEF Executed
      <4>2. guided.clicks = e /\ Len(Records) <= MaxActions
        BY <1>1, <3>2 DEF GuidedInv, GuidedCounts
      <4> HIDE DEF e
      <4>3. e <= guided'.clicks /\ guided'.clicks <= e + 1
        BY <1>1, <2>1, <4>2
      <4> QED
        BY <2>1, <3>2, <4>1, <4>2, <4>3 DEF GuidedCounts
    <3> QED
      BY <1>1, <3>1, <3>2
  <2>3. GuidedPlaces'
    BY <1>1, <2>1 DEF GuidedInv, GuidedPlaces
  <2> QED
    BY <2>2, <2>3 DEF GuidedInv
<1>3. CASE guided' = [guided EXCEPT !.flight = "blocked"]
  <2>1. /\ guided'.awaits = guided.awaits /\ guided'.records = guided.records
        /\ guided'.clicks = guided.clicks /\ guided'.flight = "blocked"
        /\ guided'.strays = guided.strays /\ guided'.returns = guided.returns
        /\ guided'.home = guided.home /\ guided'.snapshot = guided.snapshot
    BY <1>1, <1>3 DEF GuidedRuns
  <2>2. GuidedCounts'
    BY <1>1, <2>1 DEF GuidedInv, GuidedCounts, AllExecuted, Executed
  <2>3. GuidedPlaces'
    BY <1>1, <2>1 DEF GuidedInv, GuidedPlaces
  <2> QED
    BY <2>2, <2>3 DEF GuidedInv
<1> QED
  BY <1>2, <1>3 DEF Evaluated

LEMMA ActionEnds ==
  ASSUME ObservationInv, GuidedInv, ActionFails
  PROVE  GuidedInv'
<1>1. guided \in GuidedRuns /\ guided.awaits \in {"click", "reply"} /\ page' = page
  BY DEF ObservationInv, ActionFails
<1>2. guided' \in GuidedRuns
  BY GuidedKeeps DEF ObservationInv
<1>3. PICK outcome \in {"blocked", "failed"} : guided' = Ended(outcome)
  BY DEF ActionFails
<1>4. /\ guided'.awaits = "over" /\ guided'.records = Append(Records, outcome)
      /\ guided'.clicks = guided.clicks /\ guided'.flight = guided.flight
      /\ guided'.strays = guided.strays /\ guided'.returns = guided.returns
      /\ guided'.home = guided.home
  BY <1>1, <1>3 DEF Ended, GuidedRuns
<1> QED
  BY <1>1, <1>2, <1>4, RunEnds

LEMMA ReplyTaken ==
  ASSUME ObservationInv, GuidedInv, Replied
  PROVE  GuidedInv'
<1>1. /\ guided \in GuidedRuns /\ guided.awaits = "reply" /\ page' = page
      /\ guided.flight \in {"clicked", "blocked"}
      /\ Records \in Seq(Outcomes) /\ MaxActions \in Nat /\ Len(Records) \in Nat
  <2>1. Records \in Seq(Outcomes)
    BY DEF ObservationInv, GuidedRuns
  <2> QED
    BY <2>1, ObservationSettings DEF ObservationInv, Replied
<1>2. AllExecuted(Records) /\ Len(Records) < MaxActions
      /\ guided.clicks = IF guided.flight = "clicked" THEN Len(Records) + 1 ELSE Len(Records)
  BY <1>1 DEF GuidedInv, GuidedCounts
<1>3. CASE guided.flight = "clicked"
  <2> DEFINE longer == Append(Records, "executed")
  <2>1. guided' = [guided EXCEPT !.records = longer, !.awaits = "snapshot", !.flight = "none"]
    BY <1>3 DEF Replied
  <2>2. /\ Len(longer) = Len(Records) + 1 /\ DOMAIN longer = 1 .. Len(Records) + 1
        /\ longer[Len(Records) + 1] = "executed"
        /\ \A i \in 1 .. Len(Records) : longer[i] = Records[i]
        /\ DOMAIN Records = 1 .. Len(Records)
    BY <1>1
  <2> HIDE DEF longer
  <2>3. /\ guided'.awaits = "snapshot" /\ guided'.records = longer
        /\ guided'.clicks = guided.clicks /\ guided'.flight = "none"
        /\ guided'.strays = guided.strays /\ guided'.returns = guided.returns
        /\ guided'.home = guided.home /\ guided'.snapshot = guided.snapshot
    BY <1>1, <2>1 DEF GuidedRuns
  <2>4. AllExecuted(longer)
    <3>1. \A i \in 1 .. Len(Records) + 1 : i \in 1 .. Len(Records) \/ i = Len(Records) + 1
      BY <1>1
    <3> QED
      BY <1>2, <2>2, <3>1 DEF AllExecuted
  <2>5. AllExecuted(Records)' /\ Len(Records)' = Len(Records) + 1
    BY <2>2, <2>3, <2>4 DEF AllExecuted
  <2>6. guided'.clicks = Len(Records) + 1 /\ Len(Records) + 1 \in 1 .. MaxActions
    BY <1>1, <1>2, <1>3, <2>3
  <2>7. GuidedCounts'
    BY <2>3, <2>5, <2>6 DEF GuidedCounts
  <2>8. GuidedPlaces'
    BY <1>1, <1>3, <2>3 DEF GuidedInv, GuidedPlaces
  <2> QED
    BY <2>7, <2>8 DEF GuidedInv
<1>4. CASE guided.flight = "blocked"
  <2>1. guided' = [Ended("blocked") EXCEPT !.flight = "none"]
    BY <1>4 DEF Replied
  <2>2. /\ guided'.awaits = "over" /\ guided'.records = Append(Records, "blocked")
        /\ guided'.clicks = guided.clicks /\ guided'.flight = "none"
        /\ guided'.strays = guided.strays /\ guided'.returns = guided.returns
        /\ guided'.home = guided.home
    BY <1>1, <2>1 DEF Ended, GuidedRuns
  <2>3. guided' \in GuidedRuns
    BY GuidedKeeps DEF ObservationInv
  <2> QED
    BY <1>1, <2>2, <2>3, RunEnds
<1> QED
  BY <1>1, <1>3, <1>4

LEMMA SnapshotCompared ==
  ASSUME ObservationInv, GuidedInv, NEW ok \in BOOLEAN, NextSnapshot(ok)
  PROVE  GuidedInv'
<1> DEFINE n == Len(Records)
           outcome == IF ok THEN "blocked" ELSE "failed"
           amended == [Records EXCEPT ![n] = outcome]
           moved == page # guided.snapshot
           navigations == guided.navigations + IF moved THEN 1 ELSE 0
           stays == ok /\ StaysThere(guided.snapshot, page) /\ navigations <= MaxNavigations
           next == IF n = MaxActions THEN "over" ELSE "click"
<1>1. /\ guided \in GuidedRuns /\ page \in Places /\ page' = page /\ guided.awaits = "snapshot"
      /\ Records \in Seq(Outcomes) /\ MaxActions \in Nat /\ n \in Nat
      /\ DOMAIN Records = 1 .. n
  BY ObservationSettings DEF ObservationInv, NextSnapshot, GuidedRuns
<1>2. /\ AllExecuted(Records) /\ guided.clicks = n /\ n \in 1 .. MaxActions
      /\ guided.flight = "none"
      /\ guided.snapshot.origin = guided.home
      /\ guided.strays <= guided.returns + 1
      /\ page.origin = guided.home => guided.strays <= guided.returns
  BY <1>1 DEF GuidedInv, GuidedCounts, GuidedPlaces
<1>3. CASE stays
  <2>1. guided' = [guided EXCEPT !.snapshot = page, !.navigations = navigations, !.awaits = next]
    BY <1>3 DEF NextSnapshot
  <2>2. page.origin = guided.snapshot.origin
    BY <1>3 DEF StaysThere
  <2>3. guided.strays <= guided.returns
    BY <1>2, <2>2
  <2> HIDE DEF navigations, next, stays, n
  <2>4. /\ guided'.awaits = next /\ guided'.records = guided.records
        /\ guided'.clicks = guided.clicks /\ guided'.strays = guided.strays
        /\ guided'.returns = guided.returns /\ guided'.flight = guided.flight
        /\ guided'.snapshot = page /\ guided'.home = guided.home
    BY <1>1, <2>1 DEF GuidedRuns
  <2>5. AllExecuted(Records)' /\ Len(Records)' = n /\ Executed(Records)' = n
    <3>1. Executed(Records) = n
      BY <1>1, <1>2, ExecutedAll DEF n
    <3> QED
      BY <1>2, <2>4, <3>1 DEF AllExecuted, Executed, n
  <2>6. GuidedCounts'
    <3>1. CASE next = "over"
      <4>1. n <= MaxActions /\ n <= n + 1
        BY <1>1, <1>2
      <4> QED
        BY <1>2, <2>4, <2>5, <3>1, <4>1 DEF GuidedCounts
    <3>2. CASE next = "click"
      <4>1. n # MaxActions
        BY <3>2 DEF next
      <4>2. n < MaxActions
        BY <1>1, <1>2, <4>1
      <4> QED
        BY <1>2, <2>4, <2>5, <3>2, <4>2 DEF GuidedCounts
    <3> QED
      BY <3>1, <3>2 DEF next
  <2>7. next \in {"over", "click"}
    BY DEF next
  <2>8. GuidedPlaces'
    BY <1>1, <1>2, <2>2, <2>3, <2>4, <2>7 DEF GuidedPlaces
  <2> QED
    BY <2>6, <2>8 DEF GuidedInv
<1>4. CASE ~stays
  <2>1. guided' = [guided EXCEPT !.awaits = "over", !.records[n] = outcome]
    BY <1>4 DEF NextSnapshot
  <2>2. outcome \in Outcomes /\ outcome # "executed"
    BY DEF Outcomes
  <2> HIDE DEF n, outcome, stays
  <2>3. /\ guided'.awaits = "over" /\ guided'.records = amended
        /\ guided'.clicks = guided.clicks /\ guided'.strays = guided.strays
        /\ guided'.returns = guided.returns /\ guided'.flight = guided.flight
        /\ guided'.home = guided.home
    BY <1>1, <2>1 DEF GuidedRuns
  <2>4. /\ amended \in Seq(Outcomes) /\ Len(amended) = n /\ amended[n] = outcome
        /\ \A i \in 1 .. n - 1 : amended[i] = Records[i]
    <3>1. Records \in [1 .. n -> Outcomes]
      BY <1>1 DEF n
    <3>2. amended \in [1 .. n -> Outcomes]
      BY <2>2, <3>1
    <3>3. amended[n] = outcome
      BY <1>2, <3>1
    <3>4. \A i \in 1 .. n - 1 : amended[i] = Records[i]
      BY <1>1, <3>1
    <3> HIDE DEF amended
    <3> QED
      BY <1>1, <3>2, <3>3, <3>4
  <2>5. \A i \in 1 .. n - 1 : Records[i] = "executed"
    BY <1>1, <1>2 DEF AllExecuted
  <2> HIDE DEF amended
  <2>6. Executed(amended) = n - 1
    BY <1>1, <1>2, <2>2, <2>4, <2>5, ExecutedButLast
  <2>7. Executed(amended) <= n /\ n <= Executed(amended) + 1 /\ n <= MaxActions
    BY <1>1, <1>2, <2>6
  <2>8. GuidedCounts'
    BY <1>2, <2>3, <2>4, <2>7 DEF GuidedCounts, Executed
  <2>9. GuidedPlaces'
    BY <1>2, <2>3 DEF GuidedPlaces
  <2> QED
    BY <2>8, <2>9 DEF GuidedInv
<1> QED
  BY <1>3, <1>4

\* A page that comes back is counted.
LEMMA PageMoved ==
  ASSUME ObservationInv, GuidedInv, NEW to \in Places, PageMoves(to)
  PROVE  GuidedInv'
<1> DEFINE back == page.origin # guided.home /\ to.origin = guided.home
           returns == IF back THEN guided.returns + 1 ELSE guided.returns
           moves == guided.moves + 1
<1>1. /\ guided \in GuidedRuns /\ page' = to
      /\ guided' = [guided EXCEPT !.moves = moves, !.returns = returns]
  BY DEF ObservationInv, PageMoves
<1>2. /\ {guided.strays, guided.returns, returns} \subseteq Nat
      /\ guided.returns <= returns /\ (back => returns = guided.returns + 1)
  BY <1>1 DEF GuidedRuns
<1> HIDE DEF returns, moves
<1>3. /\ guided'.awaits = guided.awaits /\ guided'.records = guided.records
      /\ guided'.clicks = guided.clicks /\ guided'.flight = guided.flight
      /\ guided'.strays = guided.strays /\ guided'.returns = returns
      /\ guided'.home = guided.home /\ guided'.snapshot = guided.snapshot
  BY <1>1 DEF GuidedRuns
<1>4. GuidedCounts'
  BY <1>3 DEF GuidedInv, GuidedCounts, AllExecuted, Executed
<1>5. GuidedPlaces'
  BY <1>1, <1>2, <1>3 DEF GuidedInv, GuidedPlaces
<1> QED
  BY <1>4, <1>5 DEF GuidedInv

\* Where the page is matters no more once the actions are over and none is in flight.
LEMMA RunForgotten ==
  ASSUME ObservationInv, GuidedInv, Unfollowed, guided.awaits = "over"
  PROVE  GuidedInv'
<1>1. CASE guided.flight = "sent"
  BY <1>1 DEF Unfollowed, GuidedInv, GuidedCounts, GuidedPlaces, AllExecuted, Executed
<1>2. CASE guided.flight # "sent"
  <2>1. /\ guided'.awaits = "over" /\ guided'.records = guided.records
        /\ guided'.clicks = guided.clicks /\ guided'.strays = guided.strays
        /\ guided'.returns = guided.returns /\ guided'.flight = "none"
    BY <1>2 DEF Unfollowed, ObservationInv, GuidedRuns
  <2> QED
    BY <1>2, <2>1 DEF GuidedInv, GuidedCounts, GuidedPlaces, Executed
<1> QED
  BY <1>1, <1>2

LEMMA SampleTyped ==
  ASSUME ObservationInv, NEW i \in DOMAIN Samples
  PROVE  Samples[i].index \in Nat /\ Samples[i].image \in Nat
<1>1. Samples \in Seq([index : Nat, image : Images])
  BY DEF ObservationInv, Loops
<1>2. Samples[i] \in [index : Nat, image : Images]
  BY <1>1, ElementOfSeq, LenProperties
<1> QED
  BY <1>2, ObservationSettings

\* The samples of the next turn.
LEMMA SampleOrdered ==
  ASSUME ObservationInv, SamplesOrdered, Sample \/ SampleFails
  PROVE  SamplesOrdered'
<1>1. /\ obs \in Loops /\ obs.index \in Nat
      /\ Samples \in Seq([index : Nat, image : Images])
  BY DEF ObservationInv, Loops
<1>2. CASE obs' = [obs EXCEPT !.index = @ + 1] \/ SampleFails
  <2>1. Samples' = Samples /\ obs'.index \in {obs.index, obs.index + 1}
    BY <1>1, <1>2 DEF SampleFails, Loops
  <2>2. \A i \in DOMAIN Samples : Samples[i].index \in Nat
    BY SampleTyped
  <2> QED
    BY <1>1, <2>1, <2>2 DEF SamplesOrdered
<1>3. CASE \E image \in Images :
             obs' = [obs EXCEPT !.index = @ + 1,
                                !.samples = Append(@, [index |-> obs.index, image |-> image])]
  <2>1. PICK image \in Images :
          obs' = [obs EXCEPT !.index = @ + 1,
                             !.samples = Append(@, [index |-> obs.index, image |-> image])]
    BY <1>3
  <2> DEFINE s == [index |-> obs.index, image |-> image]
             n == Len(Samples)
             longer == Append(Samples, s)
             next == obs.index + 1
  <2>2. s \in [index : Nat, image : Images] /\ s.index = obs.index
    BY <1>1
  <2>3. obs' = [obs EXCEPT !.index = next, !.samples = longer]
    BY <2>1
  <2> HIDE DEF s
  <2>4. /\ DOMAIN longer = 1 .. n + 1 /\ n \in Nat /\ DOMAIN Samples = 1 .. n
        /\ longer[n + 1] = s /\ \A i \in 1 .. n : longer[i] = Samples[i]
    BY <1>1, <2>2
  <2> HIDE DEF longer, next, n
  <2>5. obs'.samples = longer /\ obs'.index = next
    BY <1>1, <2>3 DEF Loops
  <2>6. \A i \in 1 .. n : Samples[i].index < obs.index /\ Samples[i].index \in Nat
    BY <2>4, SampleTyped DEF SamplesOrdered
  <2>7. \A i \in 1 .. n + 1 : longer[i].index < next
    BY <1>1, <2>2, <2>4, <2>6 DEF next
  <2>8. \A i, j \in 1 .. n + 1 : i < j => longer[i].index < longer[j].index
    <3> SUFFICES ASSUME NEW i \in 1 .. n + 1, NEW j \in 1 .. n + 1, i < j
                 PROVE  longer[i].index < longer[j].index
      OBVIOUS
    <3>1. i \in 1 .. n /\ (j \in 1 .. n \/ j = n + 1)
      BY <2>4
    <3>2. CASE j \in 1 .. n
      <4>1. Samples[i].index < Samples[j].index
        BY <2>4, <3>1, <3>2 DEF SamplesOrdered
      <4> QED
        BY <2>4, <3>1, <3>2, <4>1
    <3>3. CASE j = n + 1
      <4>1. longer[i].index < obs.index /\ longer[j].index = obs.index
        BY <2>2, <2>4, <2>6, <3>1, <3>3
      <4> QED
        BY <4>1
    <3> QED
      BY <3>1, <3>2, <3>3
  <2> QED
    BY <2>4, <2>5, <2>7, <2>8 DEF SamplesOrdered
<1> QED
  BY <1>2, <1>3 DEF Sample

\* What a step does to the observation.
ObservationStep ==
  \/ UNCHANGED observationVars
  \/ \E ok \in BOOLEAN : FirstSnapshot(ok) \/ NextSnapshot(ok)
  \/ SendAction \/ Evaluated \/ Replied \/ ActionFails
  \/ guided.awaits = "over" /\ Unfollowed
  \/ Sample \/ SampleFails
  \/ \E to \in Places : PageMoves(to)

LEMMA StepObserves ==
  ASSUME [Next]_vars
  PROVE  ObservationStep
<1>1. CASE UNCHANGED vars
  BY <1>1 DEF vars, ObservationStep
<1>2. CASE Guide
  <2>1. TRUE \in BOOLEAN /\ FALSE \in BOOLEAN
    OBVIOUS
  <2> QED
    BY <1>2, <2>1 DEF Guide, ObservationStep
<1>3. CASE Observe
  BY <1>3 DEF Observe, ObservationStep
<1>4. CASE PageActs
  BY <1>4 DEF PageActs, ObservationStep
<1>5. CASE WorkStep /\ ~Guide /\ ~Observe
  <2>1. UNCHANGED observationVars
    BY <1>5 DEF WorkStep, ResolveUrl, FindChrome, MakeProfile, ListenAndSpawn, Connect, Prepare,
                Shoot, Fails, Deliver, Stored
  <2> QED
    BY <2>1 DEF ObservationStep
<1>6. CASE Abort \/ Finally \/ Answer \/ LateCleanup \/ Cleanup
  <2>1. UNCHANGED observationVars
    BY <1>6 DEF Abort, Finally, Answer, LateCleanup, Cleanup, CloseProxyOf, RemoveProfileOf
  <2> QED
    BY <2>1 DEF ObservationStep
<1>7. CASE BrowserExits \/ BrowserConnects \/ ProxyResolves \/ ProxyCarries \/ BrowserDisconnects
  <2>1. UNCHANGED observationVars
    BY <1>7 DEF BrowserExits, BrowserConnects, ProxyResolves, ProxyCarries, BrowserDisconnects
  <2> QED
    BY <2>1 DEF ObservationStep
<1> QED
  BY <1>1, <1>2, <1>3, <1>4, <1>5, <1>6, <1>7 DEF Next

LEMMA ObservationKept ==
  ASSUME ObservationInv, GuidedInv, SamplesOrdered, ObservationStep
  PROVE  GuidedInv' /\ SamplesOrdered'
<1>1. CASE UNCHANGED observationVars
  BY <1>1 DEF observationVars, GuidedInv, GuidedCounts, GuidedPlaces, SamplesOrdered,
              AllExecuted, Executed
<1>2. CASE UNCHANGED obs
  <2>1. SamplesOrdered'
    BY <1>2 DEF SamplesOrdered
  <2>2. CASE \E ok \in BOOLEAN : FirstSnapshot(ok) \/ NextSnapshot(ok)
    BY <2>1, <2>2, SnapshotTaken, SnapshotCompared
  <2>3. CASE SendAction \/ Evaluated \/ Replied \/ ActionFails
    BY <2>1, <2>3, ActionSent, FlightEnds, ReplyTaken, ActionEnds
  <2>4. CASE guided.awaits = "over" /\ Unfollowed
    BY <2>1, <2>4, RunForgotten
  <2>5. CASE \E to \in Places : PageMoves(to)
    BY <2>1, <2>5, PageMoved
  <2>6. CASE Sample \/ SampleFails
    <3>1. UNCHANGED <<page, guided>>
      BY <2>6 DEF Sample, SampleFails
    <3> QED
      BY <2>1, <3>1 DEF GuidedInv, GuidedCounts, GuidedPlaces, AllExecuted, Executed
  <2> QED
    BY <1>1, <2>1, <2>2, <2>3, <2>4, <2>5, <2>6 DEF ObservationStep
<1>3. CASE Sample \/ SampleFails
  <2>1. UNCHANGED <<page, guided>>
    BY <1>3 DEF Sample, SampleFails
  <2>2. GuidedInv'
    BY <2>1 DEF GuidedInv, GuidedCounts, GuidedPlaces, AllExecuted, Executed
  <2> QED
    BY <1>3, <2>2, SampleOrdered
<1>4. UNCHANGED obs \/ Sample \/ SampleFails
  BY DEF ObservationStep, observationVars, FirstSnapshot, NextSnapshot, SendAction,
         Evaluated, Replied, ActionFails, Unfollowed, PageMoves
<1> QED
  BY <1>2, <1>3, <1>4

LEMMA ObservationStarts == InitObservation => GuidedInv /\ SamplesOrdered
<1> SUFFICES ASSUME InitObservation PROVE GuidedInv /\ SamplesOrdered
  OBVIOUS
<1>1. /\ guided.awaits = "first" /\ Records = <<>> /\ guided.clicks = 0 /\ guided.strays = 0
      /\ guided.flight = "none" /\ guided.returns = 0
  BY DEF InitObservation, NotGuided
<1>2. Samples = <<>>
  BY DEF InitObservation
<1> QED
  BY <1>1, <1>2 DEF GuidedInv, GuidedCounts, GuidedPlaces, SamplesOrdered

----------------------------------------------------------------------------
(* Numbers: a set of them has a least one, so a set of them that has zero  *)
(* and with each number the next has them all.                             *)

LEMMA LessThan == \A a, b \in Nat : a < b => <<a, b>> \in OpToRel(<, Nat)
BY Zenon DEF OpToRel

LEMMA LeastNatural ==
  ASSUME NEW S \in SUBSET Nat, S # {}
  PROVE  \E x \in S : \A y \in S : x <= y
<1>1. PICK x \in S : \A y \in S : ~ (<<y, x>> \in OpToRel(<, Nat))
  <2>1. IsWellFoundedOn(OpToRel(<, Nat), Nat)
    BY NatLessThanWellFounded, Zenon
  <2> QED
    BY <2>1, WFMin, Zenon
<1>2. \A y \in S : ~(y < x)
  BY <1>1, LessThan, Zenon
<1> QED
  BY <1>2

LEMMA AllNaturals ==
  ASSUME NEW S \in SUBSET Nat, 0 \in S, \A n \in S : n + 1 \in S
  PROVE  \A n \in Nat : n \in S
<1> SUFFICES ASSUME Nat \ S # {} PROVE FALSE
  OBVIOUS
<1>1. PICK x \in Nat \ S : \A y \in Nat \ S : x <= y
  BY LeastNatural
<1>2. x - 1 \in Nat /\ ~(x <= x - 1)
  BY <1>1
<1>3. x - 1 \in S
  BY <1>1, <1>2
<1> QED
  BY <1>1, <1>2, <1>3

LEMMA MinIs ==
  ASSUME NEW S \in SUBSET Nat, S # {}
  PROVE  Min(S) \in S /\ \A y \in S : Min(S) <= y
BY LeastNatural DEF Min

\* Among finitely many numbers there is a largest.
LEMMA LargestOf ==
  ASSUME NEW n \in Nat, NEW score, \A i \in 1 .. n : score[i] \in Nat,
         NEW S \in SUBSET (1 .. n), S # {}
  PROVE  \E i \in S : \A j \in S : score[i] >= score[j]
<1> DEFINE Largest(T) == T # {} => \E i \in T : \A j \in T : score[i] >= score[j]
           Up == {m \in Nat : m <= n => \A T \in SUBSET (1 .. m) : Largest(T)}
<1>1. 0 \in Up
  <2>1. \A T \in SUBSET (1 .. 0) : T = {}
    OBVIOUS
  <2> QED
    BY <2>1
<1>2. ASSUME NEW m \in Up PROVE m + 1 \in Up
  <2> SUFFICES ASSUME m + 1 <= n, NEW T \in SUBSET (1 .. m + 1), T # {}
               PROVE  \E i \in T : \A j \in T : score[i] >= score[j]
    OBVIOUS
  <2>1. m <= n /\ m + 1 \in 1 .. n /\ (1 .. m) \subseteq 1 .. n
    OBVIOUS
  <2>2. T \ {m + 1} \in SUBSET (1 .. m)
    OBVIOUS
  <2>3. Largest(T \ {m + 1})
    BY <2>1, <2>2
  <2>4. CASE T \ {m + 1} = {}
    <3>1. T = {m + 1}
      BY <2>4
    <3> QED
      BY <2>1, <3>1
  <2>5. CASE T \ {m + 1} # {}
    <3>1. PICK i \in T \ {m + 1} : \A j \in T \ {m + 1} : score[i] >= score[j]
      BY <2>3, <2>5
    <3>2. /\ score[i] \in Nat /\ score[m + 1] \in Nat
          /\ \A j \in T \ {m + 1} : score[j] \in Nat
      BY <2>1, <2>2
    <3>3. CASE m + 1 \in T /\ score[m + 1] > score[i]
      <4>1. \A j \in T : score[m + 1] >= score[j]
        BY <3>1, <3>2, <3>3
      <4> QED
        BY <3>3, <4>1
    <3>4. CASE m + 1 \notin T \/ ~(score[m + 1] > score[i])
      <4>1. \A j \in T : score[i] >= score[j]
        BY <3>1, <3>2, <3>4
      <4> QED
        BY <3>1, <4>1
    <3> QED
      BY <3>3, <3>4
  <2> QED
    BY <2>4, <2>5
<1> HIDE DEF Up
<1>3. n \in Up
  <2>1. Up \in SUBSET Nat
    BY DEF Up
  <2> QED
    BY <1>1, <1>2, <2>1, AllNaturals
<1>4. \A T \in SUBSET (1 .. n) : Largest(T)
  BY <1>3 DEF Up
<1> QED
  BY <1>4

----------------------------------------------------------------------------
(* The Moments                                                             *)

\* The next turn of the loop of selectRepresentativeMoments.
Turn(chosen) ==
  IF Candidates(chosen) = {} THEN chosen ELSE chosen \cup {Best(chosen)}

Turns(m, f) == f = [n \in 0 .. m |-> IF n = 0 THEN {Initial} ELSE Turn(f[n - 1])]

\* The turns can be taken one after the other.
LEMMA TurnsTaken == \A m \in Nat : \E f : Turns(m, f)
<1> DEFINE Taken == {m \in Nat : \E f : Turns(m, f)}
<1>1. 0 \in Taken
  <2> DEFINE f == [n \in 0 .. 0 |-> {Initial}]
  <2>1. f = [n \in 0 .. 0 |-> IF n = 0 THEN {Initial} ELSE Turn(f[n - 1])]
    OBVIOUS
  <2> HIDE DEF f
  <2> QED
    BY <2>1 DEF Turns
<1>2. ASSUME NEW m \in Taken PROVE m + 1 \in Taken
  <2>1. PICK f : Turns(m, f)
    OBVIOUS
  <2> DEFINE g == [n \in 0 .. m + 1 |-> IF n = m + 1 THEN Turn(f[m]) ELSE f[n]]
             h == [n \in 0 .. m + 1 |-> IF n = 0 THEN {Initial} ELSE Turn(g[n - 1])]
  <2>2. \A n \in 0 .. m : f[n] = IF n = 0 THEN {Initial} ELSE Turn(f[n - 1])
    BY <2>1 DEF Turns
  <2>3. ASSUME NEW n \in 0 .. m + 1 PROVE g[n] = h[n]
    <3>1. CASE n = 0
      <4>1. 0 # m + 1 /\ 0 \in 0 .. m /\ 0 \in 0 .. m + 1
        OBVIOUS
      <4>2. g[0] = f[0] /\ h[0] = {Initial}
        BY <4>1
      <4> QED
        BY <2>2, <3>1, <4>1, <4>2
    <3>2. CASE n # 0
      <4>1. n - 1 \in 0 .. m /\ n - 1 \in 0 .. m + 1 /\ n - 1 # m + 1
        BY <3>2
      <4>2. g[n - 1] = f[n - 1]
        BY <4>1
      <4>3. h[n] = Turn(f[n - 1])
        BY <3>2, <4>2
      <4>4. CASE n = m + 1
        <5>1. g[n] = Turn(f[m]) /\ n - 1 = m
          BY <4>4
        <5> QED
          BY <4>3, <5>1
      <4>5. CASE n # m + 1
        <5>1. n \in 0 .. m /\ g[n] = f[n]
          BY <4>5
        <5> QED
          BY <2>2, <3>2, <4>3, <5>1
      <4> QED
        BY <4>4, <4>5
    <3> QED
      BY <3>1, <3>2
  <2>4. g = h
    BY <2>3
  <2>5. Turns(m + 1, g)
    BY <2>4 DEF Turns
  <2> QED
    BY <2>5
<1> HIDE DEF Taken
<1>3. \A m \in Nat : m \in Taken
  <2>1. Taken \in SUBSET Nat
    BY DEF Taken
  <2> QED
    BY <1>1, <1>2, <2>1, AllNaturals
<1> QED
  BY <1>3 DEF Taken

LEMMA ChosenIs ==
  /\ Representatives \in Nat
  /\ Chosen[0] = {Initial}
  /\ \A n \in 1 .. Representatives : Chosen[n] = Turn(Chosen[n - 1])
<1>1. Representatives \in Nat
  BY ObservationSettings
<1>2. Turns(Representatives, Chosen)
  <2>1. \E f : f = [n \in 0 .. Representatives |->
                      IF n = 0 THEN {Initial}
                      ELSE LET chosen == f[n - 1]
                           IN IF Candidates(chosen) = {} THEN chosen
                              ELSE chosen \cup {Best(chosen)}]
    BY <1>1, TurnsTaken DEF Turns, Turn
  <2> QED
    BY <2>1, Zenon DEF Chosen, Turns, Turn
<1>3. \A n \in 0 .. Representatives :
        Chosen[n] = IF n = 0 THEN {Initial} ELSE Turn(Chosen[n - 1])
  BY <1>2, Zenon DEF Turns
<1>4. 0 \in 0 .. Representatives
  BY <1>1
<1>5. Chosen[0] = {Initial}
  BY <1>3, <1>4
<1>6. ASSUME NEW n \in 1 .. Representatives PROVE Chosen[n] = Turn(Chosen[n - 1])
  <2>1. n \in 0 .. Representatives /\ n # 0
    BY <1>1
  <2> QED
    BY <1>3, <2>1
<1> QED
  BY <1>1, <1>5, <1>6

\* What a call of selectRepresentativeMoments is about: the samples of one capture.
Sampled ==
  /\ Len(Samples) \in Nat \ {0} /\ DOMAIN Samples = 1 .. Len(Samples)
  /\ \A i \in DOMAIN Samples : Samples[i].image \in Nat /\ Samples[i].index \in Nat

\* The first sample chosen, what is chosen after it, and that they all differ.
Apart(chosen) ==
  /\ IsFiniteSet(chosen) /\ Initial \in chosen
  /\ \A i \in chosen : i \in DOMAIN Samples /\ i >= Initial
  /\ \A i, j \in chosen : i # j => Samples[i].image # Samples[j].image

LEMMA InitialIs == Sampled => Initial \in DOMAIN Samples
<1> SUFFICES ASSUME Sampled PROVE Initial \in 1 .. Len(Samples)
  BY DEF Sampled
<1> DEFINE n == Len(Samples)
<1>1. n \in Nat \ {0} /\ StabilitySamples \in Nat /\ StabilitySamples >= 2
  BY ObservationSettings DEF Sampled
<1>2. StableEnds \subseteq StabilitySamples .. n
  BY DEF StableEnds
<1> HIDE DEF n
<1>3. CASE StableEnds = {}
  BY <1>1, <1>3 DEF Initial, n
<1>4. CASE StableEnds # {}
  <2>1. StableEnds \subseteq Nat
    BY <1>1, <1>2
  <2>2. Initial \in StableEnds
    BY <1>4, <2>1, MinIs DEF Initial
  <2> QED
    BY <1>1, <1>2, <2>2 DEF n
<1> QED
  BY <1>3, <1>4

LEMMA DistanceIs ==
  ASSUME NEW a \in Nat, NEW b \in Nat
  PROVE  Distance(a, b) \in Nat /\ (Distance(a, b) = 0 <=> a = b)
BY DEF Distance

\* A sample of score 0 looks like one that is chosen, and no other does.
LEMMA ScoreIs ==
  ASSUME Sampled, NEW chosen, Apart(chosen), NEW i \in DOMAIN Samples
  PROVE  /\ Score(chosen, i) \in Nat
         /\ Score(chosen, i) = 0 <=> \E j \in chosen : Samples[j].image = Samples[i].image
<1> DEFINE distances == {Distance(Samples[j].image, Samples[i].image) : j \in chosen}
<1>1. /\ Samples[i].image \in Nat /\ \A j \in chosen : Samples[j].image \in Nat
  BY DEF Sampled, Apart
<1>2. /\ \A j \in chosen : Distance(Samples[j].image, Samples[i].image) \in Nat
      /\ \A j \in chosen : Distance(Samples[j].image, Samples[i].image) = 0
                             <=> Samples[j].image = Samples[i].image
  BY <1>1, DistanceIs
<1>3. distances \in SUBSET Nat /\ distances # {}
  <2>1. Initial \in chosen
    BY DEF Apart
  <2> QED
    BY <1>2, <2>1
<1>4. 0 \in distances <=> \E j \in chosen : Samples[j].image = Samples[i].image
  BY <1>2
<1>5. Score(chosen, i) = Min(distances)
  BY DEF Score
<1> HIDE DEF distances
<1>6. Min(distances) \in distances /\ \A y \in distances : Min(distances) <= y
  BY <1>3, MinIs
<1>7. Min(distances) \in Nat /\ (Min(distances) = 0 <=> 0 \in distances)
  <2> DEFINE m == Min(distances)
  <2>1. m \in Nat /\ m \in distances
    BY <1>3, <1>6
  <2>2. 0 \in distances => m <= 0
    BY <1>6
  <2> HIDE DEF m
  <2>3. m \in Nat /\ (m = 0 <=> 0 \in distances)
    BY <2>1, <2>2
  <2> QED
    BY <2>3 DEF m
<1> QED
  BY <1>4, <1>5, <1>7

LEMMA BestIs ==
  ASSUME Sampled, NEW chosen, Apart(chosen), Candidates(chosen) # {}
  PROVE  Best(chosen) \in Candidates(chosen)
<1> DEFINE n == Len(Samples)
           score == [i \in 1 .. n |-> Score(chosen, i)]
           best == {i \in Candidates(chosen) :
                      \A j \in Candidates(chosen) : Score(chosen, i) >= Score(chosen, j)}
<1>1. n \in Nat /\ DOMAIN Samples = 1 .. n
  BY DEF Sampled
<1>2. \A i \in 1 .. n : Score(chosen, i) \in Nat
  BY <1>1, ScoreIs
<1>3. Candidates(chosen) \in SUBSET (1 .. n)
  BY <1>1 DEF Candidates
<1>4. \A i \in 1 .. n : score[i] = Score(chosen, i) /\ score[i] \in Nat
  BY <1>2
<1> HIDE DEF n, score
<1>5. \E i \in Candidates(chosen) : \A j \in Candidates(chosen) : score[i] >= score[j]
  BY <1>1, <1>3, <1>4, LargestOf
<1>6. best # {} /\ best \in SUBSET Nat
  <2>1. PICK i \in Candidates(chosen) : \A j \in Candidates(chosen) : score[i] >= score[j]
    BY <1>5
  <2>2. \A j \in Candidates(chosen) : Score(chosen, i) >= Score(chosen, j)
    BY <1>3, <1>4, <2>1
  <2>3. best \subseteq Candidates(chosen) /\ Candidates(chosen) \subseteq Nat
    BY <1>3
  <2> QED
    BY <2>2, <2>3
<1>7. Best(chosen) = Min(best)
  BY DEF Best
<1> HIDE DEF best
<1>8. Best(chosen) \in best
  BY <1>6, <1>7, MinIs
<1> QED
  BY <1>8 DEF best

\* A turn adds one sample, unlike those chosen, or there is none to add.
LEMMA TurnKeeps ==
  ASSUME Sampled, NEW chosen, Apart(chosen)
  PROVE  /\ Apart(Turn(chosen))
         /\ Candidates(chosen) = {} => Turn(chosen) = chosen
         /\ Candidates(chosen) # {} => Cardinality(Turn(chosen)) = Cardinality(chosen) + 1
<1>1. CASE Candidates(chosen) = {}
  BY <1>1 DEF Turn
<1>2. CASE Candidates(chosen) # {}
  <2> DEFINE b == Best(chosen)
  <2>1. b \in Candidates(chosen)
    BY <1>2, BestIs
  <2>2. b \in DOMAIN Samples /\ b > Initial /\ b \notin chosen /\ Score(chosen, b) # 0
    BY <2>1 DEF Candidates
  <2>3. Turn(chosen) = chosen \cup {b}
    BY <1>2 DEF Turn
  <2> HIDE DEF b
  <2>4. \A j \in chosen : Samples[j].image # Samples[b].image
    BY <2>2, ScoreIs
  <2>5. IsFiniteSet(Turn(chosen)) /\ Cardinality(Turn(chosen)) = Cardinality(chosen) + 1
    BY <2>2, <2>3, FS_AddElement DEF Apart
  <2>6. b >= Initial
    <3>1. Initial \in Nat /\ b \in Nat
      BY <2>2, InitialIs DEF Sampled
    <3> QED
      BY <2>2, <3>1
  <2>7. Apart(Turn(chosen))
    BY <2>2, <2>3, <2>4, <2>5, <2>6 DEF Apart
  <2> QED
    BY <1>2, <2>5, <2>7
<1> QED
  BY <1>1, <1>2

\* After n turns n samples were added, or no candidate is left.
LEMMA TurnsAdd ==
  ASSUME Sampled, NEW n \in 0 .. Representatives
  PROVE  /\ Apart(Chosen[n])
         /\ \/ Cardinality(Chosen[n]) = n + 1
            \/ Cardinality(Chosen[n]) <= n + 1 /\ Candidates(Chosen[n]) = {}
<1> DEFINE Added(m) == /\ Apart(Chosen[m])
                       /\ \/ Cardinality(Chosen[m]) = m + 1
                          \/ Cardinality(Chosen[m]) <= m + 1 /\ Candidates(Chosen[m]) = {}
           Sound == {m \in Nat : m <= Representatives => Added(m)}
<1>1. Representatives \in Nat /\ Initial \in DOMAIN Samples /\ Initial \in Nat
  BY ChosenIs, InitialIs DEF Sampled
<1>2. 0 \in Sound
  <2>1. Chosen[0] = {Initial}
    BY ChosenIs
  <2>2. IsFiniteSet({Initial}) /\ Cardinality({Initial}) = 1
    BY FS_Singleton
  <2>3. Apart(Chosen[0])
    BY <1>1, <2>1, <2>2 DEF Apart
  <2> QED
    BY <2>1, <2>2, <2>3
<1>3. ASSUME NEW m \in Sound PROVE m + 1 \in Sound
  <2> SUFFICES ASSUME m + 1 <= Representatives PROVE Added(m + 1)
    OBVIOUS
  <2>1. m \in Nat /\ m <= Representatives /\ m + 1 \in 1 .. Representatives /\ (m + 1) - 1 = m
    BY <1>1
  <2>2. Added(m)
    BY <2>1
  <2>3. Chosen[m + 1] = Turn(Chosen[m])
    BY <2>1, ChosenIs
  <2>4. /\ Apart(Turn(Chosen[m]))
        /\ Candidates(Chosen[m]) = {} => Turn(Chosen[m]) = Chosen[m]
        /\ Candidates(Chosen[m]) # {} => Cardinality(Turn(Chosen[m])) = Cardinality(Chosen[m]) + 1
    BY <2>2, TurnKeeps
  <2>5. Cardinality(Chosen[m]) \in Nat
    BY <2>2, FS_CardinalityType DEF Apart
  <2>6. CASE Candidates(Chosen[m]) = {}
    <3>1. Chosen[m + 1] = Chosen[m]
      BY <2>3, <2>4, <2>6
    <3>2. Cardinality(Chosen[m]) <= (m + 1) + 1
      BY <2>1, <2>2, <2>5
    <3> QED
      BY <2>2, <2>6, <3>1, <3>2
  <2>7. CASE Candidates(Chosen[m]) # {}
    <3>1. Cardinality(Chosen[m + 1]) = (m + 1) + 1
      BY <2>2, <2>3, <2>4, <2>7
    <3> QED
      BY <2>3, <2>4, <3>1
  <2> QED
    BY <2>6, <2>7
<1> HIDE DEF Sound
<1>4. n \in Nat /\ n <= Representatives
  BY <1>1
<1>5. n \in Sound
  <2>1. Sound \in SUBSET Nat
    BY DEF Sound
  <2> QED
    BY <1>2, <1>3, <1>4, <2>1, AllNaturals
<1> QED
  BY <1>4, <1>5 DEF Sound

LEMMA MomentsChosen ==
  ASSUME ObservationInv, SamplesOrdered
  PROVE  MomentsRepresentative
<1> SUFFICES ASSUME Samples # <<>>
             PROVE  /\ Cardinality(Moments) <= Representatives + 1
                    /\ \A i, j \in Moments : i # j => Samples[i].image # Samples[j].image
                    /\ \A i \in Moments : Samples[i].index >= Samples[Initial].index
                    /\ Cardinality(Moments) <= Representatives =>
                         \A i \in DOMAIN Samples : i > Initial =>
                           \E j \in Moments : Samples[i].image = Samples[j].image
  BY DEF MomentsRepresentative
<1>1. Sampled
  <2>1. Samples \in Seq([index : Nat, image : Images])
    BY DEF ObservationInv, Loops
  <2>2. Len(Samples) \in Nat \ {0} /\ DOMAIN Samples = 1 .. Len(Samples)
    BY <2>1, EmptySeq, LenProperties
  <2> QED
    BY <2>2, SampleTyped DEF Sampled
<1>2. /\ Moments = Chosen[Representatives]
      /\ Representatives \in Nat /\ Representatives \in 0 .. Representatives
  BY ChosenIs DEF Moments
<1>3. /\ Apart(Moments)
      /\ \/ Cardinality(Moments) = Representatives + 1
         \/ Cardinality(Moments) <= Representatives + 1 /\ Candidates(Moments) = {}
  BY <1>1, <1>2, TurnsAdd
<1> HIDE DEF Moments
<1>4. Initial \in DOMAIN Samples
  BY <1>1, InitialIs
<1>5. Cardinality(Moments) \in Nat
  BY <1>3, FS_CardinalityType DEF Apart
<1>6. Cardinality(Moments) <= Representatives + 1
  BY <1>2, <1>3, <1>5
<1>7. ASSUME NEW i \in Moments PROVE Samples[i].index >= Samples[Initial].index
  <2>1. i \in DOMAIN Samples /\ i >= Initial
    BY <1>3 DEF Apart
  <2>2. Samples[i].index \in Nat /\ Samples[Initial].index \in Nat
    BY <1>1, <1>4, <2>1 DEF Sampled
  <2>3. CASE i = Initial
    BY <2>2, <2>3
  <2>4. CASE i # Initial
    <3>1. i \in Nat /\ Initial \in Nat
      BY <1>1, <1>4, <2>1 DEF Sampled
    <3>2. Initial < i
      BY <2>1, <2>4, <3>1
    <3>3. Samples[Initial].index < Samples[i].index
      BY <1>4, <2>1, <3>2 DEF SamplesOrdered
    <3> QED
      BY <2>2, <3>3
  <2> QED
    BY <2>3, <2>4
<1>8. ASSUME Cardinality(Moments) <= Representatives,
             NEW i \in DOMAIN Samples, i > Initial
      PROVE  \E j \in Moments : Samples[i].image = Samples[j].image
  <2>1. Candidates(Moments) = {}
    BY <1>2, <1>3, <1>5, <1>8
  <2>2. i \in Moments \/ Score(Moments, i) = 0
    BY <1>8, <2>1 DEF Candidates
  <2> QED
    BY <1>1, <1>3, <2>2, ScoreIs
<1> QED
  BY <1>3, <1>6, <1>7, <1>8 DEF Apart

\* The clicks that the records name were made, and every one but one made away from the origin
\* the run started in took a return of the page to it; the Moments differ, follow the initial
\* one and leave out no sample that differs from them all (runGuidedActions,
\* selectRepresentativeMoments).
THEOREM ObservationHolds == Spec => []ObservationTruthful
<1> DEFINE Truth == GuidedInv /\ SamplesOrdered
<1>1. Init => Truth
  BY ObservationStarts DEF Init
<1>2. Inv /\ Truth /\ [Next]_vars => Truth'
  BY StepObserves, ObservationKept DEF Inv
<1>3. Inv /\ Truth => ObservationTruthful
  BY ClicksCounted, MomentsChosen DEF Inv, ObservationTruthful
<1> HIDE DEF Truth
<1> QED
  BY <1>1, <1>2, <1>3, CaptureInvariant, PTL DEF Spec
=============================================================================
