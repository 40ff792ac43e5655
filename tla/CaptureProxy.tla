----------------------------- MODULE CaptureProxy -----------------------------
(***************************************************************************)
(* The loopback proxy of one capture (src/src/capture-proxy.js), through   *)
(* which the browser reaches the network.  A handler resolves the host,    *)
(* which it awaits, then opens an upstream and admits sockets to a set     *)
(* that close() destroys.  What both directions carry is counted against   *)
(* one budget.  ChromeCapture composes these steps with the capture.       *)
(***************************************************************************)
EXTENDS Naturals, FiniteSets

CONSTANTS Conns,           \* the connections the browser may make
          MaxSockets,      \* limits.connections
          MaxBytes         \* limits.bytes, in chunks

ASSUME ProxyLimits == MaxSockets \in Nat /\ MaxBytes \in Nat

VARIABLES server,          \* the http.Server: none, starting, listening, stopped
          closed,          \* close() was called
          sockets,         \* the Set of admitted sockets
          conn,            \* per connection: its handler, client and upstream
          usedBytes, passed,
          died             \* the process has died of an 'error' nobody listened to

proxyVars == <<server, closed, sockets, conn, usedBytes, passed, died>>

Kinds == {"http", "upgrade", "connect"}
Ends == {"client", "upstream"}

Unused == [kind |-> "http", stage |-> "unused", client |-> "none", upstream |-> "none",
           early |-> FALSE]

InitProxy ==
  /\ server = "none" /\ closed = FALSE
  /\ sockets = {} /\ conn = [c \in Conns |-> Unused]
  /\ usedBytes = 0 /\ passed = 0 /\ died = FALSE

\* socket.destroy(): its 'close' event takes it out of the set.
Destroyed(c, ends) ==
  [conn[c] EXCEPT !.client = IF "client" \in ends /\ @ = "open" THEN "gone" ELSE @,
                  !.upstream = IF "upstream" \in ends /\ @ = "open" THEN "gone" ELSE @]
Emitted(c, ends) == {<<c, e>> : e \in {x \in ends : conn[c][x] = "open"}}

Destroy(c, ends) ==
  /\ conn' = [conn EXCEPT ![c] = Destroyed(c, ends)]
  /\ sockets' = sockets \ Emitted(c, ends)

----------------------------------------------------------------------------
\* proxy.listen() is called, and its promise is resolved.
Listen == server = "none" /\ server' = "starting"
Listening == server = "starting" /\ server' = "listening"

\* The browser connects and its request is parsed: the handler awaits the host.
Accept(c) ==
  /\ server = "listening" /\ conn[c].stage = "unused"
  /\ \E kind \in Kinds :
       conn' = [conn EXCEPT ![c] = [Unused EXCEPT !.kind = kind, !.stage = "resolving",
                                                  !.client = "open"]]
  /\ UNCHANGED <<server, closed, sockets, usedBytes, passed, died>>

\* Mutant: a handler that awaited the host does not see that the proxy was closed.
AdmitsAfterClose(room) == Cardinality(sockets) + room <= MaxSockets
\* admit() accepts one more socket, the room-th of this handler.
Admits(room) == ~closed /\ AdmitsAfterClose(room)

\* The host is not public, or admit() destroyed the socket a tunnel just created: 403.
Refuse(c) ==
  /\ conn' = [conn EXCEPT ![c].stage = "refused"]
  /\ UNCHANGED sockets

\* A plain request for which there is no room: admit() destroys the ClientRequest before
\* the handler has listened to its errors, and its 'error' ends the process.
Unhandled(c) ==
  /\ conn[c].kind = "http" /\ ~Admits(1)
  /\ Refuse(c) /\ died' = TRUE

\* A plain request: only the upstream is admitted.
Forward(c) ==
  /\ conn[c].kind = "http" /\ Admits(1)
  /\ conn' = [conn EXCEPT ![c].stage = "open", ![c].upstream = "open"]
  /\ sockets' = sockets \cup {<<c, "upstream">>}

\* Upstream and client are admitted, the client even when it closed meanwhile: its
\* 'close' event is over, and it stays in the set.
Tunnel(c) ==
  /\ conn[c].kind # "http" /\ Admits(2)
  /\ conn' = [conn EXCEPT ![c].stage = "open", ![c].upstream = "open",
                          ![c].early = conn[c].client = "gone"]
  /\ sockets' = sockets \cup {<<c, e>> : e \in Ends}

\* Only the upstream found room: admit() destroys the client and throws.  The handler
\* of upgrade destroys the upstream, the handler of connect leaves it to its timeout.
HalfTunnel(c) ==
  /\ conn[c].kind # "http" /\ Admits(1) /\ ~Admits(2)
  /\ LET kept == conn[c].kind = "connect" IN
     /\ conn' = [conn EXCEPT ![c].stage = "refused", ![c].client = "gone",
                             ![c].upstream = IF kept THEN "open" ELSE "gone"]
     /\ sockets' = IF kept THEN sockets \cup {<<c, "upstream">>} ELSE sockets

Resolved(c) ==
  /\ conn[c].stage = "resolving"
  /\ \/ (Refuse(c) \/ Forward(c) \/ Tunnel(c) \/ HalfTunnel(c)) /\ UNCHANGED died
     \/ Unhandled(c)
  /\ UNCHANGED <<server, closed, usedBytes, passed>>

\* consume() throws when the budget of the capture is exceeded.
WithinBudget(used) == used <= MaxBytes

\* A chunk of either direction: counted, then piped on or both ends destroyed.
Chunk(c) ==
  /\ conn[c].stage = "open" /\ conn[c].client = "open" /\ conn[c].upstream = "open"
  /\ usedBytes <= MaxBytes
  /\ LET used == usedBytes + 1 IN
     /\ usedBytes' = used
     /\ \/ WithinBudget(used) /\ passed' = passed + 1 /\ UNCHANGED <<conn, sockets>>
        \/ ~WithinBudget(used) /\ Destroy(c, Ends) /\ UNCHANGED passed
  /\ UNCHANGED <<server, closed, died>>

\* The client closes; its error destroys the upstream of a tunnel.
ClientLeaves(c) ==
  /\ conn[c].client = "open"
  /\ \/ Destroy(c, {"client"})
     \/ /\ conn[c].kind # "http" /\ conn[c].stage = "open"
        /\ Destroy(c, Ends)
  /\ UNCHANGED <<server, closed, usedBytes, passed, died>>

\* The upstream ends, fails or is idle for limits.idleMs; an error of a tunnel's
\* destroys the client.
UpstreamEnds(c) ==
  /\ conn[c].upstream = "open"
  /\ \/ Destroy(c, {"upstream"})
     \/ /\ conn[c].kind # "http"
        /\ Destroy(c, Ends)
  /\ UNCHANGED <<server, closed, usedBytes, passed, died>>

\* close(): no more admissions, what is in the set is destroyed, the server stops
\* listening if it does.  What is awaited then is Drained.
CloseProxy ==
  /\ closed' = TRUE
  /\ conn' = [c \in Conns |-> Destroyed(c, {e \in Ends : <<c, e>> \in sockets})]
  /\ sockets' = {s \in sockets : conn[s[1]][s[2]] # "open"}
  /\ server' = IF server = "listening" THEN "stopped" ELSE server
  /\ UNCHANGED <<usedBytes, passed, died>>

\* server.close() calls back when no connection is left.
Drained == \A c \in Conns : conn[c].client # "open"

----------------------------------------------------------------------------
ProxyTypeOK ==
  /\ server \in {"none", "starting", "listening", "stopped"} /\ closed \in BOOLEAN /\ died \in BOOLEAN
  /\ sockets \in SUBSET (Conns \X Ends)
  /\ conn \in [Conns -> [kind : Kinds, stage : {"unused", "resolving", "refused", "open"},
                         client : {"none", "open", "gone"},
                         upstream : {"none", "open", "gone"}, early : BOOLEAN]]
  /\ usedBytes \in 0 .. MaxBytes + 1 /\ passed \in Nat

\* A closed proxy reaches nobody, though a handler still awaited its host.
ClosedReachesNobody == closed => \A c \in Conns : conn[c].upstream # "open"

\* Every upstream can be destroyed by close(), and a slot is taken by an open socket or
\* by a client that left while its host was resolved.
SlotsAccounted ==
  /\ \A c \in Conns : conn[c].upstream = "open" => <<c, "upstream">> \in sockets
  /\ \A s \in sockets : conn[s[1]][s[2]] = "open" \/ (s[2] = "client" /\ conn[s[1]].early)
  /\ Cardinality(sockets) <= MaxSockets

BudgetKept == passed <= MaxBytes
=============================================================================
