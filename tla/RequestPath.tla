---------------------------- MODULE RequestPath ----------------------------
(***************************************************************************)
(* Requests on their way through the proxy while the administrator applies *)
(* configurations: fnproxy/server.go from Accept to the service handler,   *)
(* and utils/monitor.go's count of active connections.                     *)
(*                                                                         *)
(* A request is a goroutine of net/http.  Its stay under the read lock of  *)
(* s.mu never blocks and is one step, which a writer delays; an            *)
(* administrator's stay under the write lock is one step too, unless it    *)
(* calls Shutdown, which waits for requests: only then is writer set.      *)
(*                                                                         *)
(* What the tables hold besides the version of the configuration, and the  *)
(* port a listener moves to, are ProxyServer's subject, which service      *)
(* matches a host that of Configuration; here every outcome is possible.   *)
(* net/http and gorilla's WebSocket connections are modelled from how they *)
(* are used.                                                               *)
(***************************************************************************)
EXTENDS Naturals, FiniteSets

CONSTANTS
  Listener, HTTPS,   \* listeners, and those with TLS
  Request,           \* connections with one request each
  Admin,             \* goroutines of the administrator's requests
  MaxVersion,        \* configurations of all listeners there may be
  Services,          \* what a route may lead to: "respond", "websocket"
  CloseFrames,       \* do WebSocket peers answer a close message?
  MaxAborted,        \* handlers that panic
  None

ASSUME RequestAssumption ==
  /\ HTTPS \subseteq Listener /\ MaxVersion \in Nat /\ CloseFrames \in BOOLEAN
  /\ Services \subseteq {"respond", "websocket"}
  /\ None \notin Nat \cup Admin \cup Listener
  /\ IsFiniteSet(Request)

Version == 0 .. MaxVersion

VARIABLES
  table,     \* s.listeners and s.routes: the version, or None
  server,    \* s.servers: which HTTP server it is, or None
  lastGood,  \* s.lastGood: the version, and whether it has HTTP/2
  open,      \* the servers, with their listeners, whose sockets are open
  serving,   \* those of them whose goroutine is in Serve
  writer,    \* the administrator in Shutdown under the write lock, or None
  admin,     \* what each administrator does next
  request,   \* what each request does next, and the version it read
  window,    \* history: versions in force since the request came
  active,    \* ActiveConnections of the listener
  aborted,   \* history: requests whose handler panicked
  latest     \* the last version given out

serverVars == <<table, server, lastGood, open, serving>>
adminVars == <<writer, admin, latest>>
countVars == <<active, aborted>>
pathVars == <<table, server, lastGood, open, serving, writer, admin, latest, request, window,
              active, aborted>>

Absent == [pc |-> "absent"]
Ready == [pc |-> "ready"]

-----------------------------------------------------------------------------
(* Connections *)

At(r, pc) == request[r].pc = pc
Proceed(r, pc) == request' = [request EXCEPT ![r].pc = pc]
On(r) == request[r].listener
Socket(r) == <<request[r].listener, request[r].server>>

(* The kernel puts a connection in the queue of an open socket, whether or *)
(* not somebody accepts from it.                                           *)
Connect(r) ==
  /\ At(r, "absent")
  /\ \E s \in open :
       /\ request' = [request EXCEPT ![r] = [pc |-> "queued", listener |-> s[1], server |-> s[2],
                                             answer |-> {}, running |-> {}, gone |-> {}]]
       /\ window' = [window EXCEPT ![r] = {table[s[1]]}]
  /\ UNCHANGED <<serverVars, adminVars, countVars>>

(* Serve takes the next connection.  With TLS that is protocolSniffListener *)
(* .Accept, which looks at one connection before it takes another.         *)
Accept(r) ==
  /\ At(r, "queued") /\ Socket(r) \in serving
  /\ \A q \in Request : At(q, "sniffed") => Socket(q) # Socket(r)
  /\ Proceed(r, IF On(r) \in HTTPS THEN "sniffed" ELSE "handler")
  /\ UNCHANGED <<serverVars, adminVars, countVars, window>>

(* The first byte of a TLS handshake has come. *)
SniffTLS(r) ==
  /\ At(r, "sniffed")
  /\ Proceed(r, "handler")
  /\ UNCHANGED <<serverVars, adminVars, countVars, window>>

(* Mutant: without a deadline, a connection is looked at until it is closed. *)
SniffNeverEnds(r) ==
  /\ At(r, "sniffed") /\ Socket(r) \notin open
  /\ Proceed(r, "leaving")
  /\ UNCHANGED <<serverVars, adminVars, countVars, window>>

(* Plain HTTP is redirected and closed.  The client says nothing for ten   *)
(* seconds, or starts a request it does not finish in five.                *)
SniffEnds(r) ==
  /\ At(r, "sniffed")
  /\ Proceed(r, "leaving")
  /\ UNCHANGED <<serverVars, adminVars, countVars, window>>

-----------------------------------------------------------------------------
(* The handler *)

(* ServeHTTPChallenge answers, or the firewall drops the connection; or it *)
(* goes on to the core handler.                                            *)
FirewallMiddleware(r) ==
  /\ At(r, "handler")
  /\ \E next \in {"leaving", "core"} : Proceed(r, next)
  /\ UNCHANGED <<serverVars, adminVars, countVars, window>>

(* Mutant: the handler keeps the routes it was built with. *)
LookupAtConnect(r) ==
  /\ At(r, "core")
  /\ writer = None
  /\ request' = [request EXCEPT ![r].pc = "route", ![r].answer = {request[r].server}]
  /\ UNCHANGED <<serverVars, adminVars, countVars, window>>

(* buildListenerHandler: listener and routes are read under the read lock. *)
Lookup(r) ==
  /\ At(r, "core")
  /\ writer = None
  /\ request' = [request EXCEPT ![r].pc = IF table[On(r)] = None THEN "leaving" ELSE "route",
                                ![r].answer = {table[On(r)]}]
  /\ UNCHANGED <<serverVars, adminVars, countVars, window>>

(* The login page, no matching service, a redirect to the login, or no     *)
(* permission: nothing is counted.  A login is decrypted first.            *)
EndsUnserved(r) ==
  /\ At(r, "route")
  /\ \E next \in {"leaving", "login"} : Proceed(r, next)
  /\ UNCHANGED <<serverVars, adminVars, countVars, window>>

(* The key is read under the read lock, once more. *)
DecryptSecurePayload(r) ==
  /\ At(r, "login") /\ writer = None
  /\ Proceed(r, "leaving")
  /\ UNCHANGED <<serverVars, adminVars, countVars, window>>

(* wrapServiceHandler: BeginRequest, then the handler of the service. *)
BeginRequest(r) ==
  /\ At(r, "route")
  /\ active' = [active EXCEPT ![On(r)] = @ + 1]
  /\ \E s \in Services : Proceed(r, s)
  /\ UNCHANGED <<serverVars, adminVars, aborted, window>>

(* Mutant: the count is lowered when the response starts. *)
ServeAndLower(r) ==
  /\ At(r, "respond")
  /\ active' = [active EXCEPT ![On(r)] = IF @ = 0 THEN 0 ELSE @ - 1]
  /\ Proceed(r, "record")
  /\ UNCHANGED <<serverVars, adminVars, aborted, window>>

Serve(r) ==
  /\ At(r, "respond")
  /\ Proceed(r, "record")
  /\ UNCHANGED <<serverVars, adminVars, countVars, window>>

(* ReverseProxy panics with http.ErrAbortHandler when it cannot copy the   *)
(* body to its end: RecordRequest is not deferred.                         *)
Abort(r) ==
  /\ At(r, "respond") /\ aborted[On(r)] < MaxAborted
  /\ Proceed(r, "leaving")
  /\ aborted' = [aborted EXCEPT ![On(r)] = @ + 1]
  /\ UNCHANGED <<serverVars, adminVars, active, window>>

RecordRequest(r) ==
  /\ At(r, "record")
  /\ active' = [active EXCEPT ![On(r)] = IF @ = 0 THEN 0 ELSE @ - 1]
  /\ Proceed(r, "leaving")
  /\ UNCHANGED <<serverVars, adminVars, aborted, window>>

Disconnect(r) ==
  /\ At(r, "leaving") \/ At(r, "reset")
  /\ request' = [request EXCEPT ![r] = Absent]
  /\ window' = [window EXCEPT ![r] = {}]
  /\ UNCHANGED <<serverVars, adminVars, countVars>>

-----------------------------------------------------------------------------
(* handleWebSocketProxy *)

(* The backend does not answer within ten seconds, or the client is gone. *)
UpgradeFails(r) ==
  /\ At(r, "websocket")
  /\ Proceed(r, "record")
  /\ UNCHANGED <<serverVars, adminVars, countVars, window>>

Upgrade(r) ==
  /\ At(r, "websocket")
  /\ request' = [request EXCEPT ![r].pc = "copying", ![r].running = {"client", "backend"}]
  /\ UNCHANGED <<serverVars, adminVars, countVars, window>>

PeerLeaves(r, peer) ==
  /\ At(r, "copying") /\ peer \notin request[r].gone
  /\ request' = [request EXCEPT ![r].gone = @ \cup {peer}]
  /\ UNCHANGED <<serverVars, adminVars, countVars, window>>

Opposite(peer) == IF peer = "client" THEN "backend" ELSE "client"

(* Mutant: the other side is not told. *)
ReadFailsSilently(r, peer) ==
  /\ At(r, "copying") /\ peer \in request[r].running \cap request[r].gone
  /\ request' = [request EXCEPT ![r].running = @ \ {peer}]
  /\ UNCHANGED <<serverVars, adminVars, countVars, window>>

(* The goroutine that reads from a peer that has gone sends a close        *)
(* message to the other side and ends; a peer that answers close messages  *)
(* goes as well.                                                           *)
ReadFails(r, peer) ==
  /\ At(r, "copying") /\ peer \in request[r].running \cap request[r].gone
  /\ request' = [request EXCEPT ![r].running = @ \ {peer},
                                ![r].gone = IF CloseFrames THEN @ \cup {Opposite(peer)} ELSE @]
  /\ UNCHANGED <<serverVars, adminVars, countVars, window>>

(* A message for a peer that has gone: the goroutine ends, nobody is told. *)
WriteFails(r, peer) ==
  /\ At(r, "copying") /\ peer \in request[r].running /\ Opposite(peer) \in request[r].gone
  /\ request' = [request EXCEPT ![r].running = @ \ {peer}]
  /\ UNCHANGED <<serverVars, adminVars, countVars, window>>

(* wg.Wait *)
BothEnded(r) ==
  /\ At(r, "copying") /\ request[r].running = {}
  /\ Proceed(r, "record")
  /\ UNCHANGED <<serverVars, adminVars, countVars, window>>

-----------------------------------------------------------------------------
(* The administrator *)

(* Sockets are closed, and the connections in their queues with them.      *)
Closed(sockets) ==
  /\ open' = open \ sockets /\ serving' = serving \ sockets
  /\ request' = [r \in Request |-> IF At(r, "queued") /\ Socket(r) \in sockets
                                   THEN [request[r] EXCEPT !.pc = "reset"] ELSE request[r]]

(* Somebody has called Shutdown of the server: it is being taken down, or  *)
(* it is not in the table any more.                                        *)
ShutDown(s) ==
  \/ server[s[1]] # s[2]
  \/ writer # None /\ admin[writer].listener = s[1]

(* The goroutine of serveListener, which runs some time after the socket   *)
(* was opened, enters Serve.                                               *)
ServeListener(s) ==
  /\ s \in open \ serving /\ ~ShutDown(s)
  /\ serving' = serving \cup {s}
  /\ UNCHANGED <<table, server, lastGood, open, adminVars, countVars, request, window>>

(* It comes too late: Serve finds the server shut down and closes the      *)
(* socket.                                                                 *)
ServeAbandoned(s) ==
  /\ s \in open \ serving /\ ShutDown(s)
  /\ Closed({s})
  /\ UNCHANGED <<table, server, lastGood, adminVars, countVars, window>>

(* Shutdown waits for the loop in Accept and for the requests that were    *)
(* not hijacked, as tunnels are.                                           *)
Awaited(l) ==
  {r \in Request : /\ request[r].pc \in {"sniffed", "handler", "core", "route", "login",
                                         "respond", "websocket", "record", "leaving"}
                   /\ request[r].gone = {} /\ Socket(r) = <<l, server[l]>>}

Installed(l, v) ==
  /\ table' = [table EXCEPT ![l] = v]
  /\ window' = [r \in Request |-> IF request[r].pc # "absent" /\ On(r) = l
                                  THEN window[r] \cup {v} ELSE window[r]]

(* The configuration is stored, and the routes are built without the lock. *)
Submit(a) ==
  /\ admin[a] = Ready /\ latest < MaxVersion
  /\ latest' = latest + 1
  /\ \E l \in Listener, h2 \in BOOLEAN :
       admin' = [admin EXCEPT ![a] = [pc |-> "apply", listener |-> l, version |-> latest + 1,
                                      http2 |-> h2]]
  /\ UNCHANGED <<serverVars, writer, countVars, request, window>>

Good(v, h2) == [version |-> v, http2 |-> h2]

NeedsRestart(a) ==
  LET l == admin[a].listener
  IN server[l] # None /\ l \in HTTPS /\ lastGood[l].http2 # admin[a].http2

(* applyListenerConfig, listener running, HTTP/2 as before: new routes, the *)
(* same server.                                                            *)
ApplyHot(a) ==
  /\ admin[a].pc = "apply" /\ writer = None
  /\ server[admin[a].listener] # None /\ ~NeedsRestart(a)
  /\ Installed(admin[a].listener, admin[a].version)
  /\ lastGood' = [lastGood EXCEPT ![admin[a].listener] = Good(admin[a].version, admin[a].http2)]
  /\ admin' = [admin EXCEPT ![a] = Ready]
  /\ UNCHANGED <<server, open, serving, writer, latest, countVars, request>>

(* A new server listens and serves a version.  Its number is the version   *)
(* whose application built it.  The port must be free, also of a socket    *)
(* left behind; other programs may take it at any time.                    *)
Listens(l, n, v) ==
  /\ \A s \in open : s[1] # l
  /\ server' = [server EXCEPT ![l] = n]
  /\ open' = open \cup {<<l, n>>}
  /\ Installed(l, v)
  /\ UNCHANGED serving

(* The port is not free, but may be a moment later for the last good       *)
(* configuration; the lock is kept.                                        *)
StartsRollBack(a) ==
  LET l == admin[a].listener
  IN /\ lastGood[l] # None
     /\ writer' = a
     /\ admin' = [admin EXCEPT ![a] = [pc |-> "rollback", listener |-> l,
                                       version |-> admin[a].version,
                                       back |-> lastGood[l].version]]

(* No server runs. *)
ApplyNew(a) ==
  /\ admin[a].pc = "apply" /\ writer = None
  /\ LET l == admin[a].listener  v == admin[a].version
     IN /\ server[l] = None
        /\ \/ /\ Listens(l, v, v)
              /\ lastGood' = [lastGood EXCEPT ![l] = Good(v, admin[a].http2)]
              /\ admin' = [admin EXCEPT ![a] = Ready]
              /\ UNCHANGED writer
           \/ StartsRollBack(a) /\ UNCHANGED <<serverVars, window>>
           \/ /\ lastGood[l] = None
              /\ admin' = [admin EXCEPT ![a] = Ready]
              /\ UNCHANGED <<serverVars, window, writer>>
  /\ UNCHANGED <<latest, countVars, request>>

(* Mutant: the socket is left to the next server. *)
ClosesNothing(a, l) == writer' = a /\ UNCHANGED <<open, serving, request>>

(* Shutdown first closes the socket, if Serve knows it. *)
Closes(a, l) == writer' = a /\ Closed(serving \cap {<<l, server[l]>>})

BeginRestart(a) ==
  /\ admin[a].pc = "apply" /\ writer = None
  /\ NeedsRestart(a)
  /\ Closes(a, admin[a].listener)
  /\ admin' = [admin EXCEPT ![a].pc = "restart"]
  /\ UNCHANGED <<table, server, lastGood, latest, countVars, window>>

(* The requests have ended.  Routes, listener and snapshot are stored      *)
(* before the new server listens, and stay if it cannot.                   *)
FinishRestart(a) ==
  /\ admin[a].pc = "restart" /\ Awaited(admin[a].listener) = {}
  /\ LET l == admin[a].listener  v == admin[a].version
     IN /\ lastGood' = [lastGood EXCEPT ![l] = Good(v, admin[a].http2)]
        /\ \/ /\ Listens(l, v, v)
              /\ writer' = None
              /\ admin' = [admin EXCEPT ![a] = Ready]
           \/ /\ server' = [server EXCEPT ![l] = None]
              /\ Installed(l, v)
              /\ StartsRollBack(a)
              /\ UNCHANGED <<open, serving>>
  /\ UNCHANGED <<latest, countVars, request>>

(* restoreSnapshotLocked: the last good configuration is served again, or  *)
(* that fails as well and nothing listens.                                 *)
RollBack(a) ==
  /\ admin[a].pc = "rollback"
  /\ \/ Listens(admin[a].listener, admin[a].version, admin[a].back) /\ UNCHANGED lastGood
     \/ UNCHANGED <<serverVars, window>>
  /\ writer' = None
  /\ admin' = [admin EXCEPT ![a] = Ready]
  /\ UNCHANGED <<latest, countVars, request>>

(* StopListener *)
BeginStop(a) ==
  /\ admin[a] = Ready /\ writer = None
  /\ \E l \in Listener :
       /\ Closes(a, l)
       /\ admin' = [admin EXCEPT ![a] = [pc |-> "stop", listener |-> l]]
  /\ UNCHANGED <<table, server, lastGood, latest, countVars, window>>

FinishStop(a) ==
  /\ admin[a].pc = "stop" /\ Awaited(admin[a].listener) = {}
  /\ server' = [server EXCEPT ![admin[a].listener] = None]
  /\ Installed(admin[a].listener, None)
  /\ writer' = None
  /\ admin' = [admin EXCEPT ![a] = Ready]
  /\ lastGood' = [lastGood EXCEPT ![admin[a].listener] = None]
  /\ UNCHANGED <<open, serving, latest, countVars, request>>

-----------------------------------------------------------------------------
(* A listener runs, or its last restart and the rollback have failed, and  *)
(* the tables keep what was not started.                                   *)
PathInit ==
  /\ table = [l \in Listener |-> 0]
  /\ lastGood = [l \in Listener |-> Good(0, FALSE)]
  /\ \E running \in SUBSET Listener :
       /\ server = [l \in Listener |-> IF l \in running THEN 0 ELSE None]
       /\ open = running \X {0} /\ serving = open
  /\ writer = None
  /\ admin = [a \in Admin |-> Ready]
  /\ request = [r \in Request |-> Absent]
  /\ window = [r \in Request |-> {}]
  /\ active = [l \in Listener |-> 0]
  /\ aborted = [l \in Listener |-> 0]
  /\ latest = 0

Accepts(r) == Accept(r) \/ SniffTLS(r) \/ SniffEnds(r)
Handles(r) ==
  \/ FirewallMiddleware(r) \/ Lookup(r) \/ EndsUnserved(r) \/ DecryptSecurePayload(r)
  \/ BeginRequest(r) \/ Serve(r) \/ Abort(r) \/ UpgradeFails(r) \/ Upgrade(r)
  \/ RecordRequest(r) \/ Disconnect(r)
Copies(r) == BothEnded(r) \/ \E peer \in {"client", "backend"} : ReadFails(r, peer)
Serves(s) == ServeListener(s) \/ ServeAbandoned(s)
Environment(r) ==
  Connect(r) \/ \E peer \in {"client", "backend"} : PeerLeaves(r, peer) \/ WriteFails(r, peer)
Applies(a) ==
  ApplyHot(a) \/ ApplyNew(a) \/ BeginRestart(a) \/ FinishRestart(a) \/ RollBack(a)
  \/ FinishStop(a)

PathNext ==
  \/ \E r \in Request : Environment(r) \/ Accepts(r) \/ Handles(r) \/ Copies(r)
  \/ \E s \in open : Serves(s)
  \/ \E a \in Admin : Submit(a) \/ BeginStop(a) \/ Applies(a)

(* The deadlines of Accept, handlers that answer, and a scheduler. *)
PathFairness ==
  /\ \A r \in Request : /\ WF_pathVars(SniffEnds(r)) /\ SF_pathVars(Accept(r))
                        /\ SF_pathVars(Handles(r)) /\ WF_pathVars(Copies(r))
  /\ \A s \in Listener \X Version : WF_pathVars(Serves(s))
  /\ \A a \in Admin : SF_pathVars(Applies(a))

PathSpec == PathInit /\ [][PathNext]_pathVars
FairPathSpec == PathSpec /\ PathFairness

-----------------------------------------------------------------------------
Handled == {"respond", "websocket", "copying", "record"}

(* The count of active connections is the number of requests a service is  *)
(* working on, and of those whose handler panicked: they are never         *)
(* discounted, and nothing else is miscounted (wrapServiceHandler).        *)
ActiveIsAccounted ==
  \A l \in Listener :
    active[l] = aborted[l] + Cardinality({r \in Request : request[r].pc \in Handled /\ On(r) = l})

(* A request is answered by a configuration in force while it was under    *)
(* way: none from before it came, although handlers, servers and sockets   *)
(* outlive configurations.                                                 *)
Hot == INSTANCE HotReload
         WITH inForce <- table,
              answer <- [r \in Request |-> IF At(r, "absent") THEN {} ELSE request[r].answer]
AnsweredByCurrent == Hot!HotReloadSpec

(* Connections are accepted for the server in the table and for no other,  *)
(* although a goroutine that serves may start when its server was already  *)
(* stopped; and unless it is being taken down, a server in the table has   *)
(* its socket (serveListener, applyListenerConfig, StopListener).          *)
OneSocket ==
  /\ \A s \in serving : server[s[1]] = s[2]
  /\ \A l \in Listener :
       server[l] # None /\ ~ShutDown(<<l, server[l]>>) => <<l, server[l]>> \in open

(* A client that says nothing keeps others waiting for ten seconds, not    *)
(* for ever (Accept).                                                      *)
ConnectionsAreAccepted == \A r \in Request : At(r, "queued") ~> ~At(r, "queued")

(* A WebSocket tunnel ends after one of its peers has gone. *)
TunnelsEnd ==
  \A r \in Request : At(r, "copying") /\ request[r].gone # {} ~> ~At(r, "copying")

(* Closing a server takes a limited time: nobody stays in Shutdown. *)
ShutdownEnds == \A a \in Admin : writer = a ~> writer # a
=============================================================================
