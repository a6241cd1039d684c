---------------------------- MODULE ProxyServer ----------------------------
(***************************************************************************)
(* The listener table of the reverse proxy (fnproxy/server.go): the maps   *)
(* of Server, guarded by Server.mu, and the operations that start, reload, *)
(* roll back and stop the listeners.                                       *)
(*                                                                         *)
(* Every operation holds s.mu from its first read of the maps to its last  *)
(* write, so each is one action.  Two things happen outside the lock and   *)
(* are actions of their own: the goroutine that calls http.Server.Serve on *)
(* a socket net.Listen already bound (serveListener), and the other        *)
(* programs of the machine, which bind and release ports as they like.     *)
(*                                                                         *)
(* Abstractions: a service keeps its identity, its switches and whether    *)
(* createHandler accepts it; every service is a reverse proxy, the type    *)
(* that owns an entry of s.proxies; Shutdown's wait for the requests in    *)
(* flight belongs to another module, here it closes the socket at once.    *)
(***************************************************************************)
EXTENDS Naturals, FiniteSets

CONSTANTS
  Listener,   \* listener identifiers
  Port,       \* TCP ports
  Service,    \* service identifiers
  Configs,    \* the configurations the callers submit, a set of snapshots
  CloseFails, \* may http.Server.Shutdown report an error of closing a socket?
  None        \* the entry of a map that has none

(* models.PortListener, without the Enabled switch (the callers read it).  *)
PortListener == [id : Listener, port : Port, protocol : {"http", "https"}]

(* models.ServiceConfig; valid says that createHandler accepts its Config. *)
ServiceConfig == [id : Service, enabled : BOOLEAN, valid : BOOLEAN,
                  http2 : BOOLEAN, http3 : BOOLEAN]

(* listenerSnapshot. *)
Snapshot == [listener : PortListener, services : SUBSET ServiceConfig]

(* An http.Server with the socket it serves.  "bound": net.Listen returned *)
(* and the goroutine of serveListener has not run; "serving": Serve tracks *)
(* the socket; "closed": Shutdown closed it but reported an error.         *)
HTTPServer == [port : Port, tls : BOOLEAN, h2 : BOOLEAN,
               phase : {"bound", "serving", "closed"}]

ASSUME ConfigsAssumption == Configs \subseteq Snapshot
ASSUME CloseFailsAssumption == CloseFails \in BOOLEAN
ASSUME NoneAssumption ==
  /\ None \notin HTTPServer
  /\ None \notin PortListener
  /\ None \notin Snapshot
  /\ None \notin Port

VARIABLES
  servers,    \* s.servers
  h3servers,  \* s.h3servers: the port an HTTP/3 server was given
  routes,     \* s.routes: the services that answer, {} when the map has none
  listeners,  \* s.listeners
  proxies,    \* s.proxies: the services that own a cached proxy
  lastGood,   \* s.lastGood
  abandoned,  \* sockets bound whose server was shut down before Serve began
  foreign     \* ports held by other programs

serverVars == <<servers, h3servers, routes, listeners, proxies, lastGood>>
vars == <<serverVars, abandoned, foreign>>

-----------------------------------------------------------------------------
(* Configurations *)

Enabled(services) == {s \in services : s.enabled}
Ids(services) == {s.id : s \in services}

(* computeHTTPVersionSupport *)
EffectiveHTTP2(services) == \E s \in Enabled(services) : s.http2
EffectiveHTTP3(services) == \E s \in Enabled(services) : s.http3

(* buildListenerRoutes succeeds: one bad enabled service refuses them all. *)
Buildable(services) == \A s \in Enabled(services) : s.valid

(* The h3 server an applied configuration asks for. *)
WantedH3(c) ==
  IF c.listener.protocol = "https" /\ EffectiveHTTP3(c.services)
  THEN c.listener.port ELSE None

(* buildHTTPServer with createNetListener: TLS and ALPN are fixed here.    *)
NewServer(c) ==
  [port |-> c.listener.port,
   tls  |-> c.listener.protocol = "https",
   h2   |-> c.listener.protocol = "https" /\ EffectiveHTTP2(c.services),
   phase |-> "bound"]

-----------------------------------------------------------------------------
(* Sockets *)

Running(l) == servers[l] # None
Holds(l) == Running(l) /\ servers[l].phase # "closed"

(* http.Server.Shutdown on listener l closes a socket Serve tracks; one    *)
(* that Serve has not seen stays bound until its goroutine runs.           *)
LeftBehind(l) ==
  IF Running(l) /\ servers[l].phase = "bound" THEN {servers[l].port} ELSE {}

(* The ports net.Listen refuses to listener l once its server, if it has   *)
(* one, is shut down.                                                      *)
Taken(l) ==
  foreign \cup abandoned \cup LeftBehind(l)
    \cup {servers[k].port : k \in {j \in Listener \ {l} : Holds(j)}}

-----------------------------------------------------------------------------
Init ==
  /\ servers = [l \in Listener |-> None]
  /\ h3servers = [l \in Listener |-> None]
  /\ routes = [l \in Listener |-> {}]
  /\ listeners = [l \in Listener |-> None]
  /\ proxies = {}
  /\ lastGood = [l \in Listener |-> None]
  /\ abandoned = {}
  /\ foreign \in SUBSET Port

(* Mutant: the snapshot keeps only the services that are switched on.      *)
RecordEnabledOnly(c) ==
  LET l == c.listener.id IN
  /\ routes' = [routes EXCEPT ![l] = Enabled(c.services)]
  /\ listeners' = [listeners EXCEPT ![l] = c.listener]
  /\ lastGood' = [lastGood EXCEPT ![l] = [c EXCEPT !.services = Enabled(@)]]

(* The maps of listener c.listener.id once configuration c is recorded.    *)
Record(c) ==
  LET l == c.listener.id IN
  /\ routes' = [routes EXCEPT ![l] = Enabled(c.services)]
  /\ listeners' = [listeners EXCEPT ![l] = c.listener]
  /\ lastGood' = [lastGood EXCEPT ![l] = c]

PreviousIds(l) == IF lastGood[l] = None THEN {} ELSE Ids(lastGood[l].services)
PreviousHTTP2(l) == lastGood[l] # None /\ EffectiveHTTP2(lastGood[l].services)

NeedTCPRestart(c) ==
  /\ c.listener.protocol = "https"
  /\ PreviousHTTP2(c.listener.id) # EffectiveHTTP2(c.services)

(* Mutant: nothing is ever rolled back. *)
NeverRestores(l) == FALSE

(* restoreSnapshotLocked would find the port of the snapshot free.         *)
CanRestore(l) ==
  /\ lastGood[l] # None
  /\ Buildable(lastGood[l].services)
  /\ lastGood[l].listener.port \notin Taken(l)

(* restoreSnapshotLocked, which leaves s.lastGood alone; cached is what    *)
(* s.proxies holds when it is called.                                      *)
Restore(l, cached) ==
  LET previous == lastGood[l] IN
  /\ servers' = [servers EXCEPT ![l] = NewServer(previous)]
  /\ routes' = [routes EXCEPT ![l] = Enabled(previous.services)]
  /\ listeners' = [listeners EXCEPT ![l] = previous.listener]
  /\ proxies' = (cached \ Ids(previous.services)) \cup Ids(Enabled(previous.services))
  /\ h3servers' = [h3servers EXCEPT ![l] = WantedH3(previous)]

-----------------------------------------------------------------------------
(* applyListenerConfig, one action per way out of it.                      *)

(* Mutant: the HTTP/3 server survives a reload that no longer wants it.    *)
HotReloadKeepsH3(c) ==
  LET l == c.listener.id IN
  /\ Buildable(c.services)
  /\ Running(l) /\ ~NeedTCPRestart(c)
  /\ Record(c)
  /\ proxies' = (proxies \ PreviousIds(l)) \cup Ids(Enabled(c.services))
  /\ UNCHANGED <<servers, h3servers, abandoned, foreign>>

(* Mutant: a reload does not wait for the routes to be built. *)
HotReloadUnbuilt(c) ==
  LET l == c.listener.id IN
  /\ Running(l) /\ ~NeedTCPRestart(c)
  /\ Record(c)
  /\ proxies' = (proxies \ PreviousIds(l)) \cup Ids(Enabled(c.services))
  /\ h3servers' = [h3servers EXCEPT ![l] = WantedH3(c)]
  /\ UNCHANGED <<servers, abandoned, foreign>>

(* A listener that runs: routes and HTTP/3 change under the open socket.   *)
HotReload(c) ==
  LET l == c.listener.id IN
  /\ Buildable(c.services)
  /\ Running(l) /\ ~NeedTCPRestart(c)
  /\ Record(c)
  /\ proxies' = (proxies \ PreviousIds(l)) \cup Ids(Enabled(c.services))
  /\ h3servers' = [h3servers EXCEPT ![l] = WantedH3(c)]
  /\ UNCHANGED <<servers, abandoned, foreign>>

(* A listener that runs and changes HTTP/2: the socket is closed, the new  *)
(* configuration recorded, and only then the port bound again.             *)
RestartTCP(c) ==
  LET l == c.listener.id IN
  /\ Buildable(c.services)
  /\ Running(l) /\ NeedTCPRestart(c)
  /\ c.listener.port \notin Taken(l)
  /\ Record(c)
  /\ proxies' = (proxies \ PreviousIds(l)) \cup Ids(Enabled(c.services))
  /\ servers' = [servers EXCEPT ![l] = NewServer(c)]
  /\ h3servers' = [h3servers EXCEPT ![l] = WantedH3(c)]
  /\ abandoned' = abandoned \cup LeftBehind(l)
  /\ UNCHANGED foreign

(* Mutant: a rollback leaves the routes of the refused configuration.      *)
RollbackForgetsRoutes(c) ==
  LET l == c.listener.id
      previous == lastGood[l] IN
  /\ Buildable(c.services)
  /\ Running(l) /\ NeedTCPRestart(c)
  /\ c.listener.port \in Taken(l)
  /\ CanRestore(l)
  /\ servers' = [servers EXCEPT ![l] = NewServer(previous)]
  /\ routes' = [routes EXCEPT ![l] = Enabled(c.services)]
  /\ listeners' = [listeners EXCEPT ![l] = previous.listener]
  /\ proxies' = proxies
  /\ h3servers' = [h3servers EXCEPT ![l] = WantedH3(previous)]
  /\ lastGood' = [lastGood EXCEPT ![l] = c]
  /\ abandoned' = abandoned \cup LeftBehind(l)
  /\ UNCHANGED foreign

(* ... the port is refused and the previous snapshot is brought back.      *)
RestartTCPRolledBack(c) ==
  LET l == c.listener.id IN
  /\ Buildable(c.services)
  /\ Running(l) /\ NeedTCPRestart(c)
  /\ c.listener.port \in Taken(l)
  /\ CanRestore(l)
  /\ Restore(l, (proxies \ PreviousIds(l)) \cup Ids(Enabled(c.services)))
  /\ lastGood' = [lastGood EXCEPT ![l] = c]
  /\ abandoned' = abandoned \cup LeftBehind(l)
  /\ UNCHANGED foreign

(* ... the port is refused and so is the port of the previous snapshot.    *)
RestartTCPLost(c) ==
  LET l == c.listener.id IN
  /\ Buildable(c.services)
  /\ Running(l) /\ NeedTCPRestart(c)
  /\ c.listener.port \in Taken(l)
  /\ ~CanRestore(l)
  /\ Record(c)
  /\ proxies' = (proxies \ PreviousIds(l)) \cup Ids(Enabled(c.services))
  /\ servers' = [servers EXCEPT ![l] = None]
  /\ h3servers' = [h3servers EXCEPT ![l] = None]
  /\ abandoned' = abandoned \cup LeftBehind(l)
  /\ UNCHANGED foreign

(* A listener that does not run. *)
StartNew(c) ==
  LET l == c.listener.id IN
  /\ Buildable(c.services)
  /\ ~Running(l)
  /\ c.listener.port \notin Taken(l)
  /\ Record(c)
  /\ proxies' = proxies \cup Ids(Enabled(c.services))
  /\ servers' = [servers EXCEPT ![l] = NewServer(c)]
  /\ h3servers' = [h3servers EXCEPT ![l] = WantedH3(c)]
  /\ UNCHANGED <<abandoned, foreign>>

(* ... its port is refused but a snapshot survives from a lost restart.    *)
StartRolledBack(c) ==
  LET l == c.listener.id IN
  /\ Buildable(c.services)
  /\ ~Running(l)
  /\ c.listener.port \in Taken(l)
  /\ CanRestore(l)
  /\ Restore(l, proxies)
  /\ UNCHANGED <<lastGood, abandoned, foreign>>

(* Nothing changes: a service is refused, or no port can be had.           *)
ApplyRefused(c) ==
  LET l == c.listener.id IN
  /\ \/ ~Buildable(c.services)
     \/ ~Running(l) /\ c.listener.port \in Taken(l) /\ ~CanRestore(l)
  /\ UNCHANGED vars

ApplyListenerConfig(c) ==
  \/ HotReload(c)
  \/ RestartTCP(c)
  \/ RestartTCPRolledBack(c)
  \/ RestartTCPLost(c)
  \/ StartNew(c)
  \/ StartRolledBack(c)
  \/ ApplyRefused(c)

-----------------------------------------------------------------------------
(* StopListener *)
StopListener(l) ==
  /\ servers' = [servers EXCEPT ![l] = None]
  /\ h3servers' = [h3servers EXCEPT ![l] = None]
  /\ routes' = [routes EXCEPT ![l] = {}]
  /\ listeners' = [listeners EXCEPT ![l] = None]
  /\ proxies' = proxies \ PreviousIds(l)
  /\ lastGood' = [lastGood EXCEPT ![l] = None]
  /\ abandoned' = abandoned \cup LeftBehind(l)
  /\ UNCHANGED foreign

(* Mutant: the entries are dropped before Shutdown reports its error.      *)
StopListenerFailsLate(l) ==
  /\ CloseFails
  /\ Running(l) /\ servers[l].phase = "serving"
  /\ servers' = [servers EXCEPT ![l].phase = "closed"]
  /\ listeners' = [listeners EXCEPT ![l] = None]
  /\ UNCHANGED <<h3servers, routes, proxies, lastGood, abandoned, foreign>>

(* StopListener returns early when Shutdown reports an error: the socket   *)
(* is closed and every map keeps its entry.                                *)
StopListenerFails(l) ==
  /\ CloseFails
  /\ Running(l) /\ servers[l].phase = "serving"
  /\ servers' = [servers EXCEPT ![l].phase = "closed"]
  /\ UNCHANGED <<h3servers, routes, listeners, proxies, lastGood, abandoned, foreign>>

(* Stop, which Restart calls before Start. *)
Stop ==
  /\ servers' = [l \in Listener |-> None]
  /\ h3servers' = [l \in Listener |-> None]
  /\ routes' = [l \in Listener |-> {}]
  /\ listeners' = [l \in Listener |-> None]
  /\ proxies' = {}
  /\ lastGood' = [l \in Listener |-> None]
  /\ abandoned' = abandoned \cup UNION {LeftBehind(l) : l \in Listener}
  /\ UNCHANGED foreign

(* The goroutine of serveListener: Serve begins to track the socket ...    *)
Serve(l) ==
  /\ Running(l) /\ servers[l].phase = "bound"
  /\ servers' = [servers EXCEPT ![l].phase = "serving"]
  /\ UNCHANGED <<h3servers, routes, listeners, proxies, lastGood, abandoned, foreign>>

(* ... or finds its server shut down and closes the socket.                *)
ServeAbandoned(p) ==
  /\ p \in abandoned
  /\ abandoned' = abandoned \ {p}
  /\ UNCHANGED <<serverVars, foreign>>

(* Other programs. *)
ForeignBind(p) ==
  /\ p \notin foreign \cup abandoned
  /\ \A l \in Listener : Holds(l) => servers[l].port # p
  /\ foreign' = foreign \cup {p}
  /\ UNCHANGED <<serverVars, abandoned>>

ForeignRelease(p) ==
  /\ p \in foreign
  /\ foreign' = foreign \ {p}
  /\ UNCHANGED <<serverVars, abandoned>>

Environment ==
  \E p \in Port : ServeAbandoned(p) \/ ForeignBind(p) \/ ForeignRelease(p)

Next ==
  \/ \E c \in Configs : ApplyListenerConfig(c)
  \/ \E l \in Listener : StopListener(l) \/ StopListenerFails(l) \/ Serve(l)
  \/ Stop
  \/ Environment

Spec == Init /\ [][Next]_vars

-----------------------------------------------------------------------------
(* Properties *)

(* Every map holds what its Go type says. *)
TypeOK ==
  /\ servers \in [Listener -> HTTPServer \cup {None}]
  /\ h3servers \in [Listener -> Port \cup {None}]
  /\ routes \in [Listener -> SUBSET ServiceConfig]
  /\ listeners \in [Listener -> PortListener \cup {None}]
  /\ proxies \subseteq Service
  /\ lastGood \in [Listener -> Configs \cup {None}]
  /\ abandoned \subseteq Port
  /\ foreign \subseteq Port

(* A server that accepts requests has a listener for buildListenerHandler  *)
(* to find and a snapshot to roll back to: no way through a failed restart *)
(* or a rollback leaves an open port answering 404 for want of an entry.   *)
RunningIsApplied ==
  \A l \in Listener : Running(l) => listeners[l] # None /\ lastGood[l] # None

(* The HTTP/3 server, and the Alt-Svc header that advertises it, exist     *)
(* exactly while the listener runs HTTPS with an HTTP/3 service among the  *)
(* routes that answer, and on the port the listener's entry names.         *)
H3Exact ==
  \A l \in Listener :
    h3servers[l] =
      IF Running(l) /\ listeners[l].protocol = "https" /\ \E s \in routes[l] : s.http3
      THEN listeners[l].port ELSE None

(* The listener entry and the routes a request is matched against come     *)
(* from one and the same submitted configuration, through every failed     *)
(* restart and rollback: never the routes of one with the OAuth settings   *)
(* and protocol of another.                                                *)
NoMixedConfig ==
  \A l \in Listener :
    listeners[l] # None =>
      \E c \in Configs : c.listener = listeners[l] /\ routes[l] = Enabled(c.services)

(* What a rollback would bring back can be built: the snapshot was never   *)
(* taken from a configuration buildListenerRoutes refuses.                 *)
SnapshotBuildable ==
  \A l \in Listener : lastGood[l] # None =>
    lastGood[l].listener.id = l /\ Buildable(lastGood[l].services)

(* An apply that costs a listener its server does so only when neither the *)
(* new port nor the port of the snapshot can be bound; a listener stopped  *)
(* on purpose has no entry left in s.listeners.                            *)
OutageOnlyWhenPortsTaken ==
  [][\A l \in Listener :
       (Running(l) /\ servers'[l] = None /\ listeners'[l] # None) =>
         /\ listeners'[l].port \in Taken(l)
         /\ lastGood[l].listener.port \in Taken(l)]_vars

=============================================================================
