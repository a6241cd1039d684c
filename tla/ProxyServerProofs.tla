------------------------- MODULE ProxyServerProofs -------------------------
(***************************************************************************)
(* Theorems about ProxyServer: its invariants hold for every set of        *)
(* listeners, ports, services and submitted configurations.                *)
(***************************************************************************)
EXTENDS ProxyServer, TLAPS

(* The inductive invariant.  H3Exact alone is not inductive: a rollback    *)
(* starts the HTTP/3 server of the snapshot, and that the routes it brings *)
(* back are the snapshot's needs lastGood to hold a submitted              *)
(* configuration (TypeOK) of that very listener (SnapshotBuildable).       *)
IInv ==
  /\ TypeOK
  /\ RunningIsApplied
  /\ H3Exact
  /\ NoMixedConfig
  /\ SnapshotBuildable

(* What recording or restoring a configuration does to the entries of its  *)
(* listener: the three properties of that listener's entries hold again.   *)
LEMMA WantedH3Type ==
  ASSUME NEW c \in Configs
  PROVE  /\ WantedH3(c) \in Port \cup {None}
         /\ NewServer(c) \in HTTPServer
         /\ NewServer(c) # None
         /\ c.listener \in PortListener
         /\ c.listener # None
         /\ c.listener.id \in Listener
         /\ c # None
         /\ Enabled(c.services) \in SUBSET ServiceConfig
         /\ Ids(Enabled(c.services)) \subseteq Service
<1>1. c \in Snapshot
  BY ConfigsAssumption
<1>2. /\ c.listener \in PortListener
      /\ c.services \in SUBSET ServiceConfig
  BY <1>1 DEF Snapshot
<1>3. /\ c.listener.id \in Listener
      /\ c.listener.port \in Port
  BY <1>2 DEF PortListener
<1>4. EffectiveHTTP2(c.services) \in BOOLEAN
  BY DEF EffectiveHTTP2
<1>5. NewServer(c) \in HTTPServer
  BY <1>3, <1>4 DEF NewServer, HTTPServer
<1>6. WantedH3(c) \in Port \cup {None}
  BY <1>3 DEF WantedH3
<1>7. /\ Enabled(c.services) \in SUBSET ServiceConfig
      /\ Ids(Enabled(c.services)) \subseteq Service
  BY <1>2 DEF Enabled, Ids, ServiceConfig
<1> QED
  BY <1>1, <1>2, <1>3, <1>5, <1>6, <1>7, NoneAssumption

(* A step that gives listener l the server, the HTTP/3 server, the routes  *)
(* and the entry of configuration d, or takes its server away while it     *)
(* records d, keeps the properties of the entries.                         *)
LEMMA ServingKeepsEntries ==
  ASSUME IInv,
         NEW d \in Configs, NEW g \in Configs \cup {None},
         NEW l \in Listener, d.listener.id = l,
         g # None => g.listener.id = l /\ Buildable(g.services),
         NEW srv \in HTTPServer \cup {None},
         srv # None => g # None,
         servers' = [servers EXCEPT ![l] = srv],
         routes' = [routes EXCEPT ![l] = Enabled(d.services)],
         listeners' = [listeners EXCEPT ![l] = d.listener],
         lastGood' = [lastGood EXCEPT ![l] = g],
         h3servers' = [h3servers EXCEPT ![l] = IF srv = None THEN None ELSE WantedH3(d)]
  PROVE  /\ servers' \in [Listener -> HTTPServer \cup {None}]
         /\ h3servers' \in [Listener -> Port \cup {None}]
         /\ routes' \in [Listener -> SUBSET ServiceConfig]
         /\ listeners' \in [Listener -> PortListener \cup {None}]
         /\ lastGood' \in [Listener -> Configs \cup {None}]
         /\ RunningIsApplied'
         /\ H3Exact'
         /\ NoMixedConfig'
         /\ SnapshotBuildable'
<1>1. /\ WantedH3(d) \in Port \cup {None}
      /\ d.listener \in PortListener
      /\ d.listener # None
      /\ Enabled(d.services) \in SUBSET ServiceConfig
  BY WantedH3Type
<1>2. /\ servers' \in [Listener -> HTTPServer \cup {None}]
      /\ h3servers' \in [Listener -> Port \cup {None}]
      /\ routes' \in [Listener -> SUBSET ServiceConfig]
      /\ listeners' \in [Listener -> PortListener \cup {None}]
      /\ lastGood' \in [Listener -> Configs \cup {None}]
  BY <1>1 DEF IInv, TypeOK
<1>3. RunningIsApplied'
  BY <1>1 DEF IInv, TypeOK, RunningIsApplied, Running
<1>4. H3Exact'
  <2> SUFFICES ASSUME NEW k \in Listener
               PROVE  h3servers'[k] =
                        IF servers'[k] # None /\ listeners'[k].protocol = "https"
                             /\ \E s \in routes'[k] : s.http3
                        THEN listeners'[k].port ELSE None
    BY DEF H3Exact, Running
  <2>1. CASE k = l
    BY <2>1 DEF IInv, TypeOK, WantedH3, EffectiveHTTP3
  <2>2. CASE k # l
    BY <2>2 DEF IInv, TypeOK, H3Exact, Running
  <2> QED
    BY <2>1, <2>2
<1>5. NoMixedConfig'
  BY DEF IInv, TypeOK, NoMixedConfig
<1>6. SnapshotBuildable'
  BY DEF IInv, TypeOK, SnapshotBuildable
<1> QED
  BY <1>2, <1>3, <1>4, <1>5, <1>6

(* Taking every entry of the listeners in a set away keeps the invariant.  *)
LEMMA StoppingKeepsEntries ==
  ASSUME IInv, NEW L \in SUBSET Listener,
         servers' = [l \in Listener |-> IF l \in L THEN None ELSE servers[l]],
         h3servers' = [l \in Listener |-> IF l \in L THEN None ELSE h3servers[l]],
         routes' = [l \in Listener |-> IF l \in L THEN {} ELSE routes[l]],
         listeners' = [l \in Listener |-> IF l \in L THEN None ELSE listeners[l]],
         lastGood' = [l \in Listener |-> IF l \in L THEN None ELSE lastGood[l]],
         proxies' \subseteq Service, abandoned' \subseteq Port, foreign' \subseteq Port
  PROVE  IInv'
<1>1. TypeOK'
  BY DEF IInv, TypeOK
<1>2. RunningIsApplied'
  BY DEF IInv, RunningIsApplied, Running
<1>3. H3Exact'
  BY DEF IInv, H3Exact, Running
<1>4. NoMixedConfig'
  BY DEF IInv, NoMixedConfig
<1>5. SnapshotBuildable'
  BY DEF IInv, SnapshotBuildable
<1> QED
  BY <1>1, <1>2, <1>3, <1>4, <1>5 DEF IInv

(* The ports a shutdown leaves bound are ports. *)
LEMMA LeftBehindType ==
  ASSUME TypeOK, NEW l \in Listener
  PROVE  LeftBehind(l) \subseteq Port
BY DEF TypeOK, LeftBehind, Running, HTTPServer

(* The initial state satisfies the invariant. *)
LEMMA TypeInit == Init => IInv
BY DEF Init, IInv, TypeOK, RunningIsApplied, H3Exact, NoMixedConfig,
       SnapshotBuildable, Running

-----------------------------------------------------------------------------
(* A configuration applied keeps the invariant, whatever way the call      *)
(* takes out of applyListenerConfig.                                       *)
LEMMA ApplyKeepsInvariant ==
  ASSUME IInv, NEW c \in Configs, ApplyListenerConfig(c)
  PROVE  IInv'
<1> DEFINE l == c.listener.id
           merged == (proxies \ PreviousIds(l)) \cup Ids(Enabled(c.services))
<1>1. /\ l \in Listener
      /\ c # None
      /\ NewServer(c) \in HTTPServer
      /\ NewServer(c) # None
      /\ Ids(Enabled(c.services)) \subseteq Service
  BY WantedH3Type
<1>2. LeftBehind(l) \subseteq Port
  BY <1>1, LeftBehindType DEF IInv
<1>3. merged \subseteq Service
  BY <1>1 DEF IInv, TypeOK
<1>4. ASSUME NEW g \in Configs, g = lastGood[l]
      PROVE  /\ g.listener.id = l /\ Buildable(g.services)
             /\ NewServer(g) \in HTTPServer
             /\ NewServer(g) # None
             /\ Ids(Enabled(g.services)) \subseteq Service
             /\ g # None
  <2>1. /\ NewServer(g) \in HTTPServer
        /\ NewServer(g) # None
        /\ Ids(Enabled(g.services)) \subseteq Service
        /\ g # None
    BY WantedH3Type
  <2>2. g.listener.id = l /\ Buildable(g.services)
    BY <1>1, <1>4, <2>1 DEF IInv, SnapshotBuildable
  <2> QED
    BY <2>1, <2>2
<1>5. CASE HotReload(c)
  <2>1. /\ Running(l)
        /\ Buildable(c.services)
        /\ Record(c)
        /\ proxies' = merged
        /\ h3servers' = [h3servers EXCEPT ![l] = WantedH3(c)]
        /\ servers' = servers /\ abandoned' = abandoned /\ foreign' = foreign
    BY <1>5 DEF HotReload
  <2>2. /\ servers[l] \in HTTPServer
        /\ servers[l] # None
        /\ servers' = [servers EXCEPT ![l] = servers[l]]
    BY <1>1, <2>1 DEF Running, IInv, TypeOK
  <2> QED
    BY <1>1, <1>3, <2>1, <2>2, ServingKeepsEntries DEF Record, IInv, TypeOK
<1>6. CASE RestartTCP(c)
  <2>1. /\ Buildable(c.services)
        /\ Record(c)
        /\ proxies' = merged
        /\ servers' = [servers EXCEPT ![l] = NewServer(c)]
        /\ h3servers' = [h3servers EXCEPT ![l] = WantedH3(c)]
        /\ abandoned' = abandoned \cup LeftBehind(l) /\ foreign' = foreign
    BY <1>6 DEF RestartTCP
  <2> QED
    BY <1>1, <1>2, <1>3, <2>1, ServingKeepsEntries DEF Record, IInv, TypeOK
<1>7. CASE RestartTCPRolledBack(c)
  <2>1. /\ Buildable(c.services)
        /\ CanRestore(l)
        /\ Restore(l, merged)
        /\ lastGood' = [lastGood EXCEPT ![l] = c]
        /\ abandoned' = abandoned \cup LeftBehind(l) /\ foreign' = foreign
    BY <1>7 DEF RestartTCPRolledBack
  <2>2. PICK g \in Configs : g = lastGood[l]
    BY <1>1, <2>1 DEF CanRestore, IInv, TypeOK
  <2>3. proxies' \subseteq Service
    BY <1>3, <1>4, <2>1, <2>2 DEF Restore
  <2> QED
    BY <1>1, <1>2, <1>4, <2>1, <2>2, <2>3, ServingKeepsEntries
    DEF Restore, IInv, TypeOK
<1>8. CASE RestartTCPLost(c)
  <2>1. /\ Buildable(c.services)
        /\ Record(c)
        /\ proxies' = merged
        /\ servers' = [servers EXCEPT ![l] = None]
        /\ h3servers' = [h3servers EXCEPT ![l] = None]
        /\ abandoned' = abandoned \cup LeftBehind(l) /\ foreign' = foreign
    BY <1>8 DEF RestartTCPLost
  <2> QED
    BY <1>1, <1>2, <1>3, <2>1, ServingKeepsEntries DEF Record, IInv, TypeOK
<1>9. CASE StartNew(c)
  <2>1. /\ Buildable(c.services)
        /\ Record(c)
        /\ proxies' = proxies \cup Ids(Enabled(c.services))
        /\ servers' = [servers EXCEPT ![l] = NewServer(c)]
        /\ h3servers' = [h3servers EXCEPT ![l] = WantedH3(c)]
        /\ abandoned' = abandoned /\ foreign' = foreign
    BY <1>9 DEF StartNew
  <2> QED
    BY <1>1, <2>1, ServingKeepsEntries DEF Record, IInv, TypeOK
<1>10. CASE StartRolledBack(c)
  <2>1. /\ CanRestore(l)
        /\ Restore(l, proxies)
        /\ lastGood' = lastGood /\ abandoned' = abandoned /\ foreign' = foreign
    BY <1>10 DEF StartRolledBack
  <2>2. PICK g \in Configs : g = lastGood[l]
    BY <1>1, <2>1 DEF CanRestore, IInv, TypeOK
  <2>3. lastGood' = [lastGood EXCEPT ![l] = g]
    BY <1>1, <2>1, <2>2 DEF IInv, TypeOK
  <2>4. proxies' \subseteq Service
    BY <1>4, <2>1, <2>2 DEF Restore, IInv, TypeOK
  <2> QED
    BY <1>1, <1>4, <2>1, <2>2, <2>3, <2>4, ServingKeepsEntries
    DEF Restore, IInv, TypeOK
<1>11. CASE ApplyRefused(c)
  BY <1>11 DEF ApplyRefused, vars, serverVars, IInv, TypeOK, RunningIsApplied,
     H3Exact, NoMixedConfig, SnapshotBuildable, Running
<1> QED
  BY <1>5, <1>6, <1>7, <1>8, <1>9, <1>10, <1>11 DEF ApplyListenerConfig

(* Only the phase of one running server changes. *)
LEMMA PhaseKeepsInvariant ==
  ASSUME IInv, NEW l \in Listener, Running(l),
         NEW ph \in {"bound", "serving", "closed"},
         servers' = [servers EXCEPT ![l].phase = ph],
         UNCHANGED <<h3servers, routes, listeners, proxies, lastGood, abandoned, foreign>>
  PROVE  IInv'
<1>1. servers[l] \in HTTPServer
  BY DEF IInv, TypeOK, Running
<1>2. [servers[l] EXCEPT !.phase = ph] \in HTTPServer
  BY <1>1 DEF HTTPServer
<1>3. servers' = [servers EXCEPT ![l] = [servers[l] EXCEPT !.phase = ph]]
  OBVIOUS
<1>4. \A k \in Listener : Running(k)' <=> Running(k)
  BY <1>2, <1>3, NoneAssumption DEF IInv, TypeOK, Running
<1>5. TypeOK'
  BY <1>2, <1>3 DEF IInv, TypeOK
<1>6. RunningIsApplied'
  BY <1>4 DEF IInv, RunningIsApplied
<1>7. H3Exact'
  BY <1>4 DEF IInv, H3Exact
<1> QED
  BY <1>5, <1>6, <1>7 DEF IInv, NoMixedConfig, SnapshotBuildable

-----------------------------------------------------------------------------
(* The invariant is inductive. *)
LEMMA StepKeepsInvariant == IInv /\ [Next]_vars => IInv'
<1> SUFFICES ASSUME IInv, [Next]_vars
             PROVE  IInv'
  OBVIOUS
<1>1. ASSUME NEW c \in Configs, ApplyListenerConfig(c)
      PROVE  IInv'
  BY <1>1, ApplyKeepsInvariant
<1>2. ASSUME NEW l \in Listener, StopListener(l)
      PROVE  IInv'
  <2>1. LeftBehind(l) \subseteq Port
    BY <1>2, LeftBehindType DEF IInv
  <2>2. /\ servers' = [k \in Listener |-> IF k \in {l} THEN None ELSE servers[k]]
        /\ h3servers' = [k \in Listener |-> IF k \in {l} THEN None ELSE h3servers[k]]
        /\ routes' = [k \in Listener |-> IF k \in {l} THEN {} ELSE routes[k]]
        /\ listeners' = [k \in Listener |-> IF k \in {l} THEN None ELSE listeners[k]]
        /\ lastGood' = [k \in Listener |-> IF k \in {l} THEN None ELSE lastGood[k]]
    BY <1>2 DEF StopListener, IInv, TypeOK
  <2>3. proxies' \subseteq Service /\ abandoned' \subseteq Port /\ foreign' \subseteq Port
    BY <1>2, <2>1 DEF StopListener, IInv, TypeOK
  <2> QED
    BY <1>2, <2>2, <2>3, StoppingKeepsEntries
<1>3. ASSUME NEW l \in Listener, StopListenerFails(l)
      PROVE  IInv'
  BY <1>3, PhaseKeepsInvariant DEF StopListenerFails
<1>4. ASSUME NEW l \in Listener, Serve(l)
      PROVE  IInv'
  BY <1>4, PhaseKeepsInvariant DEF Serve
<1>5. CASE Stop
  <2>1. \A l \in Listener : LeftBehind(l) \subseteq Port
    BY LeftBehindType DEF IInv
  <2>2. /\ servers' = [k \in Listener |-> IF k \in Listener THEN None ELSE servers[k]]
        /\ h3servers' = [k \in Listener |-> IF k \in Listener THEN None ELSE h3servers[k]]
        /\ routes' = [k \in Listener |-> IF k \in Listener THEN {} ELSE routes[k]]
        /\ listeners' = [k \in Listener |-> IF k \in Listener THEN None ELSE listeners[k]]
        /\ lastGood' = [k \in Listener |-> IF k \in Listener THEN None ELSE lastGood[k]]
    BY <1>5 DEF Stop
  <2>3. proxies' \subseteq Service /\ abandoned' \subseteq Port /\ foreign' \subseteq Port
    BY <1>5, <2>1 DEF Stop, IInv, TypeOK
  <2> QED
    BY <2>2, <2>3, StoppingKeepsEntries
<1>6. CASE Environment
  <2>1. /\ UNCHANGED serverVars
        /\ abandoned' \subseteq Port
        /\ foreign' \subseteq Port
    BY <1>6 DEF Environment, ServeAbandoned, ForeignBind, ForeignRelease, IInv, TypeOK
  <2> QED
    BY <2>1 DEF serverVars, IInv, TypeOK, RunningIsApplied, H3Exact, NoMixedConfig,
       SnapshotBuildable, Running
<1>7. CASE UNCHANGED vars
  BY <1>7 DEF vars, serverVars, IInv, TypeOK, RunningIsApplied, H3Exact, NoMixedConfig,
     SnapshotBuildable, Running
<1> QED
  BY <1>1, <1>2, <1>3, <1>4, <1>5, <1>6, <1>7 DEF Next

(* Every reachable state satisfies the invariant. *)
LEMMA InvariantHolds == Spec => []IInv
BY TypeInit, StepKeepsInvariant, PTL DEF Spec

(* The maps of Server keep their types. *)
THEOREM TypeCorrect == Spec => []TypeOK
BY InvariantHolds, PTL DEF IInv

(* A server that accepts requests has its listener entry and its snapshot. *)
THEOREM RunningListenersAreApplied == Spec => []RunningIsApplied
BY InvariantHolds, PTL DEF IInv

(* HTTP/3 runs, and is advertised, exactly where an applied configuration  *)
(* of a running listener asks for it.                                      *)
THEOREM HTTP3IsExact == Spec => []H3Exact
BY InvariantHolds, PTL DEF IInv

(* Requests are matched against one submitted configuration as a whole.    *)
THEOREM ConfigurationsAreNotMixed == Spec => []NoMixedConfig
BY InvariantHolds, PTL DEF IInv

(* What a rollback would bring back can be built. *)
THEOREM SnapshotsCanBeBuilt == Spec => []SnapshotBuildable
BY InvariantHolds, PTL DEF IInv

-----------------------------------------------------------------------------
(* An apply that takes a running listener's server away does so only when  *)
(* neither the new port nor the snapshot's can be bound.                   *)
THEOREM OutagesNeedTakenPorts == Spec => OutageOnlyWhenPortsTaken
<1> DEFINE A == \A l \in Listener :
                  (Running(l) /\ servers'[l] = None /\ listeners'[l] # None) =>
                    /\ listeners'[l].port \in Taken(l)
                    /\ lastGood[l].listener.port \in Taken(l)
<1>1. IInv /\ [Next]_vars => [A]_vars
  <2> SUFFICES ASSUME IInv, Next, NEW l \in Listener,
                      Running(l), servers'[l] = None, listeners'[l] # None
               PROVE  /\ listeners'[l].port \in Taken(l)
                      /\ lastGood[l].listener.port \in Taken(l)
    BY SMTT(30)
  <2>1. ASSUME NEW c \in Configs, ApplyListenerConfig(c)
        PROVE  RestartTCPLost(c) /\ c.listener.id = l
    <3>1. servers'[c.listener.id] = None \/ servers' = servers
             \/ \E d \in Configs : servers' = [servers EXCEPT ![c.listener.id] = NewServer(d)]
      BY <2>1, WantedH3Type DEF ApplyListenerConfig, HotReload, RestartTCP,
         RestartTCPRolledBack, RestartTCPLost, StartNew, StartRolledBack, ApplyRefused,
         CanRestore, Restore, vars, serverVars, IInv, TypeOK
    <3> QED
      BY <2>1, <3>1, WantedH3Type, SMTT(30) DEF ApplyListenerConfig, HotReload, RestartTCP,
         RestartTCPRolledBack, RestartTCPLost, StartNew, StartRolledBack, ApplyRefused,
         CanRestore, Restore, vars, serverVars, Running, IInv, TypeOK
  <2>2. ASSUME NEW c \in Configs, RestartTCPLost(c), c.listener.id = l
        PROVE  /\ listeners'[l].port \in Taken(l)
               /\ lastGood[l].listener.port \in Taken(l)
    BY <2>2 DEF RestartTCPLost, Record, CanRestore, IInv, TypeOK, RunningIsApplied,
       SnapshotBuildable
  <2>3. ASSUME NEW k \in Listener, StopListener(k)
        PROVE  FALSE
    BY <2>3 DEF StopListener, Running, IInv, TypeOK
  <2>4. ASSUME NEW k \in Listener, StopListenerFails(k) \/ Serve(k)
        PROVE  FALSE
    <3>1. servers[k] \in HTTPServer
      BY <2>4 DEF StopListenerFails, Serve, Running, IInv, TypeOK
    <3>2. /\ [servers[k] EXCEPT !.phase = "closed"] \in HTTPServer
          /\ [servers[k] EXCEPT !.phase = "serving"] \in HTTPServer
      BY <3>1 DEF HTTPServer
    <3> QED
      BY <2>4, <3>2, NoneAssumption DEF StopListenerFails, Serve, Running, IInv, TypeOK
  <2>5. CASE Stop
    BY <2>5 DEF Stop
  <2>6. CASE Environment
    BY <2>6 DEF Environment, ServeAbandoned, ForeignBind, ForeignRelease, serverVars, Running
  <2> QED
    BY <2>1, <2>2, <2>3, <2>4, <2>5, <2>6 DEF Next
<1> QED
  BY <1>1, InvariantHolds, PTL DEF Spec, OutageOnlyWhenPortsTaken
=============================================================================
