------------------------- MODULE RequestPathProofs -------------------------
(***************************************************************************)
(* Theorems about RequestPath, for every number of listeners, requests,    *)
(* administrators and versions.                                            *)
(***************************************************************************)
EXTENDS RequestPath, FiniteSetTheorems, TLAPS

Peer == {"client", "backend"}

(* What a request may be doing; those before the route are unanswered.     *)
Unanswered == {"queued", "reset", "sniffed", "handler", "core"}
Working == Unanswered \cup {"route", "login", "leaving"} \cup Handled

Connection ==
  [pc : Working, listener : Listener, server : Version,
   answer : SUBSET (Version \cup {None}), running : SUBSET Peer, gone : SUBSET Peer]

Applying == [pc : {"apply", "restart"}, listener : Listener, version : Version, http2 : BOOLEAN]
Stopping == [pc : {"stop"}, listener : Listener]
RollingBack == [pc : {"rollback"}, listener : Listener, version : Version, back : Version]
LastGood == [version : Version, http2 : BOOLEAN]

(* Every variable keeps its type. *)
PathTypeOK ==
  /\ table \in [Listener -> Version \cup {None}]
  /\ server \in [Listener -> Version \cup {None}]
  /\ lastGood \in [Listener -> LastGood \cup {None}]
  /\ open \in SUBSET (Listener \X Version)
  /\ serving \in SUBSET open
  /\ writer \in Admin \cup {None}
  /\ admin \in [Admin -> {Ready} \cup Applying \cup Stopping \cup RollingBack]
  /\ latest \in Version
  /\ request \in [Request -> {Absent} \cup Connection]
  /\ window \in [Request -> SUBSET (Version \cup {None})]
  /\ active \in [Listener -> Nat]
  /\ aborted \in [Listener -> Nat]

(* An administrator who waits in Shutdown, or tries a port again, holds    *)
(* the lock; nobody else does.                                             *)
Down == {"restart", "stop", "rollback"}
Locked ==
  /\ \A a \in Admin : admin[a].pc \in Down => writer = a
  /\ writer # None => admin[writer].pc \in Down

TakenDown(l) == \E a \in Admin : admin[a].pc \in Down /\ admin[a].listener = l

(* Whoever serves, serves for the server in the table, which is not on its *)
(* way down; and such a server has its socket.                             *)
SocketsFollowTable ==
  /\ \A s \in serving : server[s[1]] = s[2] /\ ~TakenDown(s[1])
  /\ \A l \in Listener : server[l] # None /\ ~TakenDown(l) => <<l, server[l]>> \in open

(* What a rollback needs: a running server, and a listener that lost its   *)
(* server to a rollback, have a last good entry.                           *)
ServersAreRestorable ==
  /\ \A l \in Listener : server[l] # None => lastGood[l] \in LastGood
  /\ \A a \in Admin :
       /\ admin[a].pc = "restart" => server[admin[a].listener] # None
       /\ admin[a].pc = "rollback" => /\ server[admin[a].listener] = None
                                      /\ lastGood[admin[a].listener] \in LastGood

(* The version in force is in the window of every request of the listener, *)
(* and only requests that looked up their route have an answer.            *)
WindowsAreOpen ==
  \A r \in Request :
    /\ At(r, "absent") <=> window[r] = {}
    /\ ~At(r, "absent") => table[On(r)] \in window[r]
    /\ request[r].pc \in Unanswered => request[r].answer = {}

(* The inductive invariant.  OneSocket is not inductive: that nobody       *)
(* serves for a listener while its server is taken down is                 *)
(* SocketsFollowTable, and that nobody starts one meanwhile is Locked.     *)
IInv ==
  /\ PathTypeOK
  /\ Locked
  /\ SocketsFollowTable
  /\ ServersAreRestorable
  /\ WindowsAreOpen
  /\ ActiveIsAccounted
-----------------------------------------------------------------------------
(* The requests a service is working on, as ActiveIsAccounted counts them. *)
Busy(l) == {r \in Request : request[r].pc \in Handled /\ On(r) = l}

LEMMA BusyIsFinite ==
  ASSUME NEW l
  PROVE  IsFiniteSet(Busy(l)) /\ Cardinality(Busy(l)) \in Nat
BY RequestAssumption, FS_Subset, FS_CardinalityType DEF Busy

LEMMA AccountedIsBusy ==
  ActiveIsAccounted <=> \A l \in Listener : active[l] = aborted[l] + Cardinality(Busy(l))
BY DEF ActiveIsAccounted, Busy

LEMMA VersionsAreNumbers == Version \subseteq Nat /\ None \notin Version /\ 0 \in Version
BY RequestAssumption DEF Version

-----------------------------------------------------------------------------
(* The properties of the tables, the administrators and the windows.       *)
TablesInv == PathTypeOK /\ Locked /\ SocketsFollowTable /\ ServersAreRestorable /\ WindowsAreOpen

(* A request that moves on, its listener as before, disturbs nothing but   *)
(* the counts.                                                             *)
LEMMA RequestMoves ==
  ASSUME IInv, NEW r \in Request, request[r] \in Connection,
         NEW c \in Connection, c.listener = request[r].listener,
         c.pc \in Unanswered => c.answer = {},
         request' = [request EXCEPT ![r] = c],
         UNCHANGED <<serverVars, adminVars, window>>,
         active' \in [Listener -> Nat], aborted' \in [Listener -> Nat]
  PROVE  TablesInv'
<1>1. c.pc # "absent" /\ request[r].pc # "absent"
  BY DEF Connection, Working, Unanswered, Handled
<1>2. PathTypeOK'
  BY DEF IInv, PathTypeOK, serverVars, adminVars
<1>3. Locked' /\ SocketsFollowTable' /\ ServersAreRestorable'
  BY DEF IInv, Locked, SocketsFollowTable, ServersAreRestorable, serverVars, adminVars, Down, TakenDown
<1>4. WindowsAreOpen'
  BY <1>1 DEF IInv, PathTypeOK, WindowsAreOpen, At, On, serverVars
<1> QED
  BY <1>2, <1>3, <1>4 DEF TablesInv

(* One that stays at its service, or away from it, leaves the counts.      *)
LEMMA CountsStay ==
  ASSUME IInv, NEW r \in Request, NEW c,
         request' = [request EXCEPT ![r] = c],
         c.pc \in Handled <=> request[r].pc \in Handled,
         c.pc \in Handled => c.listener = request[r].listener,
         UNCHANGED countVars
  PROVE  ActiveIsAccounted'
<1>1. ASSUME NEW l \in Listener
      PROVE  Busy(l)' = Busy(l)
  BY DEF Busy, On, IInv, PathTypeOK
<1> QED
  BY <1>1, AccountedIsBusy DEF ActiveIsAccounted, Busy, IInv, countVars

(* A request that reaches its service is one more, one that leaves it one  *)
(* fewer, on its own listener.                                             *)
LEMMA BusyGrows ==
  ASSUME IInv, NEW r \in Request, NEW c,
         request[r].pc \notin Handled, c.pc \in Handled,
         request' = [request EXCEPT ![r] = c],
         NEW l \in Listener
  PROVE  Cardinality(Busy(l)') = Cardinality(Busy(l)) + (IF l = c.listener THEN 1 ELSE 0)
<1>1. Busy(l)' = IF l = c.listener THEN Busy(l) \cup {r} ELSE Busy(l)
  BY DEF Busy, On, IInv, PathTypeOK
<1>2. r \notin Busy(l)
  BY DEF Busy
<1>3. IsFiniteSet(Busy(l)) /\ Cardinality(Busy(l)) \in Nat
  BY BusyIsFinite
<1>4. Cardinality(Busy(l) \cup {r}) = Cardinality(Busy(l)) + 1
  BY <1>2, <1>3, FS_AddElement
<1> QED
  BY <1>1, <1>3, <1>4

LEMMA BusyShrinks ==
  ASSUME IInv, NEW r \in Request, NEW c,
         request[r].pc \in Handled, c.pc \notin Handled,
         request' = [request EXCEPT ![r] = c],
         NEW l \in Listener
  PROVE  /\ Cardinality(Busy(l)') = Cardinality(Busy(l)) - (IF l = On(r) THEN 1 ELSE 0)
         /\ l = On(r) => Cardinality(Busy(l)) > 0
<1>1. Busy(l)' = IF l = On(r) THEN Busy(l) \ {r} ELSE Busy(l)
  BY DEF Busy, On, IInv, PathTypeOK
<1>2. r \in Busy(l) <=> l = On(r)
  BY DEF Busy
<1>3. l = On(r) => Cardinality(Busy(l) \ {r}) = Cardinality(Busy(l)) - 1
  BY <1>2, BusyIsFinite, FS_RemoveElement
<1>4. /\ Cardinality(Busy(l)) \in Nat
      /\ IsFiniteSet(Busy(l) \ {r})
      /\ Cardinality(Busy(l) \ {r}) \in Nat
  BY BusyIsFinite, FS_Subset, FS_CardinalityType
<1> QED
  BY <1>1, <1>3, <1>4

-----------------------------------------------------------------------------
(* The steps of a request *)

LEMMA ConnectKeeps ==
  ASSUME IInv, NEW r \in Request, Connect(r)
  PROVE  IInv'
<1>1. PICK s \in open :
        /\ request' = [request EXCEPT ![r] = [pc |-> "queued", listener |-> s[1],
                                              server |-> s[2], answer |-> {},
                                              running |-> {}, gone |-> {}]]
        /\ window' = [window EXCEPT ![r] = {table[s[1]]}]
  BY DEF Connect
<1> DEFINE c == [pc |-> "queued", listener |-> s[1], server |-> s[2],
                 answer |-> {}, running |-> {}, gone |-> {}]
<1>2. UNCHANGED <<serverVars, adminVars, countVars>>
  BY DEF Connect
<1>3. /\ s[1] \in Listener /\ s[2] \in Version
      /\ table[s[1]] \in Version \cup {None}
  BY <1>1 DEF IInv, PathTypeOK
<1>4. c \in Connection
  BY <1>3 DEF Connection, Working, Unanswered
<1>5. PathTypeOK'
  BY <1>1, <1>2, <1>3, <1>4 DEF IInv, PathTypeOK, serverVars, adminVars, countVars
<1>6. Locked' /\ SocketsFollowTable' /\ ServersAreRestorable'
  BY <1>2 DEF IInv, Locked, SocketsFollowTable, ServersAreRestorable, serverVars, adminVars, Down, TakenDown
<1>7. WindowsAreOpen'
  BY <1>1, <1>2, <1>3 DEF IInv, PathTypeOK, WindowsAreOpen, At, On, serverVars
<1>8. ActiveIsAccounted'
  <2>1. c.pc \notin Handled /\ request[r].pc \notin Handled
    BY DEF Handled, Connect, At
  <2> QED
    BY <1>1, <1>2, <2>1, CountsStay
<1> QED
  BY <1>5, <1>6, <1>7, <1>8 DEF IInv

(* What the steps between the socket and the end of a request have in      *)
(* common: they start from a connection.                                   *)
LEMMA AtConnection ==
  ASSUME IInv, NEW r \in Request, request[r].pc # "absent"
  PROVE  request[r] \in Connection
BY DEF IInv, PathTypeOK, Absent

(* A request proceeds and the counts stay. *)
LEMMA ProceedKeeps ==
  ASSUME IInv, NEW r \in Request, request[r].pc # "absent",
         NEW pc \in Working, Proceed(r, pc),
         pc \in Unanswered => request[r].pc \in Unanswered,
         pc \in Handled <=> request[r].pc \in Handled,
         UNCHANGED <<serverVars, adminVars, countVars, window>>
  PROVE  IInv'
<1> DEFINE c == [request[r] EXCEPT !.pc = pc]
<1>1. request[r] \in Connection
  BY AtConnection
<1>2. /\ c \in Connection
      /\ c.pc = pc
      /\ c.listener = request[r].listener
      /\ c.answer = request[r].answer
  BY <1>1 DEF Connection
<1>3. request' = [request EXCEPT ![r] = c]
  BY DEF Proceed
<1>4. c.pc \in Unanswered => c.answer = {}
  BY <1>2 DEF IInv, WindowsAreOpen
<1>5. TablesInv'
  BY <1>1, <1>2, <1>3, <1>4, RequestMoves DEF IInv, PathTypeOK, countVars
<1>6. ActiveIsAccounted'
  BY <1>2, <1>3, CountsStay
<1> QED
  BY <1>5, <1>6 DEF IInv, TablesInv

LEMMA AcceptsKeeps ==
  ASSUME IInv, NEW r \in Request, Accepts(r)
  PROVE  IInv'
<1>1. CASE Accept(r)
  BY <1>1, ProceedKeeps DEF Accept, At, Working, Unanswered, Handled
<1>2. CASE SniffTLS(r)
  BY <1>2, ProceedKeeps DEF SniffTLS, At, Working, Unanswered, Handled
<1>3. CASE SniffEnds(r)
  BY <1>3, ProceedKeeps DEF SniffEnds, At, Working, Unanswered, Handled
<1> QED
  BY <1>1, <1>2, <1>3 DEF Accepts

(* Lookup reads a version and the request is answered by it. *)
LEMMA LookupKeeps ==
  ASSUME IInv, NEW r \in Request, Lookup(r)
  PROVE  IInv'
<1>1. PICK pc \in {"leaving", "route"} :
        request' = [request EXCEPT ![r].pc = pc, ![r].answer = {table[On(r)]}]
  BY DEF Lookup
<1> DEFINE c == [request[r] EXCEPT !.pc = pc, !.answer = {table[On(r)]}]
<1>2. request[r].pc = "core" /\ request[r] \in Connection
  BY AtConnection DEF Lookup, At
<1>3. table[On(r)] \in Version \cup {None}
  BY <1>2 DEF IInv, PathTypeOK, On, Connection
<1>4. /\ c \in Connection
      /\ c.pc = pc
      /\ c.listener = request[r].listener
  BY <1>1, <1>2, <1>3 DEF Connection, Working
<1>5. request' = [request EXCEPT ![r] = c]
  BY <1>1, <1>2 DEF Connection, IInv, PathTypeOK
<1>6. /\ pc \notin Unanswered \cup Handled
      /\ request[r].pc \notin Handled
  BY <1>2 DEF Unanswered, Handled
<1>7. UNCHANGED <<serverVars, adminVars, countVars, window>>
  BY DEF Lookup
<1>8. TablesInv'
  BY <1>2, <1>4, <1>5, <1>6, <1>7, RequestMoves DEF IInv, PathTypeOK, countVars
<1>9. ActiveIsAccounted'
  BY <1>4, <1>5, <1>6, <1>7, CountsStay
<1> QED
  BY <1>8, <1>9 DEF IInv, TablesInv

(* BeginRequest, RecordRequest and a panic move the request and the counts *)
(* of its listener together.                                               *)
LEMMA CountingKeeps ==
  ASSUME IInv, NEW r \in Request,
         BeginRequest(r) \/ RecordRequest(r) \/ Abort(r)
  PROVE  IInv'
<1>1. /\ request[r].pc \in {"route", "record", "respond"}
      /\ request[r] \in Connection
  BY AtConnection DEF BeginRequest, RecordRequest, Abort, At
<1>2. On(r) \in Listener
  BY <1>1 DEF On, Connection
<1>3. PICK pc \in {"leaving"} \cup Handled : Proceed(r, pc)
  BY RequestAssumption DEF BeginRequest, RecordRequest, Abort, Handled
<1> DEFINE c == [request[r] EXCEPT !.pc = pc]
<1>4. /\ c \in Connection
      /\ c.pc = pc
      /\ c.listener = On(r)
      /\ c.pc \notin Unanswered
  BY <1>1, <1>3 DEF Connection, Working, On, Unanswered, Handled
<1>5. request' = [request EXCEPT ![r] = c]
  BY <1>3 DEF Proceed
<1>6. UNCHANGED <<serverVars, adminVars, window>>
  BY DEF BeginRequest, RecordRequest, Abort
<1>7. \A l \in Listener : /\ active[l] \in Nat /\ aborted[l] \in Nat
                          /\ Cardinality(Busy(l)) \in Nat
                          /\ active[l] = aborted[l] + Cardinality(Busy(l))
  BY BusyIsFinite, AccountedIsBusy DEF IInv, PathTypeOK
<1>8. /\ active' \in [Listener -> Nat] /\ aborted' \in [Listener -> Nat]
      /\ \A l \in Listener : active'[l] = aborted'[l] + Cardinality(Busy(l)')
  <2>1. CASE BeginRequest(r)
    <3>1. request[r].pc \notin Handled
      BY <2>1 DEF BeginRequest, At, Handled
    <3>2. pc \in Handled
      BY <2>1, <1>3, <1>5, <1>1, RequestAssumption DEF BeginRequest, Proceed, Handled, IInv, PathTypeOK, Connection
    <3>3. \A l \in Listener :
            Cardinality(Busy(l)') = Cardinality(Busy(l)) + (IF l = On(r) THEN 1 ELSE 0)
      BY <1>4, <1>5, <3>1, <3>2, BusyGrows
    <3>4. /\ active' = [active EXCEPT ![On(r)] = @ + 1]
          /\ aborted' = aborted
      BY <2>1 DEF BeginRequest
    <3> QED
      BY <1>2, <1>7, <3>3, <3>4 DEF IInv, PathTypeOK
  <2>2. CASE RecordRequest(r) \/ Abort(r)
    <3>1. request[r].pc \in Handled
      BY <2>2 DEF RecordRequest, Abort, At, Handled
    <3>2. pc \notin Handled
      BY <2>2, <1>3, <1>5, <1>1 DEF RecordRequest, Abort, Proceed, Handled, IInv, PathTypeOK, Connection
    <3>3. \A l \in Listener :
            /\ Cardinality(Busy(l)') = Cardinality(Busy(l)) - (IF l = On(r) THEN 1 ELSE 0)
            /\ l = On(r) => Cardinality(Busy(l)) > 0
      BY <1>5, <1>4, <3>1, <3>2, BusyShrinks
    <3>4. CASE RecordRequest(r)
      <4>1. /\ active' = [active EXCEPT ![On(r)] = IF @ = 0 THEN 0 ELSE @ - 1]
            /\ aborted' = aborted
        BY <3>4 DEF RecordRequest
      <4> QED
        BY <1>2, <1>7, <3>3, <4>1 DEF IInv, PathTypeOK
    <3>5. CASE Abort(r)
      <4>1. /\ aborted' = [aborted EXCEPT ![On(r)] = @ + 1]
            /\ active' = active
        BY <3>5 DEF Abort
      <4>2. active \in [Listener -> Nat] /\ aborted \in [Listener -> Nat]
        BY DEF IInv, PathTypeOK
      <4>3. \A l \in Listener : aborted'[l] = aborted[l] + (IF l = On(r) THEN 1 ELSE 0)
        BY <1>2, <4>1, <4>2
      <4>4. aborted' \in [Listener -> Nat]
        BY <1>2, <4>1, <4>2
      <4> QED
        BY <1>7, <3>3, <4>1, <4>2, <4>3, <4>4
    <3> QED
      BY <2>2, <3>4, <3>5
  <2> QED
    BY <2>1, <2>2
<1>9. TablesInv'
  BY <1>1, <1>4, <1>5, <1>6, <1>8, RequestMoves DEF On
<1>10. ActiveIsAccounted'
  BY <1>8 DEF ActiveIsAccounted, Busy
<1> QED
  BY <1>9, <1>10 DEF IInv, TablesInv

LEMMA DisconnectKeeps ==
  ASSUME IInv, NEW r \in Request, Disconnect(r)
  PROVE  IInv'
<1>1. /\ request[r].pc \in {"leaving", "reset"}
      /\ request' = [request EXCEPT ![r] = Absent]
      /\ window' = [window EXCEPT ![r] = {}]
      /\ UNCHANGED <<serverVars, adminVars, countVars>>
  BY DEF Disconnect, At
<1>2. PathTypeOK'
  BY <1>1 DEF IInv, PathTypeOK, serverVars, adminVars, countVars
<1>3. Locked' /\ SocketsFollowTable' /\ ServersAreRestorable'
  BY <1>1 DEF IInv, Locked, SocketsFollowTable, ServersAreRestorable, serverVars, adminVars, Down, TakenDown
<1>4. WindowsAreOpen'
  BY <1>1 DEF IInv, PathTypeOK, WindowsAreOpen, At, On, serverVars, Absent, Unanswered
<1>5. ActiveIsAccounted'
  <2>1. request[r].pc \notin Handled /\ Absent.pc \notin Handled
    BY <1>1 DEF Handled, Absent
  <2> QED
    BY <1>1, <2>1, CountsStay
<1> QED
  BY <1>2, <1>3, <1>4, <1>5 DEF IInv

(* The steps of a tunnel change who is running and who has gone. *)
LEMMA TunnelKeeps ==
  ASSUME IInv, NEW r \in Request, request[r] \in Connection, request[r].pc \in Handled,
         NEW c \in Connection, c.pc \in Handled, c.listener = request[r].listener,
         request' = [request EXCEPT ![r] = c],
         UNCHANGED <<serverVars, adminVars, countVars, window>>
  PROVE  IInv'
<1>1. c.pc \notin Unanswered
  BY DEF Handled, Unanswered
<1>2. TablesInv'
  BY <1>1, RequestMoves DEF IInv, PathTypeOK, countVars
<1>3. ActiveIsAccounted'
  BY CountsStay
<1> QED
  BY <1>2, <1>3 DEF IInv, TablesInv

LEMMA UpgradeKeeps ==
  ASSUME IInv, NEW r \in Request, Upgrade(r)
  PROVE  IInv'
<1> DEFINE c == [request[r] EXCEPT !.pc = "copying", !.running = Peer]
<1>1. request[r].pc = "websocket" /\ request[r] \in Connection
  BY AtConnection DEF Upgrade, At
<1>2. /\ c \in Connection
      /\ c.pc = "copying"
      /\ c.listener = request[r].listener
  BY <1>1 DEF Connection, Working, Handled, Peer
<1>3. request' = [request EXCEPT ![r] = c]
  BY <1>1 DEF Upgrade, Connection, Peer, IInv, PathTypeOK
<1> QED
  BY <1>1, <1>2, <1>3, TunnelKeeps DEF Upgrade, Handled

LEMMA CopyingKeeps ==
  ASSUME IInv, NEW r \in Request, NEW peer \in Peer,
         PeerLeaves(r, peer) \/ ReadFails(r, peer) \/ WriteFails(r, peer)
  PROVE  IInv'
<1>1. request[r].pc = "copying" /\ request[r] \in Connection
  BY AtConnection DEF PeerLeaves, ReadFails, WriteFails, At
<1>2. Opposite(peer) \in Peer
  BY DEF Opposite, Peer
<1>3. PICK running \in SUBSET Peer, gone \in SUBSET Peer :
        request' = [request EXCEPT ![r] = [@ EXCEPT !.running = running, !.gone = gone]]
  <2>1. CASE PeerLeaves(r, peer)
    <3>1. request' = [request EXCEPT ![r] = [@ EXCEPT !.running = request[r].running,
                                                       !.gone = request[r].gone \cup {peer}]]
      BY <2>1, <1>1 DEF PeerLeaves, Connection, IInv, PathTypeOK
    <3> QED
      BY <3>1, <1>1 DEF Connection
  <2>2. CASE ReadFails(r, peer)
    <3>1. \E gone \in {request[r].gone, request[r].gone \cup {Opposite(peer)}} :
            request' = [request EXCEPT ![r] = [@ EXCEPT !.running = request[r].running \ {peer},
                                                         !.gone = gone]]
      BY <2>2, <1>1 DEF ReadFails, Connection, IInv, PathTypeOK
    <3> QED
      BY <3>1, <1>1, <1>2 DEF Connection
  <2>3. CASE WriteFails(r, peer)
    <3>1. request' = [request EXCEPT ![r] = [@ EXCEPT !.running = request[r].running \ {peer},
                                                       !.gone = request[r].gone]]
      BY <2>3, <1>1 DEF WriteFails, Connection, IInv, PathTypeOK
    <3> QED
      BY <3>1, <1>1 DEF Connection
  <2> QED
    BY <2>1, <2>2, <2>3
<1> DEFINE c == [request[r] EXCEPT !.running = running, !.gone = gone]
<1>4. /\ c \in Connection
      /\ c.pc = "copying"
      /\ c.listener = request[r].listener
  BY <1>1, <1>3 DEF Connection
<1>5. UNCHANGED <<serverVars, adminVars, countVars, window>>
  BY DEF PeerLeaves, ReadFails, WriteFails
<1>6. request' = [request EXCEPT ![r] = c]
  BY <1>3
<1> QED
  BY <1>1, <1>4, <1>5, <1>6, TunnelKeeps DEF Handled

LEMMA HandlesKeeps ==
  ASSUME IInv, NEW r \in Request, Handles(r) \/ BothEnded(r)
  PROVE  IInv'
<1>1. CASE FirewallMiddleware(r)
  BY <1>1, ProceedKeeps DEF FirewallMiddleware, At, Working, Unanswered, Handled
<1>2. CASE EndsUnserved(r)
  BY <1>2, ProceedKeeps DEF EndsUnserved, At, Working, Unanswered, Handled
<1>3. CASE Serve(r)
  BY <1>3, ProceedKeeps DEF Serve, At, Working, Unanswered, Handled
<1>4. CASE UpgradeFails(r)
  BY <1>4, ProceedKeeps DEF UpgradeFails, At, Working, Unanswered, Handled
<1>5. CASE BothEnded(r)
  BY <1>5, ProceedKeeps DEF BothEnded, At, Working, Unanswered, Handled
<1>6. CASE DecryptSecurePayload(r)
  BY <1>6, ProceedKeeps DEF DecryptSecurePayload, At, Working, Unanswered, Handled
<1> QED
  BY <1>1, <1>2, <1>3, <1>4, <1>5, <1>6, LookupKeeps, CountingKeeps, UpgradeKeeps, DisconnectKeeps
     DEF Handles

-----------------------------------------------------------------------------
(* The steps of the administrator *)

(* A version that is installed enters the windows of its listener. *)
LEMMA InstalledKeeps ==
  ASSUME IInv, NEW l \in Listener, NEW v \in Version \cup {None},
         Installed(l, v), UNCHANGED <<request, countVars>>
  PROVE  /\ table' \in [Listener -> Version \cup {None}]
         /\ window' \in [Request -> SUBSET (Version \cup {None})]
         /\ WindowsAreOpen'
         /\ ActiveIsAccounted'
<1>1. /\ table' \in [Listener -> Version \cup {None}]
      /\ window' \in [Request -> SUBSET (Version \cup {None})]
  BY DEF Installed, IInv, PathTypeOK
<1>2. WindowsAreOpen'
  <2> SUFFICES ASSUME NEW r \in Request
               PROVE  /\ At(r, "absent") <=> window'[r] = {}
                      /\ ~At(r, "absent") => table'[On(r)] \in window'[r]
                      /\ request[r].pc \in Unanswered => request[r].answer = {}
    BY DEF WindowsAreOpen, At, On
  <2>1. /\ At(r, "absent") <=> window[r] = {}
        /\ ~At(r, "absent") => table[On(r)] \in window[r]
        /\ request[r].pc \in Unanswered => request[r].answer = {}
    BY DEF IInv, WindowsAreOpen
  <2>2. ~At(r, "absent") => On(r) \in Listener
    BY AtConnection DEF At, On, Connection
  <2> QED
    BY <2>1, <2>2 DEF Installed, At, IInv, PathTypeOK
<1>3. ActiveIsAccounted'
  BY DEF IInv, ActiveIsAccounted, On, countVars
<1> QED
  BY <1>1, <1>2, <1>3

(* Connections that are cut off in the queue of their socket are reset.    *)
LEMMA ClosedKeeps ==
  ASSUME IInv, NEW sockets, Closed(sockets), UNCHANGED <<table, window, countVars>>
  PROVE  /\ request' \in [Request -> {Absent} \cup Connection]
         /\ open' \in SUBSET (Listener \X Version)
         /\ serving' \in SUBSET open'
         /\ WindowsAreOpen'
         /\ ActiveIsAccounted'
<1>1. ASSUME NEW r \in Request
      PROVE  /\ request'[r] \in {Absent} \cup Connection
             /\ \/ request'[r] = request[r]
                \/ /\ request[r].pc = "queued" /\ request'[r].pc = "reset"
                   /\ request'[r].listener = request[r].listener
                   /\ request'[r].answer = request[r].answer
  <2>1. request[r].pc = "queued" => request[r] \in Connection
    BY AtConnection
  <2>2. CASE At(r, "queued") /\ Socket(r) \in sockets
    <3>1. request'[r] = [request[r] EXCEPT !.pc = "reset"]
      BY <2>2 DEF Closed
    <3> QED
      BY <2>1, <2>2, <3>1 DEF At, Connection, Working, Unanswered
  <2>3. CASE ~(At(r, "queued") /\ Socket(r) \in sockets)
    <3>1. request'[r] = request[r]
      BY <2>3 DEF Closed
    <3> QED
      BY <3>1 DEF IInv, PathTypeOK
  <2> QED
    BY <2>2, <2>3
<1>2. request' \in [Request -> {Absent} \cup Connection]
  BY <1>1 DEF Closed
<1>3. open' \in SUBSET (Listener \X Version) /\ serving' \in SUBSET open'
  BY DEF Closed, IInv, PathTypeOK
<1>4. WindowsAreOpen'
  BY <1>1 DEF WindowsAreOpen, At, On, Unanswered, IInv
<1>5. ASSUME NEW k \in Listener
      PROVE  Busy(k)' = Busy(k)
  BY <1>1 DEF Busy, On, Handled
<1>6. ActiveIsAccounted'
  BY <1>5 DEF ActiveIsAccounted, Busy, IInv, countVars
<1> QED
  BY <1>2, <1>3, <1>4, <1>6

(* A goroutine of serveListener that comes in time serves for the server   *)
(* in the table; one that is late closes a socket nobody needs.            *)
LEMMA ServesKeeps ==
  ASSUME IInv, NEW s \in open, Serves(s)
  PROVE  IInv'
<1>1. s = <<s[1], s[2]>> /\ s[1] \in Listener /\ s[2] \in Version
  BY DEF IInv, PathTypeOK
<1>2. TakenDown(s[1]) <=> writer # None /\ admin[writer].listener = s[1]
  BY RequestAssumption DEF IInv, PathTypeOK, Locked, TakenDown
<1>3. CASE ServeListener(s)
  <2>1. /\ ~ShutDown(s)
        /\ serving' = serving \cup {s}
        /\ UNCHANGED <<table, server, lastGood, open, adminVars, countVars, request, window>>
    BY <1>3 DEF ServeListener
  <2>2. PathTypeOK'
    BY <2>1 DEF IInv, PathTypeOK, adminVars, countVars
  <2>3. Locked' /\ ServersAreRestorable'
    BY <2>1 DEF IInv, Locked, ServersAreRestorable, adminVars
  <2>4. SocketsFollowTable'
    BY <1>2, <2>1 DEF IInv, SocketsFollowTable, TakenDown, ShutDown, adminVars
  <2>5. WindowsAreOpen' /\ ActiveIsAccounted'
    BY <2>1 DEF IInv, WindowsAreOpen, ActiveIsAccounted, At, On, countVars
  <2> QED
    BY <2>2, <2>3, <2>4, <2>5 DEF IInv
<1>4. CASE ServeAbandoned(s)
  <2>1. /\ ShutDown(s)
        /\ Closed({s})
        /\ UNCHANGED <<table, server, lastGood, adminVars, countVars, window>>
    BY <1>4 DEF ServeAbandoned
  <2>2. /\ request' \in [Request -> {Absent} \cup Connection]
        /\ open' \in SUBSET (Listener \X Version)
        /\ serving' \in SUBSET open'
        /\ WindowsAreOpen'
        /\ ActiveIsAccounted'
    BY <2>1, ClosedKeeps
  <2>3. PathTypeOK'
    BY <2>1, <2>2 DEF IInv, PathTypeOK, adminVars, countVars
  <2>4. Locked' /\ ServersAreRestorable'
    BY <2>1 DEF IInv, Locked, ServersAreRestorable, adminVars
  <2>5. open' = open \ {s} /\ serving' = serving \ {s}
    BY <2>1 DEF Closed
  <2>6. \A l \in Listener : server[l] # None /\ ~TakenDown(l) => <<l, server[l]>> # s
    BY <1>1, <1>2, <2>1 DEF ShutDown
  <2>7. \A l \in Listener : TakenDown(l)' <=> TakenDown(l)
    BY <2>1 DEF TakenDown, adminVars
  <2>8. \A t \in serving' : server'[t[1]] = t[2] /\ ~TakenDown(t[1])'
    BY <2>1, <2>5 DEF TakenDown, adminVars, IInv, SocketsFollowTable
  <2>9. SocketsFollowTable'
    BY <2>1, <2>5, <2>6, <2>7, <2>8 DEF IInv, SocketsFollowTable
  <2> QED
    BY <2>2, <2>3, <2>4, <2>9 DEF IInv
<1> QED
  BY <1>3, <1>4 DEF Serves

(* What an administrator on the way is about. *)
LEMMA AdminOnListener ==
  ASSUME IInv, NEW a \in Admin, admin[a].pc # "ready"
  PROVE  /\ admin[a] \in Applying \cup Stopping \cup RollingBack
         /\ admin[a].listener \in Listener
         /\ admin[a].pc \in {"apply", "restart"} =>
              admin[a] \in Applying /\ admin[a].version \in Version
         /\ admin[a].pc = "rollback" => admin[a] \in RollingBack
BY DEF IInv, PathTypeOK, Ready, Applying, Stopping, RollingBack

(* The holder of the lock is alone.                                        *)
LEMMA AloneUnderLock ==
  ASSUME IInv, NEW a \in Admin, writer = None \/ admin[a].pc \in Down
  PROVE  \A b \in Admin : b # a => admin[b].pc \notin Down
BY RequestAssumption DEF IInv, Locked, PathTypeOK

LEMMA SubmitKeeps ==
  ASSUME IInv, NEW a \in Admin, Submit(a)
  PROVE  IInv'
<1>1. PICK l \in Listener, h2 \in BOOLEAN :
        admin' = [admin EXCEPT ![a] = [pc |-> "apply", listener |-> l, version |-> latest + 1,
                                       http2 |-> h2]]
  BY DEF Submit
<1>2. /\ latest' = latest + 1
      /\ latest' \in Version
      /\ UNCHANGED <<serverVars, writer, countVars, request, window>>
  BY RequestAssumption DEF Submit, Version, IInv, PathTypeOK
<1>3. [pc |-> "apply", listener |-> l, version |-> latest + 1, http2 |-> h2] \in Applying
  BY <1>2 DEF Applying
<1>4. PathTypeOK'
  BY <1>1, <1>2, <1>3 DEF IInv, PathTypeOK, serverVars, countVars
<1>5. \A b \in Admin : /\ admin'[b].pc \in Down <=> admin[b].pc \in Down
                       /\ admin'[b].pc \in Down => admin'[b] = admin[b]
  BY <1>1, AloneUnderLock DEF IInv, PathTypeOK, Submit, Ready, Down
<1>6. Locked' /\ SocketsFollowTable' /\ ServersAreRestorable'
  <2>2. SocketsFollowTable'
    BY <1>2, <1>5 DEF IInv, SocketsFollowTable, TakenDown, serverVars, Down
  <2>3. Locked'
    BY <1>2, <1>5 DEF IInv, Locked, PathTypeOK, Down
  <2>4. ServersAreRestorable'
    BY <1>2, <1>5 DEF IInv, ServersAreRestorable, serverVars, Down
  <2> QED
    BY <2>2, <2>3, <2>4
<1>7. WindowsAreOpen' /\ ActiveIsAccounted'
  BY <1>2 DEF IInv, WindowsAreOpen, ActiveIsAccounted, At, On, serverVars, countVars
<1> QED
  BY <1>4, <1>6, <1>7 DEF IInv

LEMMA ApplyHotKeeps ==
  ASSUME IInv, NEW a \in Admin, ApplyHot(a)
  PROVE  IInv'
<1> DEFINE l == admin[a].listener
           good == Good(admin[a].version, admin[a].http2)
<1>1. /\ admin[a] \in Applying
      /\ l \in Listener
      /\ admin[a].version \in Version
      /\ admin[a].pc = "apply"
  BY AdminOnListener DEF ApplyHot
<1>2. /\ Installed(l, admin[a].version)
      /\ lastGood' = [lastGood EXCEPT ![l] = good]
      /\ admin' = [admin EXCEPT ![a] = Ready]
      /\ UNCHANGED <<server, open, serving, writer, latest, countVars, request>>
  BY DEF ApplyHot
<1>3. good \in LastGood
  BY <1>1 DEF Good, LastGood, Applying
<1>4. /\ table' \in [Listener -> Version \cup {None}]
      /\ window' \in [Request -> SUBSET (Version \cup {None})]
      /\ WindowsAreOpen'
      /\ ActiveIsAccounted'
  BY <1>1, <1>2, InstalledKeeps
<1>5. PathTypeOK'
  BY <1>1, <1>2, <1>3, <1>4 DEF IInv, PathTypeOK, countVars
<1>6. \A b \in Admin : admin[b].pc \notin Down /\ admin'[b].pc \notin Down
  BY <1>1, <1>2, AloneUnderLock DEF IInv, PathTypeOK, ApplyHot, Ready, Down
<1>7. Locked' /\ SocketsFollowTable'
  BY <1>2, <1>6 DEF ApplyHot, IInv, Locked, SocketsFollowTable, TakenDown
<1>8. ServersAreRestorable'
  BY <1>1, <1>2, <1>3, <1>6 DEF IInv, PathTypeOK, ServersAreRestorable, Down
<1> QED
  BY <1>4, <1>5, <1>7, <1>8 DEF IInv

(* A server starts for a listener that has none, and the lock is released. *)
LEMMA StartKeeps ==
  ASSUME IInv, NEW a \in Admin, NEW l \in Listener, NEW n \in Version, NEW v \in Version,
         Listens(l, n, v),
         admin[a].listener = l,
         server[l] = None \/ admin[a].pc \in Down,
         writer = None \/ admin[a].pc \in Down,
         lastGood' \in [Listener -> LastGood \cup {None}],
         lastGood'[l] \in LastGood,
         \A k \in Listener : k # l => lastGood'[k] = lastGood[k],
         writer' = None, admin' = [admin EXCEPT ![a] = Ready],
         UNCHANGED <<latest, countVars, request>>
  PROVE  IInv'
<1>1. /\ server' = [server EXCEPT ![l] = n]
      /\ open' = open \cup {<<l, n>>}
      /\ serving' = serving
  BY DEF Listens
<1>2. /\ table' \in [Listener -> Version \cup {None}]
      /\ window' \in [Request -> SUBSET (Version \cup {None})]
      /\ WindowsAreOpen'
      /\ ActiveIsAccounted'
  BY InstalledKeeps DEF Listens
<1>3. PathTypeOK'
  <2>1. server' \in [Listener -> Version \cup {None}]
    BY <1>1 DEF IInv, PathTypeOK
  <2>2. open' \in SUBSET (Listener \X Version) /\ serving' \in SUBSET open'
    BY <1>1 DEF IInv, PathTypeOK
  <2> QED
    BY <1>2, <2>1, <2>2 DEF IInv, PathTypeOK, countVars
<1>4. \A b \in Admin : /\ admin'[b].pc \notin Down
                       /\ b # a => admin[b].pc \notin Down
  BY AloneUnderLock DEF IInv, PathTypeOK, Ready, Down
<1>5. Locked'
  BY <1>4 DEF Locked, Down
<1>6. \A s \in serving : server[s[1]] = s[2] /\ s[1] # l
  BY VersionsAreNumbers DEF IInv, PathTypeOK, SocketsFollowTable, TakenDown
<1>7. \A k \in Listener : server'[k] # None => <<k, server'[k]>> \in open'
  <2> SUFFICES ASSUME NEW k \in Listener, server'[k] # None
               PROVE  <<k, server'[k]>> \in open'
    OBVIOUS
  <2>1. CASE k = l
    BY <1>1, <2>1 DEF IInv, PathTypeOK
  <2>2. CASE k # l
    <3>1. server'[k] = server[k]
      BY <1>1, <2>2 DEF IInv, PathTypeOK
    <3>2. ~TakenDown(k)
      BY <1>4, <2>2 DEF TakenDown, Down
    <3> QED
      BY <1>1, <3>1, <3>2 DEF IInv, SocketsFollowTable
  <2> QED
    BY <2>1, <2>2
<1>8. SocketsFollowTable'
  BY <1>1, <1>4, <1>6, <1>7 DEF SocketsFollowTable, TakenDown, IInv, PathTypeOK, Down
<1>9. ServersAreRestorable'
  BY <1>1, <1>4 DEF IInv, PathTypeOK, ServersAreRestorable, Down
<1> QED
  BY <1>2, <1>3, <1>5, <1>8, <1>9 DEF IInv

(* The port is tried again: the lock is taken, or kept.                    *)
LEMMA RetryKeeps ==
  ASSUME IInv, NEW a \in Admin, NEW l \in Listener,
         admin[a] \in Applying, admin[a].listener = l,
         writer = None \/ admin[a].pc \in Down,
         StartsRollBack(a), lastGood[l] \in LastGood,
         server' = [server EXCEPT ![l] = None],
         server[l] = None \/ admin[a].pc \in Down,
         lastGood' \in [Listener -> LastGood \cup {None}],
         lastGood'[l] \in LastGood,
         \A k \in Listener : k # l => lastGood'[k] = lastGood[k],
         table' \in [Listener -> Version \cup {None}],
         window' \in [Request -> SUBSET (Version \cup {None})],
         WindowsAreOpen',
         UNCHANGED <<open, serving, latest, countVars, request>>
  PROVE  IInv'
<1> DEFINE next == [pc |-> "rollback", listener |-> l, version |-> admin[a].version,
                    back |-> lastGood[l].version]
<1>1. writer' = a /\ admin' = [admin EXCEPT ![a] = next]
  BY DEF StartsRollBack
<1>2. next \in RollingBack
  BY DEF RollingBack, Applying, LastGood
<1>3. PathTypeOK'
  BY <1>1, <1>2 DEF IInv, PathTypeOK, countVars
<1>4. /\ admin'[a] = next
      /\ \A b \in Admin : b # a => admin'[b] = admin[b] /\ admin[b].pc \notin Down
  BY <1>1, AloneUnderLock DEF IInv, PathTypeOK
<1>5. Locked'
  BY <1>1, <1>4 DEF Locked, Down
<1>6. \A k \in Listener : TakenDown(k)' <=> k = l
  BY <1>4 DEF TakenDown, Down
<1>7. \A s \in serving : server[s[1]] = s[2] /\ s[1] # l
  BY VersionsAreNumbers DEF IInv, PathTypeOK, SocketsFollowTable, TakenDown
<1>8. \A s \in serving : ~TakenDown(s[1])' /\ server'[s[1]] = s[2]
  BY <1>6, <1>7 DEF IInv, PathTypeOK
<1>9. \A k \in Listener : k # l => server'[k] = server[k] /\ ~TakenDown(k)
  BY <1>4 DEF TakenDown, IInv, PathTypeOK
<1>10. SocketsFollowTable'
  BY <1>6, <1>8, <1>9 DEF SocketsFollowTable, IInv
<1>11. ServersAreRestorable'
  BY <1>4 DEF IInv, PathTypeOK, ServersAreRestorable, Down
<1>12. ActiveIsAccounted'
  BY DEF IInv, ActiveIsAccounted, On, countVars
<1> QED
  BY <1>3, <1>5, <1>10, <1>11, <1>12 DEF IInv

(* An application ends and no server runs. *)
LEMMA GivesUpKeeps ==
  ASSUME IInv, NEW a \in Admin,
         admin[a].pc \in Down => server[admin[a].listener] = None,
         writer = None \/ admin[a].pc \in Down,
         writer' = None, admin' = [admin EXCEPT ![a] = Ready],
         UNCHANGED <<serverVars, window, latest, countVars, request>>
  PROVE  IInv'
<1>1. PathTypeOK'
  BY DEF IInv, PathTypeOK, serverVars, countVars
<1>2. \A b \in Admin : /\ admin'[b].pc \notin Down
                       /\ b # a => admin[b].pc \notin Down
  BY AloneUnderLock DEF IInv, PathTypeOK, Ready, Down
<1>3. Locked'
  BY <1>2 DEF Locked, Down
<1>4. SocketsFollowTable'
  BY <1>2 DEF IInv, SocketsFollowTable, TakenDown, serverVars, Down
<1>5. ServersAreRestorable'
  BY <1>2 DEF IInv, ServersAreRestorable, serverVars, Down
<1>6. WindowsAreOpen' /\ ActiveIsAccounted'
  BY DEF IInv, WindowsAreOpen, ActiveIsAccounted, At, On, serverVars, countVars
<1> QED
  BY <1>1, <1>3, <1>4, <1>5, <1>6 DEF IInv

LEMMA ApplyNewKeeps ==
  ASSUME IInv, NEW a \in Admin, ApplyNew(a)
  PROVE  IInv'
<1> DEFINE l == admin[a].listener
           v == admin[a].version
<1>1. /\ admin[a] \in Applying
      /\ l \in Listener
      /\ v \in Version
      /\ admin[a].pc = "apply"
  BY AdminOnListener DEF ApplyNew
<1>2. /\ server[l] = None
      /\ writer = None
      /\ UNCHANGED <<latest, countVars, request>>
  BY DEF ApplyNew
<1>3. CASE /\ Listens(l, v, v)
           /\ lastGood' = [lastGood EXCEPT ![l] = Good(v, admin[a].http2)]
           /\ admin' = [admin EXCEPT ![a] = Ready]
           /\ UNCHANGED writer
  <2>1. Good(v, admin[a].http2) \in LastGood
    BY <1>1 DEF Good, LastGood, Applying
  <2>2. /\ lastGood' \in [Listener -> LastGood \cup {None}]
        /\ lastGood'[l] \in LastGood
        /\ \A k \in Listener : k # l => lastGood'[k] = lastGood[k]
    BY <1>1, <1>3, <2>1 DEF IInv, PathTypeOK
  <2> QED
    BY <1>1, <1>2, <1>3, <2>2, StartKeeps
<1>4. CASE StartsRollBack(a) /\ UNCHANGED <<serverVars, window>>
  <2>1. lastGood[l] \in LastGood
    BY <1>1, <1>4 DEF StartsRollBack, IInv, PathTypeOK
  <2>2. server' = [server EXCEPT ![l] = None]
    BY <1>1, <1>2, <1>4 DEF IInv, PathTypeOK, serverVars
  <2>3. WindowsAreOpen'
    BY <1>2, <1>4 DEF IInv, WindowsAreOpen, At, On, serverVars
  <2> QED
    BY <1>1, <1>2, <1>4, <2>1, <2>2, <2>3, RetryKeeps DEF serverVars, IInv, PathTypeOK
<1>5. CASE /\ lastGood[l] = None
           /\ admin' = [admin EXCEPT ![a] = Ready]
           /\ UNCHANGED <<serverVars, window, writer>>
  BY <1>1, <1>2, <1>5, GivesUpKeeps DEF Down
<1> QED
  BY <1>3, <1>4, <1>5 DEF ApplyNew

(* BeginRestart and BeginStop take the lock and close the socket. *)
LEMMA BeginKeeps ==
  ASSUME IInv, NEW a \in Admin, NEW l \in Listener,
         writer = None, Closes(a, l),
         NEW next \in Applying \cup Stopping,
         next.pc \in {"restart", "stop"}, next.listener = l,
         next.pc = "restart" => server[l] # None,
         admin' = [admin EXCEPT ![a] = next],
         UNCHANGED <<table, server, lastGood, latest, countVars, window>>
  PROVE  IInv'
<1> DEFINE closed == serving \cap {<<l, server[l]>>}
<1>1. /\ writer' = a
      /\ Closed(closed)
  BY DEF Closes
<1>2. /\ request' \in [Request -> {Absent} \cup Connection]
      /\ open' \in SUBSET (Listener \X Version)
      /\ serving' \in SUBSET open'
      /\ WindowsAreOpen'
      /\ ActiveIsAccounted'
  BY <1>1, ClosedKeeps
<1>3. open' = open \ closed /\ serving' = serving \ closed
  BY <1>1 DEF Closed
<1>4. \A b \in Admin : b # a => admin'[b] = admin[b] /\ admin[b].pc \notin Down
  BY AloneUnderLock DEF IInv, PathTypeOK
<1>5. admin'[a] = next
  BY DEF IInv, PathTypeOK
<1>6. PathTypeOK'
  BY <1>1, <1>2 DEF IInv, PathTypeOK, countVars
<1>7. Locked'
  BY <1>1, <1>4, <1>5 DEF Locked, Down
<1>8. \A k : TakenDown(k)' <=> k = l
  BY <1>4, <1>5 DEF TakenDown, Down
<1>9. \A s \in serving' : server'[s[1]] = s[2] /\ s[1] # l
  <2> SUFFICES ASSUME NEW s \in serving'
               PROVE  server'[s[1]] = s[2] /\ s[1] # l
    OBVIOUS
  <2>1. s \in serving /\ s # <<l, server[l]>>
    BY <1>3
  <2>2. server[s[1]] = s[2] /\ s = <<s[1], s[2]>>
    BY <2>1 DEF IInv, SocketsFollowTable, PathTypeOK
  <2> QED
    BY <2>1, <2>2
<1>10. ASSUME NEW k \in Listener, server[k] # None, k # l
       PROVE  <<k, server[k]>> \in open'
  <2>1. ~TakenDown(k)
    BY <1>4, RequestAssumption DEF TakenDown, IInv, Locked
  <2> QED
    BY <1>3, <1>10, <2>1 DEF IInv, SocketsFollowTable
<1>11. SocketsFollowTable'
  <2>1. \A s \in serving' : ~TakenDown(s[1])'
    BY <1>8, <1>9
  <2> QED
    BY <1>8, <1>9, <1>10, <2>1 DEF SocketsFollowTable
<1>12. ServersAreRestorable'
  BY <1>4, <1>5 DEF IInv, ServersAreRestorable, Down
<1> QED
  BY <1>2, <1>6, <1>7, <1>11, <1>12 DEF IInv

LEMMA BeginRestartKeeps ==
  ASSUME IInv, NEW a \in Admin, BeginRestart(a)
  PROVE  IInv'
<1> DEFINE l == admin[a].listener
           next == [admin[a] EXCEPT !.pc = "restart"]
<1>1. admin[a] \in Applying /\ l \in Listener
  BY AdminOnListener DEF BeginRestart
<1>2. /\ next \in Applying \cup Stopping
      /\ next.pc = "restart"
      /\ next.listener = l
  BY <1>1 DEF Applying
<1>3. server[l] # None
  BY DEF BeginRestart, NeedsRestart
<1>4. admin' = [admin EXCEPT ![a] = next]
  BY DEF BeginRestart
<1> QED
  BY <1>1, <1>2, <1>3, <1>4, BeginKeeps DEF BeginRestart

LEMMA BeginStopKeeps ==
  ASSUME IInv, NEW a \in Admin, BeginStop(a)
  PROVE  IInv'
<1>1. PICK l \in Listener :
        /\ Closes(a, l)
        /\ admin' = [admin EXCEPT ![a] = [pc |-> "stop", listener |-> l]]
  BY DEF BeginStop
<1>2. [pc |-> "stop", listener |-> l] \in Applying \cup Stopping
  BY DEF Stopping
<1> QED
  BY <1>1, <1>2, BeginKeeps DEF BeginStop

LEMMA FinishRestartKeeps ==
  ASSUME IInv, NEW a \in Admin, FinishRestart(a)
  PROVE  IInv'
<1> DEFINE l == admin[a].listener
           v == admin[a].version
           good == Good(v, admin[a].http2)
<1>1. /\ admin[a] \in Applying
      /\ l \in Listener
      /\ v \in Version
      /\ admin[a].pc = "restart" /\ admin[a].pc \in Down
  BY AdminOnListener DEF FinishRestart, Down
<1>2. /\ lastGood' = [lastGood EXCEPT ![l] = good]
      /\ UNCHANGED <<latest, countVars, request>>
  BY DEF FinishRestart
<1>3. good \in LastGood
  BY <1>1 DEF Good, LastGood, Applying
<1>4. /\ lastGood' \in [Listener -> LastGood \cup {None}]
      /\ lastGood'[l] \in LastGood
      /\ \A k \in Listener : k # l => lastGood'[k] = lastGood[k]
  BY <1>1, <1>2, <1>3 DEF IInv, PathTypeOK
<1>5. CASE /\ Listens(l, v, v)
           /\ writer' = None
           /\ admin' = [admin EXCEPT ![a] = Ready]
  BY <1>1, <1>2, <1>4, <1>5, StartKeeps
<1>6. CASE /\ server' = [server EXCEPT ![l] = None]
           /\ Installed(l, v)
           /\ StartsRollBack(a)
           /\ UNCHANGED <<open, serving>>
  <2>1. lastGood[l] \in LastGood
    BY <1>1 DEF IInv, ServersAreRestorable
  <2>2. /\ table' \in [Listener -> Version \cup {None}]
        /\ window' \in [Request -> SUBSET (Version \cup {None})]
        /\ WindowsAreOpen'
    BY <1>1, <1>2, <1>6, InstalledKeeps
  <2> QED
    BY <1>1, <1>2, <1>4, <1>6, <2>1, <2>2, RetryKeeps
<1> QED
  BY <1>5, <1>6 DEF FinishRestart

LEMMA RollBackKeeps ==
  ASSUME IInv, NEW a \in Admin, RollBack(a)
  PROVE  IInv'
<1> DEFINE l == admin[a].listener
<1>1. /\ admin[a].pc = "rollback" /\ admin[a].pc \in Down
      /\ l \in Listener
      /\ admin[a].version \in Version /\ admin[a].back \in Version
  BY AdminOnListener DEF RollBack, RollingBack, Down
<1>2. /\ writer' = None
      /\ admin' = [admin EXCEPT ![a] = Ready]
      /\ UNCHANGED <<latest, countVars, request>>
  BY DEF RollBack
<1>3. server[l] = None /\ lastGood[l] \in LastGood
  BY <1>1 DEF IInv, ServersAreRestorable
<1>4. CASE Listens(l, admin[a].version, admin[a].back) /\ UNCHANGED lastGood
  <2>1. /\ lastGood' \in [Listener -> LastGood \cup {None}]
        /\ lastGood'[l] \in LastGood
        /\ \A k \in Listener : k # l => lastGood'[k] = lastGood[k]
    BY <1>3, <1>4 DEF IInv, PathTypeOK
  <2> QED
    BY <1>1, <1>2, <1>3, <1>4, <2>1, StartKeeps
<1>5. CASE UNCHANGED <<serverVars, window>>
  BY <1>1, <1>2, <1>3, <1>5, GivesUpKeeps
<1> QED
  BY <1>4, <1>5 DEF RollBack

LEMMA FinishStopKeeps ==
  ASSUME IInv, NEW a \in Admin, FinishStop(a)
  PROVE  IInv'
<1> DEFINE l == admin[a].listener
<1>1. l \in Listener /\ admin[a].pc = "stop" /\ admin[a].pc \in Down
  BY AdminOnListener DEF FinishStop, Down
<1>2. /\ server' = [server EXCEPT ![l] = None]
      /\ Installed(l, None)
      /\ writer' = None
      /\ admin' = [admin EXCEPT ![a] = Ready]
      /\ lastGood' = [lastGood EXCEPT ![l] = None]
      /\ UNCHANGED <<open, serving, latest, countVars, request>>
  BY DEF FinishStop
<1>3. \A b \in Admin : /\ admin'[b].pc \notin Down
                       /\ b # a => admin[b].pc \notin Down
  BY <1>1, <1>2, AloneUnderLock DEF IInv, PathTypeOK, Ready, Down
<1>4. \A s \in serving : server[s[1]] = s[2] /\ s[1] # l
  BY <1>1 DEF IInv, SocketsFollowTable, TakenDown
<1>5. /\ table' \in [Listener -> Version \cup {None}]
      /\ window' \in [Request -> SUBSET (Version \cup {None})]
      /\ WindowsAreOpen'
      /\ ActiveIsAccounted'
  BY <1>1, <1>2, InstalledKeeps
<1>6. PathTypeOK'
  BY <1>1, <1>2, <1>5 DEF IInv, PathTypeOK, countVars
<1>7. \A k \in Listener : k # l => ~TakenDown(k)
  BY <1>3 DEF TakenDown, Down
<1>8. Locked'
  BY <1>2, <1>3 DEF Locked, Down
<1>9. SocketsFollowTable'
  <2>1. \A k \in Listener : server'[k] = IF k = l THEN None ELSE server[k]
    BY <1>2 DEF IInv, PathTypeOK
  <2>2. \A s \in serving' : server'[s[1]] = s[2] /\ ~TakenDown(s[1])'
    BY <1>2, <1>3, <1>4, <2>1 DEF IInv, PathTypeOK, TakenDown, Down
  <2> QED
    BY <1>2, <1>7, <2>1, <2>2 DEF IInv, SocketsFollowTable
<1>10. ServersAreRestorable'
  BY <1>1, <1>2, <1>3 DEF IInv, PathTypeOK, ServersAreRestorable, Down
<1> QED
  BY <1>5, <1>6, <1>8, <1>9, <1>10 DEF IInv

-----------------------------------------------------------------------------
(* The theorems *)

LEMMA InvInit == PathInit => IInv
<1> SUFFICES ASSUME PathInit
             PROVE  IInv
  OBVIOUS
<1>1. PathTypeOK
  BY VersionsAreNumbers DEF PathInit, PathTypeOK, Good, LastGood
<1>2. Locked /\ SocketsFollowTable /\ ServersAreRestorable
  BY <1>1 DEF PathInit, PathTypeOK, Locked, SocketsFollowTable, ServersAreRestorable, Ready,
     TakenDown, Down, Good, LastGood
<1>3. WindowsAreOpen
  BY DEF PathInit, WindowsAreOpen, At, Absent, Unanswered
<1>4. ActiveIsAccounted
  <2>1. \A l \in Listener : Busy(l) = {}
    BY DEF PathInit, Busy, Absent, Handled
  <2>2. Cardinality({}) = 0
    BY FS_EmptySet
  <2>3. \A l \in Listener : active[l] = 0 /\ aborted[l] = 0
    BY DEF PathInit
  <2> QED
    BY <2>1, <2>2, <2>3, AccountedIsBusy
<1> QED
  BY <1>1, <1>2, <1>3, <1>4 DEF IInv

LEMMA InvStep == IInv /\ [PathNext]_pathVars => IInv'
<1> SUFFICES ASSUME IInv, [PathNext]_pathVars
             PROVE  IInv'
  OBVIOUS
<1>1. ASSUME NEW r \in Request, Environment(r)
      PROVE  IInv'
  BY <1>1, ConnectKeeps, CopyingKeeps DEF Environment, Peer
<1>2. ASSUME NEW r \in Request, Accepts(r)
      PROVE  IInv'
  BY <1>2, AcceptsKeeps
<1>3. ASSUME NEW r \in Request, Handles(r)
      PROVE  IInv'
  BY <1>3, HandlesKeeps
<1>4. ASSUME NEW r \in Request, Copies(r)
      PROVE  IInv'
  BY <1>4, HandlesKeeps, CopyingKeeps DEF Copies, Peer
<1>5. ASSUME NEW a \in Admin, Submit(a) \/ BeginStop(a) \/ Applies(a)
      PROVE  IInv'
  BY <1>5, SubmitKeeps, BeginStopKeeps, ApplyHotKeeps, ApplyNewKeeps, BeginRestartKeeps,
     FinishRestartKeeps, RollBackKeeps, FinishStopKeeps DEF Applies
<1>6. ASSUME NEW s \in open, Serves(s)
      PROVE  IInv'
  BY <1>6, ServesKeeps
<1>7. CASE UNCHANGED pathVars
  BY <1>7 DEF pathVars, IInv, PathTypeOK, Locked, SocketsFollowTable, TakenDown,
     ServersAreRestorable, WindowsAreOpen, ActiveIsAccounted, At, On
<1> QED
  BY <1>1, <1>2, <1>3, <1>4, <1>5, <1>6, <1>7 DEF PathNext

LEMMA PathInvariant == PathSpec => []IInv
BY InvInit, InvStep, PTL DEF PathSpec

(* Whatever fails, is rolled back or restarted, and however late its       *)
(* goroutine starts to serve: connections are accepted for the server in   *)
(* the table only, and a server that is not being taken down has its       *)
(* socket (applyListenerConfig, serveListener, fnproxy/server.go).         *)
THEOREM SocketsAreSingle == PathSpec => []OneSocket
<1>1. IInv => OneSocket
  <2> SUFFICES ASSUME IInv
               PROVE  OneSocket
    OBVIOUS
  <2>1. \A l \in Listener : TakenDown(l) => ShutDown(<<l, server[l]>>)
    BY RequestAssumption DEF IInv, Locked, TakenDown, ShutDown
  <2> QED
    BY <2>1 DEF IInv, SocketsFollowTable, OneSocket
<1> QED
  BY <1>1, PathInvariant, PTL

(* The count of active connections is exact but for the handlers that      *)
(* panicked (wrapServiceHandler, fnproxy/server.go).                       *)
THEOREM ConnectionsAreCounted == PathSpec => []ActiveIsAccounted
BY PathInvariant, PTL DEF IInv

-----------------------------------------------------------------------------
(* RequestPath implements HotReload. *)
Answers == [r \in Request |-> IF At(r, "absent") THEN {} ELSE request[r].answer]

LEMMA HotInit == PathInit => Hot!Init
BY VersionsAreNumbers DEF PathInit, Hot!Init, At, Absent

(* A step that leaves tables, windows and answers is a stutter. *)
LEMMA HotStutter ==
  ASSUME UNCHANGED <<table, window>>, Answers' = Answers
  PROVE  UNCHANGED Hot!hotVars
BY DEF Hot!hotVars, Answers

LEMMA AnswersStay ==
  ASSUME IInv, NEW r \in Request, request[r].pc # "absent",
         request'[r].pc # "absent", request'[r].answer = request[r].answer,
         \A q \in Request : q # r => request'[q] = request[q]
  PROVE  Answers' = Answers
BY DEF Answers, At

LEMMA ConnectComes ==
  ASSUME IInv, NEW r \in Request, Connect(r)
  PROVE  Hot!Come(r)
<1>1. PICK s \in open :
        /\ request' = [request EXCEPT ![r] = [pc |-> "queued", listener |-> s[1],
                                              server |-> s[2], answer |-> {},
                                              running |-> {}, gone |-> {}]]
        /\ window' = [window EXCEPT ![r] = {table[s[1]]}]
  BY DEF Connect
<1>2. request[r].pc = "absent" /\ table' = table /\ window[r] = {}
  BY DEF Connect, At, serverVars, IInv, WindowsAreOpen
<1>3. Answers' = Answers
  <2> SUFFICES ASSUME NEW q \in Request
               PROVE  Answers'[q] = Answers[q]
    BY DEF Answers
  <2>1. CASE q = r
    BY <1>1, <1>2, <2>1 DEF Answers, At, IInv, PathTypeOK
  <2>2. CASE q # r
    BY <1>1, <2>2 DEF Answers, At, IInv, PathTypeOK
  <2> QED
    BY <2>1, <2>2
<1>4. s[1] \in Listener
  BY DEF IInv, PathTypeOK
<1> QED
  BY <1>1, <1>2, <1>3, <1>4 DEF Hot!Come, Answers

LEMMA LookupAnswers ==
  ASSUME IInv, NEW r \in Request, Lookup(r)
  PROVE  Hot!Answer(r)
<1>1. PICK pc \in {"leaving", "route"} :
        request' = [request EXCEPT ![r].pc = pc, ![r].answer = {table[On(r)]}]
  BY DEF Lookup
<1>2. /\ request[r].pc = "core"
      /\ request[r] \in Connection
      /\ UNCHANGED <<table, window>>
  BY AtConnection DEF Lookup, At, serverVars
<1>3. request[r].answer = {} /\ table[On(r)] \in window[r]
  BY <1>2 DEF IInv, WindowsAreOpen, At, Unanswered
<1>4. /\ request'[r].pc = pc
      /\ request'[r].answer = {table[On(r)]}
      /\ \A q \in Request : q # r => request'[q] = request[q]
  BY <1>1, <1>2 DEF IInv, PathTypeOK, Connection
<1>5. Answers' = [Answers EXCEPT ![r] = {table[On(r)]}]
  BY <1>4 DEF Answers, At
<1>6. Answers[r] = {}
  BY <1>2, <1>3 DEF Answers, At
<1> QED
  BY <1>2, <1>3, <1>5, <1>6 DEF Hot!Answer, Answers

LEMMA DisconnectLeaves ==
  ASSUME IInv, NEW r \in Request, Disconnect(r)
  PROVE  Hot!Leave(r)
<1>1. /\ request' = [request EXCEPT ![r] = Absent]
      /\ window' = [window EXCEPT ![r] = {}]
      /\ table' = table
  BY DEF Disconnect, serverVars
<1>2. Answers' = [Answers EXCEPT ![r] = {}]
  BY <1>1 DEF Answers, At, Absent, IInv, PathTypeOK
<1> QED
  BY <1>1, <1>2 DEF Hot!Leave, Answers

LEMMA InstalledReloads ==
  ASSUME IInv, NEW l \in Listener, NEW v, Installed(l, v), UNCHANGED request
  PROVE  Hot!Reload(l, v)
<1> DEFINE R == {r \in Request : request[r].pc # "absent" /\ On(r) = l}
<1>1. R \in SUBSET {r \in Request : window[r] # {}}
  BY DEF IInv, WindowsAreOpen, At
<1>2. window' = [r \in Request |-> IF r \in R THEN window[r] \cup {v} ELSE window[r]]
  BY DEF Installed
<1>3. Answers' = Answers
  BY DEF Answers, At
<1>4. table' = [table EXCEPT ![l] = v]
  BY DEF Installed
<1> QED
  BY <1>1, <1>2, <1>3, <1>4 DEF Hot!Reload, Answers

(* Every other step of a request leaves what HotReload sees. *)
LEMMA ProceedStutters ==
  ASSUME IInv, NEW r \in Request, request[r].pc # "absent",
         NEW pc \in Working, Proceed(r, pc),
         UNCHANGED <<serverVars, window>>
  PROVE  UNCHANGED Hot!hotVars
<1>1. /\ request'[r].pc = pc
      /\ request'[r].answer = request[r].answer
      /\ \A q \in Request : q # r => request'[q] = request[q]
  BY AtConnection DEF Proceed, Connection, IInv, PathTypeOK
<1>2. pc # "absent"
  BY DEF Working, Unanswered, Handled
<1>3. Answers' = Answers
  BY <1>1, <1>2, AnswersStay
<1> QED
  BY <1>3, HotStutter DEF serverVars

LEMMA CopyingStutters ==
  ASSUME IInv, NEW r \in Request, NEW peer \in Peer,
         Upgrade(r) \/ PeerLeaves(r, peer) \/ ReadFails(r, peer) \/ WriteFails(r, peer)
  PROVE  UNCHANGED Hot!hotVars
<1>1. request[r].pc \in {"websocket", "copying"} /\ request[r] \in Connection
  BY AtConnection DEF Upgrade, PeerLeaves, ReadFails, WriteFails, At
<1>2. /\ request'[r].pc # "absent"
      /\ request'[r].answer = request[r].answer
      /\ \A q \in Request : q # r => request'[q] = request[q]
  BY <1>1 DEF Upgrade, PeerLeaves, ReadFails, WriteFails, Connection, IInv, PathTypeOK
<1>3. Answers' = Answers
  BY <1>1, <1>2, AnswersStay
<1> QED
  BY <1>3, HotStutter DEF Upgrade, PeerLeaves, ReadFails, WriteFails, serverVars

LEMMA RequestImplements ==
  ASSUME IInv, NEW r \in Request,
         Environment(r) \/ Accepts(r) \/ Handles(r) \/ Copies(r)
  PROVE  Hot!Next \/ UNCHANGED Hot!hotVars
<1>1. CASE Connect(r) \/ Lookup(r) \/ Disconnect(r)
  BY <1>1, ConnectComes, LookupAnswers, DisconnectLeaves DEF Hot!Next
<1>2. CASE Accept(r) \/ SniffTLS(r) \/ SniffEnds(r)
  BY <1>2, ProceedStutters DEF Accept, SniffTLS, SniffEnds, At, Working, Unanswered, Handled
<1>3. CASE FirewallMiddleware(r) \/ EndsUnserved(r) \/ DecryptSecurePayload(r) \/ Serve(r) \/ Abort(r)
  BY <1>3, ProceedStutters DEF FirewallMiddleware, EndsUnserved, DecryptSecurePayload, Serve,
     Abort, At, Working, Unanswered, Handled
<1>4. CASE BeginRequest(r)
  <2>1. PICK s \in Services : Proceed(r, s)
    BY <1>4 DEF BeginRequest
  <2>2. s \in Working
    BY RequestAssumption DEF Working, Handled
  <2> QED
    BY <1>4, <2>1, <2>2, ProceedStutters DEF BeginRequest, At
<1>5. CASE RecordRequest(r) \/ UpgradeFails(r) \/ BothEnded(r)
  BY <1>5, ProceedStutters DEF RecordRequest, UpgradeFails, BothEnded, At, Working, Unanswered,
     Handled
<1>6. ASSUME NEW peer \in Peer,
             Upgrade(r) \/ PeerLeaves(r, peer) \/ ReadFails(r, peer) \/ WriteFails(r, peer)
      PROVE  UNCHANGED Hot!hotVars
  BY <1>6, CopyingStutters
<1>7. "client" \in Peer
  BY DEF Peer
<1> QED
  BY <1>1, <1>2, <1>3, <1>4, <1>5, <1>6, <1>7 DEF Environment, Accepts, Handles, Copies, Peer

(* Nor does HotReload see connections being reset. *)
LEMMA ClosedStutters ==
  ASSUME IInv, NEW sockets, Closed(sockets), UNCHANGED <<table, window>>
  PROVE  UNCHANGED Hot!hotVars
<1>1. \A r \in Request : \/ request'[r] = request[r]
                         \/ /\ request[r].pc = "queued" /\ request'[r].pc = "reset"
                            /\ request'[r].answer = request[r].answer
  BY AtConnection DEF Closed, At, Connection
<1>2. Answers' = Answers
  BY <1>1 DEF Answers, At
<1> QED
  BY <1>2, HotStutter

LEMMA ServesImplements ==
  ASSUME IInv, NEW s, Serves(s)
  PROVE  UNCHANGED Hot!hotVars
<1>1. CASE ServeListener(s)
  BY <1>1, HotStutter DEF ServeListener, Answers, At
<1>2. CASE ServeAbandoned(s)
  BY <1>2, ClosedStutters DEF ServeAbandoned
<1> QED
  BY <1>1, <1>2 DEF Serves

LEMMA AdminImplements ==
  ASSUME IInv, NEW a \in Admin, Submit(a) \/ BeginStop(a) \/ Applies(a)
  PROVE  Hot!Next \/ UNCHANGED Hot!hotVars
<1> DEFINE l == admin[a].listener
<1>1. ASSUME NEW v \in Version \cup {None}, admin[a].pc # "ready", Installed(l, v),
             UNCHANGED request
      PROVE  Hot!Next
  <2>1. l \in Listener
    BY <1>1, AdminOnListener
  <2> QED
    BY <1>1, <2>1, InstalledReloads DEF Hot!Next
<1>2. ASSUME UNCHANGED <<table, window, request>>
      PROVE  UNCHANGED Hot!hotVars
  BY <1>2, HotStutter DEF Answers, At
<1>3. CASE Submit(a)
  BY <1>3, <1>2 DEF Submit, serverVars
<1>4. CASE BeginStop(a) \/ BeginRestart(a)
  <2>1. PICK k : Closes(a, k)
    BY <1>4 DEF BeginStop, BeginRestart
  <2> QED
    BY <1>4, <2>1, ClosedStutters DEF Closes, BeginStop, BeginRestart
<1>5. CASE ApplyHot(a)
  <2>1. admin[a].version \in Version /\ admin[a].pc # "ready"
    BY <1>5, AdminOnListener DEF ApplyHot
  <2> QED
    BY <1>1, <1>5, <2>1 DEF ApplyHot
<1>6. CASE ApplyNew(a)
  <2>1. admin[a].version \in Version /\ admin[a].pc # "ready"
    BY <1>6, AdminOnListener DEF ApplyNew
  <2> QED
    BY <1>1, <1>2, <1>6, <2>1 DEF ApplyNew, Listens, serverVars
<1>7. CASE FinishRestart(a)
  <2>1. admin[a].version \in Version /\ admin[a].pc # "ready"
    BY <1>7, AdminOnListener DEF FinishRestart
  <2> QED
    BY <1>1, <1>7, <2>1 DEF FinishRestart, Listens
<1>8. CASE FinishStop(a)
  BY <1>1, <1>8 DEF FinishStop
<1>9. CASE RollBack(a)
  <2>1. admin[a].back \in Version /\ admin[a].pc # "ready"
    BY <1>9, AdminOnListener DEF RollBack, RollingBack
  <2> QED
    BY <1>1, <1>2, <1>9, <2>1 DEF RollBack, Listens, serverVars
<1> QED
  BY <1>3, <1>4, <1>5, <1>6, <1>7, <1>8, <1>9 DEF Applies

(* Through every reload, restart, rollback and stop, a request is answered *)
(* by one configuration that was in force while it was under way           *)
(* (buildListenerHandler, applyListenerConfig).                            *)
THEOREM RequestsSeeCurrentConfigurations == PathSpec => AnsweredByCurrent
<1>1. IInv /\ [PathNext]_pathVars => [Hot!Next]_Hot!hotVars
  <2> SUFFICES ASSUME IInv, [PathNext]_pathVars
               PROVE  Hot!Next \/ UNCHANGED Hot!hotVars
    OBVIOUS
  <2>1. CASE UNCHANGED pathVars
    BY <2>1, HotStutter DEF pathVars, Answers, At
  <2> QED
    BY <2>1, RequestImplements, AdminImplements, ServesImplements DEF PathNext
<1> QED
  BY <1>1, HotInit, PathInvariant, PTL DEF PathSpec, AnsweredByCurrent, Hot!HotReloadSpec

=============================================================================
