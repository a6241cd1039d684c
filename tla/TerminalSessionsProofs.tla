----------------------- MODULE TerminalSessionsProofs -----------------------
(***************************************************************************)
(* Theorems about TerminalSessions, for every number of sessions,          *)
(* WebSockets, requests and users, and for every size of the pipes and the *)
(* scrollback.                                                             *)
(***************************************************************************)
EXTENDS TerminalSessions, TLAPS

-----------------------------------------------------------------------------
(* Types, and what a goroutine that is under way relies on. *)

RequestState ==
  [at : {"idle", "start", "register", "list"}, session : Session \cup {None},
   user : User \cup {None}, items : SUBSET Session]

RequestOK ==
  /\ request \in [Request -> RequestState]
  /\ \A r \in Request : request[r].at = "start" => request[r].user \in User
  /\ \A r \in Request : request[r].at = "register" => request[r].session \in Session

SweepState ==
  [at : {"idle", "check", "wait", "ended"}, session : Session \cup {None}, items : SUBSET Session]

SweepOK ==
  /\ sweep \in [Sweeper -> SweepState]
  /\ \A w \in Sweeper : sweep[w].at \in {"check", "wait"} => sweep[w].session \in Session

(* handleOutput reads what was made and emits what it read; it sends to    *)
(* somebody, and knows nobody else.                                        *)
Ordered(t) ==
  /\ t.read <= t.made
  /\ t.read = IF t.out = "emit" THEN t.emitted + 1 ELSE t.emitted
  /\ t.out = "send" => t.to # None /\ t.emitted > 0
  /\ t.out # "send" => t.to = None

TermOK ==
  /\ term \in [Session -> TerminalSession]
  /\ \A s \in Session : Ordered(term[s])

WsOK ==
  /\ ws \in [Conn -> WebSocket]
  /\ \A c \in Conn : ws[c].at # "none" => ws[c].session \in Session

(* What is still to be written into the stdin of a session. *)
Left(s) == IF term[s].writer = None THEN 0 ELSE ws[term[s].writer].left

(* Who holds a session's mutex over a write is the WebSocket that writes,  *)
(* and input is bounded on its whole way through the shell.                *)
Flow ==
  /\ \A c \in Conn : ws[c].at = "write" => term[ws[c].session].writer = c
  /\ \A s \in Session : term[s].writer # None =>
       ws[term[s].writer].at = "write" /\ ws[term[s].writer].session = s
  /\ \A s \in Session : term[s].made + term[s].stdin + Left(s) <= MaxInput

(* The output of a session is not read before the request that started it  *)
(* registers it, and only one request does.                                *)
Starting ==
  /\ \A r \in Request : request[r].at = "register" =>
       term[request[r].session].out = "off" /\ term[request[r].session].shell # "none"
  /\ \A q, r \in Request : /\ request[q].at = "register" /\ request[r].at = "register"
                           /\ request[q].session = request[r].session
                           => q = r
  /\ \A s \in Session : term[s].shell = "none" => term[s].out = "off"

TypeInv ==
  sessions \subseteq Session /\ RequestOK /\ SweepOK /\ TermOK /\ WsOK /\ Flow /\ Starting

LEMMA TypeInvImpliesTypeOK == TypeInv => TerminalTypeOK
  BY DEF TypeInv, RequestOK, RequestState, SweepOK, SweepState, TermOK, WsOK, TerminalTypeOK

LEMMA BufferType ==
  ASSUME TermOK, NEW s \in Session
  PROVE  Buffer(s) \in Seq(Chunk)
<1> DEFINE n == term[s].emitted
           size == IF n < BufferLimit THEN n ELSE BufferLimit
<1>1. n \in 0 .. MaxInput /\ MaxInput \in Nat /\ BufferLimit \in Nat \ {0}
  BY LimitsAssumption DEF TermOK, TerminalSession
<1>2. size \in Nat /\ size <= n
  BY <1>1
<1>3. \A i \in 1 .. size : n - size + i \in Chunk
  BY <1>1, <1>2 DEF Chunk
<1>4. Buffer(s) = [i \in 1 .. size |-> n - size + i]
  BY DEF Buffer
<1> HIDE DEF n, size
<1> QED
  BY <1>2, <1>3, <1>4

LEMMA TypeInit == Init => TypeInv
<1> SUFFICES ASSUME Init PROVE TypeInv
  OBVIOUS
<1>1. RequestOK /\ SweepOK
  BY SweeperAssumption 
     DEF Init, RequestOK, RequestState, SweepOK, SweepState, IdleRequest, IdleSweep
<1>2. TermOK
  BY LimitsAssumption DEF Init, TermOK, TerminalSession, Ordered
<1>3. WsOK
  BY LimitsAssumption DEF Init, WsOK, WebSocket
<1>4. Flow
  BY LimitsAssumption DEF Init, Flow, Left
<1>5. Starting
  BY DEF Init, Starting, IdleRequest
<1> QED
  BY <1>1, <1>2, <1>3, <1>4, <1>5 DEF Init, TypeInv

-----------------------------------------------------------------------------
(* Flow cares for writers and counters only. *)
LEMMA FlowKept ==
  ASSUME TypeInv,
         \A s \in Session :
           /\ term'[s].writer = term[s].writer
           /\ term'[s].made \in Nat /\ term'[s].stdin \in Nat
           /\ term'[s].made + term'[s].stdin <= term[s].made + term[s].stdin,
         \A c \in Conn :
           /\ ws'[c].at = "write" <=> ws[c].at = "write"
           /\ ws[c].at = "write" => ws'[c].session = ws[c].session /\ ws'[c].left = ws[c].left
  PROVE  Flow'
<1>1. \A c \in Conn : ws[c].at = "write" => ws[c].session \in Session
  BY DEF TypeInv, WsOK
<1>2. \A s \in Session : term[s].writer \in Conn \cup {None} /\ term[s].made \in Nat /\ term[s].stdin \in Nat
  BY LimitsAssumption DEF TypeInv, TermOK, TerminalSession
<1>3. \A c \in Conn : ws[c].left \in Nat
  BY LimitsAssumption DEF TypeInv, WsOK, WebSocket
<1>4. \A s \in Session : Left(s)' = Left(s) /\ Left(s) \in Nat
  BY <1>2, <1>3 DEF TypeInv, Flow, Left
<1>5. MaxInput \in Nat
  BY LimitsAssumption
<1>6. \A s \in Session : term'[s].made + term'[s].stdin + Left(s)' <= MaxInput
  BY <1>2, <1>4, <1>5 DEF TypeInv, Flow
<1> QED
  BY <1>1, <1>2, <1>6 DEF TypeInv, Flow

(* Nobody starts or registers a session: Starting cares for no more. *)
LEMMA StartingKept ==
  ASSUME TypeInv,
         \A r \in Request : request'[r].at = "register" =>
           request[r].at = "register" /\ request'[r].session = request[r].session,
         \A s \in Session :
           /\ term[s].out = "off" => term'[s].out = "off"
           /\ term'[s].shell = "none" => term[s].shell = "none"
  PROVE  Starting'
<1>1. \A r \in Request : request[r].at = "register" => request[r].session \in Session
  BY DEF TypeInv, RequestOK
<1> QED
  BY <1>1 DEF TypeInv, Starting

(* What a step of a session does that neither starts it nor brings it more *)
(* input.                                                                  *)
Quiet(t, u) ==
  /\ u.writer = t.writer
  /\ u.made + u.stdin <= t.made + t.stdin
  /\ t.out = "off" => u.out = "off"
  /\ u.shell = "none" => t.shell = "none"

(* WebSockets that write go on, and no other writes. *)
WritesGoOn ==
  \A c \in Conn :
    /\ ws'[c].at = "write" <=> ws[c].at = "write"
    /\ ws[c].at = "write" => ws'[c].session = ws[c].session /\ ws'[c].left = ws[c].left

LEMMA SessionStep ==
  ASSUME TypeInv, NEW s \in Session, NEW t \in TerminalSession, Ordered(t),
         term' = [term EXCEPT ![s] = t]
  PROVE  TermOK' /\ term'[s] = t /\ \A x \in Session \ {s} : term'[x] = term[x]
  BY DEF TypeInv, TermOK

LEMMA QuietStep ==
  ASSUME TypeInv, TermOK', \A x \in Session : Quiet(term[x], term'[x]),
         WritesGoOn, UNCHANGED request
  PROVE  Flow' /\ Starting'
<1>1. \A x \in Session : /\ term'[x].made \in Nat /\ term'[x].stdin \in Nat
                         /\ term[x].made \in Nat /\ term[x].stdin \in Nat
  BY LimitsAssumption DEF TypeInv, TermOK, TerminalSession
<1>2. Flow'
  BY <1>1, FlowKept DEF WritesGoOn, Quiet
<1>3. Starting'
  BY StartingKept DEF Quiet
<1> QED
  BY <1>2, <1>3

LEMMA QuietSessionStep ==
  ASSUME TypeInv, NEW s \in Session, NEW t \in TerminalSession, Ordered(t),
         term' = [term EXCEPT ![s] = t], Quiet(term[s], t), WritesGoOn, UNCHANGED request
  PROVE  TermOK' /\ Flow' /\ Starting'
<1>1. TermOK' /\ term'[s] = t /\ \A x \in Session \ {s} : term'[x] = term[x]
  BY SessionStep
<1>2. \A x \in Session : term[x].made \in Nat /\ term[x].stdin \in Nat
  BY LimitsAssumption DEF TypeInv, TermOK, TerminalSession
<1>3. \A x \in Session : Quiet(term[x], term'[x])
  BY <1>1, <1>2 DEF Quiet
<1> QED
  BY <1>1, <1>3, QuietStep

LEMMA CloseCalledStep ==
  ASSUME TypeInv, NEW s \in Session, term' = CloseCalled(s), WritesGoOn, UNCHANGED request
  PROVE  TermOK' /\ Flow' /\ Starting'
<1> DEFINE t == [term[s] EXCEPT !.closing = IF @ = "no" THEN "called" ELSE @]
<1>1. term[s] \in TerminalSession /\ Ordered(term[s])
  BY DEF TypeInv, TermOK
<1>2. t \in TerminalSession
  BY <1>1 DEF TerminalSession
<1>3. Ordered(t) /\ Quiet(term[s], t)
  BY <1>1, LimitsAssumption DEF TerminalSession, Ordered, Quiet
<1>4. term' = [term EXCEPT ![s] = t]
  BY DEF CloseCalled, TypeInv, TermOK
<1> HIDE DEF t
<1> QED
  BY <1>2, <1>3, <1>4, QuietSessionStep

LEMMA DetachedStep ==
  ASSUME TypeInv, NEW c \in Conn, ws[c].session \in Session, term' = Detached(c),
         WritesGoOn, UNCHANGED request
  PROVE  TermOK' /\ Flow' /\ Starting'
<1> DEFINE s == ws[c].session
           t == [term[s] EXCEPT !.attached = IF @ = c THEN None ELSE @]
<1>1. term[s] \in TerminalSession /\ Ordered(term[s])
  BY DEF TypeInv, TermOK
<1>2. t \in TerminalSession
  BY <1>1 DEF TerminalSession
<1>3. Ordered(t) /\ Quiet(term[s], t)
  BY <1>1, LimitsAssumption DEF TerminalSession, Ordered, Quiet
<1>4. term' = [term EXCEPT ![s] = t]
  BY DEF Detached, TypeInv, TermOK
<1> HIDE DEF t
<1> QED
  BY <1>2, <1>3, <1>4, QuietSessionStep

(* conn.Close changes nothing that WsOK or Flow speak of. *)
LEMMA ClosedConnKeeps ==
  ASSUME WsOK, NEW c \in Conn \cup {None}
  PROVE  /\ ClosedConn(c) \in [Conn -> WebSocket]
         /\ \A d \in Conn :
              /\ ClosedConn(c)[d].at = ws[d].at /\ ClosedConn(c)[d].session = ws[d].session
              /\ ClosedConn(c)[d].old = ws[d].old /\ ClosedConn(c)[d].left = ws[d].left
              /\ ClosedConn(c)[d].replay = ws[d].replay
              /\ d # c => ClosedConn(c)[d] = ws[d]
              /\ d = c => ~ClosedConn(c)[d].open /\ ClosedConn(c)[d].received = <<>>
<1>1. CASE c = None
  BY <1>1, NoneIsNothing DEF WsOK, ClosedConn
<1>2. CASE c \in Conn
  <2> DEFINE u == [ws[c] EXCEPT !.open = FALSE, !.received = <<>>]
  <2>1. c # None
    BY <1>2, NoneIsNothing
  <2>2. ClosedConn(c) = [ws EXCEPT ![c] = u]
    BY <1>2, <2>1 DEF ClosedConn, WsOK
  <2>3. ws[c] \in WebSocket
    BY <1>2 DEF WsOK
  <2>4. u \in WebSocket
    <3>1. <<>> \in Seq(Chunk)
      OBVIOUS
    <3> QED
      BY <2>3, <3>1 DEF WebSocket
  <2>5. /\ u.at = ws[c].at /\ u.session = ws[c].session /\ u.old = ws[c].old
        /\ u.left = ws[c].left /\ u.replay = ws[c].replay
    BY <2>3 DEF WebSocket
  <2>6. u.open = FALSE /\ u.received = <<>>
    BY <2>3 DEF WebSocket
  <2> HIDE DEF u
  <2> QED
    BY <1>2, <2>2, <2>4, <2>5, <2>6 DEF WsOK
<1> QED
  BY <1>1, <1>2

LEMMA ClosedConnOfNone == ClosedConn(None) = ws
  BY DEF ClosedConn

(* One WebSocket changes, and possibly another is closed. *)
LEMMA WsStep ==
  ASSUME WsOK, NEW c \in Conn, NEW d \in Conn \cup {None}, NEW u \in WebSocket,
         u.at # "none" => u.session \in Session, ws' = [ClosedConn(d) EXCEPT ![c] = u]
  PROVE  /\ WsOK' /\ ws'[c] = u
         /\ \A e \in Conn \ {c} : /\ ws'[e].at = ws[e].at /\ ws'[e].session = ws[e].session
                                  /\ ws'[e].left = ws[e].left
  BY ClosedConnKeeps DEF WsOK

-----------------------------------------------------------------------------
(* One lemma per action, or per group of actions that change the same.     *)

LEMMA RequestStepsKeepTypes ==
  ASSUME TypeInv, NEW r \in Request,
         CreateSession(r) \/ ListSessions(r) \/ StartFails(r) \/ SnapshotSession(r)
  PROVE  TypeInv'
<1>1. request[r] \in RequestState
  BY DEF TypeInv, RequestOK
<1>2. PICK q \in RequestState :
        /\ request' = [request EXCEPT ![r] = q]
        /\ q.at # "register"
        /\ q.at = "start" => q.user \in User
  <2>1. CASE CreateSession(r)
    <3>1. PICK u \in User : request' = [request EXCEPT ![r].at = "start", ![r].user = u]
      BY <2>1 DEF CreateSession
    <3> DEFINE q == [request[r] EXCEPT !.at = "start", !.user = u]
    <3>2. q \in RequestState /\ q.at = "start" /\ q.user = u
      BY <1>1 DEF RequestState
    <3>3. request' = [request EXCEPT ![r] = q]
      BY <3>1 DEF TypeInv, RequestOK
    <3> QED
      BY <3>2, <3>3
  <2>2. CASE ListSessions(r)
    <3>1. PICK u \in User : request' = [request EXCEPT ![r].at = "list", ![r].items = {s \in sessions : term[s].owner = u}]
      BY <2>2 DEF ListSessions
    <3> DEFINE q == [request[r] EXCEPT !.at = "list", !.items = {s \in sessions : term[s].owner = u}]
    <3>2. q \in RequestState /\ q.at = "list"
      BY <1>1 DEF RequestState, TypeInv
    <3>3. request' = [request EXCEPT ![r] = q]
      BY <3>1 DEF TypeInv, RequestOK
    <3> QED
      BY <3>2, <3>3
  <2>3. IdleRequest \in RequestState /\ IdleRequest.at = "idle"
    BY DEF RequestState, IdleRequest
  <2>4. CASE StartFails(r)
    BY <2>3, <2>4 DEF StartFails
  <2>5. CASE SnapshotSession(r)
    <3>1. PICK s \in request[r].items :
            request' = [request EXCEPT ![r] = IF @.items = {s} THEN IdleRequest
                                              ELSE [@ EXCEPT !.items = request[r].items \ {s}]]
      BY <2>5 DEF SnapshotSession
    <3> DEFINE q == [request[r] EXCEPT !.items = @ \ {s}]
    <3>2. q \in RequestState /\ q.at = "list"
      BY <1>1, <2>5 DEF RequestState, SnapshotSession
    <3>3. request' = [request EXCEPT ![r] = IF request[r].items = {s} THEN IdleRequest ELSE q]
      BY <3>1 DEF TypeInv, RequestOK
    <3> HIDE DEF q
    <3>4. CASE request[r].items = {s}
      BY <2>3, <3>3, <3>4
    <3>5. CASE request[r].items # {s}
      BY <3>2, <3>3, <3>5
    <3> QED
      BY <3>4, <3>5
  <2> QED
    BY <2>1, <2>2, <2>4, <2>5
<1>3. RequestOK' /\ \A x \in Request : request'[x].at = "register" => request'[x] = request[x]
  BY <1>2 DEF TypeInv, RequestOK
<1>4. UNCHANGED <<sessions, term, ws, sweep>>
  BY DEF CreateSession, ListSessions, StartFails, SnapshotSession
<1>5. Starting'
  BY <1>3, <1>4, StartingKept
<1> QED
  BY <1>3, <1>4, <1>5 DEF TypeInv, SweepOK, TermOK, WsOK, Flow, Left

LEMMA StartShellKeepsTypes ==
  ASSUME TypeInv, NEW r \in Request, StartShell(r)
  PROVE  TypeInv'
<1>1. PICK s \in Session :
        /\ term[s].shell = "none"
        /\ term' = [term EXCEPT ![s].shell = "alive", ![s].owner = request[r].user]
        /\ request' = [request EXCEPT ![r].at = "register", ![r].session = s]
  BY DEF StartShell
<1> DEFINE t == [term[s] EXCEPT !.shell = "alive", !.owner = request[r].user]
           q == [request[r] EXCEPT !.at = "register", !.session = s]
<1>2. /\ term[s] \in TerminalSession /\ Ordered(term[s]) /\ request[r].user \in User
      /\ request[r] \in RequestState
  BY DEF TypeInv, TermOK, RequestOK, StartShell
<1>3. t \in TerminalSession
  BY <1>2 DEF TerminalSession
<1>4. /\ Ordered(t) /\ t.writer = term[s].writer /\ t.made = term[s].made /\ t.stdin = term[s].stdin
      /\ t.out = term[s].out /\ t.shell = "alive"
  BY <1>2 DEF TerminalSession, Ordered
<1>5. term' = [term EXCEPT ![s] = t]
  BY <1>1 DEF TypeInv, TermOK
<1>6. q \in RequestState /\ q.at = "register" /\ q.session = s
  BY <1>2 DEF RequestState
<1>7. request' = [request EXCEPT ![r] = q]
  BY <1>1 DEF TypeInv, RequestOK
<1> HIDE DEF t, q
<1>8. UNCHANGED <<sessions, ws, sweep>>
  BY DEF StartShell
<1>9. TermOK' /\ term'[s] = t /\ \A x \in Session \ {s} : term'[x] = term[x]
  BY <1>3, <1>4, <1>5, SessionStep
<1>10. \A x \in Session : term[x].made \in Nat /\ term[x].stdin \in Nat
  BY LimitsAssumption DEF TypeInv, TermOK, TerminalSession
<1>11. Flow'
  BY <1>4, <1>8, <1>9, <1>10, FlowKept
<1>12. RequestOK' /\ request'[r] = q /\ \A x \in Request \ {r} : request'[x] = request[x]
  BY <1>6, <1>7 DEF TypeInv, RequestOK
<1>13. \A x \in Request : request[x].at = "register" => request[x].session # s
  BY <1>1 DEF TypeInv, Starting
<1>14. \A x \in Request : request'[x].at = "register" =>
         term'[request'[x].session].out = "off" /\ term'[request'[x].session].shell # "none"
  <2>1. t.out = "off"
    BY <1>1, <1>4 DEF TypeInv, Starting
  <2>2. \A x \in Request \ {r} : request[x].at = "register" =>
          /\ request[x].session \in Session \ {s}
          /\ term[request[x].session].out = "off" /\ term[request[x].session].shell # "none"
    BY <1>13 DEF TypeInv, Starting, RequestOK
  <2> QED
    BY <1>4, <1>6, <1>9, <1>12, <2>1, <2>2
<1>15. \A x, y \in Request :
         /\ request'[x].at = "register" /\ request'[y].at = "register"
         /\ request'[x].session = request'[y].session
        => x = y
  BY <1>6, <1>12, <1>13 DEF TypeInv, Starting
<1>16. \A x \in Session : term'[x].shell = "none" => term'[x].out = "off"
  BY <1>4, <1>9 DEF TypeInv, Starting
<1>17. Starting'
  BY <1>14, <1>15, <1>16 DEF Starting
<1> QED
  BY <1>8, <1>9, <1>11, <1>12, <1>17 DEF TypeInv, SweepOK, WsOK

LEMMA RegisterKeepsTypes ==
  ASSUME TypeInv, NEW r \in Request, Register(r)
  PROVE  TypeInv'
<1> DEFINE s == request[r].session
           t == [term[s] EXCEPT !.out = "read"]
<1>1. /\ s \in Session /\ request[r].at = "register"
      /\ term' = [term EXCEPT ![s].out = "read"]
      /\ request' = [request EXCEPT ![r] = IdleRequest]
      /\ sessions' = sessions \cup {s}
      /\ UNCHANGED <<ws, sweep>>
  BY DEF TypeInv, RequestOK, Register
<1>2. /\ term[s] \in TerminalSession /\ Ordered(term[s])
      /\ term[s].out = "off" /\ term[s].shell # "none"
  BY <1>1 DEF TypeInv, TermOK, Starting
<1>3. t \in TerminalSession
  BY <1>2 DEF TerminalSession
<1>4. /\ Ordered(t) /\ t.writer = term[s].writer /\ t.made = term[s].made /\ t.stdin = term[s].stdin
      /\ t.shell # "none"
  BY <1>2 DEF TerminalSession, Ordered
<1>5. term' = [term EXCEPT ![s] = t]
  BY <1>1 DEF TypeInv, TermOK
<1> HIDE DEF t
<1>6. TermOK' /\ term'[s] = t /\ \A x \in Session \ {s} : term'[x] = term[x]
  BY <1>1, <1>3, <1>4, <1>5, SessionStep
<1>7. \A x \in Session : term[x].made \in Nat /\ term[x].stdin \in Nat
  BY LimitsAssumption DEF TypeInv, TermOK, TerminalSession
<1>8. Flow'
  BY <1>1, <1>4, <1>6, <1>7, FlowKept
<1>9. IdleRequest \in RequestState /\ IdleRequest.at = "idle"
  BY DEF RequestState, IdleRequest
<1>10. /\ RequestOK' /\ request'[r].at = "idle"
       /\ \A x \in Request \ {r} : request'[x] = request[x]
  BY <1>1, <1>9 DEF TypeInv, RequestOK
<1>11. \A x \in Request \ {r} : request[x].at = "register" => request[x].session # s
  BY <1>1 DEF TypeInv, Starting
<1>12. Starting'
  BY <1>2, <1>4, <1>6, <1>10, <1>11 DEF TypeInv, Starting, RequestOK
<1> QED
  BY <1>1, <1>6, <1>8, <1>10, <1>12 DEF TypeInv, SweepOK, WsOK

LEMMA SweepGoesOnKeeps ==
  ASSUME TypeInv, NEW w \in Sweeper, NEW items \in SUBSET Session,
         \E next \in SweepOf(w, items) : sweep' = [sweep EXCEPT ![w] = next]
  PROVE  SweepOK'
<1>1. PICK next \in SweepOf(w, items) : sweep' = [sweep EXCEPT ![w] = next]
  OBVIOUS
<1>2. next \in SweepState /\ (next.at \in {"check", "wait"} => next.session \in Session)
  <2>1. CASE items = {}
    BY <1>1, <2>1 DEF SweepOf, SweepState, IdleSweep
  <2>2. CASE items # {}
    BY <1>1, <2>2 DEF SweepOf, SweepState
  <2> QED
    BY <2>1, <2>2
<1> QED
  BY <1>1, <1>2 DEF TypeInv, SweepOK

LEMMA SweepBeginsKeepsTypes ==
  ASSUME TypeInv, NEW w \in Sweeper, SweepBegins(w) \/ SweepSpares(w) \/ SweepReturns(w)
  PROVE  TypeInv'
<1>1. sweep[w].items \in SUBSET Session /\ sessions \in SUBSET Session
  BY DEF TypeInv, SweepOK, SweepState
<1>2. SweepOK'
  BY <1>1, SweepGoesOnKeeps DEF SweepBegins, SweepSpares, SweepReturns, SweepGoesOn
<1>3. UNCHANGED <<sessions, term, ws, request>>
  BY DEF SweepBegins, SweepSpares, SweepReturns
<1> QED
  BY <1>2, <1>3 DEF TypeInv, RequestOK, TermOK, WsOK, Flow, Left, Starting

LEMMA SweepClosesKeepsTypes ==
  ASSUME TypeInv, NEW w \in Sweeper, SweepCloses(w)
  PROVE  TypeInv'
<1>1. /\ sweep[w].session \in Session /\ term' = CloseCalled(sweep[w].session)
      /\ sweep' = [sweep EXCEPT ![w].at = "wait"]
      /\ UNCHANGED <<sessions, ws, request>>
  BY DEF TypeInv, SweepOK, SweepCloses
<1>2. TermOK' /\ Flow' /\ Starting'
  BY <1>1, CloseCalledStep DEF WritesGoOn
<1>3. SweepOK'
  <2> DEFINE q == [sweep[w] EXCEPT !.at = "wait"]
  <2>1. sweep[w] \in SweepState
    BY DEF TypeInv, SweepOK
  <2>2. q \in SweepState /\ q.session = sweep[w].session
    BY <2>1 DEF SweepState
  <2>3. sweep' = [sweep EXCEPT ![w] = q]
    BY <1>1 DEF TypeInv, SweepOK
  <2> QED
    BY <1>1, <2>2, <2>3 DEF TypeInv, SweepOK
<1> QED
  BY <1>1, <1>2, <1>3 DEF TypeInv, RequestOK, WsOK

LEMMA CloseIsCalledKeepsTypes ==
  ASSUME TypeInv, NEW s \in Session, DeleteSession(s) \/ WaitReturns(s)
  PROVE  TypeInv'
<1>1. term' = CloseCalled(s) /\ UNCHANGED <<sessions, ws, request, sweep>>
  BY DEF DeleteSession, WaitReturns
<1>2. TermOK' /\ Flow' /\ Starting'
  BY <1>1, CloseCalledStep DEF WritesGoOn
<1> QED
  BY <1>1, <1>2 DEF TypeInv, RequestOK, SweepOK, WsOK

LEMMA HeartbeatKeepsTypes ==
  ASSUME TypeInv, NEW s \in Session, Heartbeat(s)
  PROVE  TypeInv'
<1> DEFINE t == [term[s] EXCEPT !.fresh = TRUE]
<1>1. term[s] \in TerminalSession /\ Ordered(term[s])
  BY DEF TypeInv, TermOK
<1>2. t \in TerminalSession
  BY <1>1, LimitsAssumption DEF TerminalSession, Heartbeat
<1>3. Ordered(t) /\ Quiet(term[s], t)
  BY <1>1, LimitsAssumption DEF TerminalSession, Ordered, Quiet, Heartbeat
<1>4. term' = [term EXCEPT ![s] = t]
  BY DEF TypeInv, TermOK, Heartbeat
<1> HIDE DEF t
<1>5. sessions' \subseteq Session /\ UNCHANGED <<ws, request, sweep>>
  BY DEF TypeInv, Heartbeat
<1>6. TermOK' /\ Flow' /\ Starting'
  BY <1>2, <1>3, <1>4, <1>5, QuietSessionStep DEF WritesGoOn
<1> QED
  BY <1>5, <1>6 DEF TypeInv, RequestOK, SweepOK, WsOK

LEMMA ExpireKeepsTypes ==
  ASSUME TypeInv, NEW s \in Session, Expire(s)
  PROVE  TypeInv'
<1> DEFINE t == [term[s] EXCEPT !.fresh = FALSE]
<1>1. term[s] \in TerminalSession /\ Ordered(term[s])
  BY DEF TypeInv, TermOK
<1>2. t \in TerminalSession
  BY <1>1, LimitsAssumption DEF TerminalSession, Expire
<1>3. Ordered(t) /\ Quiet(term[s], t)
  BY <1>1, LimitsAssumption DEF TerminalSession, Ordered, Quiet, Expire
<1>4. term' = [term EXCEPT ![s] = t]
  BY DEF TypeInv, TermOK, Expire
<1> HIDE DEF t
<1>5. sessions' \subseteq Session /\ UNCHANGED <<ws, request, sweep>>
  BY DEF TypeInv, Expire
<1>6. TermOK' /\ Flow' /\ Starting'
  BY <1>2, <1>3, <1>4, <1>5, QuietSessionStep DEF WritesGoOn
<1> QED
  BY <1>5, <1>6 DEF TypeInv, RequestOK, SweepOK, WsOK

LEMMA ExitKeepsTypes ==
  ASSUME TypeInv, NEW s \in Session, Exit(s)
  PROVE  TypeInv'
<1> DEFINE t == [term[s] EXCEPT !.shell = "exited", !.stdin = 0]
<1>1. term[s] \in TerminalSession /\ Ordered(term[s])
  BY DEF TypeInv, TermOK
<1>2. t \in TerminalSession
  <2>1. 0 \in 0 .. Pipe
    BY LimitsAssumption
  <2> QED
    BY <1>1, <2>1 DEF TerminalSession
<1>3. Ordered(t) /\ Quiet(term[s], t)
  BY <1>1, LimitsAssumption DEF TerminalSession, Ordered, Quiet, Exit
<1>4. term' = [term EXCEPT ![s] = t]
  BY DEF TypeInv, TermOK, Exit
<1> HIDE DEF t
<1>5. sessions' \subseteq Session /\ UNCHANGED <<ws, request, sweep>>
  BY DEF TypeInv, Exit
<1>6. TermOK' /\ Flow' /\ Starting'
  BY <1>2, <1>3, <1>4, <1>5, QuietSessionStep DEF WritesGoOn
<1> QED
  BY <1>5, <1>6 DEF TypeInv, RequestOK, SweepOK, WsOK

LEMMA CloseMarksKeepsTypes ==
  ASSUME TypeInv, NEW s \in Session, CloseMarks(s)
  PROVE  TypeInv'
<1> DEFINE t == [term[s] EXCEPT !.closing = "marked", !.attached = None,
                                 !.last = term[s].attached]
<1>1. term[s] \in TerminalSession /\ Ordered(term[s])
  BY DEF TypeInv, TermOK
<1>2. t \in TerminalSession
  BY <1>1, LimitsAssumption DEF TerminalSession, CloseMarks
<1>3. Ordered(t) /\ Quiet(term[s], t)
  BY <1>1, LimitsAssumption DEF TerminalSession, Ordered, Quiet, CloseMarks
<1>4. term' = [term EXCEPT ![s] = t]
  BY DEF TypeInv, TermOK, CloseMarks
<1> HIDE DEF t
<1>5. sessions' \subseteq Session /\ UNCHANGED <<ws, request, sweep>>
  BY DEF TypeInv, CloseMarks
<1>6. TermOK' /\ Flow' /\ Starting'
  BY <1>2, <1>3, <1>4, <1>5, QuietSessionStep DEF WritesGoOn
<1> QED
  BY <1>5, <1>6 DEF TypeInv, RequestOK, SweepOK, WsOK

LEMMA CloseUnregistersKeepsTypes ==
  ASSUME TypeInv, NEW s \in Session, CloseUnregisters(s)
  PROVE  TypeInv'
<1> DEFINE t == [term[s] EXCEPT !.closing = "closed"]
<1>1. term[s] \in TerminalSession /\ Ordered(term[s])
  BY DEF TypeInv, TermOK
<1>2. t \in TerminalSession
  BY <1>1, LimitsAssumption DEF TerminalSession, CloseUnregisters
<1>3. Ordered(t) /\ Quiet(term[s], t)
  BY <1>1, LimitsAssumption DEF TerminalSession, Ordered, Quiet, CloseUnregisters
<1>4. term' = [term EXCEPT ![s] = t]
  BY DEF TypeInv, TermOK, CloseUnregisters
<1> HIDE DEF t
<1>5. sessions' \subseteq Session /\ UNCHANGED <<ws, request, sweep>>
  BY DEF TypeInv, CloseUnregisters
<1>6. TermOK' /\ Flow' /\ Starting'
  BY <1>2, <1>3, <1>4, <1>5, QuietSessionStep DEF WritesGoOn
<1> QED
  BY <1>5, <1>6 DEF TypeInv, RequestOK, SweepOK, WsOK

LEMMA EchoKeepsTypes ==
  ASSUME TypeInv, NEW s \in Session, Echo(s)
  PROVE  TypeInv'
<1> DEFINE t == [term[s] EXCEPT !.stdin = @ - 1, !.made = @ + 1]
<1>1. term[s] \in TerminalSession /\ Ordered(term[s])
  BY DEF TypeInv, TermOK
<1>2. t \in TerminalSession
  <2>1. /\ term[s].stdin \in 0 .. Pipe /\ term[s].stdin > 0 /\ term[s].made \in 0 .. MaxInput
        /\ Pipe \in Nat /\ MaxInput \in Nat
    BY <1>1, LimitsAssumption DEF TerminalSession, Echo
  <2>2. Left(s) \in Nat
    BY LimitsAssumption DEF TypeInv, TermOK, WsOK, TerminalSession, WebSocket, Left
  <2>3. term[s].made + term[s].stdin + Left(s) <= MaxInput
    BY DEF TypeInv, Flow
  <2>4. term[s].stdin - 1 \in 0 .. Pipe /\ term[s].made + 1 \in 0 .. MaxInput
    BY <2>1, <2>2, <2>3
  <2> QED
    BY <1>1, <2>4 DEF TerminalSession
<1>3. Ordered(t) /\ Quiet(term[s], t)
  BY <1>1, LimitsAssumption DEF TerminalSession, Ordered, Quiet, Echo
<1>4. term' = [term EXCEPT ![s] = t]
  BY DEF TypeInv, TermOK, Echo
<1> HIDE DEF t
<1>5. sessions' \subseteq Session /\ UNCHANGED <<ws, request, sweep>>
  BY DEF TypeInv, Echo
<1>6. TermOK' /\ Flow' /\ Starting'
  BY <1>2, <1>3, <1>4, <1>5, QuietSessionStep DEF WritesGoOn
<1> QED
  BY <1>5, <1>6 DEF TypeInv, RequestOK, SweepOK, WsOK

LEMMA ReadChunkKeepsTypes ==
  ASSUME TypeInv, NEW s \in Session, ReadChunk(s)
  PROVE  TypeInv'
<1> DEFINE t == [term[s] EXCEPT !.out = "emit", !.read = @ + 1]
<1>1. term[s] \in TerminalSession /\ Ordered(term[s])
  BY DEF TypeInv, TermOK
<1>2. t \in TerminalSession
  <2>1. /\ term[s].read \in 0 .. MaxInput /\ term[s].made \in 0 .. MaxInput /\ MaxInput \in Nat
        /\ term[s].read < term[s].made
    BY <1>1, LimitsAssumption DEF TerminalSession, ReadChunk
  <2>2. term[s].read + 1 \in 0 .. MaxInput
    BY <2>1
  <2> QED
    BY <1>1, <2>2 DEF TerminalSession
<1>3. Ordered(t) /\ Quiet(term[s], t)
  BY <1>1, LimitsAssumption DEF TerminalSession, Ordered, Quiet, ReadChunk
<1>4. term' = [term EXCEPT ![s] = t]
  BY DEF TypeInv, TermOK, ReadChunk
<1> HIDE DEF t
<1>5. sessions' \subseteq Session /\ UNCHANGED <<ws, request, sweep>>
  BY DEF TypeInv, ReadChunk
<1>6. TermOK' /\ Flow' /\ Starting'
  BY <1>2, <1>3, <1>4, <1>5, QuietSessionStep DEF WritesGoOn
<1> QED
  BY <1>5, <1>6 DEF TypeInv, RequestOK, SweepOK, WsOK

LEMMA EmitKeepsTypes ==
  ASSUME TypeInv, NEW s \in Session, Emit(s)
  PROVE  TypeInv'
<1> DEFINE t == [term[s] EXCEPT !.out = IF term[s].attached = None THEN "read" ELSE "send",
                                 !.emitted = @ + 1, !.to = term[s].attached]
<1>1. term[s] \in TerminalSession /\ Ordered(term[s])
  BY DEF TypeInv, TermOK
<1>2. t \in TerminalSession
  <2>1. term[s].emitted + 1 = term[s].read
    BY <1>1 DEF Ordered, Emit
  <2>2. term[s].emitted + 1 \in 0 .. MaxInput
    BY <1>1, <2>1 DEF TerminalSession
  <2> QED
    BY <1>1, <2>2 DEF TerminalSession
<1>3. Ordered(t) /\ Quiet(term[s], t)
  BY <1>1, LimitsAssumption DEF TerminalSession, Ordered, Quiet, Emit
<1>4. term' = [term EXCEPT ![s] = t]
  BY DEF TypeInv, TermOK, Emit
<1> HIDE DEF t
<1>5. sessions' \subseteq Session /\ UNCHANGED <<ws, request, sweep>>
  BY DEF TypeInv, Emit
<1>6. TermOK' /\ Flow' /\ Starting'
  BY <1>2, <1>3, <1>4, <1>5, QuietSessionStep DEF WritesGoOn
<1> QED
  BY <1>5, <1>6 DEF TypeInv, RequestOK, SweepOK, WsOK

LEMMA OutputEndsKeepsTypes ==
  ASSUME TypeInv, NEW s \in Session, OutputEnds(s)
  PROVE  TypeInv'
<1> DEFINE t(closing) == [term[s] EXCEPT !.closing = closing, !.out = "ended", !.made = term[s].read]
<1>1. term[s] \in TerminalSession /\ Ordered(term[s]) /\ term[s].out = "read"
  BY DEF TypeInv, TermOK, OutputEnds
<1>2. PICK closing \in {term[s].closing, "called"} : term' = [term EXCEPT ![s] = t(closing)]
  <2>1. CASE term' = [term EXCEPT ![s].out = "ended", ![s].made = term[s].read]
    BY <1>1, <2>1 DEF TypeInv, TermOK, TerminalSession
  <2>2. CASE term' = [CloseCalled(s) EXCEPT ![s].out = "ended", ![s].made = term[s].read]
    BY <1>1, <2>2 DEF TypeInv, TermOK, TerminalSession, CloseCalled
  <2> QED
    BY <2>1, <2>2 DEF OutputEnds
<1>3. t(closing) \in TerminalSession
  BY <1>1, <1>2 DEF TerminalSession
<1>4. Ordered(t(closing)) /\ Quiet(term[s], t(closing))
  BY <1>1, LimitsAssumption DEF TerminalSession, Ordered, Quiet
<1> HIDE DEF t
<1>5. UNCHANGED <<sessions, ws, request, sweep>>
  BY DEF OutputEnds
<1>6. TermOK' /\ Flow' /\ Starting'
  BY <1>2, <1>3, <1>4, <1>5, QuietSessionStep DEF WritesGoOn
<1> QED
  BY <1>5, <1>6 DEF TypeInv, RequestOK, SweepOK, WsOK

LEMMA CloseKillsKeepsTypes ==
  ASSUME TypeInv, NEW s \in Session, CloseKills(s)
  PROVE  TypeInv'
<1> DEFINE t == [term[s] EXCEPT !.closing = "killed", !.last = None, !.shell = "exited", !.stdin = 0]
<1>1. /\ term[s] \in TerminalSession /\ Ordered(term[s]) /\ 0 \in 0 .. Pipe
      /\ term[s].last \in Conn \cup {None}
  BY LimitsAssumption DEF TypeInv, TermOK, TerminalSession
<1>2. t \in TerminalSession
  BY <1>1 DEF TerminalSession
<1>4. Ordered(t) /\ Quiet(term[s], t)
  BY <1>1, LimitsAssumption DEF TerminalSession, Ordered, Quiet
<1>5. term' = [term EXCEPT ![s] = t]
  BY DEF TypeInv, TermOK, CloseKills
<1> HIDE DEF t
<1>6. UNCHANGED <<sessions, request, sweep>> /\ ws' = ClosedConn(term[s].last)
  BY DEF CloseKills
<1>7. WsOK' /\ WritesGoOn
  BY <1>1, <1>6, ClosedConnKeeps DEF TypeInv, WsOK, WritesGoOn
<1>8. TermOK' /\ Flow' /\ Starting'
  BY <1>2, <1>4, <1>5, <1>6, <1>7, QuietSessionStep
<1> QED
  BY <1>6, <1>7, <1>8 DEF TypeInv, RequestOK, SweepOK

LEMMA SendKeepsTypes ==
  ASSUME TypeInv, NEW s \in Session, Send(s)
  PROVE  TypeInv'
<1> DEFINE c == term[s].to
           t == [term[s] EXCEPT !.out = "read", !.to = None]
           u == [ws[c] EXCEPT !.received = Append(@, term[s].emitted)]
<1>1. term[s] \in TerminalSession /\ Ordered(term[s]) /\ term[s].out = "send"
  BY DEF TypeInv, TermOK, Send
<1>2. c \in Conn /\ term[s].emitted \in Chunk
  BY <1>1, LimitsAssumption DEF TerminalSession, Ordered, Chunk
<1>3. t \in TerminalSession
  BY <1>1 DEF TerminalSession
<1>4. Ordered(t) /\ Quiet(term[s], t)
  BY <1>1, LimitsAssumption DEF TerminalSession, Ordered, Quiet
<1>5. term' = [term EXCEPT ![s] = t]
  BY DEF TypeInv, TermOK, Send
<1>6. ws[c] \in WebSocket
  BY <1>2 DEF TypeInv, WsOK
<1>7. u \in WebSocket
  <2>1. Append(ws[c].received, term[s].emitted) \in Seq(Chunk)
    BY <1>2, <1>6 DEF WebSocket
  <2> QED
    BY <1>6, <2>1 DEF WebSocket
<1>8. u.at = ws[c].at /\ u.session = ws[c].session /\ u.left = ws[c].left
  BY <1>6 DEF WebSocket
<1>9. ws' = [ws EXCEPT ![c] = u] /\ UNCHANGED <<sessions, request, sweep>>
  BY <1>2 DEF TypeInv, WsOK, Send
<1> HIDE DEF t, u
<1>10. WsOK' /\ WritesGoOn
  BY <1>2, <1>7, <1>8, <1>9 DEF TypeInv, WsOK, WritesGoOn
<1>11. TermOK' /\ Flow' /\ Starting'
  BY <1>3, <1>4, <1>5, <1>9, <1>10, QuietSessionStep
<1> QED
  BY <1>9, <1>10, <1>11 DEF TypeInv, RequestOK, SweepOK

LEMMA SendFailsKeepsTypes ==
  ASSUME TypeInv, NEW s \in Session, SendFails(s)
  PROVE  TypeInv'
<1> DEFINE c == term[s].to
           v == Detached(c)
           t == [v[s] EXCEPT !.out = "read", !.to = None]
<1>1. \A x \in Session : term[x] \in TerminalSession /\ Ordered(term[x])
  BY DEF TypeInv, TermOK
<1>2. term[s].out = "send" /\ UNCHANGED <<sessions, ws, request, sweep>>
  BY DEF SendFails
<1>3. /\ v \in [Session -> TerminalSession]
      /\ \A x \in Session : Ordered(v[x]) /\ Quiet(term[x], v[x]) /\ v[x].out = term[x].out
  <2> DEFINE y == ws[c].session
             r == [term[y] EXCEPT !.attached = IF @ = c THEN None ELSE @]
  <2>1. \A x \in Session : Quiet(term[x], term[x])
    BY <1>1, LimitsAssumption DEF TerminalSession, Quiet
  <2>2. CASE y \notin Session
    BY <1>1, <2>1, <2>2 DEF Detached, TypeInv, TermOK
  <2>3. CASE y \in Session
    <3>1. r \in TerminalSession
      BY <1>1, <2>3 DEF TerminalSession
    <3>2. Ordered(r) /\ Quiet(term[y], r) /\ r.out = term[y].out
      BY <1>1, <2>3, LimitsAssumption DEF TerminalSession, Ordered, Quiet
    <3>3. v = [term EXCEPT ![y] = r]
      BY <2>3 DEF Detached, TypeInv, TermOK
    <3> HIDE DEF r, v
    <3> QED
      BY <1>1, <2>1, <2>3, <3>1, <3>2, <3>3 DEF TypeInv, TermOK
  <2> QED
    BY <2>2, <2>3
<1>4. term' = [v EXCEPT ![s] = t]
  BY <1>3 DEF SendFails
<1> HIDE DEF v
<1>5. v[s] \in TerminalSession /\ v[s].out = term[s].out
  BY <1>3
<1>6. t \in TerminalSession
  BY <1>5 DEF TerminalSession
<1>7. Ordered(t) /\ Quiet(term[s], t)
  BY <1>2, <1>3, <1>5, LimitsAssumption DEF TerminalSession, Ordered, Quiet
<1> HIDE DEF t
<1>8. TermOK' /\ \A x \in Session : Quiet(term[x], term'[x])
  BY <1>3, <1>4, <1>6, <1>7 DEF TermOK
<1>9. Flow' /\ Starting'
  BY <1>2, <1>8, QuietStep DEF WritesGoOn
<1> QED
  BY <1>2, <1>8, <1>9 DEF TypeInv, RequestOK, SweepOK, WsOK

LEMMA FindSessionKeepsTypes ==
  ASSUME TypeInv, NEW c \in Conn, FindSession(c)
  PROVE  TypeInv'
<1>1. PICK s \in sessions : ws' = [ws EXCEPT ![c].at = "found", ![c].session = s]
  BY DEF FindSession
<1> DEFINE u == [ws[c] EXCEPT !.at = "found", !.session = s]
<1>2. ws[c] \in WebSocket /\ s \in Session /\ ws[c].at = "none"
  BY DEF TypeInv, WsOK, FindSession
<1>3. u \in WebSocket /\ u.at = "found" /\ u.session = s
  BY <1>2 DEF WebSocket
<1>4. ws' = [ws EXCEPT ![c] = u]
  BY <1>1 DEF TypeInv, WsOK
<1> HIDE DEF u
<1>5. WsOK' /\ WritesGoOn
  BY <1>2, <1>3, <1>4 DEF TypeInv, WsOK, WritesGoOn
<1>6. UNCHANGED <<sessions, term, request, sweep>>
  BY DEF FindSession
<1>7. TermOK' /\ \A x \in Session : Quiet(term[x], term'[x])
  BY <1>6, LimitsAssumption DEF TypeInv, TermOK, TerminalSession, Quiet
<1>8. Flow' /\ Starting'
  BY <1>5, <1>6, <1>7, QuietStep
<1> QED
  BY <1>5, <1>6, <1>7, <1>8 DEF TypeInv, RequestOK, SweepOK

LEMMA DisconnectKeepsTypes ==
  ASSUME TypeInv, NEW c \in Conn, Disconnect(c)
  PROVE  TypeInv'
<1>1. ws' = ClosedConn(c) /\ UNCHANGED <<sessions, term, request, sweep>>
  BY DEF Disconnect
<1>2. WsOK' /\ WritesGoOn
  BY <1>1, ClosedConnKeeps DEF TypeInv, WsOK, WritesGoOn
<1>3. TermOK' /\ \A x \in Session : Quiet(term[x], term'[x])
  BY <1>1, LimitsAssumption DEF TypeInv, TermOK, TerminalSession, Quiet
<1>4. Flow' /\ Starting'
  BY <1>1, <1>2, <1>3, QuietStep
<1> QED
  BY <1>1, <1>2, <1>3, <1>4 DEF TypeInv, RequestOK, SweepOK

LEMMA AttachKeepsTypes ==
  ASSUME TypeInv, NEW c \in Conn, Attach(c)
  PROVE  TypeInv'
<1> DEFINE s == ws[c].session
           t == [term[s] EXCEPT !.attached = c, !.fresh = TRUE]
           u == [ws[c] EXCEPT !.at = "replay", !.old = term[s].attached, !.replay = Buffer(s)]
<1>1. ws[c] \in WebSocket /\ ws[c].at = "found" /\ s \in Session
  BY DEF TypeInv, WsOK, Attach
<1>2. /\ term[s] \in TerminalSession /\ Ordered(term[s]) /\ Buffer(s) \in Seq(Chunk)
      /\ term[s].attached \in Conn \cup {None}
  BY <1>1, BufferType DEF TypeInv, TermOK, TerminalSession
<1>3. t \in TerminalSession
  BY <1>2 DEF TerminalSession
<1>4. Ordered(t) /\ Quiet(term[s], t)
  BY <1>2, LimitsAssumption DEF TerminalSession, Ordered, Quiet
<1>5. term' = [term EXCEPT ![s] = t] /\ ws' = [ws EXCEPT ![c] = u]
  BY DEF TypeInv, TermOK, WsOK, Attach
<1>6. u \in WebSocket /\ u.at = "replay" /\ u.session = s
  <2> DEFINE b == Buffer(s)
  <2> HIDE DEF b
  <2>1. [ws[c] EXCEPT !.at = "replay", !.old = term[s].attached, !.replay = b] \in WebSocket
    BY <1>1, <1>2 DEF WebSocket, b
  <2> QED
    BY <1>1, <2>1 DEF WebSocket, b
<1> HIDE DEF t, u
<1>7. WsOK' /\ WritesGoOn
  BY <1>1, <1>5, <1>6 DEF TypeInv, WsOK, WritesGoOn
<1>8. UNCHANGED <<sessions, request, sweep>>
  BY DEF Attach
<1>9. TermOK' /\ Flow' /\ Starting'
  BY <1>1, <1>3, <1>4, <1>5, <1>7, <1>8, QuietSessionStep
<1> QED
  BY <1>7, <1>8, <1>9 DEF TypeInv, RequestOK, SweepOK

(* Where a WebSocket goes when it is done with a message. *)
LEMMA ReadsType == \A c : Reads(c) \in {"read", "end"}
  BY DEF Reads

LEMMA ReplayKeepsTypes ==
  ASSUME TypeInv, NEW c \in Conn, Replay(c)
  PROVE  TypeInv'
<1> DEFINE v == ClosedConn(ws[c].old)
           u == [v[c] EXCEPT !.at = Reads(c), !.old = None, !.replay = <<>>,
                             !.received = @ \o ws[c].replay]
<1>1. ws[c] \in WebSocket /\ ws[c].at = "replay" /\ ws[c].session \in Session
  BY DEF TypeInv, WsOK, Replay
<1>2. ws[c].old \in Conn \cup {None}
  BY <1>1 DEF WebSocket
<1>3. v \in [Conn -> WebSocket] /\ v[c] \in WebSocket /\ v[c].session = ws[c].session
  BY <1>2, ClosedConnKeeps DEF TypeInv
<1>4. ws' = [v EXCEPT ![c] = u]
  BY <1>3 DEF Replay
<1> HIDE DEF v
<1>5. u \in WebSocket /\ u.at \in {"read", "end"} /\ u.session = ws[c].session
  <2>1. v[c].received \o ws[c].replay \in Seq(Chunk) /\ <<>> \in Seq(Chunk)
    BY <1>1, <1>3 DEF WebSocket
  <2>2. Reads(c) \in {"read", "end"}
    BY ReadsType
  <2> QED
    BY <1>3, <2>1, <2>2 DEF WebSocket
<1> HIDE DEF u
<1>6. WsOK' /\ WritesGoOn
  BY <1>1, <1>2, <1>4, <1>5, WsStep DEF TypeInv, WritesGoOn, v
<1>7. UNCHANGED <<sessions, term, request, sweep>>
  BY DEF Replay
<1>8. TermOK' /\ \A x \in Session : Quiet(term[x], term'[x])
  BY <1>7, LimitsAssumption DEF TypeInv, TermOK, TerminalSession, Quiet
<1>9. Flow' /\ Starting'
  BY <1>6, <1>7, <1>8, QuietStep
<1> QED
  BY <1>6, <1>7, <1>8, <1>9 DEF TypeInv, RequestOK, SweepOK

LEMMA ReplayFailsKeepsTypes ==
  ASSUME TypeInv, NEW c \in Conn, ReplayFails(c)
  PROVE  TypeInv'
<1> DEFINE v == ClosedConn(ws[c].old)
           u == [v[c] EXCEPT !.at = Reads(c), !.old = None, !.replay = <<>>]
<1>1. ws[c] \in WebSocket /\ ws[c].at = "replay" /\ ws[c].session \in Session
  BY DEF TypeInv, WsOK, ReplayFails
<1>2. ws[c].old \in Conn \cup {None}
  BY <1>1 DEF WebSocket
<1>3. v \in [Conn -> WebSocket] /\ v[c] \in WebSocket /\ v[c].session = ws[c].session
  BY <1>2, ClosedConnKeeps DEF TypeInv
<1>4. ws' = [v EXCEPT ![c] = u]
  BY <1>3 DEF ReplayFails
<1> HIDE DEF v
<1>5. u \in WebSocket /\ u.at \in {"read", "end"} /\ u.session = ws[c].session
  <2>1. <<>> \in Seq(Chunk)
    OBVIOUS
  <2>2. Reads(c) \in {"read", "end"}
    BY ReadsType
  <2> QED
    BY <1>3, <2>1, <2>2 DEF WebSocket
<1> HIDE DEF u
<1>6. WsOK' /\ WritesGoOn
  BY <1>1, <1>2, <1>4, <1>5, WsStep DEF TypeInv, WritesGoOn, v
<1>7. UNCHANGED <<sessions, request, sweep>> /\ term' = Detached(c)
  BY DEF ReplayFails
<1>8. TermOK' /\ Flow' /\ Starting'
  BY <1>1, <1>6, <1>7, DetachedStep
<1> QED
  BY <1>6, <1>7, <1>8 DEF TypeInv, RequestOK, SweepOK

LEMMA LeaveKeepsTypes ==
  ASSUME TypeInv, NEW c \in Conn, Leave(c)
  PROVE  TypeInv'
<1> DEFINE v == ClosedConn(c)
           u == [v[c] EXCEPT !.at = "end"]
<1>1. ws[c] \in WebSocket /\ ws[c].at = "read" /\ ws[c].session \in Session
  BY DEF TypeInv, WsOK, Leave
<1>3. v \in [Conn -> WebSocket] /\ v[c] \in WebSocket /\ v[c].session = ws[c].session
  BY ClosedConnKeeps DEF TypeInv
<1>4. ws' = [v EXCEPT ![c] = u]
  BY <1>3 DEF Leave
<1> HIDE DEF v
<1>5. u \in WebSocket /\ u.at = "end" /\ u.session = ws[c].session
  BY <1>3 DEF WebSocket
<1> HIDE DEF u
<1>6. WsOK' /\ WritesGoOn
  BY <1>1, <1>4, <1>5, WsStep DEF TypeInv, WritesGoOn, v
<1>7. UNCHANGED <<sessions, request, sweep>> /\ term' = Detached(c)
  BY DEF Leave
<1>8. TermOK' /\ Flow' /\ Starting'
  BY <1>1, <1>6, <1>7, DetachedStep
<1> QED
  BY <1>6, <1>7, <1>8 DEF TypeInv, RequestOK, SweepOK

LEMMA PingKeepsTypes ==
  ASSUME TypeInv, NEW c \in Conn, Ping(c)
  PROVE  TypeInv'
<1> DEFINE s == ws[c].session
           t == [term[s] EXCEPT !.fresh = TRUE]
           u == [ws[c] EXCEPT !.at = Reads(c)]
<1>1. ws[c] \in WebSocket /\ ws[c].at = "read" /\ s \in Session
  BY DEF TypeInv, WsOK, Ping
<1>2. term[s] \in TerminalSession /\ Ordered(term[s])
  BY <1>1 DEF TypeInv, TermOK
<1>3. t \in TerminalSession
  BY <1>2 DEF TerminalSession
<1>4. Ordered(t) /\ Quiet(term[s], t)
  BY <1>2, LimitsAssumption DEF TerminalSession, Ordered, Quiet
<1>5. term' = [term EXCEPT ![s] = t] /\ ws' = [ws EXCEPT ![c] = u]
  BY DEF TypeInv, TermOK, WsOK, Ping
<1>6. u \in WebSocket /\ u.at \in {"read", "end"} /\ u.session = s
  BY <1>1, ReadsType DEF WebSocket
<1> HIDE DEF t, u
<1>7. WsOK' /\ WritesGoOn
  BY <1>1, <1>5, <1>6 DEF TypeInv, WsOK, WritesGoOn
<1>8. UNCHANGED <<sessions, request, sweep>>
  BY DEF Ping
<1>9. TermOK' /\ Flow' /\ Starting'
  BY <1>1, <1>3, <1>4, <1>5, <1>7, <1>8, QuietSessionStep
<1> QED
  BY <1>7, <1>8, <1>9 DEF TypeInv, RequestOK, SweepOK

(* The WebSocket c of session s begins, goes on with or ends a write. *)
LEMMA WriterStep ==
  ASSUME TypeInv, NEW c \in Conn, NEW s \in Session, ws[c].session = s,
         term[s].writer \in {None, c},
         NEW t \in TerminalSession, Ordered(t), term' = [term EXCEPT ![s] = t],
         t.out = term[s].out, t.shell = term[s].shell,
         NEW u \in WebSocket, ws' = [ws EXCEPT ![c] = u], u.session = s, u.at # "none",
         t.writer = IF u.at = "write" THEN c ELSE None,
         t.made + t.stdin + (IF u.at = "write" THEN u.left ELSE 0) <= MaxInput,
         UNCHANGED request
  PROVE  TermOK' /\ WsOK' /\ Flow' /\ Starting'
<1>1. TermOK' /\ term'[s] = t /\ \A x \in Session \ {s} : term'[x] = term[x]
  BY SessionStep
<1>2. WsOK' /\ ws'[c] = u /\ \A d \in Conn \ {c} : ws'[d] = ws[d]
  BY DEF TypeInv, WsOK
<1>3. \A d \in Conn \ {c} : ws[d].at = "write" => ws[d].session \in Session \ {s}
  BY NoneIsNothing DEF TypeInv, Flow, WsOK
<1>4. c # None
  BY NoneIsNothing
<1>5. \A x \in Session \ {s} : term[x].writer \in (Conn \cup {None}) \ {c}
  <2>1. \A x \in Session : term[x].writer \in Conn \cup {None}
    BY DEF TypeInv, TermOK, TerminalSession
  <2>2. \A x \in Session : term[x].writer = c => ws[c].session = x
    BY <1>4 DEF TypeInv, Flow
  <2> QED
    BY <2>1, <2>2
<1>6. \A d \in Conn : ws'[d].at = "write" => term'[ws'[d].session].writer = d
  BY <1>1, <1>2, <1>3 DEF TypeInv, Flow
<1>7. \A x \in Session : term'[x].writer # None =>
        ws'[term'[x].writer].at = "write" /\ ws'[term'[x].writer].session = x
  BY <1>1, <1>2, <1>4, <1>5 DEF TypeInv, Flow
<1>8. \A x \in Session \ {s} : Left(x)' = Left(x)
  BY <1>1, <1>2, <1>5 DEF Left
<1>9. \A x \in Session \ {s} : term'[x].made + term'[x].stdin + Left(x)' <= MaxInput
  BY <1>1, <1>8 DEF TypeInv, Flow
<1>10. Left(s)' = IF u.at = "write" THEN u.left ELSE 0
  BY <1>1, <1>2, <1>4 DEF Left
<1>11. term'[s].made + term'[s].stdin + Left(s)' <= MaxInput
  BY <1>1, <1>10
<1>12. Flow'
  BY <1>6, <1>7, <1>9, <1>11 DEF Flow
<1>13. Starting'
  BY <1>1, StartingKept
<1> QED
  BY <1>1, <1>2, <1>12, <1>13

LEMMA InputKeepsTypes ==
  ASSUME TypeInv, NEW c \in Conn, Input(c)
  PROVE  TypeInv'
<1> DEFINE s == ws[c].session
           t == [term[s] EXCEPT !.writer = c]
<1>1. ws[c] \in WebSocket /\ ws[c].at = "read" /\ s \in Session /\ term[s].writer = None
  BY DEF TypeInv, WsOK, Input, Unlocked
<1>2. term[s] \in TerminalSession /\ Ordered(term[s])
  BY <1>1 DEF TypeInv, TermOK
<1>3. PICK n \in 1 .. MaxInput - (term[s].made + term[s].stdin) :
        term' = [term EXCEPT ![s].writer = c] /\ ws' = [ws EXCEPT ![c].at = "write", ![c].left = n]
  BY DEF Input
<1> DEFINE u == [ws[c] EXCEPT !.at = "write", !.left = n]
<1>4. t \in TerminalSession
  BY <1>2 DEF TerminalSession
<1>5. /\ Ordered(t) /\ t.writer = c /\ t.made = term[s].made /\ t.stdin = term[s].stdin
      /\ t.out = term[s].out /\ t.shell = term[s].shell
  BY <1>2 DEF TerminalSession, Ordered
<1>6. term' = [term EXCEPT ![s] = t] /\ ws' = [ws EXCEPT ![c] = u]
  BY <1>3 DEF TypeInv, TermOK, WsOK
<1>7. /\ n \in 0 .. MaxInput /\ term[s].made + term[s].stdin + n <= MaxInput
  BY <1>2, LimitsAssumption DEF TerminalSession
<1>8. u \in WebSocket /\ u.at = "write" /\ u.session = s /\ u.left = n
  BY <1>1, <1>7 DEF WebSocket
<1> HIDE DEF t, u
<1>9. UNCHANGED <<sessions, request, sweep>>
  BY DEF Input
<1>10. /\ t.writer = IF u.at = "write" THEN c ELSE None
       /\ t.made + t.stdin + (IF u.at = "write" THEN u.left ELSE 0) <= MaxInput
  BY <1>5, <1>7, <1>8
<1>11. u.at # "none" /\ term[s].writer \in {None, c} /\ UNCHANGED request
  BY <1>1, <1>8, <1>9
<1>12. TermOK' /\ WsOK' /\ Flow' /\ Starting'
  BY <1>1, <1>4, <1>5, <1>6, <1>8, <1>10, <1>11, WriterStep
<1> QED
  BY <1>9, <1>12 DEF TypeInv, RequestOK, SweepOK

LEMMA WriteUnitKeepsTypes ==
  ASSUME TypeInv, NEW c \in Conn, WriteUnit(c)
  PROVE  TypeInv'
<1> DEFINE s == ws[c].session
           t == [term[s] EXCEPT !.stdin = @ + 1]
           u == [ws[c] EXCEPT !.left = @ - 1]
<1>1. ws[c] \in WebSocket /\ ws[c].at = "write" /\ s \in Session /\ term[s].writer = c
  BY DEF TypeInv, WsOK, Flow, WriteUnit
<1>2. term[s] \in TerminalSession /\ Ordered(term[s])
  BY <1>1 DEF TypeInv, TermOK
<1>3. /\ term[s].stdin \in 0 .. Pipe /\ term[s].made \in 0 .. MaxInput /\ ws[c].left \in 0 .. MaxInput
      /\ term[s].stdin < Pipe /\ ws[c].left > 0 /\ Pipe \in Nat /\ MaxInput \in Nat
  BY <1>1, <1>2, LimitsAssumption DEF TerminalSession, WebSocket, WriteUnit
<1>4. term[s].made + term[s].stdin + ws[c].left <= MaxInput
  BY <1>1, NoneIsNothing DEF TypeInv, Flow, Left
<1>5. /\ term[s].stdin + 1 \in 0 .. Pipe /\ ws[c].left - 1 \in 0 .. MaxInput
      /\ term[s].made + (term[s].stdin + 1) + (ws[c].left - 1) <= MaxInput
  BY <1>3, <1>4
<1>6. t \in TerminalSession
  BY <1>2, <1>5 DEF TerminalSession
<1>7. /\ Ordered(t) /\ t.writer = c /\ t.made = term[s].made /\ t.stdin = term[s].stdin + 1
      /\ t.out = term[s].out /\ t.shell = term[s].shell
  BY <1>1, <1>2 DEF TerminalSession, Ordered
<1>8. term' = [term EXCEPT ![s] = t] /\ ws' = [ws EXCEPT ![c] = u]
  BY DEF TypeInv, TermOK, WsOK, WriteUnit
<1>9. u \in WebSocket /\ u.at = "write" /\ u.session = s /\ u.left = ws[c].left - 1
  BY <1>1, <1>5 DEF WebSocket
<1> HIDE DEF t, u
<1>10. UNCHANGED <<sessions, request, sweep>>
  BY DEF WriteUnit
<1>11. /\ t.writer = IF u.at = "write" THEN c ELSE None
       /\ t.made + t.stdin + (IF u.at = "write" THEN u.left ELSE 0) <= MaxInput
  BY <1>5, <1>7, <1>9
<1>12. u.at # "none" /\ term[s].writer \in {None, c} /\ UNCHANGED request
  BY <1>1, <1>9, <1>10
<1>13. TermOK' /\ WsOK' /\ Flow' /\ Starting'
  BY <1>1, <1>6, <1>7, <1>8, <1>9, <1>11, <1>12, WriterStep
<1> QED
  BY <1>10, <1>13 DEF TypeInv, RequestOK, SweepOK

LEMMA WriteReturnsKeepsTypes ==
  ASSUME TypeInv, NEW c \in Conn, WriteReturns(c)
  PROVE  TypeInv'
<1> DEFINE s == ws[c].session
           t == [term[s] EXCEPT !.writer = None, !.fresh = TRUE]
           u == [ws[c] EXCEPT !.at = Reads(c), !.left = 0]
<1>1. ws[c] \in WebSocket /\ ws[c].at = "write" /\ s \in Session /\ term[s].writer = c
  BY DEF TypeInv, WsOK, Flow, WriteReturns
<1>2. term[s] \in TerminalSession /\ Ordered(term[s])
  BY <1>1 DEF TypeInv, TermOK
<1>3. term[s].made + term[s].stdin <= MaxInput
  <2>1. /\ term[s].stdin \in Nat /\ term[s].made \in Nat /\ ws[c].left \in Nat /\ MaxInput \in Nat
    BY <1>1, <1>2, LimitsAssumption DEF TerminalSession, WebSocket
  <2>2. term[s].made + term[s].stdin + ws[c].left <= MaxInput
    BY <1>1, NoneIsNothing DEF TypeInv, Flow, Left
  <2> QED
    BY <2>1, <2>2
<1>4. t \in TerminalSession
  BY <1>2 DEF TerminalSession
<1>5. /\ Ordered(t) /\ t.writer = None /\ t.made = term[s].made /\ t.stdin = term[s].stdin
      /\ t.out = term[s].out /\ t.shell = term[s].shell
  BY <1>1, <1>2 DEF TerminalSession, Ordered
<1>6. term' = [term EXCEPT ![s] = t] /\ ws' = [ws EXCEPT ![c] = u]
  BY DEF TypeInv, TermOK, WsOK, WriteReturns
<1>7. u \in WebSocket /\ u.at \in {"read", "end"} /\ u.session = s
  <2>1. 0 \in 0 .. MaxInput
    BY LimitsAssumption
  <2> QED
    BY <1>1, <2>1, ReadsType DEF WebSocket
<1> HIDE DEF t, u
<1>8. UNCHANGED <<sessions, request, sweep>>
  BY DEF WriteReturns
<1>9. t.made + t.stdin + 0 <= MaxInput
  BY <1>2, <1>3, <1>5, LimitsAssumption DEF TerminalSession
<1>10. /\ t.writer = IF u.at = "write" THEN c ELSE None
       /\ t.made + t.stdin + (IF u.at = "write" THEN u.left ELSE 0) <= MaxInput
  BY <1>5, <1>7, <1>9
<1>11. u.at # "none" /\ term[s].writer \in {None, c} /\ UNCHANGED request
  BY <1>1, <1>7, <1>8
<1>12. TermOK' /\ WsOK' /\ Flow' /\ Starting'
  BY <1>1, <1>4, <1>5, <1>6, <1>7, <1>10, <1>11, WriterStep
<1> QED
  BY <1>8, <1>12 DEF TypeInv, RequestOK, SweepOK

LEMMA StepKeepsTypes == TypeInv /\ [Next]_vars => TypeInv'
<1> SUFFICES ASSUME TypeInv, [Next]_vars
             PROVE  TypeInv'
  OBVIOUS
<1>1. ASSUME NEW r \in Request, CreateSession(r) \/ ListSessions(r) \/ RequestStep(r)
      PROVE  TypeInv'
  BY <1>1, RequestStepsKeepTypes, StartShellKeepsTypes, RegisterKeepsTypes DEF RequestStep
<1>2. ASSUME NEW w \in Sweeper, SweepBegins(w) \/ SweepStep(w)
      PROVE  TypeInv'
  BY <1>2, SweepBeginsKeepsTypes, SweepClosesKeepsTypes DEF SweepStep
<1>3. ASSUME NEW s \in Session,
             Heartbeat(s) \/ Expire(s) \/ DeleteSession(s) \/ Exit(s) \/ CloseStep(s) \/ Echo(s)
      PROVE  TypeInv'
  BY <1>3, HeartbeatKeepsTypes, ExpireKeepsTypes, CloseIsCalledKeepsTypes, ExitKeepsTypes,
     CloseMarksKeepsTypes, CloseKillsKeepsTypes, CloseUnregistersKeepsTypes, EchoKeepsTypes
     DEF CloseStep
<1>4. ASSUME NEW s \in Session, OutputStep(s)
      PROVE  TypeInv'
  BY <1>4, ReadChunkKeepsTypes, EmitKeepsTypes, SendKeepsTypes, SendFailsKeepsTypes,
     OutputEndsKeepsTypes DEF OutputStep
<1>5. ASSUME NEW c \in Conn,
             FindSession(c) \/ Ping(c) \/ Input(c) \/ Leave(c) \/ Disconnect(c) \/ InputStep(c)
      PROVE  TypeInv'
  BY <1>5, FindSessionKeepsTypes, PingKeepsTypes, InputKeepsTypes, LeaveKeepsTypes,
     DisconnectKeepsTypes, AttachKeepsTypes, ReplayKeepsTypes, ReplayFailsKeepsTypes,
     WriteUnitKeepsTypes, WriteReturnsKeepsTypes DEF InputStep, ReadFails
<1>6. CASE UNCHANGED vars
  BY <1>6 DEF vars, TypeInv, RequestOK, SweepOK, TermOK, WsOK, Flow, Left, Starting
<1> QED
  BY <1>1, <1>2, <1>3, <1>4, <1>5, <1>6 DEF Next, UserStep

(* The structures of the terminals always hold what their Go types say:    *)
(* no counter leaves its bounds, whatever the goroutines' interleaving.    *)
THEOREM TerminalTypesAreCorrect == Spec => []TerminalTypeOK
<1>1. TypeInv => TerminalTypeOK
  BY TypeInvImpliesTypeOK
<1> QED
  BY <1>1, TypeInit, StepKeepsTypes, PTL DEF Spec

(* Detach and the first call of Close touch one field. *)
LEMMA DetachedFields ==
  ASSUME TermOK, NEW c \in Conn
  PROVE  /\ Detached(c) \in [Session -> TerminalSession]
         /\ \A x \in Session :
              /\ Detached(c)[x].shell = term[x].shell /\ Detached(c)[x].closing = term[x].closing
              /\ Detached(c)[x].out = term[x].out /\ Detached(c)[x].to = term[x].to
              /\ Detached(c)[x].emitted = term[x].emitted
              /\ Detached(c)[x].attached = IF x = ws[c].session /\ term[x].attached = c THEN None
                                           ELSE term[x].attached
<1> DEFINE y == ws[c].session
           r == [term[y] EXCEPT !.attached = IF @ = c THEN None ELSE @]
<1>1. CASE y \notin Session
  BY <1>1 DEF Detached, TermOK
<1>2. CASE y \in Session
  <2>1. term[y] \in TerminalSession
    BY <1>2 DEF TermOK
  <2>2. /\ r \in TerminalSession
        /\ r.shell = term[y].shell /\ r.closing = term[y].closing /\ r.out = term[y].out
        /\ r.to = term[y].to /\ r.emitted = term[y].emitted
        /\ r.attached = IF term[y].attached = c THEN None ELSE term[y].attached
    BY <2>1 DEF TerminalSession
  <2>3. Detached(c) = [term EXCEPT ![y] = r]
    BY <1>2 DEF Detached, TermOK
  <2> HIDE DEF r
  <2> QED
    BY <1>2, <2>2, <2>3 DEF TermOK
<1> QED
  BY <1>1, <1>2

LEMMA CloseCalledFields ==
  ASSUME TermOK, NEW s \in Session
  PROVE  /\ CloseCalled(s) \in [Session -> TerminalSession]
         /\ \A x \in Session :
              /\ CloseCalled(s)[x].shell = term[x].shell
              /\ CloseCalled(s)[x].out = term[x].out /\ CloseCalled(s)[x].to = term[x].to
              /\ CloseCalled(s)[x].emitted = term[x].emitted
              /\ CloseCalled(s)[x].attached = term[x].attached
              /\ CloseCalled(s)[x].closing = IF x = s /\ term[x].closing = "no" THEN "called"
                                             ELSE term[x].closing
<1> DEFINE r == [term[s] EXCEPT !.closing = IF @ = "no" THEN "called" ELSE @]
<1>1. term[s] \in TerminalSession
  BY DEF TermOK
<1>2. /\ r \in TerminalSession
      /\ r.shell = term[s].shell /\ r.out = term[s].out /\ r.to = term[s].to
      /\ r.emitted = term[s].emitted /\ r.attached = term[s].attached
      /\ r.closing = IF term[s].closing = "no" THEN "called" ELSE term[s].closing
  BY <1>1 DEF TerminalSession
<1>3. CloseCalled(s) = [term EXCEPT ![s] = r]
  BY DEF CloseCalled, TermOK
<1> HIDE DEF r
<1> QED
  BY <1>2, <1>3 DEF TermOK

-----------------------------------------------------------------------------
(* Shells and the registry *)

(* A shell is killed before its session leaves the registry. *)
KilledFirst ==
  \A s \in Session : term[s].closing \in {"killed", "closed"} => term[s].shell = "exited"

RegistryInv == ShellsAreRegistered /\ KilledFirst

(* What most steps do: no shell starts, none is revived, no session leaves *)
(* the registry, and who registers a session is still about to.            *)
RegistryQuiet ==
  /\ sessions \subseteq sessions'
  /\ \A s \in Session :
       /\ term'[s].shell = "alive" => term[s].shell = "alive"
       /\ term[s].shell = "exited" => term'[s].shell = "exited"
       /\ term'[s].closing \in {"killed", "closed"} =>
            term[s].closing \in {"killed", "closed"} \/ term'[s].shell = "exited"
  /\ \A r \in Request : request[r].at = "register" =>
       request'[r].at = "register" /\ request'[r].session = request[r].session

LEMMA RegistryQuietStep ==
  ASSUME RegistryInv, RegistryQuiet
  PROVE  RegistryInv'
  BY DEF RegistryInv, RegistryQuiet, ShellsAreRegistered, KilledFirst

LEMMA RequestRegistry ==
  ASSUME TypeInv, RegistryInv, NEW r \in Request,
         CreateSession(r) \/ ListSessions(r) \/ RequestStep(r)
  PROVE  RegistryInv'
<1>1. CASE CreateSession(r) \/ ListSessions(r) \/ StartFails(r) \/ SnapshotSession(r)
  <2>1. \A x \in Request : request[x].at = "register" => request'[x] = request[x]
    BY <1>1 DEF TypeInv, RequestOK, CreateSession, ListSessions, StartFails, SnapshotSession
  <2>2. UNCHANGED <<sessions, term>>
    BY <1>1 DEF CreateSession, ListSessions, StartFails, SnapshotSession
  <2> QED
    BY <2>1, <2>2, RegistryQuietStep DEF RegistryQuiet
<1>2. CASE StartShell(r)
  <2>1. PICK s \in Session :
          /\ term[s].shell = "none"
          /\ term' = [term EXCEPT ![s].shell = "alive", ![s].owner = request[r].user]
          /\ request' = [request EXCEPT ![r].at = "register", ![r].session = s]
    BY <1>2 DEF StartShell
  <2>2. /\ term'[s].shell = "alive" /\ term'[s].closing = term[s].closing
        /\ \A x \in Session \ {s} : term'[x] = term[x]
    BY <2>1 DEF TypeInv, TermOK, TerminalSession
  <2>3. /\ request[r].at = "start" /\ UNCHANGED sessions
        /\ request'[r].at = "register" /\ request'[r].session = s
        /\ \A x \in Request \ {r} : request'[x] = request[x]
    BY <1>2, <2>1 DEF TypeInv, RequestOK, RequestState, StartShell
  <2>4. KilledFirst'
    BY <2>1, <2>2 DEF RegistryInv, KilledFirst
  <2>5. ShellsAreRegistered'
    BY <2>2, <2>3 DEF RegistryInv, ShellsAreRegistered
  <2> QED
    BY <2>4, <2>5 DEF RegistryInv
<1>3. CASE Register(r)
  <2> DEFINE s == request[r].session
  <2>1. /\ s \in Session /\ sessions' = sessions \cup {s}
        /\ \A x \in Request \ {r} : request'[x] = request[x]
    BY <1>3 DEF TypeInv, RequestOK, Register
  <2>2. \A x \in Session : term'[x].shell = term[x].shell /\ term'[x].closing = term[x].closing
    BY <1>3 DEF TypeInv, TermOK, TerminalSession, Register
  <2>3. KilledFirst'
    BY <2>2 DEF RegistryInv, KilledFirst
  <2>4. ShellsAreRegistered'
    BY <2>1, <2>2 DEF RegistryInv, ShellsAreRegistered
  <2> QED
    BY <2>3, <2>4 DEF RegistryInv
<1> QED
  BY <1>1, <1>2, <1>3 DEF RequestStep

LEMMA SweepRegistry ==
  ASSUME TypeInv, RegistryInv, NEW w \in Sweeper, SweepBegins(w) \/ SweepStep(w)
  PROVE  RegistryInv'
<1>1. CASE SweepBegins(w) \/ SweepSpares(w) \/ SweepReturns(w)
  BY <1>1, RegistryQuietStep DEF RegistryQuiet, SweepBegins, SweepSpares, SweepReturns
<1>2. CASE SweepCloses(w)
  BY <1>2, RegistryQuietStep
     DEF RegistryQuiet, TypeInv, TermOK, TerminalSession, SweepCloses, CloseCalled
<1> QED
  BY <1>1, <1>2 DEF SweepStep

LEMMA SessionRegistry ==
  ASSUME TypeInv, RegistryInv, NEW s \in Session,
         \/ Heartbeat(s) \/ Expire(s) \/ DeleteSession(s) \/ Exit(s) \/ Echo(s)
         \/ CloseStep(s) \/ OutputStep(s)
  PROVE  RegistryInv'
<1> USE DEF TypeInv, TermOK, TerminalSession
<1>1. CASE Heartbeat(s)
  BY <1>1, RegistryQuietStep DEF RegistryQuiet, Heartbeat
<1>2. CASE Expire(s)
  BY <1>2, RegistryQuietStep DEF RegistryQuiet, Expire
<1>3. CASE DeleteSession(s) \/ WaitReturns(s)
  BY <1>3, RegistryQuietStep DEF RegistryQuiet, DeleteSession, WaitReturns, CloseCalled
<1>4. CASE Exit(s)
  BY <1>4, RegistryQuietStep DEF RegistryQuiet, Exit
<1>5. CASE Echo(s)
  BY <1>5, RegistryQuietStep DEF RegistryQuiet, Echo
<1>6. CASE CloseMarks(s)
  BY <1>6, RegistryQuietStep DEF RegistryQuiet, CloseMarks
<1>7. CASE CloseKills(s)
  BY <1>7, RegistryQuietStep DEF RegistryQuiet, CloseKills
<1>8. CASE CloseUnregisters(s)
  <2>1. term[s].shell = "exited"
    BY <1>8 DEF RegistryInv, KilledFirst, CloseUnregisters
  <2>2. /\ sessions' = sessions \ {s} /\ UNCHANGED request
        /\ \A x \in Session : term'[x].shell = term[x].shell
        /\ \A x \in Session \ {s} : term'[x].closing = term[x].closing
    BY <1>8 DEF CloseUnregisters
  <2>3. ShellsAreRegistered'
    BY <2>1, <2>2 DEF RegistryInv, ShellsAreRegistered
  <2>4. KilledFirst'
    BY <2>1, <2>2 DEF RegistryInv, KilledFirst
  <2> QED
    BY <2>3, <2>4 DEF RegistryInv
<1>9. CASE ReadChunk(s)
  BY <1>9, RegistryQuietStep DEF RegistryQuiet, ReadChunk
<1>10. CASE Emit(s)
  BY <1>10, RegistryQuietStep DEF RegistryQuiet, Emit
<1>11. CASE Send(s)
  BY <1>11, RegistryQuietStep DEF RegistryQuiet, Send
<1>12. CASE SendFails(s)
  <2> DEFINE v == Detached(term[s].to)
  <2>1. term[s].to \in Conn
    BY <1>12 DEF Ordered, SendFails
  <2>2. /\ v \in [Session -> TerminalSession]
        /\ \A x \in Session : v[x].shell = term[x].shell /\ v[x].closing = term[x].closing
    BY <2>1, DetachedFields
  <2>3. term' = [v EXCEPT ![s].out = "read", ![s].to = None] /\ UNCHANGED <<sessions, request>>
    BY <1>12 DEF SendFails
  <2> HIDE DEF v
  <2>4. \A x \in Session : term'[x].shell = term[x].shell /\ term'[x].closing = term[x].closing
    BY <2>2, <2>3
  <2> QED
    BY <2>3, <2>4, RegistryQuietStep DEF RegistryQuiet
<1>13. CASE OutputEnds(s)
  <2> DEFINE v == CloseCalled(s)
  <2>1. /\ v \in [Session -> TerminalSession]
        /\ \A x \in Session :
             /\ v[x].shell = term[x].shell
             /\ v[x].closing \in {"killed", "closed"} => v[x].closing = term[x].closing
    BY CloseCalledFields
  <2> HIDE DEF v
  <2>2. \A x \in Session :
          /\ term'[x].shell = term[x].shell
          /\ term'[x].closing \in {"killed", "closed"} => term'[x].closing = term[x].closing
    <3>1. CASE term' = [term EXCEPT ![s].out = "ended", ![s].made = term[s].read]
      BY <3>1
    <3>2. CASE term' = [v EXCEPT ![s].out = "ended", ![s].made = term[s].read]
      BY <2>1, <3>2
    <3> QED
      BY <1>13, <3>1, <3>2 DEF OutputEnds, v
  <2>3. UNCHANGED <<sessions, request>>
    BY <1>13 DEF OutputEnds
  <2> QED
    BY <2>2, <2>3, RegistryQuietStep DEF RegistryQuiet
<1> HIDE DEF TypeInv, TermOK, TerminalSession
<1> QED
  BY <1>1, <1>2, <1>3, <1>4, <1>5, <1>6, <1>7, <1>8, <1>9, <1>10, <1>11, <1>12, <1>13
     DEF CloseStep, OutputStep

LEMMA ConnRegistry ==
  ASSUME TypeInv, RegistryInv, NEW c \in Conn,
         FindSession(c) \/ Ping(c) \/ Input(c) \/ Leave(c) \/ Disconnect(c) \/ InputStep(c)
  PROVE  RegistryInv'
<1> USE DEF TypeInv, TermOK, TerminalSession
<1>1. CASE FindSession(c) \/ Disconnect(c) \/ Replay(c)
  BY <1>1, RegistryQuietStep DEF RegistryQuiet, FindSession, Disconnect, Replay
<1>2. CASE Ping(c)
  BY <1>2, RegistryQuietStep DEF RegistryQuiet, Ping
<1>3. CASE Input(c)
  BY <1>3, RegistryQuietStep DEF RegistryQuiet, Input
<1>4. CASE Leave(c) \/ ReplayFails(c)
  <2>1. term' = Detached(c) /\ UNCHANGED <<sessions, request>>
    BY <1>4 DEF Leave, ReplayFails
  <2>2. \A x \in Session : term'[x].shell = term[x].shell /\ term'[x].closing = term[x].closing
    BY <2>1, DetachedFields
  <2> QED
    BY <2>1, <2>2, RegistryQuietStep DEF RegistryQuiet
<1>5. CASE Attach(c)
  BY <1>5, RegistryQuietStep DEF RegistryQuiet, Attach
<1>6. CASE WriteUnit(c)
  BY <1>6, RegistryQuietStep DEF RegistryQuiet, WriteUnit
<1>7. CASE WriteReturns(c)
  BY <1>7, RegistryQuietStep DEF RegistryQuiet, WriteReturns
<1> HIDE DEF TypeInv, TermOK, TerminalSession
<1> QED
  BY <1>1, <1>2, <1>3, <1>4, <1>5, <1>6, <1>7, Zenon DEF InputStep, ReadFails

LEMMA StepKeepsRegistry == TypeInv /\ RegistryInv /\ [Next]_vars => RegistryInv'
<1>1. ASSUME TypeInv, RegistryInv, Next
      PROVE  RegistryInv'
  BY <1>1, RequestRegistry, SweepRegistry, SessionRegistry, ConnRegistry DEF Next, UserStep
<1>2. RegistryInv /\ UNCHANGED vars => RegistryInv'
  BY DEF vars, RegistryInv, ShellsAreRegistered, KilledFirst
<1> QED
  BY <1>1, <1>2

(* No shell runs that DELETE, the janitor and the shutdown cannot find:    *)
(* from its start to its end it is registered or about to be.              *)
THEOREM RunningShellsAreRegistered == Spec => []ShellsAreRegistered
<1>1. Init => RegistryInv
  BY DEF Init, RegistryInv, ShellsAreRegistered, KilledFirst
<1>2. RegistryInv => ShellsAreRegistered
  BY DEF RegistryInv
<1> QED
  BY <1>1, <1>2, TypeInit, StepKeepsTypes, StepKeepsRegistry, PTL DEF Spec

-----------------------------------------------------------------------------
(* Detach *)

(* What Detach may do to a session depends on whose connection is gone. *)
Keeps(s) ==
  LET c == term[s].attached IN
  (c # None /\ term'[s].attached = None) => Closed(s)' \/ ~ws'[c].open

LEMMA DetachSparesSuccessor ==
  ASSUME TypeInv, NEW c \in Conn, ~ws'[c].open,
         \A s \in Session : term'[s].attached = Detached(c)[s].attached
  PROVE  \A s \in Session : Keeps(s)
  BY DetachedFields DEF TypeInv, Keeps

LEMMA StepKeepsSuccessor ==
  ASSUME TypeInv, [Next]_vars, NEW s \in Session
  PROVE  Keeps(s)
<1> USE DEF TypeInv, TermOK, TerminalSession
<1>1. ASSUME NEW r \in Request, CreateSession(r) \/ ListSessions(r) \/ RequestStep(r)
      PROVE  Keeps(s)
  <2>1. CASE StartShell(r)
    BY <2>1 DEF StartShell, Keeps
  <2>2. CASE Register(r)
    BY <2>2 DEF Register, Keeps
  <2>3. CASE CreateSession(r) \/ ListSessions(r) \/ StartFails(r) \/ SnapshotSession(r)
    BY <2>3 DEF CreateSession, ListSessions, StartFails, SnapshotSession, Keeps
  <2> QED
    BY <1>1, <2>1, <2>2, <2>3 DEF RequestStep
<1>2. ASSUME NEW w \in Sweeper, SweepBegins(w) \/ SweepStep(w)
      PROVE  Keeps(s)
  BY <1>2 DEF SweepStep, SweepBegins, SweepSpares, SweepReturns, SweepCloses, CloseCalled, Keeps
<1>3. ASSUME NEW x \in Session,
             Heartbeat(x) \/ Expire(x) \/ DeleteSession(x) \/ Exit(x) \/ WaitReturns(x)
      PROVE  Keeps(s)
  BY <1>3 DEF Heartbeat, Expire, DeleteSession, Exit, WaitReturns, CloseCalled, Keeps
<1>4. ASSUME NEW x \in Session, CloseMarks(x)
      PROVE  Keeps(s)
  BY <1>4 DEF CloseMarks, Closed, Keeps
<1>5. ASSUME NEW x \in Session, CloseKills(x) \/ CloseUnregisters(x) \/ Echo(x) \/ ReadChunk(x)
      PROVE  Keeps(s)
  BY <1>5 DEF CloseKills, CloseUnregisters, Echo, ReadChunk, Keeps
<1>6. ASSUME NEW x \in Session, Emit(x) \/ Send(x) \/ OutputEnds(x)
      PROVE  Keeps(s)
  <2> DEFINE v == CloseCalled(x)
  <2>1. /\ v \in [Session -> TerminalSession]
        /\ \A y \in Session : v[y].attached = term[y].attached
    BY CloseCalledFields
  <2> HIDE DEF v
  <2>2. term'[s].attached = term[s].attached
    <3>1. CASE Emit(x)
      BY <3>1 DEF Emit
    <3>2. CASE Send(x)
      BY <3>2 DEF Send
    <3>3. CASE term' = [term EXCEPT ![x].out = "ended", ![x].made = term[x].read]
      BY <3>3
    <3>4. CASE term' = [v EXCEPT ![x].out = "ended", ![x].made = term[x].read]
      BY <2>1, <3>4
    <3> QED
      BY <1>6, <3>1, <3>2, <3>3, <3>4 DEF OutputEnds, v
  <2> QED
    BY <2>2 DEF Keeps
<1>7. ASSUME NEW x \in Session, SendFails(x)
      PROVE  Keeps(s)
  <2>1. term[x].to \in Conn /\ ~ws'[term[x].to].open
    BY <1>7 DEF Ordered, SendFails
  <2>2. \A y \in Session : term'[y].attached = Detached(term[x].to)[y].attached
    BY <1>7, <2>1, DetachedFields DEF SendFails
  <2> QED
    BY <2>1, <2>2, DetachSparesSuccessor
<1>8. ASSUME NEW c \in Conn, Leave(c) \/ ReplayFails(c)
      PROVE  Keeps(s)
  <2>1. ws[c] \in WebSocket /\ ws[c].old \in Conn \cup {None}
    BY DEF WsOK, WebSocket
  <2>2. ~ws'[c].open
    <3>1. /\ ClosedConn(c) \in [Conn -> WebSocket] /\ ~ClosedConn(c)[c].open
          /\ ClosedConn(ws[c].old) \in [Conn -> WebSocket]
          /\ ClosedConn(ws[c].old)[c] = ws[c] \/ ~ClosedConn(ws[c].old)[c].open
      BY <2>1, ClosedConnKeeps
    <3>2. CASE Leave(c)
      BY <3>1, <3>2 DEF WebSocket, Leave
    <3>3. CASE ReplayFails(c)
      <4> DEFINE v == ClosedConn(ws[c].old)
      <4>1. ~v[c].open
        BY <3>1, <3>3 DEF ReplayFails
      <4>2. ws' = [v EXCEPT ![c].at = Reads(c), ![c].old = None, ![c].replay = <<>>]
        BY <3>3 DEF ReplayFails
      <4> HIDE DEF v
      <4>3. v[c] \in WebSocket
        BY <3>1 DEF v
      <4>4. ws'[c].open = v[c].open
        BY <3>1, <4>2, <4>3 DEF WebSocket, v
      <4> QED
        BY <4>1, <4>4
    <3> QED
      BY <1>8, <3>2, <3>3
  <2> HIDE DEF TypeInv, TermOK, TerminalSession
  <2>3. term' = Detached(c)
    BY <1>8, Zenon DEF Leave, ReplayFails
  <2> QED
    BY <2>2, <2>3, DetachSparesSuccessor
<1>9. ASSUME NEW c \in Conn, FindSession(c) \/ Disconnect(c) \/ Replay(c)
      PROVE  Keeps(s)
  BY <1>9 DEF FindSession, Disconnect, Replay, Keeps
<1>10. ASSUME NEW c \in Conn, Attach(c)
      PROVE  Keeps(s)
  BY <1>10, NoneIsNothing DEF Attach, Keeps
<1>11. ASSUME NEW c \in Conn, Ping(c) \/ Input(c) \/ WriteUnit(c) \/ WriteReturns(c)
      PROVE  Keeps(s)
  BY <1>11 DEF Ping, Input, WriteUnit, WriteReturns, Keeps
<1>12. CASE UNCHANGED vars
  BY <1>12 DEF vars, Keeps
<1> HIDE DEF TypeInv, TermOK, TerminalSession
<1> QED
  BY <1>1, <1>2, <1>3, <1>4, <1>5, <1>6, <1>7, <1>8, <1>9, <1>10, <1>11, <1>12
     DEF Next, UserStep, CloseStep, OutputStep, InputStep, ReadFails

(* A browser that took a session over keeps it until its own connection    *)
(* ends or the session is closed.                                          *)
THEOREM SuccessorsKeepTheirSession == Spec => SuccessorKeepsSession
<1>1. TypeInv /\ [Next]_vars =>
        [\A s \in Session :
           LET c == term[s].attached IN
           (c # None /\ term'[s].attached = None) => Closed(s)' \/ ~ws'[c].open]_vars
  BY StepKeepsSuccessor DEF Keeps
<1> QED
  BY <1>1, TypeInit, StepKeepsTypes, PTL DEF Spec, SuccessorKeepsSession

-----------------------------------------------------------------------------
(* The scrollback *)

Has(seq, v) == \E i \in DOMAIN seq : seq[i] = v
Distinct(seq) == \A i, j \in DOMAIN seq : seq[i] = seq[j] => i = j

LEMMA AppendHas ==
  ASSUME NEW seq \in Seq(Chunk), NEW e \in Chunk
  PROVE  /\ \A v : Has(Append(seq, e), v) <=> Has(seq, v) \/ v = e
         /\ Distinct(seq) /\ ~Has(seq, e) => Distinct(Append(seq, e))
<1> DEFINE a == Append(seq, e)
<1>1. /\ DOMAIN a = 1 .. Len(seq) + 1 /\ DOMAIN seq = 1 .. Len(seq) /\ Len(seq) \in Nat
      /\ a[Len(seq) + 1] = e /\ \A i \in 1 .. Len(seq) : a[i] = seq[i]
  OBVIOUS
<1> HIDE DEF a
<1>2. \A v : Has(a, v) <=> Has(seq, v) \/ v = e
  BY <1>1 DEF Has
<1>3. ASSUME Distinct(seq), ~Has(seq, e)
      PROVE  Distinct(a)
  <2>1. \A i \in 1 .. Len(seq) : a[i] # e
    BY <1>1, <1>3 DEF Has
  <2>2. SUFFICES ASSUME NEW i \in DOMAIN a, NEW j \in DOMAIN a, a[i] = a[j]
                 PROVE  i = j
    BY DEF Distinct
  <2>3. CASE i = Len(seq) + 1 \/ j = Len(seq) + 1
    BY <1>1, <2>1, <2>2, <2>3
  <2>4. CASE i # Len(seq) + 1 /\ j # Len(seq) + 1
    BY <1>1, <1>3, <2>2, <2>4 DEF Distinct
  <2> QED
    BY <2>3, <2>4
<1> QED
  BY <1>2, <1>3 DEF a

LEMMA ConcatHas ==
  ASSUME NEW a \in Seq(Chunk), NEW b \in Seq(Chunk)
  PROVE  /\ \A v : Has(a \o b, v) <=> Has(a, v) \/ Has(b, v)
         /\ Distinct(a) /\ Distinct(b) /\ (\A v : ~(Has(a, v) /\ Has(b, v))) => Distinct(a \o b)
<1> DEFINE c == a \o b
<1>1. /\ DOMAIN c = 1 .. Len(a) + Len(b) /\ DOMAIN a = 1 .. Len(a) /\ DOMAIN b = 1 .. Len(b)
      /\ Len(a) \in Nat /\ Len(b) \in Nat
      /\ \A i \in 1 .. Len(a) : c[i] = a[i]
      /\ \A i \in 1 .. Len(a) + Len(b) : i > Len(a) => c[i] = b[i - Len(a)]
  OBVIOUS
<1> HIDE DEF c
<1>2. \A i \in 1 .. Len(b) : i + Len(a) \in DOMAIN c /\ c[i + Len(a)] = b[i]
  BY <1>1
<1>3. ASSUME NEW v
      PROVE  Has(c, v) <=> Has(a, v) \/ Has(b, v)
  <2>1. ASSUME NEW i \in DOMAIN c, c[i] = v
        PROVE  Has(a, v) \/ Has(b, v)
    <3>1. CASE i <= Len(a)
      BY <1>1, <2>1, <3>1 DEF Has
    <3>2. CASE i > Len(a)
      <4>1. i - Len(a) \in DOMAIN b /\ b[i - Len(a)] = v
        BY <1>1, <2>1, <3>2
      <4> QED
        BY <4>1 DEF Has
    <3> QED
      BY <1>1, <3>1, <3>2
  <2>2. Has(a, v) => Has(c, v)
    BY <1>1 DEF Has
  <2>3. Has(b, v) => Has(c, v)
    BY <1>2 DEF Has
  <2> QED
    BY <2>1, <2>2, <2>3 DEF Has
<1>4. ASSUME Distinct(a), Distinct(b), \A v : ~(Has(a, v) /\ Has(b, v))
      PROVE  Distinct(c)
  <2>1. \A i \in DOMAIN a, j \in DOMAIN b : a[i] # b[j]
    BY <1>4 DEF Has
  <2>2. SUFFICES ASSUME NEW i \in DOMAIN c, NEW j \in DOMAIN c, c[i] = c[j]
                 PROVE  i = j
    BY DEF Distinct
  <2>3. CASE i <= Len(a) /\ j <= Len(a)
    BY <1>1, <1>4, <2>2, <2>3 DEF Distinct
  <2>4. CASE i > Len(a) /\ j > Len(a)
    <3>1. i - Len(a) \in DOMAIN b /\ j - Len(a) \in DOMAIN b /\ b[i - Len(a)] = b[j - Len(a)]
      BY <1>1, <2>2, <2>4
    <3>2. i - Len(a) = j - Len(a)
      BY <1>4, <3>1 DEF Distinct
    <3> QED
      BY <1>1, <3>2
  <2>5. CASE i <= Len(a) /\ j > Len(a)
    <3>1. i \in DOMAIN a /\ j - Len(a) \in DOMAIN b /\ a[i] = b[j - Len(a)]
      BY <1>1, <2>2, <2>5
    <3> QED
      BY <2>1, <3>1
  <2>6. CASE i > Len(a) /\ j <= Len(a)
    <3>1. j \in DOMAIN a /\ i - Len(a) \in DOMAIN b /\ a[j] = b[i - Len(a)]
      BY <1>1, <2>2, <2>6
    <3> QED
      BY <2>1, <3>1
  <2> QED
    BY <1>1, <2>3, <2>4, <2>5, <2>6
<1> QED
  BY <1>3, <1>4 DEF c

(* The scrollback holds the newest chunks, each once. *)
InScrollback(v, n) == v \in Nat /\ v > 0 /\ v <= n /\ n - v < BufferLimit

LEMMA BufferHas ==
  ASSUME TermOK, NEW s \in Session
  PROVE  Distinct(Buffer(s)) /\ \A v : Has(Buffer(s), v) <=> InScrollback(v, term[s].emitted)
<1> DEFINE n == term[s].emitted
           size == IF n < BufferLimit THEN n ELSE BufferLimit
<1>1. n \in Nat /\ BufferLimit \in Nat \ {0}
  BY LimitsAssumption DEF TermOK, TerminalSession
<1>2. size \in Nat /\ size <= n /\ size <= BufferLimit /\ (size = n \/ size = BufferLimit)
  BY <1>1
<1>3. Buffer(s) = [i \in 1 .. size |-> n - size + i]
  BY DEF Buffer
<1> HIDE DEF n, size
<1>4. Distinct(Buffer(s))
  BY <1>1, <1>2, <1>3 DEF Distinct
<1>5. ASSUME NEW v, Has(Buffer(s), v)
      PROVE  InScrollback(v, n)
  <2>1. PICK i \in 1 .. size : n - size + i = v
    BY <1>3, <1>5 DEF Has
  <2> QED
    BY <1>1, <1>2, <2>1 DEF InScrollback
<1>6. ASSUME NEW v, InScrollback(v, n)
      PROVE  Has(Buffer(s), v)
  <2>1. v + size - n \in 1 .. size /\ n - size + (v + size - n) = v
    BY <1>1, <1>2, <1>6 DEF InScrollback
  <2> QED
    BY <1>3, <2>1 DEF Has
<1> QED
  BY <1>4, <1>5, <1>6 DEF n

(* A session knows only the WebSocket that is attached to it. *)
Attachments ==
  \A s \in Session, c \in Conn : term[s].attached = c \/ term[s].to = c =>
    ws[c].session = s /\ ws[c].at \notin {"none", "found"}

(* What a WebSocket shows before it is attached and after it is closed. *)
Blank ==
  \A c \in Conn :
    /\ ws[c].at \in {"none", "found"} \/ ~ws[c].open => ws[c].received = <<>>
    /\ ws[c].at # "replay" => ws[c].replay = <<>>
    /\ ws[c].old # c

(* The replay and the live output do not meet, and what is about to be     *)
(* sent was not shown before.                                              *)
Shows(c, v) == Has(ws[c].received, v) \/ Has(ws[c].replay, v)
SeenOnce ==
  \A c \in Conn :
    /\ Distinct(ws[c].received) /\ Distinct(ws[c].replay)
    /\ \A v \in Chunk : ~(Has(ws[c].received, v) /\ Has(ws[c].replay, v))
    /\ \A v \in Chunk : Shows(c, v) =>
         /\ v <= term[ws[c].session].emitted
         /\ term[ws[c].session].to = c => v # term[ws[c].session].emitted

(* The attached browser has the scrollback: shown, in the replay, or about *)
(* to be sent.                                                             *)
SeenAll ==
  \A s \in Session, c \in Conn : term[s].attached = c /\ ws[c].open =>
    \A v \in Chunk : InScrollback(v, term[s].emitted) =>
      Shows(c, v) \/ (term[s].to = c /\ v = term[s].emitted)

ScrollInv == Attachments /\ Blank /\ SeenOnce /\ SeenAll

LEMMA ScrollInvImpliesShownOnce == TypeInv /\ ScrollInv => ScrollbackShownOnce
<1> SUFFICES ASSUME TypeInv, ScrollInv, NEW c \in Conn
             PROVE  LET seen == ws[c].received
                        s == ws[c].session IN
                    /\ \A i, j \in DOMAIN seen : seen[i] = seen[j] => i = j
                    /\ (Replayed(c) /\ ws[c].open /\ term[s].attached = c /\ term[s].to # c) =>
                         \A i \in DOMAIN Buffer(s) : \E j \in DOMAIN seen : seen[j] = Buffer(s)[i]
  BY DEF ScrollbackShownOnce
<1> DEFINE s == ws[c].session
<1>1. Distinct(ws[c].received)
  BY DEF ScrollInv, SeenOnce
<1>2. ASSUME Replayed(c), ws[c].open, term[s].attached = c, term[s].to # c,
             NEW i \in DOMAIN Buffer(s)
      PROVE  Has(ws[c].received, Buffer(s)[i])
  <2>1. s \in Session
    BY <1>2 DEF TypeInv, WsOK, Replayed
  <2>2. ws[c].replay = <<>>
    BY <1>2 DEF ScrollInv, Blank, Replayed
  <2>3. Has(Buffer(s), Buffer(s)[i]) /\ Buffer(s) \in Seq(Chunk)
    BY <1>2, <2>1, BufferType DEF Has, TypeInv
  <2>4. Buffer(s)[i] \in Chunk /\ InScrollback(Buffer(s)[i], term[s].emitted)
    BY <2>1, <2>3, BufferHas DEF TypeInv
  <2>5. Shows(c, Buffer(s)[i])
    BY <1>2, <2>1, <2>4 DEF ScrollInv, SeenAll
  <2> QED
    BY <2>2, <2>5 DEF Shows, Has
<1> QED
  BY <1>1, <1>2 DEF Distinct, Has

(* Most steps leave attachments and output alone, or only detach and close. *)
ScrollQuiet ==
  /\ \A s \in Session :
       /\ term'[s].attached \in {term[s].attached, None}
       /\ term'[s].emitted = term[s].emitted
       /\ \/ term'[s].to = term[s].to
          \/ term'[s].to = None /\ \A c \in Conn : c = term[s].to => ~ws'[c].open
  /\ \A c \in Conn :
       /\ ws'[c].session = ws[c].session /\ ws'[c].replay = ws[c].replay
       /\ ws'[c].old = ws[c].old
       /\ ws'[c].at \in {"none", "found"} <=> ws[c].at \in {"none", "found"}
       /\ ws'[c].at = "replay" <=> ws[c].at = "replay"
       /\ \/ ws'[c].open = ws[c].open /\ ws'[c].received = ws[c].received
          \/ ~ws'[c].open /\ ws'[c].received = <<>>

LEMMA ScrollQuietStep ==
  ASSUME TypeInv, ScrollInv, ScrollQuiet
  PROVE  ScrollInv'
<1>1. Attachments'
  BY NoneIsNothing DEF ScrollInv, ScrollQuiet, Attachments
<1>2. Blank'
  BY DEF ScrollInv, ScrollQuiet, Blank
<1>3. \A c \in Conn, v \in Chunk : Has(ws'[c].received, v) => Has(ws[c].received, v)
  BY DEF ScrollQuiet, Has
<1>4. \A c \in Conn, v \in Chunk : Has(ws'[c].replay, v) => Has(ws[c].replay, v)
  BY DEF ScrollQuiet
<1>5. SeenOnce'
  <2> SUFFICES ASSUME NEW c \in Conn
               PROVE  /\ Distinct(ws'[c].received) /\ Distinct(ws'[c].replay)
                      /\ \A v \in Chunk : ~(Has(ws'[c].received, v) /\ Has(ws'[c].replay, v))
                      /\ \A v \in Chunk : Shows(c, v)' =>
                           /\ v <= term'[ws'[c].session].emitted
                           /\ term'[ws'[c].session].to = c => v # term'[ws'[c].session].emitted
    BY DEF SeenOnce
  <2>1. Distinct(ws'[c].received) /\ Distinct(ws'[c].replay)
    BY DEF ScrollInv, ScrollQuiet, SeenOnce, Distinct
  <2>2. \A v \in Chunk : Shows(c, v)' => Shows(c, v) /\ ws[c].session \in Session
    <3>1. ws[c].session \notin Session => ws[c].received = <<>> /\ ws[c].replay = <<>>
      BY DEF TypeInv, WsOK, ScrollInv, Blank
    <3> QED
      BY <1>3, <1>4, <3>1 DEF Shows, Has
  <2>3. \A v \in Chunk : ~(Has(ws'[c].received, v) /\ Has(ws'[c].replay, v))
    BY <1>3, <1>4 DEF ScrollInv, SeenOnce
  <2>4. ASSUME NEW v \in Chunk, Shows(c, v)'
        PROVE  /\ v <= term'[ws'[c].session].emitted
               /\ term'[ws'[c].session].to = c => v # term'[ws'[c].session].emitted
    BY <2>2, <2>4, NoneIsNothing DEF ScrollInv, ScrollQuiet, SeenOnce
  <2> QED
    BY <2>1, <2>3, <2>4
<1>6. SeenAll'
  <2> SUFFICES ASSUME NEW s \in Session, NEW c \in Conn, term'[s].attached = c, ws'[c].open,
                      NEW v \in Chunk, InScrollback(v, term'[s].emitted)
               PROVE  Shows(c, v)' \/ (term'[s].to = c /\ v = term'[s].emitted)
    BY DEF SeenAll
  <2>1. term[s].attached = c /\ ws[c].open /\ ws'[c].received = ws[c].received
    BY NoneIsNothing DEF ScrollQuiet
  <2>2. Shows(c, v)' <=> Shows(c, v)
    BY <2>1 DEF ScrollQuiet, Shows
  <2> QED
    BY <2>1, <2>2 DEF ScrollInv, ScrollQuiet, SeenAll
<1> QED
  BY <1>1, <1>2, <1>5, <1>6 DEF ScrollInv

(* ScrollQuiet by parts: sessions that at most detach, connections that at *)
(* most close.                                                             *)
TermQuiet ==
  \A s \in Session : /\ term'[s].attached \in {term[s].attached, None}
                     /\ term'[s].emitted = term[s].emitted /\ term'[s].to = term[s].to
WsQuiet ==
  \A c \in Conn :
    /\ ws'[c].session = ws[c].session /\ ws'[c].replay = ws[c].replay
    /\ ws'[c].old = ws[c].old
    /\ ws'[c].at \in {"none", "found"} <=> ws[c].at \in {"none", "found"}
    /\ ws'[c].at = "replay" <=> ws[c].at = "replay"
    /\ \/ ws'[c].open = ws[c].open /\ ws'[c].received = ws[c].received
       \/ ~ws'[c].open /\ ws'[c].received = <<>>

LEMMA QuietPartsStep ==
  ASSUME TypeInv, ScrollInv, TermQuiet, WsQuiet
  PROVE  ScrollInv'
  BY ScrollQuietStep DEF ScrollQuiet, TermQuiet, WsQuiet

LEMMA UnchangedIsQuiet ==
  /\ UNCHANGED term => TermQuiet
  /\ UNCHANGED ws => WsQuiet
  BY DEF TermQuiet, WsQuiet

LEMMA CloseCalledIsQuiet ==
  ASSUME TypeInv, NEW s \in Session, term' = CloseCalled(s)
  PROVE  TermQuiet
  BY CloseCalledFields DEF TypeInv, TermQuiet

LEMMA DetachedIsQuiet ==
  ASSUME TypeInv, NEW c \in Conn, term' = Detached(c)
  PROVE  TermQuiet
  BY DetachedFields DEF TypeInv, TermQuiet

LEMMA ClosedConnIsQuiet ==
  ASSUME TypeInv, NEW c \in Conn \cup {None}, ws' = ClosedConn(c)
  PROVE  WsQuiet
  BY ClosedConnKeeps DEF TypeInv, WsQuiet

LEMMA OneConnIsQuiet ==
  ASSUME TypeInv, NEW c \in Conn, NEW u,
         \/ ws' = [ws EXCEPT ![c] = u]
         \/ \A d \in Conn : ws'[d] = IF d = c THEN u ELSE ws[d],
         ws[c].at \in {"read", "write"}, u.at \in {"read", "write", "end"},
         u.session = ws[c].session, u.old = ws[c].old, u.replay = ws[c].replay,
         \/ u.open = ws[c].open /\ u.received = ws[c].received
         \/ ~u.open /\ u.received = <<>>
  PROVE  WsQuiet
<1>1. \A d \in Conn : ws'[d] = IF d = c THEN u ELSE ws[d]
  BY DEF TypeInv, WsOK
<1>2. ASSUME NEW d \in Conn
      PROVE  /\ ws'[d].session = ws[d].session /\ ws'[d].replay = ws[d].replay
             /\ ws'[d].old = ws[d].old
             /\ ws'[d].at \in {"none", "found"} <=> ws[d].at \in {"none", "found"}
             /\ ws'[d].at = "replay" <=> ws[d].at = "replay"
             /\ \/ ws'[d].open = ws[d].open /\ ws'[d].received = ws[d].received
                \/ ~ws'[d].open /\ ws'[d].received = <<>>
  <2>1. CASE d = c
    <3>1. ws'[d] = u
      BY <1>1, <2>1
    <3> QED
      BY <2>1, <3>1
  <2>2. CASE d # c
    BY <1>1, <2>2
  <2> QED
    BY <2>1, <2>2
<1> QED
  BY <1>2 DEF WsQuiet

LEMMA RequestScroll ==
  ASSUME TypeInv, ScrollInv, NEW r \in Request,
         CreateSession(r) \/ ListSessions(r) \/ RequestStep(r)
  PROVE  ScrollInv'
<1>1. UNCHANGED ws
  BY DEF CreateSession, ListSessions, RequestStep, StartShell, StartFails, Register, SnapshotSession
<1>2. TermQuiet
  <2>1. CASE UNCHANGED term
    BY <2>1, UnchangedIsQuiet
  <2>2. CASE StartShell(r)
    BY <2>2 DEF TypeInv, TermOK, TerminalSession, TermQuiet, StartShell
  <2>3. CASE Register(r)
    BY <2>3 DEF TypeInv, TermOK, TerminalSession, TermQuiet, Register
  <2> QED
    BY <2>1, <2>2, <2>3
       DEF CreateSession, ListSessions, RequestStep, StartFails, SnapshotSession
<1> QED
  BY <1>1, <1>2, QuietPartsStep, UnchangedIsQuiet

LEMMA SweepScroll ==
  ASSUME TypeInv, ScrollInv, NEW w \in Sweeper, SweepBegins(w) \/ SweepStep(w)
  PROVE  ScrollInv'
<1>1. UNCHANGED ws
  BY DEF SweepBegins, SweepStep, SweepSpares, SweepCloses, SweepReturns
<1>2. TermQuiet
  <2>1. CASE UNCHANGED term
    BY <2>1, UnchangedIsQuiet
  <2>2. CASE SweepCloses(w)
    <3>1. sweep[w].session \in Session
      BY <2>2 DEF TypeInv, SweepOK, SweepCloses
    <3> QED
      BY <2>2, <3>1, CloseCalledIsQuiet DEF SweepCloses
  <2> QED
    BY <2>1, <2>2 DEF SweepBegins, SweepStep, SweepSpares, SweepReturns
<1> QED
  BY <1>1, <1>2, QuietPartsStep, UnchangedIsQuiet

LEMMA QuietSessionScroll ==
  ASSUME TypeInv, ScrollInv, NEW s \in Session,
         \/ Heartbeat(s) \/ Expire(s) \/ DeleteSession(s) \/ Exit(s) \/ Echo(s)
         \/ CloseStep(s) \/ ReadChunk(s) \/ OutputEnds(s)
  PROVE  ScrollInv'
<1>1. WsQuiet
  <2>1. CASE UNCHANGED ws
    BY <2>1, UnchangedIsQuiet
  <2>2. CASE CloseKills(s)
    <3>1. term[s].last \in Conn \cup {None}
      BY DEF TypeInv, TermOK, TerminalSession
    <3> QED
      BY <2>2, <3>1, ClosedConnIsQuiet DEF CloseKills
  <2> QED
    BY <2>1, <2>2 DEF Heartbeat, Expire, DeleteSession, Exit, Echo, CloseStep, WaitReturns,
                      CloseMarks, CloseUnregisters, ReadChunk, OutputEnds
<1>2. TermQuiet
  <2>1. CASE Heartbeat(s)
    BY <2>1 DEF TypeInv, TermOK, TerminalSession, TermQuiet, Heartbeat
  <2>2. CASE Expire(s)
    BY <2>2 DEF TypeInv, TermOK, TerminalSession, TermQuiet, Expire
  <2>3. CASE DeleteSession(s) \/ WaitReturns(s)
    BY <2>3, CloseCalledIsQuiet DEF DeleteSession, WaitReturns
  <2>4. CASE Exit(s)
    BY <2>4 DEF TypeInv, TermOK, TerminalSession, TermQuiet, Exit
  <2>5. CASE Echo(s)
    BY <2>5 DEF TypeInv, TermOK, TerminalSession, TermQuiet, Echo
  <2>6. CASE CloseMarks(s)
    BY <2>6 DEF TypeInv, TermOK, TerminalSession, TermQuiet, CloseMarks
  <2>7. CASE CloseKills(s)
    BY <2>7 DEF TypeInv, TermOK, TerminalSession, TermQuiet, CloseKills
  <2>8. CASE CloseUnregisters(s)
    BY <2>8 DEF TypeInv, TermOK, TerminalSession, TermQuiet, CloseUnregisters
  <2>9. CASE ReadChunk(s)
    BY <2>9 DEF TypeInv, TermOK, TerminalSession, TermQuiet, ReadChunk
  <2>10. CASE OutputEnds(s)
    <3> DEFINE v == CloseCalled(s)
    <3>1. /\ v \in [Session -> TerminalSession]
          /\ \A x \in Session : /\ v[x].attached = term[x].attached
                                /\ v[x].emitted = term[x].emitted /\ v[x].to = term[x].to
      BY CloseCalledFields DEF TypeInv
    <3> HIDE DEF v
    <3>2. CASE term' = [term EXCEPT ![s].out = "ended", ![s].made = term[s].read]
      BY <3>2 DEF TypeInv, TermOK, TerminalSession, TermQuiet
    <3>3. CASE term' = [v EXCEPT ![s].out = "ended", ![s].made = term[s].read]
      BY <3>1, <3>3 DEF TerminalSession, TermQuiet
    <3> QED
      BY <2>10, <3>2, <3>3 DEF OutputEnds, v
  <2> QED
    BY <2>1, <2>2, <2>3, <2>4, <2>5, <2>6, <2>7, <2>8, <2>9, <2>10 DEF CloseStep
<1> QED
  BY <1>1, <1>2, QuietPartsStep

LEMMA QuietConnScroll ==
  ASSUME TypeInv, ScrollInv, NEW c \in Conn,
         Ping(c) \/ Input(c) \/ WriteUnit(c) \/ WriteReturns(c) \/ Leave(c) \/ Disconnect(c)
  PROVE  ScrollInv'
<1>1. ws[c] \in WebSocket
  BY DEF TypeInv, WsOK
<1>2. WsQuiet
  <2>1. CASE Ping(c)
    <3> DEFINE u == [ws[c] EXCEPT !.at = Reads(c)]
    <3>1. /\ u.at \in {"read", "end"} /\ ws[c].at = "read"
          /\ u.session = ws[c].session /\ u.old = ws[c].old /\ u.open = ws[c].open
          /\ u.replay = ws[c].replay /\ u.received = ws[c].received
      BY <1>1, <2>1, ReadsType DEF WebSocket, Ping
    <3>2. ws' = [ws EXCEPT ![c] = u]
      BY <2>1 DEF Ping, TypeInv, WsOK, WebSocket
    <3> HIDE DEF u
    <3> QED
      BY <3>1, <3>2, OneConnIsQuiet
  <2>2. CASE Input(c)
    <3>1. PICK n : ws' = [ws EXCEPT ![c].at = "write", ![c].left = n]
      BY <2>2 DEF Input
    <3> DEFINE u == [ws[c] EXCEPT !.at = "write", !.left = n]
    <3>2. /\ u.at = "write" /\ ws[c].at = "read"
          /\ u.session = ws[c].session /\ u.old = ws[c].old /\ u.open = ws[c].open
          /\ u.replay = ws[c].replay /\ u.received = ws[c].received
      BY <1>1, <2>2 DEF WebSocket, Input
    <3>3. ws' = [ws EXCEPT ![c] = u]
      BY <1>1, <3>1 DEF TypeInv, WsOK, WebSocket
    <3> HIDE DEF u
    <3> QED
      BY <3>2, <3>3, OneConnIsQuiet
  <2>3. CASE WriteUnit(c)
    BY <2>3 DEF TypeInv, WsOK, WebSocket, WsQuiet, WriteUnit
  <2>4. CASE WriteReturns(c)
    <3> DEFINE u == [ws[c] EXCEPT !.at = Reads(c), !.left = 0]
    <3>1. /\ u.at \in {"read", "end"} /\ ws[c].at = "write"
          /\ u.session = ws[c].session /\ u.old = ws[c].old /\ u.open = ws[c].open
          /\ u.replay = ws[c].replay /\ u.received = ws[c].received
      BY <1>1, <2>4, ReadsType DEF WebSocket, WriteReturns
    <3>2. ws' = [ws EXCEPT ![c] = u]
      BY <2>4 DEF WriteReturns, TypeInv, WsOK, WebSocket
    <3> HIDE DEF u
    <3> QED
      BY <3>1, <3>2, OneConnIsQuiet
  <2>5. CASE Leave(c)
    <3> DEFINE v == ClosedConn(c)
    <3>1. /\ v \in [Conn -> WebSocket]
          /\ \A d \in Conn : /\ v[d].at = ws[d].at /\ v[d].session = ws[d].session
                             /\ v[d].old = ws[d].old /\ v[d].replay = ws[d].replay
                             /\ d # c => v[d] = ws[d]
                             /\ d = c => ~v[d].open /\ v[d].received = <<>>
      BY ClosedConnKeeps DEF TypeInv
    <3>2. ws' = [v EXCEPT ![c].at = "end"] /\ ws[c].at = "read"
      BY <2>5 DEF Leave
    <3> HIDE DEF v
    <3> DEFINE u == [v[c] EXCEPT !.at = "end"]
    <3>3. /\ u.at = "end" /\ u.session = ws[c].session /\ u.old = ws[c].old
          /\ u.replay = ws[c].replay /\ ~u.open /\ u.received = <<>>
      <4>1. v[c] \in WebSocket
        BY <3>1
      <4>2. /\ v[c].session = ws[c].session /\ v[c].old = ws[c].old
            /\ v[c].replay = ws[c].replay /\ ~v[c].open /\ v[c].received = <<>>
        BY <3>1
      <4> QED
        BY <4>1, <4>2 DEF WebSocket
    <3>4. ws' = [v EXCEPT ![c] = u]
      BY <3>2
    <3> HIDE DEF u
    <3>5. \A d \in Conn : ws'[d] = IF d = c THEN u ELSE ws[d]
      <4>1. \A d \in Conn : ws'[d] = IF d = c THEN u ELSE v[d]
        BY <3>1, <3>4
      <4>2. \A d \in Conn : d # c => v[d] = ws[d]
        BY <3>1
      <4> QED
        BY <4>1, <4>2
    <3> QED
      BY <3>2, <3>3, <3>5, OneConnIsQuiet
  <2>6. CASE Disconnect(c)
    BY <2>6, ClosedConnIsQuiet DEF Disconnect
  <2> QED
    BY <2>1, <2>2, <2>3, <2>4, <2>5, <2>6
<1>3. TermQuiet
  <2>1. CASE Ping(c)
    BY <2>1 DEF TypeInv, TermOK, TerminalSession, TermQuiet, Ping
  <2>2. CASE Input(c)
    BY <2>2 DEF TypeInv, TermOK, TerminalSession, TermQuiet, Input
  <2>3. CASE WriteUnit(c)
    BY <2>3 DEF TypeInv, TermOK, TerminalSession, TermQuiet, WriteUnit
  <2>4. CASE WriteReturns(c)
    BY <2>4 DEF TypeInv, TermOK, TerminalSession, TermQuiet, WriteReturns
  <2>5. CASE Leave(c)
    BY <2>5, DetachedIsQuiet DEF Leave
  <2>6. CASE Disconnect(c)
    BY <2>6, UnchangedIsQuiet DEF Disconnect
  <2> QED
    BY <2>1, <2>2, <2>3, <2>4, <2>5, <2>6
<1> QED
  BY <1>2, <1>3, QuietPartsStep

(* A connection that belongs to no session shows nothing. *)
LEMMA StrangersAreBlank ==
  ASSUME TypeInv, ScrollInv, NEW c \in Conn, ws[c].session \notin Session
  PROVE  ws[c].received = <<>> /\ ws[c].replay = <<>> /\ \A v : ~Shows(c, v)
  BY DEF TypeInv, WsOK, ScrollInv, Blank, Shows, Has

LEMMA SendFailsScroll ==
  ASSUME TypeInv, ScrollInv, NEW s \in Session, SendFails(s)
  PROVE  ScrollInv'
<1> DEFINE c == term[s].to
           v == Detached(c)
<1>1. c \in Conn /\ ~ws[c].open /\ UNCHANGED ws
  BY DEF TypeInv, TermOK, TerminalSession, Ordered, SendFails
<1>2. /\ v \in [Session -> TerminalSession]
      /\ \A x \in Session : v[x].attached \in {term[x].attached, None}
      /\ \A x \in Session : v[x].emitted = term[x].emitted /\ v[x].to = term[x].to
  BY <1>1, DetachedFields DEF TypeInv
<1>3. term' = [v EXCEPT ![s].out = "read", ![s].to = None]
  BY DEF SendFails
<1> HIDE DEF v
<1> DEFINE t == [v[s] EXCEPT !.out = "read", !.to = None]
<1>4. v[s] \in TerminalSession
  BY <1>2
<1>5. t.attached = v[s].attached /\ t.emitted = v[s].emitted /\ t.to = None
  BY <1>4 DEF TerminalSession
<1>6. term' = [v EXCEPT ![s] = t]
  BY <1>2, <1>3
<1> HIDE DEF t
<1>7. \A x \in Session : term'[x] = IF x = s THEN t ELSE v[x]
  BY <1>2, <1>6
<1>8. \A x \in Session :
        /\ term'[x].attached \in {term[x].attached, None}
        /\ term'[x].emitted = term[x].emitted
        /\ \/ term'[x].to = term[x].to
           \/ term'[x].to = None /\ \A d \in Conn : d = term[x].to => ~ws'[d].open
  BY <1>1, <1>2, <1>5, <1>7
<1>9. ScrollQuiet
  BY <1>1, <1>8 DEF ScrollQuiet
<1> QED
  BY <1>9, ScrollQuietStep

LEMMA FindSessionScroll ==
  ASSUME TypeInv, ScrollInv, NEW c \in Conn, FindSession(c)
  PROVE  ScrollInv'
<1>1. PICK s \in sessions : ws' = [ws EXCEPT ![c].at = "found", ![c].session = s]
  BY DEF FindSession
<1> DEFINE u == [ws[c] EXCEPT !.at = "found", !.session = s]
<1>2. ws[c] \in WebSocket /\ ws[c].at = "none" /\ UNCHANGED term
  BY DEF TypeInv, WsOK, FindSession
<1>3. ws[c].received = <<>> /\ ws[c].replay = <<>> /\ ws[c].old # c
  BY <1>2 DEF ScrollInv, Blank
<1>4. u.at = "found" /\ u.received = <<>> /\ u.replay = <<>> /\ u.old # c
  BY <1>2, <1>3 DEF WebSocket
<1>5. ws' = [ws EXCEPT ![c] = u]
  BY <1>1 DEF TypeInv, WsOK
<1> HIDE DEF u
<1>6. \A d \in Conn : ws'[d] = IF d = c THEN u ELSE ws[d]
  BY <1>5 DEF TypeInv, WsOK
<1>7. \A s1 \in Session : term[s1].attached # c /\ term[s1].to # c
  BY <1>2 DEF ScrollInv, Attachments
<1>8. Attachments'
  BY <1>2, <1>6, <1>7 DEF ScrollInv, Attachments
<1>9. Blank'
  BY <1>4, <1>6 DEF ScrollInv, Blank
<1>10. \A v : ~Shows(c, v)'
  BY <1>4, <1>6 DEF Shows, Has
<1>11. \A d \in Conn : \A v : d # c => (Shows(d, v)' <=> Shows(d, v))
  BY <1>6 DEF Shows
<1>12. SeenOnce'
  <2> SUFFICES ASSUME NEW d \in Conn
               PROVE  /\ Distinct(ws'[d].received) /\ Distinct(ws'[d].replay)
                      /\ \A v \in Chunk : ~(Has(ws'[d].received, v) /\ Has(ws'[d].replay, v))
                      /\ \A v \in Chunk : Shows(d, v)' =>
                           /\ v <= term'[ws'[d].session].emitted
                           /\ term'[ws'[d].session].to = d => v # term'[ws'[d].session].emitted
    BY DEF SeenOnce
  <2>1. CASE d = c
    BY <1>4, <1>6, <1>10, <2>1 DEF Distinct, Has
  <2>2. CASE d # c
    BY <1>2, <1>6, <1>11, <2>2 DEF ScrollInv, SeenOnce
  <2> QED
    BY <2>1, <2>2
<1>13. SeenAll'
  BY <1>2, <1>6, <1>7, <1>11 DEF ScrollInv, SeenAll
<1> QED
  BY <1>8, <1>9, <1>12, <1>13 DEF ScrollInv

LEMMA AttachScroll ==
  ASSUME TypeInv, ScrollInv, NEW c \in Conn, Attach(c)
  PROVE  ScrollInv'
<1> DEFINE s == ws[c].session
           b == Buffer(s)
           t == [term[s] EXCEPT !.attached = c, !.fresh = TRUE]
           u == [ws[c] EXCEPT !.at = "replay", !.old = term[s].attached, !.replay = b]
<1>1. ws[c] \in WebSocket /\ ws[c].at = "found" /\ s \in Session
  BY DEF TypeInv, WsOK, Attach
<1>2. term[s] \in TerminalSession
  BY <1>1 DEF TypeInv, TermOK
<1>3. ws[c].received = <<>>
  BY <1>1 DEF ScrollInv, Blank
<1>4. \A x \in Session : term[x].attached # c /\ term[x].to # c
  BY <1>1 DEF ScrollInv, Attachments
<1>5. Distinct(b) /\ \A v : Has(b, v) <=> InScrollback(v, term[s].emitted)
  BY <1>1, BufferHas DEF TypeInv
<1>6. t.attached = c /\ t.emitted = term[s].emitted /\ t.to = term[s].to
  BY <1>2 DEF TerminalSession
<1>7. term' = [term EXCEPT ![s] = t] /\ ws' = [ws EXCEPT ![c] = u]
  BY DEF TypeInv, TermOK, WsOK, Attach
<1> HIDE DEF b
<1>8. /\ u.at = "replay" /\ u.session = s /\ u.open = ws[c].open
      /\ u.received = <<>> /\ u.replay = b /\ u.old # c
  BY <1>1, <1>3, <1>4 DEF WebSocket
<1> HIDE DEF t, u
<1>9. /\ \A x \in Session : term'[x] = IF x = s THEN t ELSE term[x]
      /\ \A d \in Conn : ws'[d] = IF d = c THEN u ELSE ws[d]
  BY <1>1, <1>7 DEF TypeInv, TermOK, WsOK
<1>10. Attachments'
  BY <1>1, <1>4, <1>6, <1>8, <1>9 DEF ScrollInv, Attachments
<1>11. Blank'
  BY <1>8, <1>9 DEF ScrollInv, Blank
<1>12. \A d \in Conn : \A v : Shows(d, v)' <=> IF d = c THEN Has(b, v) ELSE Shows(d, v)
  BY <1>8, <1>9 DEF Shows, Has
<1>13. SeenOnce'
  <2> SUFFICES ASSUME NEW d \in Conn
               PROVE  /\ Distinct(ws'[d].received) /\ Distinct(ws'[d].replay)
                      /\ \A v \in Chunk : ~(Has(ws'[d].received, v) /\ Has(ws'[d].replay, v))
                      /\ \A v \in Chunk : Shows(d, v)' =>
                           /\ v <= term'[ws'[d].session].emitted
                           /\ term'[ws'[d].session].to = d => v # term'[ws'[d].session].emitted
    BY DEF SeenOnce
  <2>1. CASE d = c
    <3>1. Distinct(ws'[d].received) /\ Distinct(ws'[d].replay)
      BY <1>5, <1>8, <1>9, <2>1 DEF Distinct
    <3>2. \A v \in Chunk : ~Has(ws'[d].received, v)
      BY <1>8, <1>9, <2>1 DEF Has
    <3>3. term'[ws'[d].session].emitted = term[s].emitted /\ term'[ws'[d].session].to # d
      BY <1>1, <1>4, <1>6, <1>8, <1>9, <2>1
    <3> QED
      BY <1>5, <1>12, <2>1, <3>1, <3>2, <3>3 DEF InScrollback
  <2>2. CASE d # c
    <3>1. ws'[d] = ws[d]
      BY <1>9, <2>2
    <3>2. CASE ws[d].session \in Session
      <4>1. /\ term'[ws[d].session].emitted = term[ws[d].session].emitted
            /\ term'[ws[d].session].to = term[ws[d].session].to
        BY <1>6, <1>9, <3>2
      <4> QED
        BY <1>12, <2>2, <3>1, <4>1 DEF ScrollInv, SeenOnce
    <3>3. CASE ws[d].session \notin Session
      BY <1>12, <2>2, <3>1, <3>3, StrangersAreBlank DEF Distinct, Has
    <3> QED
      BY <3>2, <3>3
  <2> QED
    BY <2>1, <2>2
<1>14. SeenAll'
  <2> SUFFICES ASSUME NEW x \in Session, NEW d \in Conn, term'[x].attached = d, ws'[d].open,
                      NEW v \in Chunk, InScrollback(v, term'[x].emitted)
               PROVE  Shows(d, v)' \/ (term'[x].to = d /\ v = term'[x].emitted)
    BY DEF SeenAll
  <2>1. CASE x = s
    BY <1>5, <1>6, <1>9, <1>12, <2>1
  <2>2. CASE x # s
    <3>1. term'[x] = term[x] /\ d # c /\ ws'[d] = ws[d]
      BY <1>4, <1>9, <2>2
    <3> QED
      BY <1>12, <3>1 DEF ScrollInv, SeenAll
  <2> QED
    BY <2>1, <2>2
<1> QED
  BY <1>10, <1>11, <1>13, <1>14 DEF ScrollInv

LEMMA EmitScroll ==
  ASSUME TypeInv, ScrollInv, NEW s \in Session, Emit(s)
  PROVE  ScrollInv'
<1> DEFINE a == term[s].attached
           o == IF a = None THEN "read" ELSE "send"
           t == [term[s] EXCEPT !.out = o, !.emitted = @ + 1, !.to = a]
<1>1. term[s] \in TerminalSession /\ Ordered(term[s]) /\ term[s].out = "emit"
  BY DEF TypeInv, TermOK, Emit
<1>2. term[s].to = None /\ term[s].emitted \in Nat
  BY <1>1, LimitsAssumption DEF Ordered, TerminalSession
<1>3. term' = [term EXCEPT ![s] = t] /\ UNCHANGED ws
  BY DEF TypeInv, TermOK, Emit
<1> HIDE DEF o
<1>4. t.attached = a /\ t.emitted = term[s].emitted + 1 /\ t.to = a
  BY <1>1 DEF TerminalSession
<1> HIDE DEF t
<1>5. \A x \in Session : term'[x] = IF x = s THEN t ELSE term[x]
  BY <1>3 DEF TypeInv, TermOK
<1>6. Attachments'
  BY <1>3, <1>4, <1>5 DEF ScrollInv, Attachments
<1>7. Blank'
  BY <1>3 DEF ScrollInv, Blank
<1>8. \A d \in Conn : \A v : Shows(d, v)' <=> Shows(d, v)
  BY <1>3 DEF Shows
<1>9. SeenOnce'
  <2> SUFFICES ASSUME NEW d \in Conn
               PROVE  /\ Distinct(ws'[d].received) /\ Distinct(ws'[d].replay)
                      /\ \A v \in Chunk : ~(Has(ws'[d].received, v) /\ Has(ws'[d].replay, v))
                      /\ \A v \in Chunk : Shows(d, v)' =>
                           /\ v <= term'[ws'[d].session].emitted
                           /\ term'[ws'[d].session].to = d => v # term'[ws'[d].session].emitted
    BY DEF SeenOnce
  <2>1. /\ Distinct(ws'[d].received) /\ Distinct(ws'[d].replay)
        /\ \A v \in Chunk : ~(Has(ws'[d].received, v) /\ Has(ws'[d].replay, v))
    BY <1>3 DEF ScrollInv, SeenOnce
  <2>2. CASE ws[d].session \notin Session
    BY <1>8, <2>1, <2>2, StrangersAreBlank
  <2>3. CASE ws[d].session \in Session \ {s}
    BY <1>3, <1>5, <1>8, <2>1, <2>3 DEF ScrollInv, SeenOnce
  <2>4. CASE ws[d].session = s
    <3>1. \A v \in Chunk : Shows(d, v) => v <= term[s].emitted
      BY <2>4 DEF ScrollInv, SeenOnce
    <3>2. \A v \in Chunk : Shows(d, v) => v < term'[s].emitted
      BY <1>2, <1>4, <1>5, <3>1, LimitsAssumption DEF Chunk
    <3>3. \A v \in Chunk : v < term'[s].emitted => v <= term'[s].emitted /\ v # term'[s].emitted
      BY <1>2, <1>4, <1>5, LimitsAssumption DEF Chunk
    <3> QED
      BY <1>3, <1>8, <2>1, <2>4, <3>2, <3>3
  <2> QED
    BY <2>2, <2>3, <2>4
<1>10. SeenAll'
  <2> SUFFICES ASSUME NEW x \in Session, NEW d \in Conn, term'[x].attached = d, ws'[d].open,
                      NEW v \in Chunk, InScrollback(v, term'[x].emitted)
               PROVE  Shows(d, v)' \/ (term'[x].to = d /\ v = term'[x].emitted)
    BY DEF SeenAll
  <2>1. CASE x = s
    <3>1. a = d
      BY <1>4, <1>5, <2>1
    <3>2. CASE v = term'[s].emitted
      BY <1>4, <1>5, <2>1, <3>1, <3>2
    <3>3. CASE v # term'[s].emitted
      <4>1. InScrollback(v, term[s].emitted)
        BY <1>2, <1>4, <1>5, <2>1, <3>3, LimitsAssumption DEF InScrollback
      <4>2. term[s].to # d
        BY <1>2, NoneIsNothing
      <4> QED
        BY <1>3, <1>8, <3>1, <4>1, <4>2 DEF ScrollInv, SeenAll
    <3> QED
      BY <3>2, <3>3
  <2>2. CASE x # s
    BY <1>3, <1>5, <1>8, <2>2 DEF ScrollInv, SeenAll
  <2> QED
    BY <2>1, <2>2
<1> QED
  BY <1>6, <1>7, <1>9, <1>10 DEF ScrollInv

LEMMA SendScroll ==
  ASSUME TypeInv, ScrollInv, NEW s \in Session, Send(s)
  PROVE  ScrollInv'
<1> DEFINE c == term[s].to
           e == term[s].emitted
           t == [term[s] EXCEPT !.out = "read", !.to = None]
           u == [ws[c] EXCEPT !.received = Append(@, e)]
<1>1. term[s] \in TerminalSession /\ Ordered(term[s]) /\ term[s].out = "send"
  BY DEF TypeInv, TermOK, Send
<1>2. c \in Conn /\ e \in Chunk /\ ws[c].open
  BY <1>1, LimitsAssumption DEF TerminalSession, Ordered, Chunk, Send
<1>3. ws[c].session = s /\ ws[c].at \notin {"none", "found"}
  BY <1>2 DEF ScrollInv, Attachments
<1>4. ws[c] \in WebSocket /\ ws[c].received \in Seq(Chunk)
  BY <1>2 DEF TypeInv, WsOK, WebSocket
<1>5. ~Shows(c, e)
  BY <1>2, <1>3 DEF ScrollInv, SeenOnce
<1> DEFINE a == Append(ws[c].received, e)
<1>6. Distinct(a) /\ \A v : Has(a, v) <=> Has(ws[c].received, v) \/ v = e
  BY <1>2, <1>4, <1>5, AppendHas DEF ScrollInv, SeenOnce, Shows
<1>7. t.attached = term[s].attached /\ t.emitted = e /\ t.to = None
  BY <1>1 DEF TerminalSession
<1>8. /\ u.at = ws[c].at /\ u.session = s /\ u.open = ws[c].open /\ u.old = ws[c].old
      /\ u.replay = ws[c].replay /\ u.received = a
  BY <1>3, <1>4 DEF WebSocket
<1>9. term' = [term EXCEPT ![s] = t] /\ ws' = [ws EXCEPT ![c] = u]
  BY DEF TypeInv, TermOK, WsOK, Send
<1> HIDE DEF t, u, a
<1>10. /\ \A x \in Session : term'[x] = IF x = s THEN t ELSE term[x]
       /\ \A d \in Conn : ws'[d] = IF d = c THEN u ELSE ws[d]
  BY <1>9 DEF TypeInv, TermOK, WsOK
<1>11. Attachments'
  <2> SUFFICES ASSUME NEW x \in Session, NEW d \in Conn, term'[x].attached = d \/ term'[x].to = d
               PROVE  ws'[d].session = x /\ ws'[d].at \notin {"none", "found"}
    BY DEF Attachments
  <2>1. term[x].attached = d \/ term[x].to = d
    BY <1>7, <1>10, NoneIsNothing
  <2>2. ws[d].session = x /\ ws[d].at \notin {"none", "found"}
    BY <2>1 DEF ScrollInv, Attachments
  <2> QED
    BY <1>3, <1>8, <1>10, <2>2
<1>12. Blank'
  <2>1. \A d \in Conn : ws'[d].at = ws[d].at /\ ws'[d].open = ws[d].open
                        /\ ws'[d].replay = ws[d].replay /\ ws'[d].old = ws[d].old
    BY <1>8, <1>10
  <2>2. \A d \in Conn : d # c => ws'[d].received = ws[d].received
    BY <1>10
  <2> QED
    BY <1>2, <1>3, <2>1, <2>2 DEF ScrollInv, Blank
<1>13. \A d \in Conn : \A v : Shows(d, v)' <=> Shows(d, v) \/ (d = c /\ v = e)
  <2> SUFFICES ASSUME NEW d \in Conn, NEW v
               PROVE  /\ Has(ws'[d].received, v) \/ Has(ws'[d].replay, v)
                           <=> Has(ws[d].received, v) \/ Has(ws[d].replay, v) \/ (d = c /\ v = e)
    BY DEF Shows
  <2>1. CASE d = c
    BY <1>2, <1>6, <1>8, <1>10, <2>1
  <2>2. CASE d # c
    BY <1>10, <2>2
  <2> QED
    BY <2>1, <2>2
<1>14. SeenOnce'
  <2> SUFFICES ASSUME NEW d \in Conn
               PROVE  /\ Distinct(ws'[d].received) /\ Distinct(ws'[d].replay)
                      /\ \A v \in Chunk : ~(Has(ws'[d].received, v) /\ Has(ws'[d].replay, v))
                      /\ \A v \in Chunk : Shows(d, v)' =>
                           /\ v <= term'[ws'[d].session].emitted
                           /\ term'[ws'[d].session].to = d => v # term'[ws'[d].session].emitted
    BY DEF SeenOnce
  <2>1. CASE d = c
    <3>1. Distinct(ws'[d].received) /\ Distinct(ws'[d].replay)
      <4>1. Distinct(ws[c].replay)
        BY <1>2 DEF ScrollInv, SeenOnce
      <4> QED
        BY <1>6, <1>8, <1>10, <2>1, <4>1
    <3>2. \A v \in Chunk : ~(Has(ws'[d].received, v) /\ Has(ws'[d].replay, v))
      <4>1. ws'[d].received = a /\ ws'[d].replay = ws[c].replay
        BY <1>8, <1>10, <2>1
      <4>2. ~Has(ws[c].replay, e)
        BY <1>5 DEF Shows
      <4>3. \A v \in Chunk : ~(Has(ws[c].received, v) /\ Has(ws[c].replay, v))
        BY <1>2 DEF ScrollInv, SeenOnce
      <4> QED
        BY <1>6, <4>1, <4>2, <4>3
    <3>3. term'[ws'[d].session].emitted = e /\ term'[ws'[d].session].to # d
      BY <1>7, <1>8, <1>10, <2>1, NoneIsNothing
    <3>4. \A v \in Chunk : Shows(c, v) => v <= e
      BY <1>2, <1>3 DEF ScrollInv, SeenOnce
    <3>5. e <= e
      BY <1>2, LimitsAssumption DEF Chunk
    <3> QED
      BY <1>13, <2>1, <3>1, <3>2, <3>3, <3>4, <3>5
  <2>2. CASE d # c
    <3>1. ws'[d] = ws[d]
      BY <1>10, <2>2
    <3>2. CASE ws[d].session \in Session
      <4>1. /\ term'[ws[d].session].emitted = term[ws[d].session].emitted
            /\ term'[ws[d].session].to = d => term[ws[d].session].to = d
        BY <1>7, <1>10, <3>2, NoneIsNothing
      <4> QED
        BY <1>13, <2>2, <3>1, <4>1 DEF ScrollInv, SeenOnce
    <3>3. CASE ws[d].session \notin Session
      BY <1>13, <2>2, <3>1, <3>3, StrangersAreBlank DEF Distinct, Has
    <3> QED
      BY <3>2, <3>3
  <2> QED
    BY <2>1, <2>2
<1>15. SeenAll'
  <2> SUFFICES ASSUME NEW x \in Session, NEW d \in Conn, term'[x].attached = d, ws'[d].open,
                      NEW v \in Chunk, InScrollback(v, term'[x].emitted)
               PROVE  Shows(d, v)' \/ (term'[x].to = d /\ v = term'[x].emitted)
    BY DEF SeenAll
  <2>1. term[x].attached = d /\ term[x].emitted = term'[x].emitted /\ ws[d].open
    BY <1>7, <1>8, <1>10
  <2>2. Shows(d, v) \/ (term[x].to = d /\ v = term[x].emitted)
    BY <2>1 DEF ScrollInv, SeenAll
  <2>3. x # s => term'[x] = term[x]
    BY <1>10
  <2> QED
    BY <1>13, <2>1, <2>2, <2>3
<1> QED
  BY <1>11, <1>12, <1>14, <1>15 DEF ScrollInv

(* What a WebSocket shows stays what it is when the replay is appended to  *)
(* the live output, and is nothing when the WebSocket closes.              *)
AttachedKept ==
  \A c \in Conn :
    /\ ws'[c].session = ws[c].session
    /\ ws'[c].at \in {"none", "found"} <=> ws[c].at \in {"none", "found"}
ShowingKept ==
  \A c \in Conn :
    \/ /\ ws'[c].open = ws[c].open
       /\ Distinct(ws'[c].received) /\ Distinct(ws'[c].replay)
       /\ \A v \in Chunk : ~(Has(ws'[c].received, v) /\ Has(ws'[c].replay, v))
       /\ \A v : Shows(c, v)' <=> Shows(c, v)
    \/ ~ws'[c].open /\ ws'[c].received = <<>> /\ ws'[c].replay \in {ws[c].replay, <<>>}

LEMMA ShowingKeptStep ==
  ASSUME TypeInv, ScrollInv, TermQuiet, AttachedKept, Blank', ShowingKept
  PROVE  ScrollInv'
<1>1. Attachments'
  BY NoneIsNothing DEF ScrollInv, TermQuiet, AttachedKept, Attachments
<1>2. Blank'
  OBVIOUS
<1>3. SeenOnce'
  <2> SUFFICES ASSUME NEW d \in Conn
               PROVE  /\ Distinct(ws'[d].received) /\ Distinct(ws'[d].replay)
                      /\ \A v \in Chunk : ~(Has(ws'[d].received, v) /\ Has(ws'[d].replay, v))
                      /\ \A v \in Chunk : Shows(d, v)' =>
                           /\ v <= term'[ws'[d].session].emitted
                           /\ term'[ws'[d].session].to = d => v # term'[ws'[d].session].emitted
    BY DEF SeenOnce
  <2>1. /\ Distinct(ws'[d].received) /\ Distinct(ws'[d].replay)
        /\ \A v \in Chunk : ~(Has(ws'[d].received, v) /\ Has(ws'[d].replay, v))
        /\ \A v \in Chunk : Shows(d, v)' => Shows(d, v)
    <3>1. CASE ~ws'[d].open /\ ws'[d].received = <<>> /\ ws'[d].replay \in {ws[d].replay, <<>>}
      <4>1. Distinct(<<>>) /\ \A v : ~Has(<<>>, v)
        BY DEF Distinct, Has
      <4>2. Distinct(ws'[d].received) /\ Distinct(ws'[d].replay)
        BY <3>1, <4>1 DEF ScrollInv, SeenOnce
      <4> QED
        BY <3>1, <4>1, <4>2 DEF Shows
    <3>2. CASE /\ Distinct(ws'[d].received) /\ Distinct(ws'[d].replay)
               /\ \A v \in Chunk : ~(Has(ws'[d].received, v) /\ Has(ws'[d].replay, v))
               /\ \A v : Shows(d, v)' <=> Shows(d, v)
      BY <3>2
    <3> QED
      BY <3>1, <3>2 DEF ShowingKept
  <2>2. ws'[d].session = ws[d].session
    BY DEF AttachedKept
  <2>3. CASE ws[d].session \in Session
    <3>1. /\ term'[ws[d].session].emitted = term[ws[d].session].emitted
          /\ term'[ws[d].session].to = term[ws[d].session].to
      BY <2>3 DEF TermQuiet
    <3> QED
      BY <2>1, <2>2, <3>1 DEF ScrollInv, SeenOnce
  <2>4. CASE ws[d].session \notin Session
    BY <2>1, <2>4, StrangersAreBlank
  <2> QED
    BY <2>3, <2>4
<1>4. SeenAll'
  <2> SUFFICES ASSUME NEW x \in Session, NEW d \in Conn, term'[x].attached = d, ws'[d].open,
                      NEW v \in Chunk, InScrollback(v, term'[x].emitted)
               PROVE  Shows(d, v)' \/ (term'[x].to = d /\ v = term'[x].emitted)
    BY DEF SeenAll
  <2>1. term[x].attached = d /\ term[x].emitted = term'[x].emitted /\ term[x].to = term'[x].to
    BY NoneIsNothing DEF TermQuiet
  <2>2. ws[d].open /\ (Shows(d, v)' <=> Shows(d, v))
    BY DEF ShowingKept
  <2> QED
    BY <2>1, <2>2 DEF ScrollInv, SeenAll
<1> QED
  BY <1>1, <1>2, <1>3, <1>4 DEF ScrollInv

(* What becomes of the WebSockets when c's replay is over. *)
LEMMA ReplayOver ==
  ASSUME TypeInv, ScrollInv, TermQuiet, NEW c \in Conn, ws[c].at = "replay", NEW u,
         ws' = [ClosedConn(ws[c].old) EXCEPT ![c] = u],
         u.at \in {"read", "end"}, u.session = ws[c].session, u.old = None, u.replay = <<>>,
         u.open = ws[c].open,
         \/ ws[c].open /\ u.received = ws[c].received \o ws[c].replay
         \/ ~ws[c].open /\ u.received = <<>>
  PROVE  ScrollInv'
<1> DEFINE o == ws[c].old
           v == ClosedConn(o)
<1>1. ws[c] \in WebSocket /\ o \in Conn \cup {None} /\ o # c
  BY DEF TypeInv, WsOK, WebSocket, ScrollInv, Blank
<1>2. /\ v \in [Conn -> WebSocket]
      /\ \A d \in Conn : /\ v[d].at = ws[d].at /\ v[d].session = ws[d].session
                         /\ v[d].old = ws[d].old /\ v[d].replay = ws[d].replay
                         /\ d # o => v[d] = ws[d]
                         /\ d = o => ~v[d].open /\ v[d].received = <<>>
  BY <1>1, ClosedConnKeeps DEF TypeInv
<1>3. ws' = [v EXCEPT ![c] = u]
  OBVIOUS
<1> HIDE DEF v, o
<1>4. ws'[c] = u /\ \A d \in Conn : d # c => ws'[d] = v[d]
  BY <1>2, <1>3
<1>5. AttachedKept
  BY <1>2, <1>4 DEF AttachedKept
<1>6. ~ws[c].open => ws[c].received = <<>>
  BY DEF ScrollInv, Blank
<1>7. Blank'
  <2> SUFFICES ASSUME NEW d \in Conn
               PROVE  /\ ws'[d].at \in {"none", "found"} \/ ~ws'[d].open => ws'[d].received = <<>>
                      /\ ws'[d].at # "replay" => ws'[d].replay = <<>>
                      /\ ws'[d].old # d
    BY DEF Blank
  <2>1. CASE d = c
    BY <1>4, <2>1, NoneIsNothing
  <2>2. CASE d # c /\ d # o
    BY <1>2, <1>4, <2>2 DEF ScrollInv, Blank
  <2>3. CASE d # c /\ d = o
    BY <1>2, <1>4, <2>3 DEF ScrollInv, Blank
  <2> QED
    BY <2>1, <2>2, <2>3
<1>8. ASSUME ws[c].open, u.received = ws[c].received \o ws[c].replay
      PROVE  Distinct(u.received) /\ \A x : Has(u.received, x) <=> Shows(c, x)
  <2>1. ws[c].received \in Seq(Chunk) /\ ws[c].replay \in Seq(Chunk)
    BY <1>1 DEF WebSocket
  <2>2. Distinct(ws[c].received) /\ Distinct(ws[c].replay)
    BY DEF ScrollInv, SeenOnce
  <2>3. \A x : ~(Has(ws[c].received, x) /\ Has(ws[c].replay, x))
    <3>1. \A x : Has(ws[c].received, x) => x \in Chunk
      BY <2>1 DEF Has
    <3> QED
      BY <3>1 DEF ScrollInv, SeenOnce
  <2> QED
    BY <1>8, <2>1, <2>2, <2>3, ConcatHas DEF Shows
<1>9. Distinct(<<>>) /\ \A x : ~Has(<<>>, x)
  BY DEF Distinct, Has
<1>10. ShowingKept
  <2> SUFFICES ASSUME NEW d \in Conn
               PROVE  \/ /\ ws'[d].open = ws[d].open
                         /\ Distinct(ws'[d].received) /\ Distinct(ws'[d].replay)
                         /\ \A x \in Chunk : ~(Has(ws'[d].received, x) /\ Has(ws'[d].replay, x))
                         /\ \A x : Shows(d, x)' <=> Shows(d, x)
                      \/ /\ ~ws'[d].open /\ ws'[d].received = <<>>
                         /\ ws'[d].replay \in {ws[d].replay, <<>>}
    BY DEF ShowingKept
  <2>1. CASE d = c /\ ws[c].open
    <3>1. \A x : Shows(d, x)' <=> Has(u.received, x)
      BY <1>4, <1>9, <2>1 DEF Shows
    <3> QED
      BY <1>4, <1>8, <1>9, <2>1, <3>1
  <2>2. CASE d = c /\ ~ws[c].open
    BY <1>4, <2>2
  <2>3. CASE d # c /\ d = o
    BY <1>2, <1>4, <2>3
  <2>4. CASE d # c /\ d # o
    <3>1. ws'[d] = ws[d]
      BY <1>2, <1>4, <2>4
    <3>2. \A x : Shows(d, x)' <=> Shows(d, x)
      BY <3>1 DEF Shows
    <3> QED
      BY <3>1, <3>2 DEF ScrollInv, SeenOnce
  <2> QED
    BY <2>1, <2>2, <2>3, <2>4
<1> QED
  BY <1>5, <1>7, <1>10, ShowingKeptStep

LEMMA ReplayScroll ==
  ASSUME TypeInv, ScrollInv, NEW c \in Conn, Replay(c) \/ ReplayFails(c)
  PROVE  ScrollInv'
<1> DEFINE o == ws[c].old
           v == ClosedConn(o)
<1>1. /\ ws[c] \in WebSocket /\ o \in Conn \cup {None} /\ o # c /\ ws[c].at = "replay"
      /\ ~ws[c].open => ws[c].received = <<>>
  BY DEF TypeInv, WsOK, WebSocket, ScrollInv, Blank, Replay, ReplayFails
<1>2. v \in [Conn -> WebSocket] /\ v[c] = ws[c]
  BY <1>1, ClosedConnKeeps DEF TypeInv
<1>3. TermQuiet
  BY UnchangedIsQuiet, DetachedIsQuiet DEF Replay, ReplayFails
<1>4. CASE Replay(c)
  <2> DEFINE q == ws[c].received \o ws[c].replay
             u == [v[c] EXCEPT !.at = Reads(c), !.old = None, !.replay = <<>>, !.received = q]
  <2>1. ws' = [v EXCEPT ![c] = u] /\ ws[c].open
    BY <1>2, <1>4 DEF Replay
  <2> HIDE DEF q, v
  <2>2. /\ u.at = Reads(c) /\ u.session = ws[c].session /\ u.old = None /\ u.replay = <<>>
        /\ u.open = ws[c].open /\ u.received = q
    BY <1>1, <1>2 DEF WebSocket
  <2> HIDE DEF u
  <2> QED
    BY <1>1, <1>3, <2>1, <2>2, ReadsType, ReplayOver DEF v, q
<1>5. CASE ReplayFails(c)
  <2> DEFINE u == [v[c] EXCEPT !.at = Reads(c), !.old = None, !.replay = <<>>]
  <2>1. ws' = [v EXCEPT ![c] = u] /\ ~ws[c].open
    BY <1>2, <1>5 DEF ReplayFails
  <2> HIDE DEF v
  <2>2. /\ u.at = Reads(c) /\ u.session = ws[c].session /\ u.old = None /\ u.replay = <<>>
        /\ u.open = ws[c].open /\ u.received = ws[c].received
    BY <1>1, <1>2 DEF WebSocket
  <2> HIDE DEF u
  <2> QED
    BY <1>1, <1>3, <2>1, <2>2, ReadsType, ReplayOver DEF v
<1> QED
  BY <1>4, <1>5

LEMMA StepKeepsScroll == TypeInv /\ ScrollInv /\ [Next]_vars => ScrollInv'
<1> SUFFICES ASSUME TypeInv, ScrollInv, [Next]_vars PROVE ScrollInv'
  OBVIOUS
<1>1. ASSUME NEW r \in Request, CreateSession(r) \/ ListSessions(r) \/ RequestStep(r)
      PROVE  ScrollInv'
  BY <1>1, RequestScroll
<1>2. ASSUME NEW w \in Sweeper, SweepBegins(w) \/ SweepStep(w)
      PROVE  ScrollInv'
  BY <1>2, SweepScroll
<1>3. ASSUME NEW s \in Session,
             \/ Heartbeat(s) \/ Expire(s) \/ DeleteSession(s) \/ Exit(s) \/ Echo(s)
             \/ CloseStep(s) \/ OutputStep(s)
      PROVE  ScrollInv'
  BY <1>3, QuietSessionScroll, EmitScroll, SendScroll, SendFailsScroll DEF OutputStep
<1>4. ASSUME NEW c \in Conn,
             \/ FindSession(c) \/ Ping(c) \/ Input(c) \/ Leave(c) \/ Disconnect(c)
             \/ InputStep(c)
      PROVE  ScrollInv'
  BY <1>4, QuietConnScroll, FindSessionScroll, AttachScroll, ReplayScroll
     DEF InputStep, ReadFails
<1>5. CASE UNCHANGED vars
  BY <1>5, QuietPartsStep, UnchangedIsQuiet DEF vars
<1> QED
  BY <1>1, <1>2, <1>3, <1>4, <1>5 DEF Next, UserStep

LEMMA ScrollInit == Init => ScrollInv
<1> SUFFICES ASSUME Init PROVE ScrollInv
  OBVIOUS
<1>1. /\ \A s \in Session : term[s].attached = None /\ term[s].to = None
      /\ \A c \in Conn : /\ ws[c].at = "none" /\ ws[c].received = <<>> /\ ws[c].replay = <<>>
                         /\ ws[c].old = None
  BY DEF Init
<1>2. Distinct(<<>>) /\ \A v : ~Has(<<>>, v)
  BY DEF Distinct, Has
<1>3. Attachments
  BY <1>1, NoneIsNothing DEF Attachments
<1>4. Blank
  BY <1>1, NoneIsNothing DEF Blank
<1>5. SeenOnce
  BY <1>1, <1>2 DEF SeenOnce, Shows
<1>6. SeenAll
  BY <1>1, NoneIsNothing DEF SeenAll
<1> QED
  BY <1>3, <1>4, <1>5, <1>6 DEF ScrollInv

(* Whatever overtakes what, a browser that has the session sees all of the *)
(* scrollback, and no chunk of it twice.                                   *)
THEOREM ScrollbackIsShownOnce == Spec => []ScrollbackShownOnce
  BY TypeInit, StepKeepsTypes, ScrollInit, StepKeepsScroll, ScrollInvImpliesShownOnce, PTL
     DEF Spec

=============================================================================
