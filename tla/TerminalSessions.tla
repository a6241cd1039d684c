-------------------------- MODULE TerminalSessions --------------------------
(***************************************************************************)
(* The managed terminals of handlers/terminal.go: the registry of          *)
(* sessions, the shell behind each of them with its two pipes, the         *)
(* WebSocket attached to it, and the goroutines that work on it at the     *)
(* same time: handleInput per WebSocket, handleOutput and a waiter per     *)
(* shell, the janitor, the shutdown of main and the HTTP handlers.         *)
(*                                                                         *)
(* s.mu is a field only where it is held over a call that may block, the   *)
(* Write to the shell's stdin: every other section under s.mu is one       *)
(* action that waits for that.  sessionsMu is held over a wait only by the *)
(* list request, which takes s.mu of every session it lists.               *)
(*                                                                         *)
(* Abstractions: a shell echoes: a unit it takes from stdin becomes one    *)
(* chunk of output.  Chunks are numbered as the shell makes them, so the   *)
(* scrollback (s.buffer) is the last BufferLimit numbers that emit saw;    *)
(* stdout and stderr are one stream; LastHeartbeat is fresh or older than  *)
(* the TTL that applies; s.wsMu, held for one WriteJSON, is that action.   *)
(***************************************************************************)
EXTENDS Naturals, Sequences, FiniteSets

CONSTANTS
  Session, Conn, Request, User,
  Sweeper,     \* the sweeps modelled: "janitor", "shutdown"
  None,
  MaxPerUser,  \* maxSessionsPerUser
  MaxTotal,    \* maxTotalSessions
  Pipe,        \* units a pipe of the shell holds
  BufferLimit, \* terminalBufferLimit, in chunks
  MaxInput     \* bound: units ever typed into one session

ASSUME LimitsAssumption ==
  /\ MaxPerUser \in Nat /\ MaxTotal \in Nat /\ MaxInput \in Nat
  /\ Pipe \in Nat \ {0} /\ BufferLimit \in Nat \ {0}
ASSUME SweeperAssumption == Sweeper \subseteq {"janitor", "shutdown"}
ASSUME NoneIsNothing == None \notin Session \cup Conn \cup User

VARIABLES
  sessions, \* the registry: what the map sessions holds
  term,     \* the TerminalSession structures with their shells
  ws,       \* the WebSockets with their handleInput
  request,  \* the create and list requests under way
  sweep     \* the loops of the janitor and of CloseAllSessions

vars == <<sessions, term, ws, request, sweep>>

Chunk == 1 .. MaxInput

(* closing: how far Close, which closeOnce runs once, has come; out: the   *)
(* step handleOutput is at; made, read, emitted: chunks so far; to: the    *)
(* WebSocket emit found attached; writer: the WebSocket whose handleInput  *)
(* holds s.mu over Stdin.Write; last: the one Close found attached.        *)
TerminalSession ==
  [owner : User \cup {None}, shell : {"none", "alive", "exited"},
   closing : {"no", "called", "marked", "killed", "closed"},
   attached : Conn \cup {None}, fresh : BOOLEAN,
   stdin : 0 .. Pipe,
   out : {"off", "read", "emit", "send", "ended"},
   made : 0 .. MaxInput, read : 0 .. MaxInput, emitted : 0 .. MaxInput,
   to : Conn \cup {None}, writer : Conn \cup {None}, last : Conn \cup {None}]

(* old: the WebSocket an Attach took the session from; left: units of the  *)
(* message still to write; replay: the scrollback Attach copied.           *)
WebSocket ==
  [at : {"none", "found", "replay", "read", "write", "end"},
   session : Session \cup {None}, old : Conn \cup {None}, open : BOOLEAN,
   left : 0 .. MaxInput, replay : Seq(Chunk), received : Seq(Chunk)]

Closed(s) == term[s].closing \in {"marked", "killed", "closed"}  \* Status

(* s.mu is free. *)
Unlocked(s) == term[s].writer = None

(* sessionsMu: a writer waits for the list request that holds it, and new  *)
(* readers wait for the writers, as sync.RWMutex has it.                   *)
CanLock == \A r \in Request : request[r].at # "list"
CanRLock ==
  /\ \A s \in Session : term[s].closing # "killed"
  /\ \A r \in Request : request[r].at # "register"

(* s.buffer, oldest chunk first. *)
Buffer(s) ==
  LET n == term[s].emitted
      size == IF n < BufferLimit THEN n ELSE BufferLimit
  IN [i \in 1 .. size |-> n - size + i]

-----------------------------------------------------------------------------
IdleRequest == [at |-> "idle", session |-> None, user |-> None, items |-> {}]
IdleSweep == [at |-> "idle", session |-> None, items |-> {}]

Init ==
  /\ sessions = {}
  /\ term = [s \in Session |->
       [owner |-> None, shell |-> "none", closing |-> "no", attached |-> None,
        fresh |-> TRUE, stdin |-> 0, out |-> "off",
        made |-> 0, read |-> 0, emitted |-> 0, to |-> None, writer |-> None,
        last |-> None]]
  /\ ws = [c \in Conn |->
       [at |-> "none", session |-> None, old |-> None, open |-> TRUE,
        left |-> 0, replay |-> <<>>, received |-> <<>>]]
  /\ request = [r \in Request |-> IdleRequest]
  /\ sweep = [w \in Sweeper |-> IdleSweep]

-----------------------------------------------------------------------------
(* createManagedTerminalSession counts the sessions ... *)
WithinLimits(u) ==
  /\ Cardinality({s \in sessions : term[s].owner = u /\ ~Closed(s)}) < MaxPerUser
  /\ Cardinality(sessions) < MaxTotal

CreateSession(r) ==
  /\ request[r].at = "idle" /\ CanRLock
  /\ \E s \in Session : term[s].shell = "none"  \* bound: sessions ever created
  /\ \E u \in User : WithinLimits(u) /\ request' = [request EXCEPT ![r].at = "start", ![r].user = u]
  /\ UNCHANGED <<sessions, term, ws, sweep>>

(* ... starts the shell and the goroutine that waits for its end ... *)
StartShell(r) ==
  /\ request[r].at = "start"
  /\ \E s \in Session :
       /\ term[s].shell = "none"
       /\ term' = [term EXCEPT ![s].shell = "alive", ![s].owner = request[r].user]
       /\ request' = [request EXCEPT ![r].at = "register", ![r].session = s]
  /\ UNCHANGED <<sessions, ws, sweep>>

StartFails(r) ==
  /\ request[r].at = "start"
  /\ request' = [request EXCEPT ![r] = IdleRequest]
  /\ UNCHANGED <<sessions, term, ws, sweep>>

(* ... registers the session, whatever became of it, and reads its output. *)
Register(r) ==
  LET s == request[r].session IN
  /\ request[r].at = "register"
  /\ CanLock
  /\ sessions' = sessions \cup {s}
  /\ term' = [term EXCEPT ![s].out = "read"]
  /\ request' = [request EXCEPT ![r] = IdleRequest]
  /\ UNCHANGED <<ws, sweep>>

(* listTerminalSessionsByOwner keeps sessionsMu while it takes snapshots.  *)
ListSessions(r) ==
  /\ request[r].at = "idle" /\ CanRLock
  /\ \E u \in User :
       LET mine == {s \in sessions : term[s].owner = u} IN
       mine # {} /\ request' = [request EXCEPT ![r].at = "list", ![r].items = mine]
  /\ UNCHANGED <<sessions, term, ws, sweep>>

SnapshotSession(r) ==
  /\ request[r].at = "list"
  /\ \E s \in request[r].items :
       /\ Unlocked(s)
       /\ request' = [request EXCEPT ![r] = IF @.items = {s} THEN IdleRequest
                                           ELSE [@ EXCEPT !.items = request[r].items \ {s}]]
  /\ UNCHANGED <<sessions, term, ws, sweep>>

(* TerminalHeartbeatHandler, and the TTL passing without one. *)
Heartbeat(s) ==
  /\ s \in sessions /\ CanRLock /\ Unlocked(s)
  /\ term' = [term EXCEPT ![s].fresh = TRUE]
  /\ UNCHANGED <<sessions, ws, request, sweep>>

Expire(s) ==
  /\ s \in sessions /\ ~Closed(s)
  /\ term' = [term EXCEPT ![s].fresh = FALSE]
  /\ UNCHANGED <<sessions, ws, request, sweep>>

-----------------------------------------------------------------------------
(* Close and its callers: closeOnce lets the first of them run it. *)
CloseCalled(s) == [term EXCEPT ![s].closing = IF @ = "no" THEN "called" ELSE @]

(* DeleteTerminalSessionHandler *)
DeleteSession(s) ==
  /\ s \in sessions /\ CanRLock
  /\ term' = CloseCalled(s)
  /\ UNCHANGED <<sessions, ws, request, sweep>>

(* Mutant: a session in use is not closed when its shell ends. *)
WaitSparesAttached(s) ==
  /\ term[s].shell = "exited" /\ term[s].attached = None
  /\ term' = CloseCalled(s)
  /\ UNCHANGED <<sessions, ws, request, sweep>>

(* cmd.Wait or sshSession.Wait returns. *)
WaitReturns(s) ==
  /\ term[s].shell = "exited"
  /\ term' = CloseCalled(s)
  /\ UNCHANGED <<sessions, ws, request, sweep>>

(* conn.Close, when there is one to close; received is what an open one    *)
(* shows.                                                                  *)
ClosedConn(c) == IF c = None THEN ws ELSE [ws EXCEPT ![c].open = FALSE, ![c].received = <<>>]

(* Mutant: a session leaves the registry before its shell is killed. *)
CloseMarksUnregisters(s) ==
  /\ term[s].closing = "called"
  /\ Unlocked(s)
  /\ term' = [term EXCEPT ![s].closing = "marked", ![s].attached = None,
                          ![s].last = term[s].attached]
  /\ sessions' = sessions \ {s}
  /\ UNCHANGED <<ws, request, sweep>>

(* The steps of Close: mark under s.mu, kill the shell and close the       *)
(* WebSocket found attached, leave the registry.                           *)
CloseMarks(s) ==
  /\ term[s].closing = "called"
  /\ Unlocked(s)
  /\ term' = [term EXCEPT ![s].closing = "marked", ![s].attached = None,
                          ![s].last = term[s].attached]
  /\ UNCHANGED <<sessions, ws, request, sweep>>

CloseKills(s) ==
  /\ term[s].closing = "marked"
  /\ term' = [term EXCEPT ![s].closing = "killed", ![s].last = None,
                          ![s].shell = "exited", ![s].stdin = 0]
  /\ ws' = ClosedConn(term[s].last)
  /\ UNCHANGED <<sessions, request, sweep>>

CloseUnregisters(s) ==
  /\ term[s].closing = "killed"
  /\ CanLock
  /\ term' = [term EXCEPT ![s].closing = "closed"]
  /\ sessions' = sessions \ {s}
  /\ UNCHANGED <<ws, request, sweep>>

(* The janitor (once a minute) and CloseAllSessions (once, at shutdown)    *)
(* work through a copy of the registry, one session after the other.       *)
SweepOf(w, items) ==
  IF items = {} THEN {[IdleSweep EXCEPT !.at = IF w = "janitor" THEN "idle" ELSE "ended"]}
  ELSE {[at |-> "check", session |-> s, items |-> items \ {s}] : s \in items}

SweepGoesOn(w) ==
  \E next \in SweepOf(w, sweep[w].items) : sweep' = [sweep EXCEPT ![w] = next]

SweepBegins(w) ==
  /\ sweep[w].at = "idle" /\ CanRLock
  /\ \E first \in SweepOf(w, sessions) : sweep' = [sweep EXCEPT ![w] = first]
  /\ UNCHANGED <<sessions, term, ws, request>>

(* isStale asks under s.mu; Close returns when the first call has.         *)
SweepSpares(w) ==
  LET s == sweep[w].session IN
  /\ sweep[w].at = "check" /\ w = "janitor"
  /\ Unlocked(s)
  /\ Closed(s) \/ term[s].fresh
  /\ SweepGoesOn(w)
  /\ UNCHANGED <<sessions, term, ws, request>>

SweepCloses(w) ==
  LET s == sweep[w].session IN
  /\ sweep[w].at = "check"
  /\ w = "janitor" => Unlocked(s) /\ ~Closed(s) /\ ~term[s].fresh
  /\ term' = CloseCalled(s)
  /\ sweep' = [sweep EXCEPT ![w].at = "wait"]
  /\ UNCHANGED <<sessions, ws, request>>

SweepReturns(w) ==
  /\ sweep[w].at = "wait"
  /\ term[sweep[w].session].closing = "closed"
  /\ SweepGoesOn(w)
  /\ UNCHANGED <<sessions, term, ws, request>>

-----------------------------------------------------------------------------
(* Mutant: Detach does not ask whose session it is. *)
DetachedWhoever(c) == [term EXCEPT ![ws[c].session].attached = None]

(* Detach: only the WebSocket that is attached takes itself off. *)
Detached(c) == [term EXCEPT ![ws[c].session].attached = IF @ = c THEN None ELSE @]

(* TerminalHandler finds the session ... *)
FindSession(c) ==
  /\ ws[c].at = "none" /\ CanRLock
  /\ \E s \in sessions : ws' = [ws EXCEPT ![c].at = "found", ![c].session = s]
  /\ UNCHANGED <<sessions, term, request, sweep>>

(* Attach: the section under s.mu ... *)
Attach(c) ==
  LET s == ws[c].session IN
  /\ ws[c].at = "found"
  /\ Unlocked(s)
  /\ term' = [term EXCEPT ![s].attached = c, ![s].fresh = TRUE]
  /\ ws' = [ws EXCEPT ![c].at = "replay", ![c].old = term[s].attached, ![c].replay = Buffer(s)]
  /\ UNCHANGED <<sessions, request, sweep>>

(* handleInput looks at s.done before it waits for the next message, and   *)
(* returns without closing the WebSocket.                                  *)
Reads(c) == IF term[ws[c].session].closing = "closed" THEN "end" ELSE "read"

(* Mutant: the scrollback is read when it is written. *)
ReplaysCurrent(c) ==
  /\ ws[c].at = "replay" /\ ws[c].open
  /\ ws' = [ClosedConn(ws[c].old) EXCEPT ![c].at = Reads(c), ![c].old = None, ![c].replay = <<>>,
                      ![c].received = @ \o Buffer(ws[c].session)]
  /\ UNCHANGED <<sessions, term, request, sweep>>

(* ... the old WebSocket is closed and the scrollback sent. *)
Replay(c) ==
  /\ ws[c].at = "replay" /\ ws[c].open
  /\ ws' = [ClosedConn(ws[c].old) EXCEPT ![c].at = Reads(c), ![c].old = None, ![c].replay = <<>>,
                                         ![c].received = @ \o ws[c].replay]
  /\ UNCHANGED <<sessions, term, request, sweep>>

(* A write that fails detaches. *)
ReplayFails(c) ==
  /\ ws[c].at = "replay" /\ ~ws[c].open
  /\ Unlocked(ws[c].session)
  /\ term' = Detached(c)
  /\ ws' = [ClosedConn(ws[c].old) EXCEPT ![c].at = Reads(c), ![c].old = None, ![c].replay = <<>>]
  /\ UNCHANGED <<sessions, request, sweep>>

(* ... a ping or resize message only refreshes the session ... *)
Ping(c) ==
  LET s == ws[c].session IN
  /\ ws[c].at = "read" /\ ws[c].open
  /\ Unlocked(s)
  /\ term' = [term EXCEPT ![s].fresh = TRUE]
  /\ ws' = [ws EXCEPT ![c].at = Reads(c)]
  /\ UNCHANGED <<sessions, request, sweep>>

(* ... an input message of n units is written under s.mu ... *)
Input(c) ==
  LET s == ws[c].session IN
  /\ ws[c].at = "read" /\ ws[c].open
  /\ Unlocked(s)
  /\ \E n \in 1 .. MaxInput - (term[s].made + term[s].stdin) :
       /\ term' = [term EXCEPT ![s].writer = c]
       /\ ws' = [ws EXCEPT ![c].at = "write", ![c].left = n]
  /\ UNCHANGED <<sessions, request, sweep>>

WriteUnit(c) ==
  LET s == ws[c].session IN
  /\ ws[c].at = "write" /\ ws[c].left > 0
  /\ term[s].shell = "alive" /\ term[s].stdin < Pipe
  /\ term' = [term EXCEPT ![s].stdin = @ + 1]
  /\ ws' = [ws EXCEPT ![c].left = @ - 1]
  /\ UNCHANGED <<sessions, request, sweep>>

(* ... which the end of the shell interrupts, and the session touched.     *)
WriteReturns(c) ==
  LET s == ws[c].session IN
  /\ ws[c].at = "write"
  /\ ws[c].left = 0 \/ term[s].shell = "exited"
  /\ term' = [term EXCEPT ![s].writer = None, ![s].fresh = TRUE]
  /\ ws' = [ws EXCEPT ![c].at = Reads(c), ![c].left = 0]
  /\ UNCHANGED <<sessions, request, sweep>>

(* A close message, or a read that fails. *)
Leave(c) ==
  /\ ws[c].at = "read"
  /\ Unlocked(ws[c].session)
  /\ term' = Detached(c)
  /\ ws' = [ClosedConn(c) EXCEPT ![c].at = "end"]
  /\ UNCHANGED <<sessions, request, sweep>>

ReadFails(c) == ~ws[c].open /\ Leave(c)

(* The browser goes away. *)
Disconnect(c) ==
  /\ ws[c].open /\ ws[c].at # "none"
  /\ ws' = ClosedConn(c)
  /\ UNCHANGED <<sessions, term, request, sweep>>

-----------------------------------------------------------------------------
(* The shell. *)
Echo(s) ==
  /\ term[s].shell = "alive" /\ term[s].stdin > 0
  /\ term[s].made - term[s].read < Pipe
  /\ term' = [term EXCEPT ![s].stdin = @ - 1, ![s].made = @ + 1]
  /\ UNCHANGED <<sessions, ws, request, sweep>>

Exit(s) ==
  /\ term[s].shell = "alive"
  /\ term' = [term EXCEPT ![s].shell = "exited", ![s].stdin = 0]
  /\ UNCHANGED <<sessions, ws, request, sweep>>

(* Mutant: a read of no bytes is emitted as well. *)
ReadChunkEmpty(s) ==
  /\ term[s].out = "read" /\ term[s].closing # "closed"
  /\ term' = [term EXCEPT ![s].out = "emit", ![s].read = @ + 1]
  /\ UNCHANGED <<sessions, ws, request, sweep>>

(* handleOutput reads a chunk ... *)
ReadChunk(s) ==
  /\ term[s].out = "read" /\ term[s].closing # "closed"
  /\ term[s].read < term[s].made
  /\ term' = [term EXCEPT ![s].out = "emit", ![s].read = @ + 1]
  /\ UNCHANGED <<sessions, ws, request, sweep>>

(* ... emit adds it to the scrollback and looks who is attached ... *)
Emit(s) ==
  /\ term[s].out = "emit"
  /\ Unlocked(s)
  /\ term' = [term EXCEPT ![s].out = IF term[s].attached = None THEN "read" ELSE "send",
                          ![s].emitted = @ + 1, ![s].to = term[s].attached]
  /\ UNCHANGED <<sessions, ws, request, sweep>>

(* ... and sends it, after s.mu is free again. *)
Send(s) ==
  LET c == term[s].to IN
  /\ term[s].out = "send" /\ ws[c].open
  /\ ws' = [ws EXCEPT ![c].received = Append(@, term[s].emitted)]
  /\ term' = [term EXCEPT ![s].out = "read", ![s].to = None]
  /\ UNCHANGED <<sessions, request, sweep>>

SendFails(s) ==
  LET c == term[s].to IN
  /\ term[s].out = "send" /\ ~ws[c].open
  /\ Unlocked(s)
  /\ term' = [Detached(c) EXCEPT ![s].out = "read", ![s].to = None]
  /\ UNCHANGED <<sessions, ws, request, sweep>>

(* The stream ends with the shell, also with output unread: Wait closes    *)
(* the pipes.  What is not io.EOF is emitted, which takes s.mu, and closes *)
(* the session.                                                            *)
OutputEnds(s) ==
  /\ term[s].out = "read"
  /\ term[s].shell = "exited"
  /\ \/ term' = [term EXCEPT ![s].out = "ended", ![s].made = term[s].read]
     \/ /\ Unlocked(s)
        /\ term' = [CloseCalled(s) EXCEPT ![s].out = "ended", ![s].made = term[s].read]
  /\ UNCHANGED <<sessions, ws, request, sweep>>

-----------------------------------------------------------------------------
(* The goroutines of the program, which the Go scheduler runs ... *)
RequestStep(r) ==
  \/ StartShell(r) \/ StartFails(r) \/ Register(r)
  \/ SnapshotSession(r)

SweepStep(w) == SweepSpares(w) \/ SweepCloses(w) \/ SweepReturns(w)

CloseStep(s) == WaitReturns(s) \/ CloseMarks(s) \/ CloseKills(s) \/ CloseUnregisters(s)

InputStep(c) ==
  \/ Attach(c) \/ Replay(c) \/ ReplayFails(c)
  \/ WriteUnit(c) \/ WriteReturns(c) \/ ReadFails(c)

OutputStep(s) == ReadChunk(s) \/ Emit(s) \/ Send(s) \/ SendFails(s) \/ OutputEnds(s)

(* ... and what users, browsers, clocks and shells may do at any time. *)
UserStep ==
  \/ \E r \in Request : CreateSession(r) \/ ListSessions(r)
  \/ \E s \in Session : Heartbeat(s) \/ Expire(s) \/ DeleteSession(s) \/ Exit(s)
  \/ \E c \in Conn : FindSession(c) \/ Ping(c) \/ Input(c) \/ Leave(c) \/ Disconnect(c)

Next ==
  \/ UserStep
  \/ \E w \in Sweeper : SweepBegins(w)
  \/ \E r \in Request : RequestStep(r)
  \/ \E w \in Sweeper : SweepStep(w)
  \/ \E s \in Session : CloseStep(s) \/ OutputStep(s) \/ Echo(s)
  \/ \E c \in Conn : InputStep(c)

(* A goroutine that waits for a lock gets it when it becomes free often    *)
(* enough: sync.Mutex and sync.RWMutex starve nobody.                      *)
Fairness ==
  /\ \A w \in Sweeper \cap {"janitor"} : WF_vars(SweepBegins(w))
  /\ \A r \in Request : SF_vars(RequestStep(r))
  /\ \A w \in Sweeper : WF_vars(SweepStep(w))
  /\ \A s \in Session : SF_vars(CloseStep(s)) /\ WF_vars(OutputStep(s)) /\ WF_vars(Echo(s))
  /\ \A c \in Conn : WF_vars(InputStep(c))

Spec == Init /\ [][Next]_vars /\ Fairness

-----------------------------------------------------------------------------
(* Properties *)

(* The structures of the module hold what their Go types say. *)
TerminalTypeOK ==
  /\ sessions \subseteq Session
  /\ term \in [Session -> TerminalSession]
  /\ ws \in [Conn -> WebSocket]
  /\ request \in [Request -> [at : {"idle", "start", "register", "list"},
                              session : Session \cup {None}, user : User \cup {None},
                              items : SUBSET Session]]
  /\ sweep \in [Sweeper -> [at : {"idle", "check", "wait", "ended"},
                            session : Session \cup {None}, items : SUBSET Session]]

(* A browser that has the session sees all of the scrollback, and nothing  *)
(* twice: what is emitted around an Attach comes either with the replay or *)
(* after it.  (Not always in order: the replay is sent after s.mu is free, *)
(* and newer output may overtake it.)                                      *)
Replayed(c) == ws[c].at \in {"read", "write"}
ScrollbackShownOnce ==
  \A c \in Conn :
    LET seen == ws[c].received
        s == ws[c].session IN
    /\ \A i, j \in DOMAIN seen : seen[i] = seen[j] => i = j
    /\ (Replayed(c) /\ ws[c].open /\ term[s].attached = c /\ term[s].to # c) =>
         \A i \in DOMAIN Buffer(s) : \E j \in DOMAIN seen : seen[j] = Buffer(s)[i]

(* Nobody runs a shell the registry does not know, except while the        *)
(* request that started it is on its way to register it: what DELETE, the  *)
(* janitor and the shutdown cannot see, they cannot kill.                  *)
ShellsAreRegistered ==
  \A s \in Session :
    term[s].shell = "alive" =>
      s \in sessions \/ \E r \in Request : request[r].at = "register" /\ request[r].session = s

(* A session loses its browser only when that browser's connection ends or *)
(* the session is closed: the late Detach of a superseded WebSocket leaves *)
(* its successor alone.                                                    *)
SuccessorKeepsSession ==
  [][\A s \in Session :
       LET c == term[s].attached IN
       (c # None /\ term'[s].attached = None) => Closed(s)' \/ ~ws'[c].open]_vars

(* A session whose shell ended is closed, whoever holds its locks, as long *)
(* as no write to some shell's stdin hangs for ever.                       *)
WritesReturn == \A s \in Session : []<>Unlocked(s)
ExitClosesSession ==
  WritesReturn =>
    \A s \in Session : (term[s].shell = "exited") ~> (term[s].closing = "closed")

=============================================================================
