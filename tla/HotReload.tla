----------------------------- MODULE HotReload -----------------------------
(***************************************************************************)
(* What a hot reload promises: a request is answered by a configuration of *)
(* its listener that was in force at some moment while the request was     *)
(* under way, and a configuration comes into force without anybody having  *)
(* to wait.  None is a listener that is stopped.                           *)
(***************************************************************************)
EXTENDS Naturals

CONSTANTS Listener, Request, Version, None

VARIABLES
  inForce,   \* the configuration in force, of every listener
  window,    \* those in force since the request came; {} is no request
  answer     \* the one the request was answered by; {} is none yet

hotVars == <<inForce, window, answer>>

Init ==
  /\ inForce \in [Listener -> Version \cup {None}]
  /\ window = [r \in Request |-> {}]
  /\ answer = [r \in Request |-> {}]

Come(r) ==
  /\ window[r] = {}
  /\ \E l \in Listener : window' = [window EXCEPT ![r] = {inForce[l]}]
  /\ UNCHANGED <<inForce, answer>>

(* Requests on their way, some of them on this listener, see it change. *)
Reload(l, v) ==
  /\ inForce' = [inForce EXCEPT ![l] = v]
  /\ \E R \in SUBSET {r \in Request : window[r] # {}} :
       window' = [r \in Request |-> IF r \in R THEN window[r] \cup {v} ELSE window[r]]
  /\ UNCHANGED answer

Answer(r) ==
  /\ answer[r] = {}
  /\ \E v \in window[r] : answer' = [answer EXCEPT ![r] = {v}]
  /\ UNCHANGED <<inForce, window>>

Leave(r) ==
  /\ window' = [window EXCEPT ![r] = {}]
  /\ answer' = [answer EXCEPT ![r] = {}]
  /\ UNCHANGED inForce

Next ==
  \/ \E r \in Request : Come(r) \/ Answer(r) \/ Leave(r)
  \/ \E l \in Listener, v \in Version \cup {None} : Reload(l, v)

HotReloadSpec == Init /\ [][Next]_hotVars
=============================================================================
