-------------------------- MODULE MCListenerAdmin --------------------------
(***************************************************************************)
(* Small instances of ListenerAdmin: what config.json holds at the start   *)
(* and the bodies the administrator sends.                                 *)
(***************************************************************************)
EXTENDS ListenerAdmin

CONSTANTS a, b, c, s1, s2, s3

Entry(id, port, enabled) ==
  [id |-> id, port |-> port, protocol |-> "http", enabled |-> enabled]
Rule(id, portID, enabled, valid) ==
  [id |-> id, portID |-> portID, enabled |-> enabled, valid |-> valid]

(* One listener switched on, one switched off, a service for each. *)
TwoStored == <<Entry(a, 1, TRUE), Entry(b, 2, FALSE)>>
ServicesStored == <<Rule(s1, a, TRUE, TRUE), Rule(s2, b, TRUE, TRUE)>>

(* Both listeners switched on. *)
BothStored == <<Entry(a, 1, TRUE), Entry(b, 2, TRUE)>>

(* ProxyServer's submitted configurations: all the handlers can make. *)
AnyConfig == [listener : ListenersGiven, services : SUBSET ServicesGiven]

(* A third listener is created on its own port or on one that may be in    *)
(* use; the listeners there are keep port and switch.  The service of the  *)
(* first is switched, broken and repaired.                                 *)
SteadyNew == {Entry(c, p, e) : p \in Port, e \in BOOLEAN}
SteadyListeners == {Entry(a, 1, TRUE), Entry(b, 2, TRUE)}
SteadyServices ==
  {Rule(s1, a, e, v) : e, v \in BOOLEAN} \cup {Rule(s2, b, TRUE, TRUE), Rule(s3, c, TRUE, TRUE)}

(* One listener that is switched, two services that come and go.           *)
OneStored == <<Entry(a, 1, TRUE)>>
OneService == <<Rule(s1, a, TRUE, TRUE)>>
FreeListeners == {Entry(a, 1, TRUE), Entry(a, 1, FALSE)}

(* Two listeners that ask for one port. *)
RivalListeners == {Entry(b, 2, TRUE), Entry(c, 2, TRUE)}

PairServices == {Rule(s1, a, FALSE, TRUE), Rule(s2, a, TRUE, TRUE)}

=============================================================================
