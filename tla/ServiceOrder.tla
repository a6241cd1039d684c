---------------------------- MODULE ServiceOrder ----------------------------
(***************************************************************************)
(* Which service answers for a host: the order the panel keeps for the     *)
(* services of a port (config/manager.go), the order in which routes are   *)
(* built from it, and the choice among them (fnproxy/server.go).           *)
(*                                                                         *)
(* A sort is stated by what comes before what; the place of an entry is    *)
(* the number of those before it.                                          *)
(***************************************************************************)
EXTENDS Integers, Sequences, FiniteSets, FiniteSetsExt, SequencesExt

CONSTANTS
  Port, Domain, Host,
  Fits   \* the pairs of a domain with "*" and a host it matches

(* models.ServiceConfig; created stands for CreatedAt. *)
Service(id, port, domain, enabled, order, created) ==
  [id |-> id, port |-> port, domain |-> domain, enabled |-> enabled, order |-> order,
   created |-> created]

(* isDefaultServiceRule: no domain is the domain "*". *)
IsDefault(service) == service.domain = "*"

OfPort(services, port) == {i \in DOMAIN services : services[i].port = port}

(* A comparison by several keys: the first in which two entries differ.    *)
Lexicographic(ks, ls) ==
  \E k \in DOMAIN ks : ks[k] < ls[k] /\ \A m \in 1 .. k - 1 : ks[m] = ls[m]

(* The last place goes to defaults, the one but last to services without a *)
(* number.                                                                 *)
Unnumbered == 1000000
SortKey(services, i) ==
  <<IF IsDefault(services[i]) THEN 1 ELSE 0,
    IF services[i].order > 0 THEN services[i].order ELSE Unnumbered + i, i>>

(* normalizeServiceOrderLocked *)
Normalised(services, port) ==
  [i \in DOMAIN services |->
     IF services[i].port # port THEN services[i]
     ELSE [services[i] EXCEPT !.order = 1 + Cardinality(
             {j \in OfPort(services, port) :
                Lexicographic(SortKey(services, j), SortKey(services, i))})]]

(* normalizeAllServiceOrdersLocked *)
NormalisedAll(services) ==
  [i \in DOMAIN services |-> Normalised(services, services[i].port)[i]]

(* GetServicesByPort *)
RouteKey(services, i) ==
  <<IF IsDefault(services[i]) THEN 1 ELSE 0, IF services[i].order = 0 THEN 1 ELSE 0,
    services[i].order, services[i].created, i>>
EarlierRoute(services, i, j) == Lexicographic(RouteKey(services, i), RouteKey(services, j))
ServicesByPort(services, port) ==
  LET places == OfPort(services, port)
      Place(i) == 1 + Cardinality({j \in places : EarlierRoute(services, j, i)})
  IN [k \in 1 .. Cardinality(places) |-> services[CHOOSE i \in places : Place(i) = k]]

(* matchDomainPattern *)
MatchDomainPattern(domain, host) == domain = host \/ <<domain, host>> \in Fits

(* Mutant: the first route that fits, however it fits. *)
FirstThatFits(routes, host) ==
  LET fitting == {k \in DOMAIN routes :
                    MatchDomainPattern(routes[k].domain, host) \/ IsDefault(routes[k])}
  IN {routes[k].id : k \in {k \in fitting : \A m \in fitting : k <= m}}

(* matchServiceRoute: the first exact match, else the first wildcard, else *)
(* the first default; as a set, {} if there is none.                       *)
MatchServiceRoute(routes, host) ==
  LET First(K) == {routes[k].id : k \in {k \in K : \A m \in K : k <= m}}
      exact == {k \in DOMAIN routes : routes[k].domain = host /\ ~IsDefault(routes[k])}
      fitting == {k \in DOMAIN routes : MatchDomainPattern(routes[k].domain, host)
                                        /\ ~IsDefault(routes[k])}
      default == {k \in DOMAIN routes : IsDefault(routes[k])}
  IN First(IF exact # {} THEN exact ELSE IF fitting # {} THEN fitting ELSE default)

(* The routes of the listener of a port (buildListenerRoutes), and what it *)
(* answers with.                                                           *)
Routes(services, port) ==
  LET sorted == ServicesByPort(services, port)
      enabled == {k \in DOMAIN sorted : sorted[k].enabled}
      Place(k) == Cardinality({m \in enabled : m <= k})
  IN [n \in 1 .. Cardinality(enabled) |-> sorted[CHOOSE k \in enabled : Place(k) = n]]
Answering(services, port, host) == MatchServiceRoute(Routes(services, port), host)

(* What the panel promises: the closest match among the enabled services,  *)
(* and of several the one with the smallest number.                        *)
Closeness(service, host) ==
  IF IsDefault(service) THEN 1
  ELSE IF service.domain = host THEN 3
  ELSE IF <<service.domain, host>> \in Fits THEN 2 ELSE 0

Promised(services, port, host) ==
  LET fitting == {i \in OfPort(services, port) :
                    services[i].enabled /\ Closeness(services[i], host) > 0}
      Better(i, j) == \/ Closeness(services[i], host) > Closeness(services[j], host)
                      \/ /\ Closeness(services[i], host) = Closeness(services[j], host)
                         /\ services[i].order < services[j].order
  IN {services[i].id : i \in {i \in fitting : \A j \in fitting \ {i} : Better(i, j)}}

-----------------------------------------------------------------------------
(* The changes, each with the order renewed *)

Indexed(services, id) == {i \in DOMAIN services : services[i].id = id}

(* AddService: the end of its port, unless the request says where. *)
Added(services, service) ==
  LET orders == {services[i].order : i \in {j \in OfPort(services, service.port) :
                                              ~IsDefault(services[j])}}
      clock == 1 + Max({0} \cup {services[i].created : i \in DOMAIN services})
      placed == [service EXCEPT !.created = clock,
                                !.order = IF @ <= 0 THEN Max({0} \cup orders) + 1 ELSE @]
  IN Normalised(Append(services, placed), service.port)

(* Mutant: the numbers are kept as they are submitted. *)
UpdatedInPlace(services, i, service) ==
  [services EXCEPT ![i] = [service EXCEPT !.created = services[i].created]]

(* UpdateService: the port the service has now is renumbered, the one it   *)
(* may have left is not.                                                   *)
Updated(services, i, service) ==
  LET placed == [service EXCEPT !.created = services[i].created,
                                !.order = IF @ <= 0 THEN services[i].order ELSE @]
  IN Normalised([services EXCEPT ![i] = placed], service.port)

(* DeleteService *)
Deleted(services, i) == Normalised(RemoveAt(services, i), services[i].port)

(* ReorderServices: those named come first, in the order given; the others *)
(* follow in the order of the list, not in that they had.                  *)
Reordered(services, port, ids) ==
  LET moved == {i \in OfPort(services, port) : ~IsDefault(services[i])}
      Named(i) == {k \in DOMAIN ids : ids[k] = services[i].id}
      Number(i) == IF Named(i) # {} THEN Min(Named(i))
                   ELSE Len(ids) + Cardinality({j \in moved : j <= i /\ Named(j) = {}})
  IN Normalised([i \in DOMAIN services |->
                   IF i \in moved THEN [services[i] EXCEPT !.order = Number(i)]
                   ELSE services[i]], port)
=============================================================================
