------------------------- MODULE CertificateChoice -------------------------
(***************************************************************************)
(* Which certificate a TLS handshake for a host gets from the listener of  *)
(* a port (utils/certificate_manager.go).  The choice goes over the        *)
(* services of the port a second time, with rules of its own, and has to   *)
(* agree with the choice of the route in ServiceOrder.                     *)
(***************************************************************************)
EXTENDS ServiceOrder

CONSTANTS
  Certificate,
  Unbound,   \* the certificate of a service without one
  Fallback,  \* the embedded certificate
  Covers,    \* the pairs of a domain with "*" and a host it certifies
  Names,     \* the domains a certificate is configured or issued for
  Expires    \* when it does

(* "*.d" certifies hosts with one more label than d; as the domain of a    *)
(* service it fits those with more as well.                                *)
ASSUME CoversAssumption == Covers \subseteq Fits
ASSUME HostsAreNames == "*" \notin Host
ASSUME NotACertificate == Unbound \notin Certificate /\ Fallback \notin Certificate

(* normalizeDomain is taken as done. *)
MatchCertificateDomain(domain, host) == domain = host \/ <<domain, host>> \in Covers

Earliest(K) == {k \in K : \A m \in K : k <= m}

(* Mutant: the first rule that fits, however it fits. *)
FirstBound(routes, bound, loaded, host) ==
  LET bindings == {k \in DOMAIN routes :
                     /\ bound[routes[k].id] \in loaded
                     /\ IsDefault(routes[k]) \/ MatchCertificateDomain(routes[k].domain, host)}
  IN {bound[routes[k].id] : k \in Earliest(bindings)}

(* matchCertificateByServiceBindingLocked: an exact rule whose certificate *)
(* is loaded; else the certificate of the first wildcard rule that has     *)
(* one; else that of the first default rule.  As a set, {} for none.       *)
BoundCertificate(routes, bound, loaded, host) ==
  LET Of(K) == {bound[routes[k].id] : k \in Earliest(K)} \cap loaded
      bindings == {k \in DOMAIN routes : bound[routes[k].id] # Unbound}
      exact == {k \in bindings : routes[k].domain = host /\ bound[routes[k].id] \in loaded}
      default == {k \in bindings : IsDefault(routes[k])}
      wildcard == {k \in bindings \ default : /\ routes[k].domain # host
                                              /\ MatchCertificateDomain(routes[k].domain, host)}
  IN IF exact # {} THEN Of(exact) ELSE IF Of(wildcard) # {} THEN Of(wildcard) ELSE Of(default)

(* matchCertificateByDomainLocked: exact names first, then the latest      *)
(* expiry; among equals the iteration over the map decides.                *)
DomainCertificates(loaded, host) ==
  LET Exact(c) == host \in Names[c]
      matching == {c \in loaded : \E d \in Names[c] : MatchCertificateDomain(d, host)}
      Before(c, d) == \/ Exact(c) /\ ~Exact(d)
                      \/ (Exact(c) <=> Exact(d)) /\ Expires[c] > Expires[d]
  IN {c \in matching : \A d \in matching : ~Before(d, c)}

(* GetTLSCertificateForListener: the certificates a handshake may get.     *)
Presented(routes, bound, loaded, host) ==
  LET explicit == BoundCertificate(routes, bound, loaded, host)
      implicit == DomainCertificates(loaded, host)
  IN IF explicit # {} THEN explicit ELSE IF implicit # {} THEN implicit ELSE {Fallback}

(* The service that answers for the host shows the certificate it is bound *)
(* to, if it is loaded, unless its domain fits the host by more labels     *)
(* than a certificate can.                                                 *)
ShowsItsCertificate(routes, bound, loaded, host) ==
  \A k \in DOMAIN routes :
    LET route == routes[k] IN
    /\ route.id \in MatchServiceRoute(routes, host)
    /\ bound[route.id] \in loaded
    /\ IsDefault(route) \/ MatchCertificateDomain(route.domain, host)
    => Presented(routes, bound, loaded, host) = {bound[route.id]}
=============================================================================
