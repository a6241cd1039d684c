--------------------------- MODULE MCProxyServer ---------------------------
(***************************************************************************)
(* Small instances of ProxyServer: the configurations the callers submit.  *)
(***************************************************************************)
EXTENDS ProxyServer

CONSTANTS l1, l2, s1, s2

Svc(id, enabled, valid, h2, h3) ==
  [id |-> id, enabled |-> enabled, valid |-> valid, http2 |-> h2, http3 |-> h3]

(* The service lists of one listener: plain, HTTP/2, HTTP/3 only, one of   *)
(* two disabled, refused, none.                                            *)
ServiceLists ==
  { {Svc(s1, TRUE, TRUE, FALSE, FALSE)},
    {Svc(s1, TRUE, TRUE, TRUE, FALSE)},
    {Svc(s1, TRUE, TRUE, FALSE, TRUE)},
    {Svc(s1, FALSE, TRUE, TRUE, TRUE), Svc(s2, TRUE, TRUE, FALSE, FALSE)},
    {Svc(s1, TRUE, FALSE, FALSE, FALSE)},
    {} }

Config(id, p, t, services) ==
  [listener |-> [id |-> id, port |-> p, protocol |-> t], services |-> services]

(* The first listener changes port, protocol and services, the second      *)
(* contends with it for the ports, with HTTP/3 on one of them.  Not every  *)
(* combination is submitted: a mixture of two configurations shows.        *)
Submitted ==
  {Config(l1, 1, "https", ss) : ss \in ServiceLists}
  \cup {Config(l1, 2, "https", {Svc(s1, TRUE, TRUE, h2, FALSE)}) : h2 \in BOOLEAN}
  \cup {Config(l1, 1, "http", {Svc(s1, TRUE, TRUE, TRUE, FALSE)}),
        Config(l1, 2, "http", {Svc(s1, TRUE, FALSE, FALSE, FALSE)}),
        Config(l2, 1, "https", {Svc(s2, TRUE, TRUE, FALSE, FALSE)}),
        Config(l2, 2, "https", {Svc(s2, TRUE, TRUE, TRUE, TRUE)})}
=============================================================================
