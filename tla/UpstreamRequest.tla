-------------------------- MODULE UpstreamRequest --------------------------
(***************************************************************************)
(* What a reverse proxy sends to its upstream (fnproxy/server.go,          *)
(* createReverseProxyHandler and handleWebSocketProxy): the headers, from  *)
(* the client's to those on the wire, for a plain request and for a        *)
(* WebSocket that arrive with the same headers at the same service.        *)
(*                                                                         *)
(* A header is a sequence of tokens: the client's own value is             *)
(* <<"client">>, a forwarding chain has a token for every address,         *)
(* Connection one for every header it names; a header that is not there is *)
(* <<>>.  A client may repeat a header on several lines; Header.Get, which *)
(* the code uses, reads the first.  The names stand for their kinds:       *)
(* Upgrade for the headers of one hop, Cookie for all no rule of the code  *)
(* names.  X-Forwarded-Port and Forwarded are only removed, with the       *)
(* others.  httputil.ReverseProxy is modelled from its use.                *)
(***************************************************************************)
EXTENDS Naturals, Sequences, SequencesExt

CONSTANTS
  ClientHeaders,  \* what clients send: a set of headers, with their lines
  Configs,        \* what administrators write: a set of configurations
  None

Name == {"Origin", "Referer", "User-Agent", "X-Forwarded-For", "X-Real-IP",
         "X-Forwarded-Host", "X-Forwarded-Proto", "Connection", "Upgrade", "Cookie"}

Identity == {"X-Forwarded-For", "X-Real-IP", "X-Forwarded-Host", "X-Forwarded-Proto"}

(* The tokens of what clients send and of what header_up sets. *)
Claim == {"client", "prior", "claimed", "http", "https"} \cup Name
Setting == {"up", "up2"} \cup Name

(* models.ReverseProxyConfig, the fields about headers.  allow is None for *)
(* an empty list; header_up is a map of names as they are written, several *)
(* of which may mean one header.                                           *)
ReverseProxyConfig ==
  [allow : {None} \cup SUBSET Name, hide : SUBSET Name,
   up : SUBSET [name : Name, value : Seq(Setting)],
   preserve : BOOLEAN, extend : {None} \cup BOOLEAN, hostHeader : BOOLEAN,
   omit : BOOLEAN, hideRealIP : BOOLEAN, trust : BOOLEAN,
   clientIP : {None} \cup Name]

(* The first line of a header, and the others one after the other; a line  *)
(* without a value is taken for none.                                      *)
ASSUME UpstreamAssumption ==
  /\ ClientHeaders \subseteq [Name -> [first : Seq(Claim), rest : Seq(Claim)]]
  /\ \A h \in ClientHeaders, n \in Name : h[n].first = <<>> => h[n].rest = <<>>
  /\ Configs \subseteq ReverseProxyConfig

Path == {"http", "websocket"}

VARIABLES
  client,  \* the headers that arrived
  tls,     \* whether they came over TLS
  config,  \* the configuration of the service
  step,    \* what is done next, for each path
  header,  \* the headers so far
  host     \* the Host sent upstream, None before it is decided

upVars == <<client, tls, config, step, header, host>>

-----------------------------------------------------------------------------
(* Operations on headers *)

Absent == <<>>
Get(n) == client[n].first
Lines == [n \in Name |-> client[n].first \o client[n].rest]
Empty == [n \in Name |-> Absent]
Only(h, names) == [n \in Name |-> IF n \in names THEN h[n] ELSE Absent]
Without(h, names) == [n \in Name |-> IF n \in names THEN Absent ELSE h[n]]

(* createReverseProxyHandler: only extend_json can switch preserve_host    *)
(* off; what the configuration itself says is overwritten.                 *)
PreserveHost(c) == IF c.extend = None THEN TRUE ELSE c.extend

UpstreamHost(c) ==
  IF PreserveHost(c) THEN "client" ELSE IF c.hostHeader THEN "hostHeader" ELSE "target"

(* applyAllowHeaderUp *)
Allowed(h, c) == IF c.allow = None THEN h ELSE Only(h, c.allow)

(* Mutant: only the headers of the hop are looked at. *)
WSEverything(h, c) == Without(h, {"Connection", "Upgrade", "Origin"})

(* copyWSHeadersWithOptionalAllow: without a list the Origin is left out,  *)
(* to be set later; what belongs to a hop never goes.                      *)
WSAllowed(h, c) ==
  Without(Allowed(h, c), {"Connection", "Upgrade"} \cup IF c.allow = None THEN {"Origin"} ELSE {})

(* net/http would add its own. *)
WithAgent(h) == IF h["User-Agent"] = Absent THEN [h EXCEPT !["User-Agent"] = <<"empty">>] ELSE h

(* rewriteOriginRefererToUpstream *)
RewriteReferer(h, c) ==
  IF h["Referer"] = Absent THEN h ELSE [h EXCEPT !["Referer"] = <<UpstreamHost(c)>>]
RewriteOriginReferer(h, c) == RewriteReferer([h EXCEPT !["Origin"] = <<UpstreamHost(c)>>], c)

(* header_up is a Go map: of two entries for one header, either is last.   *)
(* An empty value removes the header.                                      *)
SetByHeaderUp(h, c) ==
  LET Values == [{u.name : u \in c.up} -> {u.value : u \in c.up}]
      Finals == {f \in Values : \A n \in DOMAIN f : [name |-> n, value |-> f[n]] \in c.up}
  IN {[n \in Name |-> IF n \in DOMAIN f THEN f[n] ELSE h[n]] : f \in Finals}

(* stripProxyIdentityHeaders *)
StripIdentity(h) == Without(h, Identity)

(* The address of the connection, or the first of the chain in the header  *)
(* the configuration names, as the client sent it.                         *)
RealAddress(c) ==
  IF c.clientIP # None /\ Get(c.clientIP) # Absent THEN Head(Get(c.clientIP)) ELSE "peer"

(* utils.RequestIsHTTPS *)
RequestIsHTTPS(proto) == tls \/ proto = <<"https">>

(* Mutant: the chain is continued from what the allow list has left. *)
ForwardedFromRest(h, c, isHTTPS) ==
  [h EXCEPT !["X-Real-IP"] = <<RealAddress(c)>>,
            !["X-Forwarded-For"] = h["X-Forwarded-For"] \o <<RealAddress(c)>>,
            !["X-Forwarded-Host"] = IF @ = Absent THEN <<"host">> ELSE @,
            !["X-Forwarded-Proto"] =
               IF @ # Absent THEN @ ELSE IF isHTTPS THEN <<"https">> ELSE <<"http">>]

(* forwardedHeadersApply: the chain is continued from the request that     *)
(* arrived, of which the first line is read.                               *)
Forwarded(h, c, isHTTPS) ==
  [h EXCEPT !["X-Real-IP"] = <<RealAddress(c)>>,
            !["X-Forwarded-For"] = Get("X-Forwarded-For") \o <<RealAddress(c)>>,
            !["X-Forwarded-Host"] = IF @ = Absent THEN <<"host">> ELSE @,
            !["X-Forwarded-Proto"] =
               IF @ # Absent THEN @ ELSE IF isHTTPS THEN <<"https">> ELSE <<"http">>]

(* Mutant: only omit_proxy_headers removes what the client sent. *)
IdentityNotHidden(h, c, isHTTPS) ==
  IF c.omit THEN StripIdentity(h)
  ELSE IF c.hideRealIP \/ c.trust THEN h ELSE Forwarded(h, c, isHTTPS)

SetIdentity(h, c, isHTTPS) ==
  IF c.omit \/ c.hideRealIP THEN StripIdentity(h)
  ELSE IF c.trust THEN h ELSE Forwarded(h, c, isHTTPS)

(* ReverseProxy's removeHopByHopHeaders, after which an upgrade the client *)
(* asked for is put back.                                                  *)
OneHopLess(h) ==
  LET named == ToSet(h["Connection"])
      rest == Without(h, named \cup {"Connection", "Upgrade"})
  IN IF "Upgrade" \in named /\ h["Upgrade"] # Absent
     THEN [rest EXCEPT !["Connection"] = <<"Upgrade">>, !["Upgrade"] = h["Upgrade"]]
     ELSE rest

-----------------------------------------------------------------------------
(* The steps: first those of a plain request, then those of a WebSocket *)

Goes(p, from, to) == step[p] = from /\ step' = [step EXCEPT ![p] = to]
Sets(p, h) == header' = [header EXCEPT ![p] = h]

UpInit ==
  /\ client \in ClientHeaders /\ tls \in BOOLEAN /\ config \in Configs
  /\ step = [p \in Path |-> "allow"]
  /\ header = [p \in Path |-> Empty]
  /\ host = [p \in Path |-> None]

(* proxy.Director, to the path rules *)
DirectorAllow ==
  /\ Goes("http", "allow", "hide")
  /\ Sets("http", Allowed(Lines, config))
  /\ host' = [host EXCEPT !["http"] = UpstreamHost(config)]
  /\ UNCHANGED <<client, tls, config>>

DirectorHide ==
  /\ Goes("http", "hide", "origin")
  /\ Sets("http", Without(WithAgent(header["http"]), config.hide))
  /\ UNCHANGED <<client, tls, config, host>>

DirectorOrigin ==
  /\ Goes("http", "origin", "up")
  /\ Sets("http", IF PreserveHost(config) THEN header["http"]
                  ELSE RewriteOriginReferer(header["http"], config))
  /\ UNCHANGED <<client, tls, config, host>>

DirectorHeaderUp ==
  /\ Goes("http", "up", "identity")
  /\ \E h \in SetByHeaderUp(header["http"], config) : Sets("http", h)
  /\ UNCHANGED <<client, tls, config, host>>

(* The scheme is read from the headers as the rules have left them. *)
DirectorIdentity ==
  /\ Goes("http", "identity", "transport")
  /\ Sets("http", SetIdentity(header["http"], config,
                             RequestIsHTTPS(header["http"]["X-Forwarded-Proto"])))
  /\ UNCHANGED <<client, tls, config, host>>

(* ReverseProxy.ServeHTTP after Director: the headers of the hop go, and   *)
(* the address of the connection is added to the chain.                    *)
ReverseProxySends ==
  /\ Goes("http", "transport", "sent")
  /\ Sets("http", [WithAgent(OneHopLess(header["http"]))
                      EXCEPT !["X-Forwarded-For"] = @ \o <<"peer">>])
  /\ UNCHANGED <<client, tls, config, host>>

(* handleWebSocketProxy *)
WebSocketAllow ==
  /\ Goes("websocket", "allow", "hide")
  /\ Sets("websocket", WSAllowed(Lines, config))
  /\ UNCHANGED <<client, tls, config, host>>

WebSocketHide ==
  /\ Goes("websocket", "hide", "origin")
  /\ Sets("websocket", Without(WithAgent(header["websocket"]), config.hide))
  /\ UNCHANGED <<client, tls, config, host>>

(* The client's Origin and Referer, whatever the list and hide_header_up   *)
(* say; the Referer is rewritten as for a plain request.                   *)
ClientOriginReferer(h, c) ==
  LET Client(n) == IF Get(n) = Absent THEN h[n] ELSE Get(n)
      kept == [h EXCEPT !["Origin"] = Client("Origin"), !["Referer"] = Client("Referer")]
  IN IF PreserveHost(c) THEN kept ELSE RewriteReferer(kept, c)

WebSocketOrigin ==
  /\ Goes("websocket", "origin", "up")
  /\ Sets("websocket", ClientOriginReferer(header["websocket"], config))
  /\ UNCHANGED <<client, tls, config, host>>

WebSocketHeaderUp ==
  /\ Goes("websocket", "up", "identity")
  /\ \E h \in SetByHeaderUp(header["websocket"], config) : Sets("websocket", h)
  /\ host' = [host EXCEPT !["websocket"] = UpstreamHost(config)]
  /\ UNCHANGED <<client, tls, config>>

(* Mutant: the order of the two last rules is swapped. *)
WebSocketIdentityFirst ==
  /\ Goes("websocket", "identity", "sent")
  /\ \E h \in SetByHeaderUp(SetIdentity(header["websocket"], config,
                                         RequestIsHTTPS(Get("X-Forwarded-Proto"))), config) :
       Sets("websocket", h)
  /\ UNCHANGED <<client, tls, config, host>>

(* The scheme is read from the headers that arrived.  Then the dialer      *)
(* sends what is there, or refuses a header of the hop.                    *)
WebSocketIdentity ==
  /\ Goes("websocket", "identity", "sent")
  /\ Sets("websocket", SetIdentity(header["websocket"], config,
                                  RequestIsHTTPS(Get("X-Forwarded-Proto"))))
  /\ UNCHANGED <<client, tls, config, host>>

UpNext ==
  \/ DirectorAllow \/ DirectorHide \/ DirectorOrigin \/ DirectorHeaderUp \/ DirectorIdentity
  \/ ReverseProxySends
  \/ WebSocketAllow \/ WebSocketHide \/ WebSocketOrigin \/ WebSocketHeaderUp \/ WebSocketIdentity

UpSpec == UpInit /\ [][UpNext]_upVars
-----------------------------------------------------------------------------
Token == Claim \cup Setting \cup {"peer", "host", "empty", "hostHeader", "target"}
Sent(p) == step[p] = "sent"
Forwards == ~(config.omit \/ config.hideRealIP \/ config.trust)

(* The headers that Connection may name when a plain request is sent: for  *)
(* the library they are those of one hop.                                  *)
NamedInConnection ==
  ToSet(Lines["Connection"])
    \cup UNION {ToSet(u.value) : u \in {v \in config.up : v.name = "Connection"}}

(* With an allow list, what a client says in any other header does not     *)
(* reach the upstream, on either path and through all later rules; but a   *)
(* WebSocket always carries Origin and Referer (copyWSHeadersWith-         *)
(* OptionalAllow, applyAllowHeaderUp, handleWebSocketProxy).               *)
AllowListIsKept ==
  \A p \in Path : Sent(p) /\ config.allow # None =>
    \A n \in Name \ config.allow :
      "client" \in ToSet(header[p][n]) => p = "websocket" /\ n \in {"Origin", "Referer"}

(* After omit_proxy_headers and hide_real_ip neither the client's claims   *)
(* about its address and scheme nor what header_up adds reach the          *)
(* upstream, and a WebSocket says nothing at all (a plain request gets the *)
(* library's X-Forwarded-For: OmitIsHonoured).                             *)
ClaimsAreStripped ==
  \A p \in Path : Sent(p) /\ (config.omit \/ config.hideRealIP) =>
    \A n \in Identity : header[p][n] = IF p = "http" /\ n = "X-Forwarded-For"
                                      THEN <<"peer">> ELSE Absent

(* The chain on the first line that arrived is never lost when the panel   *)
(* writes its own forwarding headers, whatever lists and header_up do to   *)
(* it, unless a plain request names the chain in Connection: the upstream  *)
(* sees the hops before this one (setForwardedHeaders).                    *)
ChainIsContinued ==
  \A p \in Path :
    Sent(p) /\ Forwards /\ ~(p = "http" /\ "X-Forwarded-For" \in NamedInConnection) =>
      IsStrictPrefix(Get("X-Forwarded-For"), header[p]["X-Forwarded-For"])

(* Two implementations of the same rules agree: a WebSocket reaches the    *)
(* upstream with the Host, the headers, the Referer, the address and the   *)
(* scheme a plain request of the same client has, where header_up leaves   *)
(* no choice.  The two read a claim of https from different headers, a     *)
(* WebSocket carries only one Referer, and only a plain request loses what *)
(* Connection names.                                                       *)
PathsAgree ==
  LET Listed(n) == (config.allow = None \/ n \in config.allow) /\ n \notin config.hide
      Same == {"Cookie", "X-Real-IP", "X-Forwarded-Host"}
              \cup {n \in {"Referer"} : Listed(n) /\ client[n].rest = <<>>}
              \cup {n \in {"X-Forwarded-Proto"} : tls \/ Get(n) # <<"https">>}
  IN (\A p \in Path : Sent(p)) /\ (\A u, v \in config.up : u.name = v.name => u = v) =>
       /\ host["http"] = host["websocket"]
       /\ \A n \in Same \ NamedInConnection : header["http"][n] = header["websocket"][n]

(* The panel appends to the chain that exists: every hop that arrived,     *)
(* on whichever line, is in the chain it sends.                            *)
ChainIsComplete ==
  \A p \in Path :
    Sent(p) /\ Forwards /\ ~(p = "http" /\ "X-Forwarded-For" \in NamedInConnection) =>
      IsPrefix(Lines["X-Forwarded-For"], header[p]["X-Forwarded-For"])

(* With omit_proxy_headers a request carries no header about proxies.      *)
OmitIsHonoured ==
  \A p \in Path : Sent(p) /\ config.omit => \A n \in Identity : header[p][n] = Absent
=============================================================================
