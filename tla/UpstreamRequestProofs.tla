----------------------- MODULE UpstreamRequestProofs -----------------------
(***************************************************************************)
(* Theorems about UpstreamRequest, for every set of clients' headers and   *)
(* every configuration.                                                    *)
(***************************************************************************)
EXTENDS UpstreamRequest, TLAPS

Steps == {"allow", "hide", "origin", "up", "identity", "transport", "sent"}
Headers == [Name -> Seq(Token)]

Strips == config.omit \/ config.hideRealIP

UpType ==
  /\ client \in [Name -> [first : Seq(Token), rest : Seq(Token)]]
  /\ tls \in BOOLEAN
  /\ config \in ReverseProxyConfig
  /\ step \in [Path -> Steps] /\ step["websocket"] # "transport"
  /\ header \in [Path -> Headers]

(* What the last rule of the code leaves, of which the library's step only *)
(* adds to the chain.                                                      *)
Final(h) ==
  /\ Strips => \A n \in Identity : h[n] = Absent
  /\ Forwards => h["X-Forwarded-For"] = Get("X-Forwarded-For") \o <<RealAddress(config)>>

WithPeer(h) ==
  /\ Strips => \A n \in Identity : h[n] = IF n = "X-Forwarded-For" THEN <<"peer">> ELSE Absent
  /\ Forwards => \/ "X-Forwarded-For" \in NamedInConnection
                 \/ h["X-Forwarded-For"] =
                      (Get("X-Forwarded-For") \o <<RealAddress(config)>>) \o <<"peer">>

(* Only what the client or header_up names there is in Connection. *)
NamesInv == ToSet(header["http"]["Connection"]) \subseteq NamedInConnection

UpInv ==
  /\ UpType
  /\ NamesInv
  /\ step["http"] = "transport" => Final(header["http"])
  /\ step["http"] = "sent" => WithPeer(header["http"])
  /\ step["websocket"] = "sent" => Final(header["websocket"])

-----------------------------------------------------------------------------
(* Every rule makes headers of headers. *)

LEMMA AbsentType == Absent \in Seq(Token)
BY DEF Absent

LEMMA OneToken ==
  ASSUME NEW t \in Token
  PROVE  <<t>> \in Seq(Token)
OBVIOUS

LEMMA WhatArrived ==
  ASSUME UpType
  PROVE  /\ Lines \in Headers
         /\ \A n \in Name : Get(n) \in Seq(Token) /\ (client[n].rest = <<>> => Lines[n] = Get(n))
<1>1. \A n \in Name : /\ client[n].first \in Seq(Token) /\ client[n].rest \in Seq(Token)
                      /\ client[n].first \o client[n].rest \in Seq(Token)
  BY DEF UpType
<1>2. \A q \in Seq(Token) : q \o <<>> = q
  OBVIOUS
<1> QED
  BY <1>1, <1>2 DEF Lines, Get, Headers

LEMMA ListRules ==
  ASSUME NEW h \in Headers, NEW c, NEW names
  PROVE  /\ Only(h, names) \in Headers
         /\ Without(h, names) \in Headers
         /\ Allowed(h, c) \in Headers
         /\ WSAllowed(h, c) \in Headers
         /\ WithAgent(h) \in Headers
<1>1. \A N : \A g \in Headers : Only(g, N) \in Headers /\ Without(g, N) \in Headers
  BY AbsentType DEF Only, Without, Headers
<1>2. Allowed(h, c) \in Headers
  BY <1>1 DEF Allowed
<1>3. WSAllowed(h, c) \in Headers
  BY <1>1, <1>2 DEF WSAllowed
<1>4. "empty" \in Token
  BY DEF Token
<1>5. WithAgent(h) \in Headers
  BY <1>4, OneToken DEF WithAgent, Headers
<1> QED
  BY <1>1, <1>2, <1>3, <1>5

LEMMA OriginRules ==
  ASSUME NEW h \in Headers, NEW c
  PROVE  /\ RewriteReferer(h, c) \in Headers
         /\ RewriteOriginReferer(h, c) \in Headers
<1>1. UpstreamHost(c) \in Token
  BY DEF UpstreamHost, Token, Claim
<1>2. \A g \in Headers : RewriteReferer(g, c) \in Headers
  BY <1>1, OneToken DEF RewriteReferer, Headers
<1>3. [h EXCEPT !["Origin"] = <<UpstreamHost(c)>>] \in Headers
  BY <1>1, OneToken DEF Headers
<1> QED
  BY <1>2, <1>3 DEF RewriteOriginReferer

LEMMA ClientOriginRule ==
  ASSUME UpType, NEW h \in Headers
  PROVE  ClientOriginReferer(h, config) \in Headers
<1> DEFINE Client(n) == IF Get(n) = Absent THEN h[n] ELSE Get(n)
           kept == [h EXCEPT !["Origin"] = Client("Origin"), !["Referer"] = Client("Referer")]
<1>1. \A n \in Name : Client(n) \in Seq(Token)
  BY WhatArrived DEF Headers
<1>2. "Origin" \in Name /\ "Referer" \in Name
  BY DEF Name
<1> HIDE DEF Client
<1>3. kept \in Headers
  BY <1>1, <1>2 DEF Headers
<1> HIDE DEF kept
<1>4. RewriteReferer(kept, config) \in Headers
  BY <1>3, OriginRules
<1> QED
  BY <1>3, <1>4 DEF ClientOriginReferer, kept, Client

LEMMA HeaderUpRule ==
  ASSUME UpType, NEW h \in Headers, NEW g \in SetByHeaderUp(h, config)
  PROVE  g \in Headers
<1> DEFINE Values == [{u.name : u \in config.up} -> {u.value : u \in config.up}]
           Finals == {f \in Values :
                        \A n \in DOMAIN f : [name |-> n, value |-> f[n]] \in config.up}
<1>1. PICK f \in Finals : g = [n \in Name |-> IF n \in DOMAIN f THEN f[n] ELSE h[n]]
  BY DEF SetByHeaderUp
<1>2. config.up \in SUBSET [name : Name, value : Seq(Setting)]
  BY DEF UpType, ReverseProxyConfig
<1>3. Seq(Setting) \subseteq Seq(Token)
  <2>1. Setting \subseteq Token
    BY DEF Token
  <2> QED
    BY <2>1
<1>4. \A n \in DOMAIN f : f[n] \in Seq(Token)
  <2> SUFFICES ASSUME NEW n \in DOMAIN f
               PROVE  f[n] \in Seq(Token)
    OBVIOUS
  <2>1. [name |-> n, value |-> f[n]] \in [name : Name, value : Seq(Setting)]
    BY <1>2
  <2> QED
    BY <2>1, <1>3
<1> QED
  BY <1>1, <1>4 DEF Headers

LEMMA RealAddressType ==
  ASSUME UpType
  PROVE  RealAddress(config) \in Token
<1>1. "peer" \in Token
  BY DEF Token
<1>2. config.clientIP # None => Get(config.clientIP) \in Seq(Token)
  BY WhatArrived DEF UpType, ReverseProxyConfig
<1>3. \A s \in Seq(Token) : s # <<>> => Head(s) \in Token
  OBVIOUS
<1> QED
  BY <1>1, <1>2, <1>3 DEF RealAddress, Absent

(* The last rule gives the headers of proxies their final values. *)
LEMMA IdentityRule ==
  ASSUME UpType, NEW h \in Headers, NEW isHTTPS \in BOOLEAN
  PROVE  /\ SetIdentity(h, config, isHTTPS) \in Headers
         /\ Final(SetIdentity(h, config, isHTTPS))
         /\ SetIdentity(h, config, isHTTPS)["Connection"] = h["Connection"]
<1>1. /\ StripIdentity(h) \in Headers
      /\ \A n \in Identity : StripIdentity(h)[n] = Absent
      /\ StripIdentity(h)["Connection"] = h["Connection"]
  BY ListRules DEF StripIdentity, Without, Identity, Name
<1>2. /\ Forwarded(h, config, isHTTPS) \in Headers
      /\ Forwarded(h, config, isHTTPS)["X-Forwarded-For"]
           = Get("X-Forwarded-For") \o <<RealAddress(config)>>
      /\ Forwarded(h, config, isHTTPS)["Connection"] = h["Connection"]
  <2>1. /\ "X-Forwarded-For" \in Name /\ "Connection" \in Name
        /\ "host" \in Token /\ "http" \in Token /\ "https" \in Token
    BY DEF Name, Token, Claim
  <2>2. /\ <<RealAddress(config)>> \in Seq(Token) /\ <<"host">> \in Seq(Token)
        /\ <<"http">> \in Seq(Token) /\ <<"https">> \in Seq(Token)
    BY <2>1, RealAddressType, OneToken
  <2>3. Get("X-Forwarded-For") \o <<RealAddress(config)>> \in Seq(Token)
    BY <2>1, <2>2, WhatArrived
  <2> QED
    BY <2>1, <2>2, <2>3 DEF Forwarded, Headers
<1> QED
  BY <1>1, <1>2 DEF SetIdentity, Final, Strips, Forwards

(* What the library takes away and puts back. *)
LEMMA OneHopRule ==
  ASSUME NEW h \in Headers
  PROVE  /\ OneHopLess(h) \in Headers
         /\ \A n \in Name : n \notin {"Connection", "Upgrade"} =>
              OneHopLess(h)[n] = IF n \in ToSet(h["Connection"]) THEN Absent ELSE h[n]
         /\ OneHopLess(h)["Connection"] \in {Absent, <<"Upgrade">>}
         /\ OneHopLess(h)["Upgrade"] \in {Absent, h["Upgrade"]}
<1> DEFINE gone == ToSet(h["Connection"]) \cup {"Connection", "Upgrade"}
           rest == Without(h, gone)
<1>1. rest \in Headers /\ \A n \in Name : rest[n] = IF n \in gone THEN Absent ELSE h[n]
  BY ListRules DEF Without
<1>2. "Upgrade" \in Name /\ "Connection" \in Name /\ "Upgrade" \in Token
  BY DEF Name, Token, Claim
<1>3. <<"Upgrade">> \in Seq(Token) /\ h["Upgrade"] \in Seq(Token)
  BY <1>2, OneToken DEF Headers
<1>4. \/ OneHopLess(h) = rest
      \/ OneHopLess(h) = [rest EXCEPT !["Connection"] = <<"Upgrade">>, !["Upgrade"] = h["Upgrade"]]
  BY DEF OneHopLess
<1>5. \A n \in Name : n \notin {"Connection", "Upgrade"} => (n \in gone <=> n \in ToSet(h["Connection"]))
  OBVIOUS
<1>6. "Connection" \in gone /\ "Upgrade" \in gone
  OBVIOUS
<1> HIDE DEF rest, gone
<1> QED
  BY <1>1, <1>2, <1>3, <1>4, <1>5, <1>6 DEF Headers

(* What the rules of a plain request leave in Connection. *)
LEMMA NamesRules ==
  ASSUME UpType, NamesInv
  PROVE  /\ ToSet(Allowed(Lines, config)["Connection"]) \subseteq NamedInConnection
         /\ ToSet(Without(WithAgent(header["http"]), config.hide)["Connection"]) \subseteq NamedInConnection
         /\ ToSet(RewriteOriginReferer(header["http"], config)["Connection"]) \subseteq NamedInConnection
         /\ \A g \in SetByHeaderUp(header["http"], config) :
              ToSet(g["Connection"]) \subseteq NamedInConnection
<1>1. ToSet(Absent) = {} /\ "Connection" \in Name /\ header["http"] \in Headers
  BY DEF Absent, ToSet, Name, UpType, Path
<1>2. Allowed(Lines, config)["Connection"] \in {Absent, Lines["Connection"]}
  BY <1>1 DEF Allowed, Only
<1>3. Without(WithAgent(header["http"]), config.hide)["Connection"]
        \in {Absent, header["http"]["Connection"]}
  BY <1>1 DEF Without, WithAgent, Headers
<1>4. RewriteOriginReferer(header["http"], config)["Connection"] = header["http"]["Connection"]
  BY <1>1 DEF RewriteOriginReferer, RewriteReferer, Headers
<1>5. ASSUME NEW g \in SetByHeaderUp(header["http"], config)
      PROVE  ToSet(g["Connection"]) \subseteq NamedInConnection
  <2> DEFINE Values == [{u.name : u \in config.up} -> {u.value : u \in config.up}]
             Finals == {f \in Values :
                          \A n \in DOMAIN f : [name |-> n, value |-> f[n]] \in config.up}
  <2>1. PICK f \in Finals :
          g = [n \in Name |-> IF n \in DOMAIN f THEN f[n] ELSE header["http"][n]]
    BY <1>5 DEF SetByHeaderUp
  <2>2. CASE "Connection" \in DOMAIN f
    <3> DEFINE u == [name |-> "Connection", value |-> f["Connection"]]
    <3>1. u \in config.up /\ u.name = "Connection" /\ g["Connection"] = u.value
      BY <1>1, <2>1, <2>2
    <3> HIDE DEF u
    <3>2. ToSet(u.value) \subseteq NamedInConnection
      BY <3>1 DEF NamedInConnection
    <3> QED
      BY <3>1, <3>2
  <2>3. CASE "Connection" \notin DOMAIN f
    BY <1>1, <2>1, <2>3 DEF NamesInv
  <2> QED
    BY <2>2, <2>3
<1>6. ToSet(Lines["Connection"]) \subseteq NamedInConnection
  BY DEF NamedInConnection
<1> QED
  BY <1>1, <1>2, <1>3, <1>4, <1>5, <1>6 DEF NamesInv
-----------------------------------------------------------------------------
LEMMA UpInvInit == UpInit => UpInv
<1> SUFFICES ASSUME UpInit
             PROVE  UpInv
  OBVIOUS
<1>1. Seq(Claim) \subseteq Seq(Token)
  <2>1. Claim \subseteq Token
    BY DEF Token
  <2> QED
    BY <2>1
<1>2. /\ client \in [Name -> [first : Seq(Token), rest : Seq(Token)]]
      /\ config \in ReverseProxyConfig
  BY <1>1, UpstreamAssumption DEF UpInit
<1>3. Empty \in Headers
  BY AbsentType DEF Empty, Headers
<1>4. UpType
  BY <1>2, <1>3 DEF UpInit, UpType, Path, Steps
<1>5. NamesInv
  BY DEF UpInit, NamesInv, Empty, Absent, ToSet, Path, Name
<1> QED
  BY <1>4, <1>5 DEF UpInit, UpInv, Path

(* A rule before the last one makes headers of headers. *)
LEMMA RuleKeeps ==
  ASSUME UpInv, NEW p \in Path, NEW from, NEW to \in {"hide", "origin", "up", "identity"},
         NEW h \in Headers, p = "http" => ToSet(h["Connection"]) \subseteq NamedInConnection,
         Goes(p, from, to), Sets(p, h), UNCHANGED <<client, tls, config>>
  PROVE  UpInv'
<1>1. /\ step' = [step EXCEPT ![p] = to]
      /\ header' = [header EXCEPT ![p] = h]
  BY DEF Goes, Sets
<1>2. UpType'
  BY <1>1 DEF UpInv, UpType, Steps, Path
<1>3. \A q \in Path : /\ step'[q] \in {"transport", "sent"} => step'[q] = step[q]
                                                           /\ header'[q] = header[q]
  BY <1>1 DEF UpInv, UpType
<1>4. NamesInv'
  <2>1. NamedInConnection' = NamedInConnection
    BY DEF NamedInConnection, Lines
  <2>2. header'["http"] = IF p = "http" THEN h ELSE header["http"]
    BY <1>1 DEF UpInv, UpType, Path
  <2> QED
    BY <2>1, <2>2 DEF UpInv, NamesInv
<1>5. NamedInConnection' = NamedInConnection
  BY DEF NamedInConnection, Lines
<1> QED
  BY <1>2, <1>3, <1>4, <1>5 DEF UpInv, Final, WithPeer, Strips, Forwards, RealAddress, Get, Path

LEMMA SendKeeps ==
  ASSUME UpInv, DirectorIdentity \/ ReverseProxySends \/ WebSocketIdentity
  PROVE  UpInv'
<1>1. UpType
  BY DEF UpInv
<1>2. \A p \in Path : header[p] \in Headers
  BY <1>1 DEF UpType
<1>3. UNCHANGED <<client, tls, config>>
  BY DEF DirectorIdentity, ReverseProxySends, WebSocketIdentity
<1>4. \A h : Final(h)' <=> Final(h)
  BY <1>3 DEF Final, Strips, Forwards, RealAddress, Get
<1>5. (\A h : WithPeer(h)' <=> WithPeer(h)) /\ NamedInConnection' = NamedInConnection
  BY <1>3 DEF WithPeer, Strips, Forwards, RealAddress, Get, NamedInConnection, Lines
<1>6. CASE DirectorIdentity
  <2> DEFINE isHTTPS == RequestIsHTTPS(header["http"]["X-Forwarded-Proto"])
             h == SetIdentity(header["http"], config, isHTTPS)
  <2>1. /\ step' = [step EXCEPT !["http"] = "transport"]
        /\ header' = [header EXCEPT !["http"] = h]
    BY <1>6 DEF DirectorIdentity, Goes, Sets
  <2>2. h \in Headers /\ Final(h) /\ h["Connection"] = header["http"]["Connection"]
    <3>1. isHTTPS \in BOOLEAN
      BY DEF RequestIsHTTPS
    <3> HIDE DEF isHTTPS
    <3> QED
      BY <1>1, <1>2, <3>1, IdentityRule DEF Path
  <2> HIDE DEF h, isHTTPS
  <2>3. UpType'
    BY <1>1, <1>3, <2>1, <2>2 DEF UpType, Steps, Path
  <2>4. /\ header'["http"] = h /\ step'["http"] = "transport"
        /\ header'["websocket"] = header["websocket"] /\ step'["websocket"] = step["websocket"]
    BY <1>1, <2>1 DEF UpType, Path
  <2> QED
    BY <1>4, <1>5, <2>2, <2>3, <2>4 DEF UpInv, NamesInv
<1>7. CASE WebSocketIdentity
  <2> DEFINE isHTTPS == RequestIsHTTPS(Get("X-Forwarded-Proto"))
             h == SetIdentity(header["websocket"], config, isHTTPS)
  <2>1. /\ step' = [step EXCEPT !["websocket"] = "sent"]
        /\ header' = [header EXCEPT !["websocket"] = h]
    BY <1>7 DEF WebSocketIdentity, Goes, Sets
  <2>2. h \in Headers /\ Final(h) /\ h["Connection"] = header["websocket"]["Connection"]
    <3>1. isHTTPS \in BOOLEAN
      BY DEF RequestIsHTTPS
    <3> HIDE DEF isHTTPS
    <3> QED
      BY <1>1, <1>2, <3>1, IdentityRule DEF Path
  <2> HIDE DEF h, isHTTPS
  <2>3. UpType'
    BY <1>1, <1>3, <2>1, <2>2 DEF UpType, Steps, Path
  <2>4. /\ header'["websocket"] = h
        /\ header'["http"] = header["http"] /\ step'["http"] = step["http"]
    BY <1>1, <2>1 DEF UpType, Path
  <2> QED
    BY <1>4, <1>5, <2>2, <2>3, <2>4 DEF UpInv, NamesInv
<1>8. CASE ReverseProxySends
  <2> DEFINE w == OneHopLess(header["http"])
             g == WithAgent(w)
             h == [g EXCEPT !["X-Forwarded-For"] = @ \o <<"peer">>]
             named == ToSet(header["http"]["Connection"])
  <2>1. /\ step["http"] = "transport"
        /\ step' = [step EXCEPT !["http"] = "sent"]
        /\ header' = [header EXCEPT !["http"] = h]
    BY <1>8 DEF ReverseProxySends, Goes, Sets
  <2>2. /\ g \in Headers
        /\ \A n \in Identity : g[n] = IF n \in named THEN Absent ELSE header["http"][n]
        /\ g["Connection"] \in {Absent, <<"Upgrade">>}
        /\ g["Connection"] = <<"Upgrade">> => "Upgrade" \in named
    <3>1. /\ w \in Headers
          /\ \A n \in Name : n \notin {"Connection", "Upgrade"} =>
               w[n] = IF n \in named THEN Absent ELSE header["http"][n]
          /\ w["Connection"] \in {Absent, <<"Upgrade">>}
      BY <1>2, OneHopRule DEF Path
    <3>2. w["Connection"] = <<"Upgrade">> => "Upgrade" \in named
      BY DEF OneHopLess, Without, Absent, Name
    <3> HIDE DEF w, named
    <3>3. WithAgent(w) \in Headers
      BY <3>1, ListRules
    <3>4. \A n \in Name : n # "User-Agent" => WithAgent(w)[n] = w[n]
      BY <3>1 DEF WithAgent, Headers
    <3> QED
      BY <3>1, <3>2, <3>3, <3>4 DEF Identity, Name
  <2>3. Final(header["http"]) /\ named \subseteq NamedInConnection
    BY <2>1 DEF UpInv, NamesInv
  <2> HIDE DEF g, named
  <2>4. "peer" \in Token /\ "X-Forwarded-For" \in Name \cap Identity /\ "Connection" \in Name
    BY DEF Token, Name, Identity
  <2>5. g["X-Forwarded-For"] \o <<"peer">> \in Seq(Token)
    BY <2>2, <2>4, OneToken DEF Headers
  <2>6. /\ h \in Headers
        /\ h["X-Forwarded-For"] = g["X-Forwarded-For"] \o <<"peer">>
        /\ \A n \in Name : n # "X-Forwarded-For" => h[n] = g[n]
    BY <2>2, <2>4, <2>5 DEF Headers
  <2>7. Absent \o <<"peer">> = <<"peer">>
    BY DEF Absent
  <2> HIDE DEF h
  <2>8. WithPeer(h)
    <3>1. ASSUME Strips, NEW n \in Identity
          PROVE  h[n] = IF n = "X-Forwarded-For" THEN <<"peer">> ELSE Absent
      <4>1. g[n] = Absent
        BY <2>2, <2>3, <3>1 DEF Final
      <4> QED
        BY <2>4, <2>6, <2>7, <4>1 DEF Identity, Name
    <3>2. ASSUME Forwards, "X-Forwarded-For" \notin NamedInConnection
          PROVE  h["X-Forwarded-For"] = (Get("X-Forwarded-For") \o <<RealAddress(config)>>) \o <<"peer">>
      <4>1. g["X-Forwarded-For"] = header["http"]["X-Forwarded-For"]
        BY <2>2, <2>3, <2>4, <3>2
      <4> QED
        BY <2>3, <2>6, <3>2, <4>1 DEF Final
    <3> QED
      BY <3>1, <3>2 DEF WithPeer
  <2>9. UpType'
    BY <1>1, <1>3, <2>1, <2>6 DEF UpType, Steps, Path
  <2>10. /\ header'["http"] = h /\ step'["http"] = "sent"
         /\ header'["websocket"] = header["websocket"] /\ step'["websocket"] = step["websocket"]
    BY <1>1, <2>1 DEF UpType, Path
  <2>11. ToSet(h["Connection"]) \subseteq NamedInConnection
    <3>1. h["Connection"] = g["Connection"]
      BY <2>4, <2>6
    <3>2. ToSet(Absent) = {} /\ ToSet(<<"Upgrade">>) = {"Upgrade"}
      BY DEF ToSet, Absent
    <3> QED
      BY <2>2, <2>3, <3>1, <3>2
  <2> QED
    BY <1>4, <1>5, <2>8, <2>9, <2>10, <2>11 DEF UpInv, NamesInv
<1> QED
  BY <1>6, <1>7, <1>8

LEMMA UpInvStep == UpInv /\ [UpNext]_upVars => UpInv'
<1> SUFFICES ASSUME UpInv, [UpNext]_upVars
             PROVE  UpInv'
  OBVIOUS
<1>1. /\ UpType /\ NamesInv
      /\ Lines \in Headers
      /\ header["http"] \in Headers /\ header["websocket"] \in Headers
  BY WhatArrived DEF UpInv, UpType, Path
<1>2. CASE DirectorAllow
  BY <1>2, <1>1, ListRules, NamesRules, RuleKeeps DEF DirectorAllow, Path
<1>3. CASE DirectorHide
  BY <1>3, <1>1, ListRules, NamesRules, RuleKeeps DEF DirectorHide, Path
<1>4. CASE DirectorOrigin
  BY <1>4, <1>1, OriginRules, NamesRules, RuleKeeps DEF DirectorOrigin, NamesInv, Path
<1>5. CASE DirectorHeaderUp
  BY <1>5, <1>1, HeaderUpRule, NamesRules, RuleKeeps DEF DirectorHeaderUp, Path
<1>6. CASE WebSocketAllow
  BY <1>6, <1>1, ListRules, RuleKeeps DEF WebSocketAllow, Path
<1>7. CASE WebSocketHide
  BY <1>7, <1>1, ListRules, RuleKeeps DEF WebSocketHide, Path
<1>8. CASE WebSocketOrigin
  BY <1>8, <1>1, ClientOriginRule, RuleKeeps DEF WebSocketOrigin, Path
<1>9. CASE WebSocketHeaderUp
  BY <1>9, <1>1, HeaderUpRule, RuleKeeps DEF WebSocketHeaderUp, Path
<1>10. CASE DirectorIdentity \/ ReverseProxySends \/ WebSocketIdentity
  BY <1>10, SendKeeps
<1>11. CASE UNCHANGED upVars
  BY <1>11 DEF upVars, UpInv, UpType, NamesInv, Final, WithPeer, Strips, Forwards, RealAddress, Get,
               NamedInConnection, Lines
<1> QED
  BY <1>2, <1>3, <1>4, <1>5, <1>6, <1>7, <1>8, <1>9, <1>10, <1>11 DEF UpNext

LEMMA UpInvariant == UpSpec => []UpInv
BY UpInvInit, UpInvStep, PTL DEF UpSpec

(* After omit_proxy_headers and hide_real_ip nothing the client claims     *)
(* about its address and scheme, and nothing header_up adds, reaches the   *)
(* upstream.                                                               *)
THEOREM ClaimsNeverPass == UpSpec => []ClaimsAreStripped
<1>1. UpInv => ClaimsAreStripped
  BY DEF UpInv, ClaimsAreStripped, Sent, Final, WithPeer, Strips, Path
<1> QED
  BY <1>1, UpInvariant, PTL

(* Appending to a sequence continues it. *)
LEMMA LongerIsContinued ==
  ASSUME NEW S, NEW s \in Seq(S), NEW t \in Seq(S), t # <<>>
  PROVE  IsStrictPrefix(s, s \o t)
<1>1. /\ s \o t \in Seq(S)
      /\ Len(s \o t) = Len(s) + Len(t)
      /\ \A i \in 1 .. Len(s) : (s \o t)[i] = s[i]
      /\ Len(t) > 0
  OBVIOUS
<1>2. SubSeq(s, 1, Len(s)) = s
  OBVIOUS
<1>3. SubSeq(s \o t, 1, Len(s)) = s
  BY <1>1
<1>4. Len(s) \in Nat /\ Len(t) \in Nat /\ Len(s \o t) \in Nat
  OBVIOUS
<1>5. Len(s) <= Len(s \o t) /\ Len(s) # Len(s \o t)
  BY <1>1, <1>4
<1>6. s # s \o t
  BY <1>5, Zenon
<1>7. IsPrefix(s, s \o t)
  BY <1>2, <1>3, <1>5 DEF IsPrefix
<1> QED
  BY <1>6, <1>7 DEF IsStrictPrefix

(* When the panel writes its own forwarding headers, the upstream sees the *)
(* hops on the first line of the chain that arrived, unless Connection     *)
(* names the chain and the library drops it (setForwardedHeaders).         *)
THEOREM ChainsGrow == UpSpec => []ChainIsContinued
<1>1. UpInv => ChainIsContinued
  <2> SUFFICES ASSUME UpInv, Forwards, NEW p \in Path, step[p] = "sent",
                      ~(p = "http" /\ "X-Forwarded-For" \in NamedInConnection)
               PROVE  IsStrictPrefix(Get("X-Forwarded-For"), header[p]["X-Forwarded-For"])
    BY DEF ChainIsContinued, Sent
  <2> DEFINE chain == Get("X-Forwarded-For")
             address == <<RealAddress(config)>>
             peer == <<"peer">>
  <2>1. chain \in Seq(Token)
    BY WhatArrived DEF UpInv, Name
  <2>2. address \in Seq(Token) /\ address # <<>>
    BY RealAddressType, OneToken DEF UpInv
  <2>3. peer \in Seq(Token) /\ peer # <<>>
    BY OneToken DEF Token
  <2>4. header[p]["X-Forwarded-For"] \in {chain \o address, (chain \o address) \o peer}
    BY DEF UpInv, Final, WithPeer, Path
  <2> HIDE DEF chain, address, peer
  <2>5. (chain \o address) \o peer = chain \o (address \o peer)
    BY <2>1, <2>2, <2>3
  <2>6. address \o peer \in Seq(Token) /\ address \o peer # <<>>
    BY <2>2, <2>3
  <2> QED
    BY <2>1, <2>2, <2>4, <2>5, <2>6, LongerIsContinued DEF chain
<1> QED
  BY <1>1, UpInvariant, PTL

-----------------------------------------------------------------------------
(* The allow list *)

(* What the client says of itself is in the value. *)
Says(s) == "client" \in ToSet(s)

LEMMA WhatSays ==
  /\ ~Says(<<>>)
  /\ \A t : Says(<<t>>) <=> t = "client"
  /\ \A s, t \in Seq(Token) : Says(s \o t) => Says(s) \/ Says(t)
  /\ \A s \in Seq(Setting) : ~Says(s)
<1>1. ~Says(<<>>)
  BY DEF Says, ToSet
<1>2. ASSUME NEW t
      PROVE  Says(<<t>>) <=> t = "client"
  <2>1. DOMAIN <<t>> = {1} /\ <<t>>[1] = t
    OBVIOUS
  <2> QED
    BY <2>1 DEF Says, ToSet
<1>3. ASSUME NEW s \in Seq(Token), NEW t \in Seq(Token), Says(s \o t)
      PROVE  Says(s) \/ Says(t)
  <2>1. PICK i \in DOMAIN (s \o t) : (s \o t)[i] = "client"
    BY <1>3 DEF Says, ToSet
  <2>2. /\ DOMAIN (s \o t) = 1 .. Len(s) + Len(t) /\ DOMAIN s = 1 .. Len(s) /\ DOMAIN t = 1 .. Len(t)
        /\ Len(s) \in Nat /\ Len(t) \in Nat
        /\ \A k \in 1 .. Len(s) + Len(t) :
             (s \o t)[k] = IF k <= Len(s) THEN s[k] ELSE t[k - Len(s)]
    OBVIOUS
  <2>3. CASE i <= Len(s)
    BY <2>1, <2>2, <2>3 DEF Says, ToSet
  <2>4. CASE ~(i <= Len(s))
    <3>1. i - Len(s) \in DOMAIN t /\ t[i - Len(s)] = "client"
      BY <2>1, <2>2, <2>4
    <3> QED
      BY <3>1 DEF Says, ToSet
  <2> QED
    BY <2>3, <2>4
<1>4. ASSUME NEW s \in Seq(Setting)
      PROVE  ~Says(s)
  <2>1. \A i \in DOMAIN s : s[i] \in Setting
    OBVIOUS
  <2>2. "client" \notin Setting
    BY DEF Setting, Name
  <2> QED
    BY <2>1, <2>2 DEF Says, ToSet
<1> QED
  BY <1>1, <1>2, <1>3, <1>4

(* Where a header that is not on the list may say something of the client. *)
Excepted(p, n) == p = "websocket" /\ n \in {"Origin", "Referer"}

(* Every stage keeps what is not listed out, and chain and address are     *)
(* known from the request.                                                 *)
ListInv ==
  /\ ~Says(Get("X-Forwarded-For")) /\ ~Says(<<RealAddress(config)>>)
  /\ config.allow # None =>
       \A p \in Path : \A n \in Name \ config.allow : Says(header[p][n]) => Excepted(p, n)

(* A rule adds nothing of the client to a header outside the list. *)
LEMMA QuietRule ==
  ASSUME UpInv, ListInv, NEW p \in Path, NEW h,
         \A n \in Name : Says(h[n]) => \/ Says(header[p][n])
                                       \/ Excepted(p, n)
                                       \/ (config.allow # None => n \in config.allow),
         Sets(p, h), UNCHANGED <<client, tls, config>>
  PROVE  ListInv'
<1>1. header' = [header EXCEPT ![p] = h] /\ header \in [Path -> Headers]
  BY DEF Sets, UpInv, UpType
<1>2. header'[p] = h /\ \A q \in Path : q # p => header'[q] = header[q]
  BY <1>1
<1>3. RealAddress(config)' = RealAddress(config)
  BY DEF RealAddress, Get
<1> QED
  BY <1>2, <1>3 DEF ListInv, Get

LEMMA IdentityIsQuiet ==
  ASSUME UpType, ListInv, NEW h \in Headers, NEW isHTTPS, NEW n \in Name,
         Says(SetIdentity(h, config, isHTTPS)[n])
  PROVE  Says(h[n])
<1>1. StripIdentity(h)[n] \in {h[n], Absent}
  BY DEF StripIdentity, Without
<1>2. Forwarded(h, config, isHTTPS)[n]
        \in {h[n], <<RealAddress(config)>>, <<"host">>, <<"http">>, <<"https">>,
             Get("X-Forwarded-For") \o <<RealAddress(config)>>}
  BY DEF Forwarded, Headers
<1>3. ~Says(Get("X-Forwarded-For") \o <<RealAddress(config)>>)
  <2>1. Get("X-Forwarded-For") \in Seq(Token) /\ <<RealAddress(config)>> \in Seq(Token)
    BY RealAddressType, OneToken, WhatArrived DEF Name
  <2> QED
    BY <2>1, WhatSays DEF ListInv
<1>4. /\ ~Says(Absent) /\ ~Says(<<"host">>) /\ ~Says(<<"http">>) /\ ~Says(<<"https">>)
      /\ ~Says(<<RealAddress(config)>>)
  BY WhatSays DEF Absent, ListInv
<1> QED
  BY <1>1, <1>2, <1>3, <1>4 DEF SetIdentity

LEMMA HeaderUpIsQuiet ==
  ASSUME UpType, NEW h, NEW g \in SetByHeaderUp(h, config), NEW n \in Name, Says(g[n])
  PROVE  Says(h[n])
<1> DEFINE Values == [{u.name : u \in config.up} -> {u.value : u \in config.up}]
           Finals == {f \in Values :
                        \A m \in DOMAIN f : [name |-> m, value |-> f[m]] \in config.up}
<1>1. PICK f \in Finals : g = [m \in Name |-> IF m \in DOMAIN f THEN f[m] ELSE h[m]]
  BY DEF SetByHeaderUp
<1>2. config.up \in SUBSET [name : Name, value : Seq(Setting)]
  BY DEF UpType, ReverseProxyConfig
<1>3. \A m \in DOMAIN f : f[m] \in Seq(Setting)
  <2> SUFFICES ASSUME NEW m \in DOMAIN f
               PROVE  f[m] \in Seq(Setting)
    OBVIOUS
  <2>1. [name |-> m, value |-> f[m]] \in [name : Name, value : Seq(Setting)]
    BY <1>2
  <2> QED
    BY <2>1
<1>4. n \notin DOMAIN f
  BY <1>1, <1>3, WhatSays
<1> QED
  BY <1>1, <1>4

LEMMA ListStep == UpInv /\ ListInv /\ [UpNext]_upVars => ListInv'
<1> SUFFICES ASSUME UpInv, ListInv, [UpNext]_upVars
             PROVE  ListInv'
  OBVIOUS
<1>1. /\ UpType
      /\ header["http"] \in Headers /\ header["websocket"] \in Headers
  BY DEF UpInv, UpType, Path
<1>2. ~Says(Absent) /\ ~Says(<<"empty">>)
  BY WhatSays DEF Absent
<1>3. \A n \in Name : Says(Allowed(Lines, config)[n]) /\ config.allow # None => n \in config.allow
  BY <1>2 DEF Allowed, Only
<1>4. ASSUME NEW h \in Headers, NEW n \in Name
      PROVE  Says(Without(WithAgent(h), config.hide)[n]) => Says(h[n])
  BY <1>2 DEF Without, WithAgent, Headers
<1>5. "http" \in Path /\ "websocket" \in Path
  BY DEF Path
<1>6. CASE DirectorAllow
  BY <1>3, <1>5, <1>6, QuietRule DEF DirectorAllow
<1>7. CASE DirectorHide
  BY <1>1, <1>4, <1>5, <1>7, QuietRule DEF DirectorHide
<1>8. CASE DirectorOrigin
  <2> DEFINE h == IF PreserveHost(config) THEN header["http"]
                  ELSE RewriteOriginReferer(header["http"], config)
  <2>1. ASSUME NEW n \in Name, Says(h[n])
        PROVE  Says(header["http"][n])
    <3>1. CASE PreserveHost(config)
      BY <2>1, <3>1
    <3>2. CASE ~PreserveHost(config)
      <4>1. UpstreamHost(config) # "client"
        BY <3>2 DEF UpstreamHost
      <4>2. h[n] \in {header["http"][n], <<UpstreamHost(config)>>}
        BY <1>1, <3>2 DEF RewriteOriginReferer, RewriteReferer, Headers
      <4> QED
        BY <2>1, <4>1, <4>2, WhatSays
    <3> QED
      BY <3>1, <3>2
  <2>2. Sets("http", h) /\ UNCHANGED <<client, tls, config>>
    BY <1>8 DEF DirectorOrigin
  <2> HIDE DEF h
  <2> QED
    BY <1>5, <2>1, <2>2, QuietRule
<1>9. CASE DirectorHeaderUp
  <2>1. PICK h \in SetByHeaderUp(header["http"], config) : Sets("http", h)
    BY <1>9 DEF DirectorHeaderUp
  <2>2. \A n \in Name : Says(h[n]) => Says(header["http"][n])
    BY <1>1, HeaderUpIsQuiet
  <2> QED
    BY <1>5, <1>9, <2>1, <2>2, QuietRule DEF DirectorHeaderUp
<1>10. CASE DirectorIdentity
  <2>1. \A n \in Name : Says(SetIdentity(header["http"], config,
                            RequestIsHTTPS(header["http"]["X-Forwarded-Proto"]))[n]) => Says(header["http"][n])
    BY <1>1, IdentityIsQuiet
  <2> QED
    BY <1>5, <1>10, <2>1, QuietRule DEF DirectorIdentity
<1>11. CASE ReverseProxySends
  <2> DEFINE w == OneHopLess(header["http"])
             g == WithAgent(w)
             h == [g EXCEPT !["X-Forwarded-For"] = @ \o <<"peer">>]
  <2>1. /\ w \in Headers
        /\ \A n \in Name : Says(w[n]) => Says(header["http"][n])
    <3>1. ~Says(<<"Upgrade">>)
      BY WhatSays
    <3>2. \A n \in Name : w[n] \in {Absent, <<"Upgrade">>, header["http"][n]}
      BY <1>1, OneHopRule
    <3> QED
      BY <1>1, <1>2, <3>1, <3>2, OneHopRule
  <2>2. Sets("http", h) /\ UNCHANGED <<client, tls, config>>
    BY <1>11 DEF ReverseProxySends
  <2> HIDE DEF w
  <2>3. g \in Headers
    BY <2>1, ListRules
  <2>4. \A n \in Name : Says(g[n]) => Says(header["http"][n])
    BY <1>2, <2>1 DEF WithAgent, Headers
  <2> HIDE DEF g
  <2>5. ASSUME NEW n \in Name, Says(h[n])
        PROVE  Says(g[n])
    <3>1. CASE n = "X-Forwarded-For"
      <4>1. h[n] = g[n] \o <<"peer">>
        BY <2>3, <3>1 DEF Headers
      <4>2. g[n] \in Seq(Token) /\ <<"peer">> \in Seq(Token)
        BY <2>3, OneToken DEF Headers, Token
      <4>3. ~Says(<<"peer">>)
        BY WhatSays
      <4> QED
        BY <2>5, <4>1, <4>2, <4>3, WhatSays
    <3>2. CASE n # "X-Forwarded-For"
      BY <2>3, <2>5, <3>2 DEF Headers
    <3> QED
      BY <3>1, <3>2
  <2> HIDE DEF h
  <2> QED
    BY <1>5, <2>4, <2>2, <2>5, QuietRule
<1>12. CASE WebSocketAllow
  <2>1. \A n \in Name : Says(WSAllowed(Lines, config)[n]) /\ config.allow # None => n \in config.allow
    BY <1>2, <1>3 DEF WSAllowed, Without
  <2> QED
    BY <1>5, <1>12, <2>1, QuietRule DEF WebSocketAllow
<1>13. CASE WebSocketHide
  BY <1>1, <1>4, <1>5, <1>13, QuietRule DEF WebSocketHide
<1>14. CASE WebSocketOrigin
  <2> DEFINE h == ClientOriginReferer(header["websocket"], config)
  <2>1. ASSUME NEW n \in Name, n \notin {"Origin", "Referer"}
        PROVE  h[n] = header["websocket"][n]
    BY <1>1, <2>1 DEF ClientOriginReferer, RewriteReferer, Headers
  <2>2. Sets("websocket", h) /\ UNCHANGED <<client, tls, config>>
    BY <1>14 DEF WebSocketOrigin
  <2> HIDE DEF h
  <2> QED
    BY <1>5, <2>1, <2>2, QuietRule DEF Excepted
<1>15. CASE WebSocketHeaderUp
  <2>1. PICK h \in SetByHeaderUp(header["websocket"], config) : Sets("websocket", h)
    BY <1>15 DEF WebSocketHeaderUp
  <2>2. \A n \in Name : Says(h[n]) => Says(header["websocket"][n])
    BY <1>1, HeaderUpIsQuiet
  <2> QED
    BY <1>5, <1>15, <2>1, <2>2, QuietRule DEF WebSocketHeaderUp
<1>16. CASE WebSocketIdentity
  <2>1. \A n \in Name :
          Says(SetIdentity(header["websocket"], config,
                            RequestIsHTTPS(Get("X-Forwarded-Proto")))[n]) => Says(header["websocket"][n])
    BY <1>1, IdentityIsQuiet
  <2> QED
    BY <1>5, <1>16, <2>1, QuietRule DEF WebSocketIdentity
<1>17. CASE UNCHANGED upVars
  BY <1>17 DEF upVars, ListInv, RealAddress, Get
<1> QED
  BY <1>6, <1>7, <1>8, <1>9, <1>10, <1>11, <1>12, <1>13, <1>14, <1>15, <1>16, <1>17 DEF UpNext

(* With an allow list nothing the client says in another header reaches    *)
(* the upstream.  "client" marks what a client says of itself: hops and    *)
(* addresses have tokens of their own, and the header a configuration      *)
(* names for the client's address holds addresses.                         *)
THEOREM ListKeepsOut ==
  ASSUME \A h \in ClientHeaders : ~Says(h["X-Forwarded-For"].first),
         \A h \in ClientHeaders, c \in Configs : c.clientIP # None => ~Says(h[c.clientIP].first)
  PROVE  UpSpec => []AllowListIsKept
<1>1. UpInit => ListInv
  <2> SUFFICES ASSUME UpInit
               PROVE  ListInv
    OBVIOUS
  <2>1. client \in ClientHeaders /\ config \in Configs /\ UpInv
    BY UpInvInit DEF UpInit
  <2>2. \A s \in Seq(Token) : s # <<>> /\ ~Says(s) => Head(s) # "client"
    <3> SUFFICES ASSUME NEW s \in Seq(Token), s # <<>>, Head(s) = "client"
                 PROVE  Says(s)
      OBVIOUS
    <3>1. 1 \in DOMAIN s /\ s[1] = "client"
      OBVIOUS
    <3> QED
      BY <3>1 DEF Says, ToSet
  <2>3. RealAddress(config) # "client"
    <3>1. CASE config.clientIP # None /\ Get(config.clientIP) # Absent
      <4>1. Get(config.clientIP) \in Seq(Token) /\ ~Says(Get(config.clientIP))
        BY <2>1, <3>1, WhatArrived DEF UpInv, UpType, ReverseProxyConfig, Get
      <4> QED
        BY <2>2, <3>1, <4>1 DEF RealAddress, Absent
    <3>2. CASE ~(config.clientIP # None /\ Get(config.clientIP) # Absent)
      BY <3>2 DEF RealAddress
    <3> QED
      BY <3>1, <3>2
  <2>4. \A p \in Path : \A n \in Name : ~Says(header[p][n])
    BY WhatSays DEF UpInit, Empty, Absent
  <2> QED
    BY <2>1, <2>3, <2>4, WhatSays DEF ListInv, Get
<1>2. ListInv => AllowListIsKept
  BY DEF ListInv, AllowListIsKept, Says, Excepted
<1> QED
  BY <1>1, <1>2, ListStep, UpInvariant, PTL DEF UpSpec


-----------------------------------------------------------------------------
(* The two paths *)

(* The headers the two paths must agree on, and when header_up leaves no   *)
(* choice.                                                                 *)
Shared ==
  ({"Cookie", "X-Real-IP", "X-Forwarded-Host"}
     \cup (IF /\ config.allow = None \/ "Referer" \in config.allow
              /\ "Referer" \notin config.hide /\ client["Referer"].rest = <<>>
           THEN {"Referer"} ELSE {})
     \cup (IF tls \/ Get("X-Forwarded-Proto") # <<"https">> THEN {"X-Forwarded-Proto"} ELSE {}))
  \ NamedInConnection
Unambiguous == \A u, v \in config.up : u.name = v.name => u = v

(* What such a header holds after each rule, on either path: a function of *)
(* the request and the configuration alone.                                *)
Kept(n) == IF n \in config.hide THEN Absent ELSE Allowed(Lines, config)[n]
Aimed(n) ==
  IF n = "Referer" /\ ~PreserveHost(config) /\ Kept(n) # Absent
  THEN <<UpstreamHost(config)>> ELSE Kept(n)
Overridden(n, value) ==
  IF \E u \in config.up : u.name = n
  THEN (CHOOSE u \in config.up : u.name = n).value ELSE value
Identified(n, value) ==
  IF Strips THEN IF n \in Identity THEN Absent ELSE value
  ELSE IF config.trust THEN value
  ELSE CASE n = "X-Real-IP" -> <<RealAddress(config)>>
         [] n = "X-Forwarded-Host" -> IF value = Absent THEN <<"host">> ELSE value
         [] n = "X-Forwarded-Proto" ->
              IF value # Absent THEN value ELSE IF tls THEN <<"https">> ELSE <<"http">>
         [] OTHER -> value

Due(s, n) ==
  CASE s = "hide" -> Allowed(Lines, config)[n]
    [] s = "origin" -> Kept(n)
    [] s = "up" -> Aimed(n)
    [] s = "identity" -> Overridden(n, Aimed(n))
    [] OTHER -> Identified(n, Overridden(n, Aimed(n)))

AsDue(p) == step[p] # "allow" => \A n \in Shared : header[p][n] = Due(step[p], n)

PathInv == Unambiguous => \A p \in Path : AsDue(p)

HostInv ==
  /\ host \in [Path -> {None, "client", "hostHeader", "target"}]
  /\ step["http"] # "allow" => host["http"] = UpstreamHost(config)
  /\ step["websocket"] \in {"identity", "sent"} => host["websocket"] = UpstreamHost(config)

LEMMA HostStep == UpInv /\ HostInv /\ [UpNext]_upVars => HostInv'
<1> SUFFICES ASSUME UpInv, HostInv, [UpNext]_upVars
             PROVE  HostInv'
  OBVIOUS
<1>1. step \in [Path -> Steps] /\ UNCHANGED <<client, tls, config>>
  BY DEF UpInv, UpType, UpNext, upVars, DirectorAllow, DirectorHide, DirectorOrigin,
         DirectorHeaderUp, DirectorIdentity, ReverseProxySends, WebSocketAllow, WebSocketHide,
         WebSocketOrigin, WebSocketHeaderUp, WebSocketIdentity
<1>2. UpstreamHost(config) \in {"client", "hostHeader", "target"}
      /\ UpstreamHost(config)' = UpstreamHost(config)
  BY <1>1 DEF UpstreamHost, PreserveHost
<1>3. CASE DirectorAllow \/ WebSocketHeaderUp
  BY <1>1, <1>2, <1>3 DEF HostInv, DirectorAllow, WebSocketHeaderUp, Goes, Path
<1>4. CASE UNCHANGED host /\ ~(DirectorAllow \/ WebSocketHeaderUp)
  <2>1. \/ UNCHANGED step
        \/ \E p \in Path, s, t \in Steps :
             /\ Goes(p, s, t)
             /\ p = "http" => s # "allow"
             /\ p = "websocket" => s = "identity" \/ t \notin {"identity", "sent"}
    BY <1>4 DEF UpNext, upVars, DirectorHide, DirectorOrigin,
         DirectorHeaderUp, DirectorIdentity, ReverseProxySends, WebSocketAllow, WebSocketHide,
         WebSocketOrigin, WebSocketIdentity, Path, Steps
  <2>2. CASE UNCHANGED step
    BY <1>2, <1>4, <2>2 DEF HostInv
  <2>3. CASE \E p \in Path, s, t \in Steps :
             /\ Goes(p, s, t)
             /\ p = "http" => s # "allow"
             /\ p = "websocket" => s = "identity" \/ t \notin {"identity", "sent"}
    BY <1>1, <1>2, <1>4, <2>3 DEF HostInv, Goes, Path
  <2> QED
    BY <2>1, <2>2, <2>3
<1>5. UNCHANGED host \/ DirectorAllow \/ WebSocketHeaderUp
  BY DEF UpNext, upVars, DirectorHide, DirectorOrigin,
         DirectorHeaderUp, DirectorIdentity, ReverseProxySends, WebSocketAllow, WebSocketHide,
         WebSocketOrigin, WebSocketIdentity
<1> QED
  BY <1>3, <1>4, <1>5

(* A rule that leaves what is due in the headers both paths share. *)
LEMMA DueRule ==
  ASSUME UpInv, PathInv, NEW p \in Path, NEW h, NEW from, NEW to,
         Goes(p, from, to), Sets(p, h), UNCHANGED <<client, tls, config>>,
         Unambiguous => \A n \in Shared : h[n] = Due(to, n)
  PROVE  PathInv'
<1>1. header \in [Path -> Headers] /\ step \in [Path -> Steps]
  BY DEF UpInv, UpType
<1>2. header'[p] = h /\ step'[p] = to
  BY <1>1 DEF Sets, Goes
<1>3. \A q \in Path : q # p => header'[q] = header[q] /\ step'[q] = step[q]
  BY <1>1 DEF Sets, Goes
<1>4. Shared' = Shared /\ Unambiguous' = Unambiguous
  BY DEF Shared, Unambiguous, Get, NamedInConnection, Lines
<1>5. \A s, n : Due(s, n)' = Due(s, n)
  BY DEF Due, Kept, Aimed, Overridden, Identified, Strips, RealAddress, Get, Lines
<1>6. (\A n \in Shared : h[n] = Due(to, n)) => AsDue(p)'
  BY <1>2, <1>4, <1>5 DEF AsDue
<1>7. ASSUME NEW q \in Path, q # p, AsDue(q)
      PROVE  AsDue(q)'
  BY <1>3, <1>4, <1>5, <1>7 DEF AsDue
<1> QED
  BY <1>4, <1>6, <1>7 DEF PathInv

LEMMA UniqueHeaderUp ==
  ASSUME UpType, Unambiguous, NEW h, NEW g \in SetByHeaderUp(h, config), NEW n \in Name
  PROVE  g[n] = Overridden(n, h[n])
<1> DEFINE Values == [{u.name : u \in config.up} -> {u.value : u \in config.up}]
           Finals == {f \in Values :
                        \A m \in DOMAIN f : [name |-> m, value |-> f[m]] \in config.up}
<1>1. PICK f \in Finals : g = [m \in Name |-> IF m \in DOMAIN f THEN f[m] ELSE h[m]]
  BY DEF SetByHeaderUp
<1>2. n \in DOMAIN f <=> \E u \in config.up : u.name = n
  BY <1>1
<1>3. CASE n \in DOMAIN f
  <2> DEFINE u == [name |-> n, value |-> f[n]]
             v == CHOOSE w \in config.up : w.name = n
  <2>1. u \in config.up /\ u.name = n /\ u.value = f[n]
    BY <1>1, <1>3
  <2>2. v \in config.up /\ v.name = n
    BY <2>1
  <2>3. u = v
    BY <2>1, <2>2 DEF Unambiguous
  <2> QED
    BY <1>1, <1>2, <1>3, <2>1, <2>3 DEF Overridden
<1>4. CASE n \notin DOMAIN f
  BY <1>1, <1>2, <1>4 DEF Overridden
<1> QED
  BY <1>3, <1>4

LEMMA IdentityOfOne ==
  ASSUME NEW h \in Headers, NEW n \in Name, n # "X-Forwarded-For", NEW isHTTPS,
         n = "X-Forwarded-Proto" /\ h[n] = Absent => (isHTTPS <=> tls)
  PROVE  SetIdentity(h, config, isHTTPS)[n] = Identified(n, h[n])
<1>1. StripIdentity(h)[n] = IF n \in Identity THEN Absent ELSE h[n]
  BY DEF StripIdentity, Without
<1>2. Forwarded(h, config, isHTTPS)[n] =
        CASE n = "X-Real-IP" -> <<RealAddress(config)>>
          [] n = "X-Forwarded-Host" -> IF h[n] = Absent THEN <<"host">> ELSE h[n]
          [] n = "X-Forwarded-Proto" ->
               IF h[n] # Absent THEN h[n] ELSE IF isHTTPS THEN <<"https">> ELSE <<"http">>
          [] OTHER -> h[n]
  BY DEF Forwarded, Headers
<1> QED
  BY <1>1, <1>2 DEF SetIdentity, Identified, Strips

LEMMA SharedNames ==
  Shared \subseteq {"Cookie", "X-Real-IP", "X-Forwarded-Host", "X-Forwarded-Proto", "Referer"}
                     \ NamedInConnection
BY DEF Shared

LEMMA HttpDue ==
  ASSUME UpInv, PathInv,
         \/ DirectorAllow \/ DirectorHide \/ DirectorOrigin \/ DirectorHeaderUp
         \/ DirectorIdentity \/ ReverseProxySends
  PROVE  PathInv'
<1>1. /\ UpType /\ header["http"] \in Headers /\ "http" \in Path
      /\ UNCHANGED <<client, tls, config>>
  BY DEF UpInv, UpType, Path, DirectorAllow, DirectorHide, DirectorOrigin, DirectorHeaderUp,
         DirectorIdentity, ReverseProxySends
<1>2. ASSUME Unambiguous, step["http"] # "allow", NEW n \in Shared
      PROVE  header["http"][n] = Due(step["http"], n)
  BY <1>1, <1>2 DEF PathInv, AsDue
<1>3. \A n \in Shared : /\ n \in Name \ {"User-Agent", "Origin", "Connection", "Upgrade", "X-Forwarded-For"}
                        /\ n \notin {"User-Agent", "Origin", "Connection", "Upgrade", "X-Forwarded-For"}
  BY SharedNames DEF Name
<1>4. CASE DirectorAllow
  <2>1. \A n \in Shared : Allowed(Lines, config)[n] = Due("hide", n)
    BY DEF Due
  <2> QED
    BY <1>1, <1>4, <2>1, DueRule DEF DirectorAllow
<1>5. CASE DirectorHide
  <2> DEFINE h == Without(WithAgent(header["http"]), config.hide)
  <2>1. step["http"] = "hide" /\ Goes("http", "hide", "origin") /\ Sets("http", h)
    BY <1>5 DEF DirectorHide, Goes
  <2>2. ASSUME Unambiguous, NEW n \in Shared
        PROVE  h[n] = Due("origin", n)
    <3>1. header["http"][n] = Allowed(Lines, config)[n]
      BY <1>2, <2>1, <2>2 DEF Due
    <3>2. h[n] = IF n \in config.hide THEN Absent ELSE header["http"][n]
      BY <1>1, <1>3, <2>2 DEF Without, WithAgent, Headers
    <3> QED
      BY <3>1, <3>2 DEF Due, Kept
  <2> HIDE DEF h
  <2> QED
    BY <1>1, <2>1, <2>2, DueRule
<1>6. CASE DirectorOrigin
  <2> DEFINE h == IF PreserveHost(config) THEN header["http"]
                  ELSE RewriteOriginReferer(header["http"], config)
  <2>1. step["http"] = "origin" /\ Goes("http", "origin", "up") /\ Sets("http", h)
    BY <1>6 DEF DirectorOrigin, Goes
  <2>2. ASSUME Unambiguous, NEW n \in Shared
        PROVE  h[n] = Due("up", n)
    <3>1. header["http"][n] = Kept(n)
      BY <1>2, <2>1, <2>2 DEF Due
    <3>2. h[n] = IF n = "Referer" /\ ~PreserveHost(config) /\ header["http"][n] # Absent
                 THEN <<UpstreamHost(config)>> ELSE header["http"][n]
      BY <1>1, <1>3, <2>2 DEF RewriteOriginReferer, RewriteReferer, Headers
    <3> QED
      BY <3>1, <3>2 DEF Due, Aimed
  <2> HIDE DEF h
  <2> QED
    BY <1>1, <2>1, <2>2, DueRule
<1>7. CASE DirectorHeaderUp
  <2>1. step["http"] = "up" /\ Goes("http", "up", "identity")
    BY <1>7 DEF DirectorHeaderUp, Goes
  <2>2. PICK h \in SetByHeaderUp(header["http"], config) : Sets("http", h)
    BY <1>7 DEF DirectorHeaderUp
  <2>3. ASSUME Unambiguous, NEW n \in Shared
        PROVE  h[n] = Due("identity", n)
    <3>1. header["http"][n] = Aimed(n)
      BY <1>2, <2>1, <2>3 DEF Due
    <3>2. h[n] = Overridden(n, header["http"][n])
      BY <1>1, <1>3, <2>3, UniqueHeaderUp
    <3> QED
      BY <3>1, <3>2 DEF Due
  <2> QED
    BY <1>1, <2>1, <2>2, <2>3, DueRule
<1>8. CASE DirectorIdentity
  <2> DEFINE isHTTPS == RequestIsHTTPS(header["http"]["X-Forwarded-Proto"])
             h == SetIdentity(header["http"], config, isHTTPS)
  <2>1. step["http"] = "identity" /\ Goes("http", "identity", "transport") /\ Sets("http", h)
    BY <1>8 DEF DirectorIdentity, Goes
  <2>2. ASSUME Unambiguous, NEW n \in Shared
        PROVE  h[n] = Due("transport", n)
    <3>1. header["http"][n] = Overridden(n, Aimed(n))
      BY <1>2, <2>1, <2>2 DEF Due
    <3>2. header["http"][n] = Absent /\ n = "X-Forwarded-Proto" => (isHTTPS <=> tls)
      BY DEF RequestIsHTTPS, Absent
    <3> HIDE DEF isHTTPS
    <3>3. h[n] = Identified(n, header["http"][n])
      BY <1>1, <1>3, <2>2, <3>2, IdentityOfOne
    <3> QED
      BY <3>1, <3>3 DEF Due
  <2> HIDE DEF h, isHTTPS
  <2> QED
    BY <1>1, <2>1, <2>2, DueRule
<1>9. CASE ReverseProxySends
  <2> DEFINE w == OneHopLess(header["http"])
             g == WithAgent(w)
             h == [g EXCEPT !["X-Forwarded-For"] = @ \o <<"peer">>]
  <2>1. step["http"] = "transport" /\ Goes("http", "transport", "sent") /\ Sets("http", h)
    BY <1>9 DEF ReverseProxySends, Goes
  <2>2. ASSUME Unambiguous, NEW n \in Shared
        PROVE  h[n] = Due("sent", n)
    <3>1. header["http"][n] = Due("sent", n)
      BY <1>2, <2>1, <2>2 DEF Due
    <3>2. n \notin ToSet(header["http"]["Connection"])
      BY SharedNames DEF UpInv, NamesInv
    <3>3. w[n] = header["http"][n] /\ w \in Headers
      BY <1>1, <1>3, <3>2, OneHopRule
    <3> HIDE DEF w
    <3>4. g[n] = w[n] /\ g \in Headers
      BY <1>3, <3>3, ListRules DEF WithAgent, Headers
    <3> HIDE DEF g
    <3>5. h[n] = g[n]
      BY <1>3, <3>4 DEF Headers
    <3> QED
      BY <3>1, <3>3, <3>4, <3>5
  <2> HIDE DEF w, g, h
  <2> QED
    BY <1>1, <2>1, <2>2, DueRule
<1> QED
  BY <1>4, <1>5, <1>6, <1>7, <1>8, <1>9

LEMMA WebSocketDue ==
  ASSUME UpInv, PathInv,
         \/ WebSocketAllow \/ WebSocketHide \/ WebSocketOrigin \/ WebSocketHeaderUp
         \/ WebSocketIdentity
  PROVE  PathInv'
<1>1. /\ UpType /\ header["websocket"] \in Headers /\ "websocket" \in Path
      /\ UNCHANGED <<client, tls, config>>
  BY DEF UpInv, UpType, Path, WebSocketAllow, WebSocketHide, WebSocketOrigin, WebSocketHeaderUp,
         WebSocketIdentity
<1>2. ASSUME Unambiguous, step["websocket"] # "allow", NEW n \in Shared
      PROVE  header["websocket"][n] = Due(step["websocket"], n)
  BY <1>1, <1>2 DEF PathInv, AsDue
<1>3. \A n \in Shared : /\ n \in Name \ {"User-Agent", "Origin", "Connection", "Upgrade", "X-Forwarded-For"}
                        /\ n \notin {"User-Agent", "Origin", "Connection", "Upgrade", "X-Forwarded-For"}
  BY SharedNames DEF Name
<1>4. CASE WebSocketAllow
  <2>1. \A n \in Shared : WSAllowed(Lines, config)[n] = Due("hide", n)
    BY <1>3 DEF Due, WSAllowed, Without
  <2> QED
    BY <1>1, <1>4, <2>1, DueRule DEF WebSocketAllow
<1>5. CASE WebSocketHide
  <2> DEFINE h == Without(WithAgent(header["websocket"]), config.hide)
  <2>1. step["websocket"] = "hide" /\ Goes("websocket", "hide", "origin") /\ Sets("websocket", h)
    BY <1>5 DEF WebSocketHide, Goes
  <2>2. ASSUME Unambiguous, NEW n \in Shared
        PROVE  h[n] = Due("origin", n)
    <3>1. header["websocket"][n] = Allowed(Lines, config)[n]
      BY <1>2, <2>1, <2>2 DEF Due
    <3>2. h[n] = IF n \in config.hide THEN Absent ELSE header["websocket"][n]
      BY <1>1, <1>3, <2>2 DEF Without, WithAgent, Headers
    <3> QED
      BY <3>1, <3>2 DEF Due, Kept
  <2> HIDE DEF h
  <2> QED
    BY <1>1, <2>1, <2>2, DueRule
<1>6. CASE WebSocketOrigin
  <2> DEFINE h == ClientOriginReferer(header["websocket"], config)
  <2>1. step["websocket"] = "origin" /\ Goes("websocket", "origin", "up") /\ Sets("websocket", h)
    BY <1>6 DEF WebSocketOrigin, Goes
  <2>2. ASSUME Unambiguous, NEW n \in Shared
        PROVE  h[n] = Due("up", n)
    <3>1. header["websocket"][n] = Kept(n)
      BY <1>2, <2>1, <2>2 DEF Due
    <3>2. CASE n = "Referer"
      <4>1. Kept(n) = Get(n)
        <5>1. Lines[n] = Get(n)
          BY <1>1, <1>3, <2>2, <3>2, WhatArrived DEF Shared
        <5> QED
          BY <1>3, <2>2, <3>2, <5>1 DEF Shared, Kept, Allowed, Only
      <4>2. h[n] = IF ~PreserveHost(config) /\ Get(n) # Absent
                   THEN <<UpstreamHost(config)>> ELSE Get(n)
        BY <1>1, <1>3, <2>2, <3>1, <3>2, <4>1 DEF ClientOriginReferer, RewriteReferer, Headers
      <4> QED
        BY <3>2, <4>1, <4>2 DEF Due, Aimed
    <3>3. CASE n # "Referer"
      <4>1. h[n] = header["websocket"][n]
        BY <1>1, <1>3, <2>2, <3>3 DEF ClientOriginReferer, RewriteReferer, Headers
      <4> QED
        BY <3>1, <3>3, <4>1 DEF Due, Aimed
    <3> QED
      BY <3>2, <3>3
  <2> HIDE DEF h
  <2> QED
    BY <1>1, <2>1, <2>2, DueRule
<1>7. CASE WebSocketHeaderUp
  <2>1. step["websocket"] = "up" /\ Goes("websocket", "up", "identity")
    BY <1>7 DEF WebSocketHeaderUp, Goes
  <2>2. PICK h \in SetByHeaderUp(header["websocket"], config) : Sets("websocket", h)
    BY <1>7 DEF WebSocketHeaderUp
  <2>3. ASSUME Unambiguous, NEW n \in Shared
        PROVE  h[n] = Due("identity", n)
    <3>1. header["websocket"][n] = Aimed(n)
      BY <1>2, <2>1, <2>3 DEF Due
    <3>2. h[n] = Overridden(n, header["websocket"][n])
      BY <1>1, <1>3, <2>3, UniqueHeaderUp
    <3> QED
      BY <3>1, <3>2 DEF Due
  <2> QED
    BY <1>1, <2>1, <2>2, <2>3, DueRule
<1>8. CASE WebSocketIdentity
  <2> DEFINE isHTTPS == RequestIsHTTPS(Get("X-Forwarded-Proto"))
             h == SetIdentity(header["websocket"], config, isHTTPS)
  <2>1. /\ step["websocket"] = "identity"
        /\ Goes("websocket", "identity", "sent") /\ Sets("websocket", h)
    BY <1>8 DEF WebSocketIdentity, Goes
  <2>2. ASSUME Unambiguous, NEW n \in Shared
        PROVE  h[n] = Due("sent", n)
    <3>1. header["websocket"][n] = Overridden(n, Aimed(n))
      BY <1>2, <2>1, <2>2 DEF Due
    <3>2. n = "X-Forwarded-Proto" => (isHTTPS <=> tls)
      BY <2>2 DEF Shared, RequestIsHTTPS
    <3> HIDE DEF isHTTPS
    <3>3. h[n] = Identified(n, header["websocket"][n])
      BY <1>1, <1>3, <2>2, <3>2, IdentityOfOne
    <3> QED
      BY <3>1, <3>3 DEF Due
  <2> HIDE DEF h, isHTTPS
  <2> QED
    BY <1>1, <2>1, <2>2, DueRule
<1> QED
  BY <1>4, <1>5, <1>6, <1>7, <1>8

LEMMA PathStep == UpInv /\ PathInv /\ [UpNext]_upVars => PathInv'
<1> SUFFICES ASSUME UpInv, PathInv, [UpNext]_upVars
             PROVE  PathInv'
  OBVIOUS
<1>1. CASE UNCHANGED upVars
  <2>1. Shared' = Shared /\ Unambiguous' = Unambiguous
    BY <1>1 DEF upVars, Shared, Unambiguous, Get, NamedInConnection, Lines
  <2>2. \A s, n : Due(s, n)' = Due(s, n)
    BY <1>1 DEF upVars, Due, Kept, Aimed, Overridden, Identified, Strips, RealAddress, Get, Lines
  <2> QED
    BY <1>1, <2>1, <2>2 DEF upVars, PathInv, AsDue
<1> QED
  BY <1>1, HttpDue, WebSocketDue DEF UpNext

(* A plain request and a WebSocket of the same client reach the upstream   *)
(* with the same Host, address, scheme and shared headers, wherever        *)
(* header_up leaves no choice and Connection names none of them: each is   *)
(* what Due computes from request and configuration, on both paths         *)
(* (createReverseProxyHandler and handleWebSocketProxy).                   *)
THEOREM PathsDoAgree == UpSpec => []PathsAgree
<1>1. UpInit => PathInv /\ HostInv
  BY DEF UpInit, PathInv, AsDue, HostInv, Path
<1>2. UpInv /\ PathInv /\ HostInv => PathsAgree
  <2> SUFFICES ASSUME UpInv, PathInv, HostInv, \A p \in Path : Sent(p), Unambiguous
               PROVE  /\ host["http"] = host["websocket"]
                      /\ \A n \in Shared : header["http"][n] = header["websocket"][n]
    BY DEF PathsAgree, Shared, Unambiguous
  <2>1. step["http"] = "sent" /\ step["websocket"] = "sent"
    BY DEF Sent, Path
  <2> QED
    BY <2>1 DEF HostInv, PathInv, AsDue, Path
<1> QED
  BY <1>1, <1>2, HostStep, PathStep, UpInvariant, PTL DEF UpSpec

=============================================================================
