------------------------- MODULE MCUpstreamRequest -------------------------
(* Clients and configurations for UpstreamRequest. *)
EXTENDS UpstreamRequest

Line(value) == [first |-> value, rest |-> <<>>]

Sends(names, chain, claim) ==
  [n \in Name |-> CASE n = "X-Forwarded-For" -> Line(chain)
                    [] n = "X-Real-IP" -> Line(claim)
                    [] n \in names \ {"Connection", "X-Forwarded-Proto"} -> Line(<<"client">>)
                    [] OTHER -> Line(<<>>)]

(* A bare client, one that sends all it can, one that asks for an upgrade, *)
(* claims https and repeats its chain and Referer, one that names headers  *)
(* in Connection, one that comes through a proxy.                          *)
SomeClients ==
  {Sends({}, <<>>, <<>>),
   [Sends(Name, <<"prior">>, <<"claimed">>)
      EXCEPT !["X-Forwarded-Proto"] = Line(<<"http">>)],
   [Sends({"Cookie", "Referer", "Upgrade"}, <<"prior">>, <<>>)
      EXCEPT !["X-Forwarded-For"].rest = <<"prior", "claimed">>,
             !["Referer"].rest = <<"client">>,
             !["Connection"] = Line(<<"Upgrade">>),
             !["X-Forwarded-Proto"] = Line(<<"https">>)],
   [Sends({"Cookie"}, <<"prior">>, <<>>)
      EXCEPT !["Connection"] = [first |-> <<"Cookie">>, rest |-> <<"X-Forwarded-For">>]],
   [Sends({"Origin", "User-Agent", "X-Forwarded-Host"}, <<>>, <<"claimed">>)
      EXCEPT !["X-Forwarded-Proto"] = Line(<<"https">>)]}

(* No list, a list of blanks, some of every kind. *)
SomeAllow == {None, {}, {"Cookie", "X-Forwarded-For", "Connection"}, {"Origin", "X-Real-IP", "Connection", "Upgrade"}}
SomeHide == {{}, {"Cookie", "Referer", "X-Forwarded-Host"}, {"Origin", "User-Agent", "X-Forwarded-For"}}

Entry(n, v) == [name |-> n, value |-> v]

(* Nothing; one entry set and one removed; two entries for one header; the *)
(* chain, the Origin and a name in Connection.                             *)
SomeUp ==
  {{}, {Entry("X-Real-IP", <<"up">>), Entry("Referer", <<>>)},
   {Entry("Cookie", <<"up">>), Entry("Cookie", <<"up2">>), Entry("Upgrade", <<"up">>)},
   {Entry("X-Forwarded-For", <<"up">>), Entry("Origin", <<"up">>),
    Entry("Connection", <<"X-Real-IP">>)}}

SomeConfigs ==
  {[allow |-> a, hide |-> h, up |-> u, preserve |-> FALSE, extend |-> e, hostHeader |-> hh,
    omit |-> i = "omit", hideRealIP |-> i = "hide", trust |-> i = "trust",
    clientIP |-> IF i = "header" THEN "X-Real-IP" ELSE None] :
      a \in SomeAllow, h \in SomeHide, u \in SomeUp,
      e \in {None, FALSE}, hh \in BOOLEAN,
      i \in {"omit", "hide", "trust", "header", "peer"}}
=============================================================================
