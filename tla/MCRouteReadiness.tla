-------------------------- MODULE MCRouteReadiness --------------------------
(***************************************************************************)
(* Model of RouteReadiness for TLC: two hostnames, of which one wildcard    *)
(* covers the deeper one, two parentRefs (a Gateway at home with a section, *)
(* one elsewhere without), and Gateways with a listener for each way not to *)
(* admit a route.                                                           *)
(***************************************************************************)
EXTENDS RouteReadiness

MCPlatforms ==
    {[kind |-> k, served |-> TRUE, timer |-> FALSE] : k \in {"ClusterIP", "Ingress", "Route"}}
    \cup {[kind |-> "Gateway", served |-> TRUE, timer |-> TRUE]}
    \cup {[kind |-> k, served |-> FALSE, timer |-> FALSE] : k \in {"Route", "Gateway"}}
MCHosts == {<<"pg", "example", "org">>, <<"a", "pg", "example", "org">>}
AtHome == [namespace |-> "", name |-> "edge", section |-> "web"]
MCParents == {AtHome, [AtHome EXCEPT !.namespace = "infra", !.section = ""]}
MCStarts == [host: {<<"pg", "example", "org">>}, parent: {AtHome}, gateway: {"same"}]

Listener == [name |-> "web", protocol |-> "HTTPS", hostname |-> <<>>, kinds |-> {},
             from |-> "", selector |-> ""]
Everywhere == [Listener EXCEPT !.from = "All"]
Selecting(what) == [Listener EXCEPT !.from = "Selector", !.selector = what]
MCListeners ==
    [same |-> <<[Everywhere EXCEPT !.protocol = "TLS"],
                [Everywhere EXCEPT !.kinds = {"GRPCRoute"}],
                [Listener EXCEPT !.name = "other", !.from = "None"],
                Selecting("other"), Listener>>,
     wildcard |-> <<[Selecting("matching") EXCEPT !.hostname = <<"*", "pg", "example", "org">>]>>,
     invalid |-> <<Selecting("invalid"), Everywhere>>]
=============================================================================
