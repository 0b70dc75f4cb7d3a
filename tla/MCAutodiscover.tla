--------------------------- MODULE MCAutodiscover ---------------------------
(* Small instances of Autodiscover for TLC. *)
EXTENDS Autodiscover

Route(ns) == [kind |-> "httproute", ns |-> ns, name |-> "a"]
TCPRoute(ns) == [kind |-> "tcproute", ns |-> ns, name |-> "a"]
Service(ns) == [kind |-> "service", ns |-> ns, name |-> "a"]

\* Routes of one name in two namespaces; a Service whose full domain makes the
\* resource name that the first route's hostname makes; and a TCPRoute and a Service
\* that have only their name in common.
Groups == {{Route("n1"), Route("n2")}, {Route("n1"), Service("n1")},
           {TCPRoute("n1"), Service("n2")}}
AllSources == UNION Groups
Subgroups == UNION {SUBSET S : S \in Groups}

Plain ==
  [out |-> FALSE, ref |-> "s", parents |-> {}, hosts |-> {}, backend |-> TRUE,
   ports |-> {}, port |-> None, all |-> "unset", users |-> "unset",
   ssl |-> "unset"]
ByGateway == [Plain EXCEPT !.ref = NoSite, !.parents = {"g"}, !.hosts = {"h.x"}]
Annotated == [Plain EXCEPT !.hosts = {"h.x"}, !.users = "no", !.ssl = "no"]
Ports == [Plain EXCEPT !.ports = {"http", "53"}]
OptOut(c) == [c EXCEPT !.out = TRUE]

Small == [s \in Source |->
  CASE s = Route("n1")   -> {ByGateway, Annotated, OptOut(ByGateway)}
    [] s = Route("n2")   -> {ByGateway}
    [] s = Service("n1") -> {[Ports EXCEPT !.hosts = {"h-x"}]}
    [] s = Service("n2") -> {Ports, [Ports EXCEPT !.port = "53", !.all = "no"]}
    [] OTHER -> {Plain}]

AllKinds == [kinds |-> Kind, gw |-> "g", target |-> TRUE, all |-> TRUE,
             users |-> TRUE, ssl |-> TRUE]
NoGateway == [AllKinds EXCEPT !.gw = None]
RoutesOnly == [AllKinds EXCEPT !.kinds = {"httproute"}, !.users = FALSE, !.ssl = FALSE]
SomeConfigs == [t \in Site |-> {AllKinds, RoutesOnly}]
Dashed == [h \in Host |-> "h-x"]
TCPRouteName == {<<"n1", <<"a">>>>}

-----------------------------------------------------------------------------
(* The route of the README's example: a site-ref and no parentRefs. *)

OneRoute == {Route("n1")}
Example == [s \in Source |-> {Annotated, OptOut(Annotated)}]
AnySources == SUBSET Source
RouteConfig == [t \in Site |-> {NoGateway}]
=============================================================================
