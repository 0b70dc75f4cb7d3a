------------------------- MODULE MCPrivateResource -------------------------
(* A small instance of PrivateResource for TLC, and inputs for Domains. *)
EXTENDS PrivateResource

\* A host, the same with other settings at another destination, and HTTP resources
\* on a domain of the organisation, on another one, and on one that is trimmed twice.
Ours == <<"b", ".", "a">>
Trimmed == <<"b", "a", ".", "a">>
Host == [name |-> "n", http |-> FALSE, dest |-> "x", dom |-> NoDom, ports |-> "*",
         alias |-> FALSE, roles |-> FALSE, site |-> "s"]
Http(dom) == [Host EXCEPT !.http = TRUE, !.dom = dom]
SomeSpecs ==
  {Host, [Host EXCEPT !.roles = TRUE, !.ports = "22", !.dest = "y"],
   Http(Ours), Http(<<"c">>), Http(Trimmed)}
AllSpecs == [c \in CR |-> SomeSpecs]
TwoGenerations == [c \in CR |-> 2]

OrgDomains == <<[id |-> "d1", base |-> <<"a">>], [id |-> "d2", base |-> <<"b">>]>>
OurDomains == {Ours, <<"c">>, Trimmed}
\* One failure of any kind, and one before a call that is refused.
OneFailureAndRefusal ==
  [k \in FaultKind |-> IF k \in {"api", "del"} THEN 2 ELSE 1]
OneSiteId == [s \in Site |-> 1]
ExactNames == {<<n, n>> : n \in Name}

\* A site resource to adopt.
ToAdopt == {[id |-> 1, name |-> "n", http |-> FALSE, dest |-> "x", dom |-> NoDom,
             ports |-> "*", alias |-> FALSE, roles |-> TRUE, sid |-> 1, by |-> NoCR]}

-----------------------------------------------------------------------------
(* Lists of up to two domains, and full domains of up to three labels, one of *)
(* them a suffix of another.                                                  *)

Label == {<<"a">>, <<"b">>, <<"b", "a">>, <<"*">>}
Under1(S) == {l \o Dot \o d : l \in Label, d \in S}
Bases == Label \cup Under1(Label \ {<<"*">>})
FullNames == Bases \cup Under1(Under1(Label \ {<<"*">>}))

DomainLists ==
  {<<[id |-> "d1", base |-> b1], [id |-> "d2", base |-> b2]>> : b1, b2 \in Bases}

\* ResolveDomain, "the domainId and the subdomain portion of fullDomain against the
\* most-specific matching baseDomain": whatever the order of the list, the domain is
\* the longest that fits, and domain and subdomain make up the full domain again,
\* also when it is a domain itself or a wildcard. Left out is the case that the
\* second TrimSuffix damages, a subdomain that ends with the domain. It is about no
\* state, and looked at where a behaviour begins.
ResolveDomainExact == Init => ResolvesExactly(DomainLists, FullNames)
=============================================================================
