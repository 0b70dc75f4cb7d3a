-------------------------- MODULE MCPublicResource --------------------------
(* Small instances of PublicResource for TLC. *)
EXTENDS PublicResource

OrgDomains == <<[id |-> "d1", base |-> <<"a">>]>>

\* A full domain of the organisation, one of nobody, and one whose subdomain
\* ResolveDomain damages, so that it comes out as the first.
Ours == <<"b", ".", "a">>
Nobodys == <<"c">>
Trimmed == <<"b", "a", ".", "a">>
FullDomains == {Ours, Nobodys, Trimmed}

Base(tgt, rul) ==
  [name |-> "app", http |-> TRUE, dom |-> Ours, ssl |-> TRUE, host |-> FALSE,
   site |-> "s1", kids |-> [target |-> tgt, rule |-> rul]]

\* Two targets; one of them removed and a rule added.
TwoSpecs == {Base({"a", "b"}, {}), Base({"b"}, {"a"})}

\* The same, and specs on the other domains.
LiveSpecs ==
  TwoSpecs \cup {[Base({"a"}, {}) EXCEPT !.dom = d] : d \in {Nobodys, Trimmed}}

\* An optional setting that is set, and unset.
UnsetSpecs == {[Base({"a"}, {}) EXCEPT !.host = TRUE], Base({"a"}, {})}

Tcp(s) == [s EXCEPT !.http = FALSE, !.dom = NoDom]
TwoTcpSpecs == {Tcp(s) : s \in TwoSpecs}

\* A TCP resource under two names.
RenamedSpecs == {[Tcp(Base({"a"}, {})) EXCEPT !.name = n] : n \in Name}

ForeignResource(id, n) ==
  [id |-> id, name |-> n, dom |-> Ours, ssl |-> TRUE, host |-> FALSE, by |-> NoCR]

\* A resource on our domain: one to adopt, or one that is in the way.
OnOurDomain == {ForeignResource(1, "app"), ForeignResource(2, "web")}

ExactNames == {<<n, n>> : n \in Name}
=============================================================================
