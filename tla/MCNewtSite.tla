----------------------------- MODULE MCNewtSite -----------------------------
(* Small instances of NewtSite for TLC. *)
EXTENDS NewtSite

Managed(n, i) == [name |-> n, local |-> FALSE, managed |-> TRUE, image |-> i]

\* A tunnelled site under two names and with two images, one whose Deployment users
\* manage, and a local one.
SiteSpecs ==
  {Managed("a", "i1"), Managed("b", "i2"),
   [Managed("a", "i1") EXCEPT !.managed = FALSE],
   [Managed("a", "i1") EXCEPT !.local = TRUE]}
OneSpec == {Managed("a", "i1")}

\* A site to adopt.
ForeignSites == {[id |-> 1, name |-> "a", local |-> FALSE, for |-> 0]}
=============================================================================
