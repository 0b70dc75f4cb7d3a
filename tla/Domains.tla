------------------------------ MODULE Domains ------------------------------
(***************************************************************************)
(* Domain resolution of the Pangolin client: which of the organisation's   *)
(* domains a full domain belongs to, and what is left of it as subdomain.  *)
(* A domain name is a sequence of characters; the code works on strings.   *)
(*                                                                         *)
(* An operator marked "Mutant" is a wrong variant of the one that follows. *)
(***************************************************************************)
EXTENDS Naturals, Sequences

Dot == <<".">>
NoId == "none"

\* Names are not empty and begin with no dot; identifiers tell the domains of a list apart.
NameType(Char) == {s \in Seq(Char) : s # <<>> /\ s[1] # "."}

DomainListType(Char) ==
  {d \in Seq([id : STRING \ {NoId}, base : NameType(Char)]) :
     \A i, j \in DOMAIN d : d[i].id = d[j].id => i = j}

HasSuffix(s, t) ==
  Len(t) <= Len(s) /\ SubSeq(s, Len(s) - Len(t) + 1, Len(s)) = t

TrimSuffix(s, t) == IF HasSuffix(s, t) THEN SubSeq(s, 1, Len(s) - Len(t)) ELSE s

\* The domains, by their place in the list, that full belongs to.
Matching(domains, full) ==
  {i \in DOMAIN domains : LET base == domains[i].base
                          IN  base = full \/ HasSuffix(full, Dot \o base)}

\* Mutant: the first match is taken.
ResolveDomainIDFirst(domains, full) ==
  LET M == Matching(domains, full)
  IN  IF M = {} THEN NoId ELSE domains[CHOOSE i \in M : \A j \in M : i <= j].id

\* The first of the longest matches.
ResolveDomainID(domains, full) ==
  LET M == {i \in Matching(domains, full) : domains[i].base # <<>>}
      size(i) == Len(domains[i].base)
  IN  IF M = {} THEN NoId
      ELSE domains[CHOOSE i \in M : \A j \in M : size(i) > size(j)
                                                 \/ (size(i) = size(j) /\ i <= j)].id

\* Mutant: the dot stays.
SubdomainDotted(base, full) == TrimSuffix(full, base)

\* What is left of full above the domain: trimmed twice, so that a full domain
\* that is a domain itself leaves nothing.
Subdomain(base, full) ==
  LET sub == TrimSuffix(TrimSuffix(full, Dot \o base), base)
  IN  IF sub = full THEN <<>> ELSE sub

\* The domain of an identifier: the first in the list that has it.
BaseOf(domains, id) ==
  domains[CHOOSE i \in DOMAIN domains :
            /\ domains[i].id = id
            /\ \A j \in DOMAIN domains : domains[j].id = id => i <= j].base

ResolveDomain(domains, full) ==
  LET id == ResolveDomainID(domains, full)
  IN  [id |-> id, ok |-> id # NoId,
       sub |-> IF id = NoId THEN <<>> ELSE Subdomain(BaseOf(domains, id), full)]

-----------------------------------------------------------------------------
(* What Pangolin makes of the answer, and the reference definition. *)

\* The full domain of a resource created under a domain with a subdomain.
FullDomainOf(domains, id, sub) ==
  LET base == BaseOf(domains, id)
  IN  IF sub = <<>> THEN base ELSE sub \o Dot \o base

\* full is base, or some subdomain of it.
Under(full, base) == \E k \in 0..Len(full) :
  /\ SubSeq(full, k + 1, Len(full)) = base
  /\ k = 0 \/ (k > 1 /\ full[k] = ".")

\* The second trim takes a piece of the subdomain: it ends with the domain, as
\* "myhome" in "myhome.home".
TrimmedTwice(domains, full) ==
  \E i \in DOMAIN domains :
    LET base == domains[i].base
    IN  /\ HasSuffix(full, Dot \o base)
        /\ HasSuffix(TrimSuffix(full, Dot \o base), base)

\* Resolution succeeds exactly under one of the domains, takes the most specific
\* one, and Pangolin puts the full domain together again.
Resolved(domains, full) ==
  LET res == ResolveDomain(domains, full)
  IN  /\ res.ok <=> \E i \in DOMAIN domains : Under(full, domains[i].base)
      /\ res.ok =>
           /\ \A i \in DOMAIN domains : Under(full, domains[i].base) =>
                Len(domains[i].base) <= Len(BaseOf(domains, res.id))
           /\ FullDomainOf(domains, res.id, res.sub) = full

\* For every list of domains and every full domain, but those that are trimmed twice.
ResolvesExactly(lists, names) ==
  \A domains \in lists, full \in names :
    TrimmedTwice(domains, full) \/ Resolved(domains, full)
=============================================================================
