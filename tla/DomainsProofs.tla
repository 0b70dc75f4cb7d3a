--------------------------- MODULE DomainsProofs ---------------------------
(***************************************************************************)
(* Domain resolution answers the longest of the organisation's domains     *)
(* that a full domain belongs to, and the subdomain that Pangolin makes    *)
(* the full domain of again: for every list of domains and full domain.    *)
(***************************************************************************)
EXTENDS Domains, SequenceTheorems, WellFoundedInduction, TLAPS

\* A set of naturals that is not empty has a least element.
LEMMA Least ==
  ASSUME NEW T, T \subseteq Nat, T # {}
  PROVE  \E x \in T : \A y \in T : x <= y
  <1>1. PICK x \in T : \A y \in T : ~(<<y, x>> \in OpToRel(<, Nat))
    BY WFMin, NatLessThanWellFounded, Zenon
  <1>2. \A y \in T : ~(y < x)
    BY <1>1 DEF OpToRel
  <1> QED BY <1>2

\* What it means to end with something, one place after the other.
LEMMA SuffixAt ==
  ASSUME NEW Char, NEW s \in Seq(Char), NEW t \in Seq(Char)
  PROVE  HasSuffix(s, t) <=>
           /\ Len(t) <= Len(s)
           /\ \A k \in 1..Len(t) : s[Len(s) - Len(t) + k] = t[k]
  <1>1. Len(s) \in Nat /\ Len(t) \in Nat
    BY LenProperties
  <1> DEFINE u == SubSeq(s, Len(s) - Len(t) + 1, Len(s))
  <1>2. ASSUME Len(t) <= Len(s)
        PROVE  u = t <=> \A k \in 1..Len(t) : s[Len(s) - Len(t) + k] = t[k]
    <2>1. /\ u \in Seq(Char) /\ Len(u) = Len(t)
          /\ \A k \in 1..Len(t) : u[k] = s[Len(s) - Len(t) + k]
      BY <1>1, <1>2, SubSeqProperties
    <2> HIDE DEF u
    <2>2. u = t <=> \A k \in 1..Len(t) : u[k] = t[k]
      BY <2>1, SeqEqual
    <2> QED BY <2>1, <2>2
  <1> QED BY <1>2 DEF HasSuffix

\* A full domain that has a dot and the base at its end is something and the two.
LEMMA DottedSuffix ==
  ASSUME NEW Char, "." \in Char, NEW full \in Seq(Char), NEW base \in Seq(Char)
  PROVE  HasSuffix(full, Dot \o base) <=>
           /\ Len(base) < Len(full)
           /\ full[Len(full) - Len(base)] = "."
           /\ HasSuffix(full, base)
  <1>1. Len(full) \in Nat /\ Len(base) \in Nat
    BY LenProperties
  <1>2. /\ Dot \in Seq(Char) /\ Len(Dot) = 1 /\ Dot[1] = "."
    BY DEF Dot
  <1> DEFINE t == Dot \o base
  <1>3. /\ t \in Seq(Char) /\ Len(t) = Len(base) + 1 /\ t[1] = "."
        /\ \A k \in 1..Len(base) : t[k + 1] = base[k]
    <2>1. /\ t \in Seq(Char) /\ Len(t) = Len(Dot) + Len(base)
          /\ \A k \in 1..(Len(Dot) + Len(base)) :
               t[k] = IF k <= Len(Dot) THEN Dot[k] ELSE base[k - Len(Dot)]
      <3> HIDE DEF Dot
      <3> QED BY <1>2, ConcatProperties
    <2>2. t[1] = "."
      BY <1>1, <1>2, <2>1
    <2>3. \A k \in 1..Len(base) : t[k + 1] = base[k]
      <3> SUFFICES ASSUME NEW k \in 1..Len(base) PROVE t[k + 1] = base[k]
        OBVIOUS
      <3>1. k + 1 \in 1..(Len(Dot) + Len(base)) /\ ~(k + 1 <= Len(Dot))
            /\ (k + 1) - Len(Dot) = k
        BY <1>1, <1>2
      <3> HIDE DEF t
      <3> QED BY <2>1, <3>1
    <2> QED BY <1>1, <1>2, <2>1, <2>2, <2>3
  <1> HIDE DEF t
  <1>4. HasSuffix(full, t) <=>
          /\ Len(base) + 1 <= Len(full)
          /\ \A k \in 1..(Len(base) + 1) : full[Len(full) - (Len(base) + 1) + k] = t[k]
    <2>1. HasSuffix(full, t) <=>
            /\ Len(t) <= Len(full)
            /\ \A k \in 1..Len(t) : full[Len(full) - Len(t) + k] = t[k]
      <3>1. t \in Seq(Char)
        BY <1>3
      <3> QED BY <3>1, SuffixAt, Zenon
    <2>2. Len(t) = Len(base) + 1
      BY <1>3
    <2> QED BY <2>1, <2>2
  <1>5. HasSuffix(full, base) <=>
          /\ Len(base) <= Len(full)
          /\ \A k \in 1..Len(base) : full[Len(full) - Len(base) + k] = base[k]
    BY SuffixAt
  <1>6. ASSUME HasSuffix(full, t)
        PROVE  /\ Len(base) < Len(full)
               /\ full[Len(full) - Len(base)] = "."
               /\ HasSuffix(full, base)
    <2>1. Len(base) < Len(full)
      BY <1>1, <1>4, <1>6
    <2>2. full[Len(full) - (Len(base) + 1) + 1] = "."
      BY <1>1, <1>3, <1>4, <1>6
    <2>3. \A k \in 1..Len(base) : full[Len(full) - Len(base) + k] = base[k]
      <3> SUFFICES ASSUME NEW k \in 1..Len(base)
                   PROVE  full[Len(full) - Len(base) + k] = base[k]
        OBVIOUS
      <3>1. full[Len(full) - (Len(base) + 1) + (k + 1)] = t[k + 1]
        BY <1>1, <1>4, <1>6
      <3>2. Len(full) - (Len(base) + 1) + (k + 1) = Len(full) - Len(base) + k
        BY <1>1
      <3> QED BY <1>3, <3>1, <3>2
    <2>4. Len(full) - (Len(base) + 1) + 1 = Len(full) - Len(base)
      BY <1>1
    <2> QED BY <1>1, <1>5, <2>1, <2>2, <2>3, <2>4
  <1>7. ASSUME Len(base) < Len(full), full[Len(full) - Len(base)] = ".", HasSuffix(full, base)
        PROVE  HasSuffix(full, t)
    <2>1. \A k \in 1..(Len(base) + 1) : full[Len(full) - (Len(base) + 1) + k] = t[k]
      <3> SUFFICES ASSUME NEW k \in 1..(Len(base) + 1)
                   PROVE  full[Len(full) - (Len(base) + 1) + k] = t[k]
        OBVIOUS
      <3>1. CASE k = 1
        <4>1. Len(full) - (Len(base) + 1) + 1 = Len(full) - Len(base)
          BY <1>1
        <4> QED BY <1>3, <1>7, <3>1, <4>1
      <3>2. CASE k # 1
        <4>1. k - 1 \in 1..Len(base) /\ (k - 1) + 1 = k
              /\ Len(full) - (Len(base) + 1) + k = Len(full) - Len(base) + (k - 1)
          BY <1>1, <3>2
        <4>2. full[Len(full) - Len(base) + (k - 1)] = base[k - 1] /\ t[(k - 1) + 1] = base[k - 1]
          BY <1>3, <1>5, <1>7, <4>1
        <4> QED BY <4>1, <4>2
      <3> QED BY <3>1, <3>2
    <2> QED BY <1>1, <1>4, <1>7, <2>1
  <1> QED BY <1>6, <1>7 DEF t

\* A full domain belongs to a base as the reference says, label by label.
LEMMA MatchIsUnder ==
  ASSUME NEW Char, "." \in Char, NEW full \in NameType(Char), NEW base \in NameType(Char)
  PROVE  base = full \/ HasSuffix(full, Dot \o base) <=> Under(full, base)
  <1> DEFINE n == Len(full)
             m == Len(base)
  <1>1. /\ full \in Seq(Char) /\ base \in Seq(Char) /\ n \in Nat /\ m \in Nat /\ n > 0 /\ m > 0
        /\ full[1] # "."
    BY LenProperties, EmptySeq DEF NameType
  <1>2. SubSeq(full, 1, n) = full
    BY <1>1, SubSeqFull
  <1>3. ASSUME NEW k \in 0..n
        PROVE  Len(SubSeq(full, k + 1, n)) = n - k
    <2>1. \A i \in (k + 1)..n : full[i] \in Char
      BY <1>1, <1>3, ElementOfSeq
    <2> QED BY <1>1, <1>3, <2>1, SubSeqProperties
  <1>4. HasSuffix(full, Dot \o base) <=> m < n /\ full[n - m] = "." /\ HasSuffix(full, base)
    BY <1>1, DottedSuffix
  <1>5. ASSUME base = full PROVE Under(full, base)
    <2>1. 0 \in 0..n /\ SubSeq(full, 0 + 1, n) = base
      BY <1>1, <1>2, <1>5
    <2> QED BY <2>1 DEF Under
  <1>6. ASSUME HasSuffix(full, Dot \o base) PROVE Under(full, base)
    <2>1. m < n /\ full[n - m] = "." /\ SubSeq(full, n - m + 1, n) = base
      BY <1>4, <1>6 DEF HasSuffix
    <2>2. n - m \in 0..n /\ n - m > 1
      BY <1>1, <2>1
    <2> QED BY <2>1, <2>2 DEF Under
  <1>7. ASSUME Under(full, base) PROVE base = full \/ HasSuffix(full, Dot \o base)
    <2>1. PICK k \in 0..n : SubSeq(full, k + 1, n) = base /\ (k = 0 \/ (k > 1 /\ full[k] = "."))
      BY <1>7 DEF Under
    <2>2. CASE k = 0
      BY <1>2, <2>1, <2>2
    <2>3. CASE k > 1 /\ full[k] = "."
      <3>1. m = n - k
        BY <1>3, <2>1
      <3>2. m < n /\ n - m = k
        BY <1>1, <2>3, <3>1
      <3>3. SubSeq(full, n - m + 1, n) = base
        BY <2>1, <3>2
      <3>4. HasSuffix(full, base)
        BY <1>1, <3>2, <3>3 DEF HasSuffix
      <3>5. full[n - m] = "."
        BY <2>3, <3>2
      <3> HIDE DEF n, m
      <3> QED BY <1>4, <3>2, <3>4, <3>5
    <2> QED BY <2>1, <2>2, <2>3
  <1> QED BY <1>5, <1>6, <1>7

\* Subdomain, dot and base make the full domain again, unless the second trim takes a
\* piece of the subdomain.
LEMMA Recomposed ==
  ASSUME NEW Char, "." \in Char, NEW full \in NameType(Char), NEW base \in NameType(Char),
         base = full \/ HasSuffix(full, Dot \o base),
         ~(HasSuffix(full, Dot \o base) /\ HasSuffix(TrimSuffix(full, Dot \o base), base))
  PROVE  (IF Subdomain(base, full) = <<>> THEN base ELSE Subdomain(base, full) \o Dot \o base)
         = full
  <1> DEFINE n == Len(full)
             m == Len(base)
             d == Dot \o base
  <1>1. /\ full \in Seq(Char) /\ base \in Seq(Char) /\ n \in Nat /\ m \in Nat /\ n > 0 /\ m > 0
        /\ full[1] # "." /\ full # <<>>
    BY LenProperties, EmptySeq DEF NameType
  <1>2. HasSuffix(full, d) <=> m < n /\ full[n - m] = "." /\ HasSuffix(full, base)
    BY <1>1, DottedSuffix
  <1>3. SubSeq(full, 1, 0) = <<>>
    BY <1>1, SubSeqEmpty
  <1>4. CASE base = full
    <2>1. ~HasSuffix(full, d)
      BY <1>1, <1>2, <1>4
    <2>2. SubSeq(full, 1, n) = full
      BY <1>1, SubSeqFull
    <2>3. HasSuffix(full, base)
      BY <1>1, <1>4, <2>2 DEF HasSuffix
    <2>4. TrimSuffix(TrimSuffix(full, d), base) = <<>>
      BY <1>1, <1>3, <1>4, <2>1, <2>3 DEF TrimSuffix
    <2>5. Subdomain(base, full) = <<>>
      BY <1>1, <2>4 DEF Subdomain
    <2> QED BY <1>4, <2>5
  <1>5. CASE HasSuffix(full, d)
    <2> DEFINE sub == SubSeq(full, 1, n - m - 1)
    <2>1. m < n /\ full[n - m] = "." /\ SubSeq(full, n - m + 1, n) = base
      BY <1>2, <1>5 DEF HasSuffix
    <2>2. n - m # 1
      BY <1>1, <2>1
    <2>3. /\ Dot \in Seq(Char) /\ Len(Dot) = 1 /\ Len(d) = m + 1
      <3>1. Dot \in Seq(Char) /\ Len(Dot) = 1
        BY DEF Dot
      <3> HIDE DEF Dot
      <3>2. Len(d) = Len(Dot) + Len(base)
        BY <1>1, <3>1, ConcatProperties
      <3> QED BY <1>1, <3>1, <3>2
    <2>4. TrimSuffix(full, d) = sub
      <3>1. n - Len(d) = n - m - 1
        BY <1>1, <2>3
      <3> QED BY <1>5, <3>1 DEF TrimSuffix
    <2>5. ~HasSuffix(sub, base)
      BY <1>5, <2>4
    <2>6. /\ sub \in Seq(Char) /\ Len(sub) = n - m - 1 /\ Len(sub) >= 1
      <3>1. \A i \in 1..(n - m - 1) : full[i] \in Char
        BY <1>1, ElementOfSeq
      <3>2. n - m - 1 \in Nat /\ n - m - 1 >= 1
        BY <1>1, <2>1, <2>2
      <3> QED BY <1>1, <3>1, <3>2, SubSeqProperties
    <2>7. Subdomain(base, full) = sub /\ sub # <<>>
      <3>1. sub # <<>>
        <4> HIDE DEF sub
        <4>1. Len(<<>>) = 0
          BY EmptySeq
        <4>2. Len(sub) # 0
          BY <1>1, <2>6
        <4> QED BY <4>1, <4>2
      <3>2. sub # full
        BY <1>1, <2>6
      <3>3. TrimSuffix(sub, base) = sub
        BY <2>5 DEF TrimSuffix
      <3> HIDE DEF sub, d
      <3>4. Subdomain(base, full) = IF sub = full THEN <<>> ELSE sub
        BY <2>4, <3>3 DEF Subdomain, d
      <3> QED BY <3>1, <3>2, <3>4
    <2>8. sub \o Dot \o base = full
      <3>1. SubSeq(full, n - m, n - m) = Dot
        <4>1. n - m \in 1..n
          BY <1>1, <2>1
        <4>2. \A i \in (n - m)..(n - m) : full[i] \in Char
          BY <1>1, <4>1, ElementOfSeq
        <4>3. /\ SubSeq(full, n - m, n - m) \in Seq(Char)
              /\ Len(SubSeq(full, n - m, n - m)) = 1
              /\ SubSeq(full, n - m, n - m)[1] = full[n - m]
          BY <1>1, <4>1, <4>2, SubSeqProperties
        <4> DEFINE one == SubSeq(full, n - m, n - m)
        <4>4. Dot[1] = "."
          BY DEF Dot
        <4>5. \A i \in 1..Len(one) : one[i] = Dot[i]
          BY <2>1, <4>3, <4>4
        <4>6. Len(one) = Len(Dot)
          BY <2>3, <4>3
        <4> HIDE DEF one
        <4>7. one \in Seq(Char)
          BY <4>3 DEF one
        <4>8. one = Dot
          BY <2>3, <4>5, <4>6, <4>7, SeqEqual
        <4> QED BY <4>8 DEF one
      <3>2. sub \o SubSeq(full, n - m, n - m) = SubSeq(full, 1, n - m)
        <4> DEFINE k == n - m - 1
                   l == n - m
        <4>1. /\ 1 \in 1..(n + 1) /\ k \in 0..n /\ l \in k..n /\ k + 1 = l
              /\ k >= 1 - 1 /\ k \in (1 - 1)..n
          BY <1>1, <2>1, <2>2
        <4> HIDE DEF k, l
        <4>2. SubSeq(full, 1, k) \o SubSeq(full, k + 1, l) = SubSeq(full, 1, l)
          BY <1>1, <4>1, ConcatAdjacentSubSeq
        <4> QED BY <4>1, <4>2 DEF k, l
      <3>3. SubSeq(full, 1, n - m) \o SubSeq(full, n - m + 1, n) = SubSeq(full, 1, n)
        <4> DEFINE k == n - m
        <4>1. 1 \in 1..(n + 1) /\ k \in (1 - 1)..n /\ n \in k..n
          BY <1>1, <2>1
        <4> HIDE DEF k
        <4>2. SubSeq(full, 1, k) \o SubSeq(full, k + 1, n) = SubSeq(full, 1, n)
          BY <1>1, <4>1, ConcatAdjacentSubSeq
        <4> QED BY <4>2 DEF k
      <3>4. SubSeq(full, 1, n) = full
        BY <1>1, SubSeqFull
      <3> HIDE DEF sub, n, m
      <3> QED BY <2>1, <3>1, <3>2, <3>3, <3>4
    <2> HIDE DEF sub
    <2> QED BY <2>7, <2>8
  <1> QED BY <1>4, <1>5

\* The domains of a list have identifiers that are not NoId, and bases that are names.
LEMMA DomainAt ==
  ASSUME NEW Char, NEW domains \in DomainListType(Char), NEW i \in DOMAIN domains
  PROVE  /\ i \in Nat
         /\ domains[i].id # NoId
         /\ domains[i].base \in NameType(Char)
         /\ domains[i].base \in Seq(Char)
         /\ domains[i].base # <<>>
         /\ Len(domains[i].base) \in Nat
  <1>1. domains \in Seq([id : STRING \ {NoId}, base : NameType(Char)])
    BY DEF DomainListType
  <1>2. i \in 1..Len(domains) /\ Len(domains) \in Nat
    BY <1>1, LenProperties
  <1>3. domains[i] \in [id : STRING \ {NoId}, base : NameType(Char)]
    BY <1>1, <1>2, ElementOfSeq
  <1>4. domains[i].base \in NameType(Char) /\ domains[i].id \in STRING \ {NoId}
    BY <1>3
  <1>5. domains[i].base \in Seq(Char) /\ domains[i].base # <<>>
    BY <1>4 DEF NameType
  <1> QED BY <1>2, <1>4, <1>5, LenProperties

\* Of any places of bounded bases there is a first one with the longest base.
LEMMA LongestFirst ==
  ASSUME NEW Char, NEW domains \in DomainListType(Char),
         NEW M, M \subseteq DOMAIN domains, M # {},
         NEW B \in Nat, \A i \in M : Len(domains[i].base) <= B
  PROVE  \E i \in M : \A j \in M :
           \/ Len(domains[i].base) > Len(domains[j].base)
           \/ Len(domains[i].base) = Len(domains[j].base) /\ i <= j
  <1> DEFINE size(i) == Len(domains[i].base)
  <1>1. \A i \in M : i \in Nat /\ size(i) \in Nat /\ size(i) <= B
    BY DomainAt
  <1> HIDE DEF size
  <1>2. PICK a \in M : \A j \in M : size(a) >= size(j)
    <2> DEFINE T == {B - size(i) : i \in M}
    <2>1. T \subseteq Nat /\ T # {}
      BY <1>1
    <2> HIDE DEF T
    <2>2. PICK x \in T : \A y \in T : x <= y
      BY <2>1, Least
    <2>3. PICK i \in M : x = B - size(i)
      BY <2>2 DEF T
    <2>4. \A j \in M : B - size(j) \in T
      BY DEF T
    <2>5. \A j \in M : B - size(i) <= B - size(j)
      BY <2>2, <2>3, <2>4
    <2>6. \A j \in M : size(i) >= size(j)
      BY <1>1, <2>5
    <2> QED BY <2>6
  <1>3. PICK i \in {k \in M : size(k) = size(a)} :
          \A j \in {k \in M : size(k) = size(a)} : i <= j
    <2>1. {k \in M : size(k) = size(a)} \subseteq Nat
      BY <1>1
    <2>2. {k \in M : size(k) = size(a)} # {}
      OBVIOUS
    <2> QED BY <2>1, <2>2, Least
  <1>4. ASSUME NEW j \in M
        PROVE  size(i) > size(j) \/ (size(i) = size(j) /\ i <= j)
    <2>1. size(i) = size(a) /\ size(a) >= size(j)
      BY <1>2, <1>3
    <2>2. CASE size(j) = size(a)
      BY <1>3, <2>1, <2>2
    <2>3. CASE size(j) # size(a)
      BY <1>1, <2>1, <2>3
    <2> QED BY <2>2, <2>3
  <1> QED BY <1>3, <1>4 DEF size

\* The base of an identifier of the list is the one that stands beside it.
LEMMA BaseOfOwn ==
  ASSUME NEW Char, NEW domains \in DomainListType(Char), NEW i \in DOMAIN domains
  PROVE  BaseOf(domains, domains[i].id) = domains[i].base
  <1> DEFINE P(k) == /\ domains[k].id = domains[i].id
                     /\ \A j \in DOMAIN domains : domains[j].id = domains[i].id => k <= j
  <1>1. \A k, j \in DOMAIN domains : domains[k].id = domains[j].id => k = j
    BY DEF DomainListType
  <1>2. i \in Nat
    BY DomainAt
  <1>3. P(i)
    BY <1>1, <1>2
  <1>4. \A k \in DOMAIN domains : P(k) => k = i
    BY <1>1
  <1>5. (CHOOSE k \in DOMAIN domains : P(k)) = i
    BY <1>3, <1>4
  <1> QED BY <1>5 DEF BaseOf

\* What ResolveDomain answers: nothing when no domain matches, else the first of the
\* longest domains that match and what is left above it.
LEMMA Answered ==
  ASSUME NEW Char, "." \in Char,
         NEW domains \in DomainListType(Char), NEW full \in NameType(Char)
  PROVE  LET res == ResolveDomain(domains, full)
         IN  /\ ~res.ok => Matching(domains, full) = {}
             /\ res.ok => \E c \in Matching(domains, full) :
                  /\ BaseOf(domains, res.id) = domains[c].base
                  /\ res.sub = Subdomain(domains[c].base, full)
                  /\ \A i \in Matching(domains, full) :
                       Len(domains[i].base) <= Len(domains[c].base)
  <1> DEFINE size(i) == Len(domains[i].base)
             M == {i \in Matching(domains, full) : domains[i].base # <<>>}
             Longest(i) == \A j \in M : size(i) > size(j) \/ (size(i) = size(j) /\ i <= j)
             c == CHOOSE i \in M : Longest(i)
             id == ResolveDomainID(domains, full)
             res == ResolveDomain(domains, full)
  <1>1. M = Matching(domains, full) /\ M \subseteq DOMAIN domains
    <2>1. Matching(domains, full) \subseteq DOMAIN domains
      BY DEF Matching
    <2>2. \A i \in Matching(domains, full) : domains[i].base # <<>>
      BY <2>1, DomainAt
    <2> QED BY <2>1, <2>2
  <1>2. id = IF M = {} THEN NoId ELSE domains[c].id
    BY DEF ResolveDomainID
  <1>3. /\ res.id = id
        /\ res.ok <=> id # NoId
        /\ id # NoId => res.sub = Subdomain(BaseOf(domains, id), full)
    <2> HIDE DEF id
    <2>1. res = [id |-> id, ok |-> id # NoId,
                 sub |-> IF id = NoId THEN <<>> ELSE Subdomain(BaseOf(domains, id), full)]
      BY DEF ResolveDomain, id
    <2> HIDE DEF res
    <2> QED BY <2>1
  <1>4. full \in Seq(Char) /\ Len(full) \in Nat
    BY LenProperties DEF NameType
  <1>5. \A i \in M : size(i) <= Len(full)
    <2> SUFFICES ASSUME NEW i \in M PROVE size(i) <= Len(full)
      OBVIOUS
    <2>1. domains[i].base \in Seq(Char) /\ size(i) \in Nat
      BY <1>1, DomainAt
    <2>2. domains[i].base = full \/ HasSuffix(full, Dot \o domains[i].base)
      BY DEF Matching
    <2>3. domains[i].base = full => size(i) <= Len(full)
      BY <1>4
    <2>4. HasSuffix(full, Dot \o domains[i].base) => size(i) < Len(full)
      BY <1>4, <2>1, DottedSuffix
    <2> QED BY <1>4, <2>1, <2>2, <2>3, <2>4
  <1>6. CASE M = {}
    <2>1. id = NoId
      BY <1>2, <1>6
    <2> HIDE DEF M, res, id
    <2>2. ~res.ok
      BY <1>3, <2>1
    <2> QED BY <1>1, <1>6, <2>2 DEF res
  <1>7. CASE M # {}
    <2>1. \E i \in M : Longest(i)
      <3> HIDE DEF M
      <3> QED BY <1>1, <1>4, <1>5, <1>7, LongestFirst
    <2> HIDE DEF M, Longest
    <2>2. c \in M /\ Longest(c)
      BY <2>1
    <2> HIDE DEF c
    <2>3. c \in DOMAIN domains /\ domains[c].id # NoId /\ size(c) \in Nat
      BY <1>1, <2>2, DomainAt
    <2>4. id = domains[c].id /\ BaseOf(domains, id) = domains[c].base
      BY <1>2, <1>7, <2>3, BaseOfOwn
    <2> HIDE DEF id
    <2>5. res.ok /\ BaseOf(domains, res.id) = domains[c].base
          /\ res.sub = Subdomain(domains[c].base, full)
      <3> HIDE DEF res
      <3> QED BY <1>3, <2>3, <2>4
    <2> HIDE DEF res
    <2>6. \A i \in M : size(i) <= size(c)
      <3> SUFFICES ASSUME NEW i \in M PROVE size(i) <= size(c)
        OBVIOUS
      <3>1. size(i) \in Nat
        BY <1>1, DomainAt
      <3>2. size(c) > size(i) \/ size(c) = size(i)
        BY <2>2 DEF Longest
      <3> QED BY <2>3, <3>1, <3>2
    <2> QED BY <1>1, <2>2, <2>5, <2>6 DEF res
  <1> QED BY <1>6, <1>7

\* Pangolin composes some full domain of every answer, also where it is not the one
\* that was asked for.
LEMMA ComposedName ==
  ASSUME NEW Char, "." \in Char,
         NEW domains \in DomainListType(Char), NEW full \in NameType(Char),
         ResolveDomain(domains, full).ok
  PROVE  LET res == ResolveDomain(domains, full)
         IN  FullDomainOf(domains, res.id, res.sub) \in Seq(Char) \ {<<>>}
  <1> DEFINE res == ResolveDomain(domains, full)
  <1>1. PICK c \in Matching(domains, full) :
          BaseOf(domains, res.id) = domains[c].base /\ res.sub = Subdomain(domains[c].base, full)
    BY Answered
  <1> HIDE DEF res
  <1> DEFINE base == domains[c].base
  <1>2. base \in Seq(Char) /\ base # <<>>
    BY DomainAt DEF Matching
  <1> HIDE DEF base
  <1>3. ASSUME NEW s \in Seq(Char), NEW t \in Seq(Char)
        PROVE  s \o t \in Seq(Char) /\ Len(s \o t) = Len(s) + Len(t)
    BY <1>3, ConcatProperties
  <1>4. Dot \in Seq(Char)
    BY DEF Dot
  <1>5. ASSUME NEW s \in Seq(Char), NEW t \in Seq(Char)
        PROVE  TrimSuffix(s, t) \in Seq(Char)
    <2>1. CASE HasSuffix(s, t)
      <3>1. Len(s) \in Nat /\ Len(t) \in Nat /\ Len(t) <= Len(s)
        BY <2>1, LenProperties DEF HasSuffix
      <3>2. \A k \in 1..(Len(s) - Len(t)) : s[k] \in Char
        BY <3>1, ElementOfSeq
      <3>3. SubSeq(s, 1, Len(s) - Len(t)) \in Seq(Char)
        BY <3>1, <3>2, SubSeqProperties
      <3> QED BY <2>1, <3>3 DEF TrimSuffix
    <2> QED BY <2>1 DEF TrimSuffix
  <1>6. full \in Seq(Char)
    BY DEF NameType
  <1>7. Dot \o base \in Seq(Char) /\ Len(Dot \o base) # 0
    <2>1. Len(base) \in Nat /\ Len(base) # 0
      BY <1>2, LenProperties, EmptySeq
    <2>2. Len(Dot) \in Nat
      BY <1>4, LenProperties
    <2>3. Len(Dot \o base) = Len(Dot) + Len(base)
      BY <1>2, <1>3, <1>4
    <2> QED BY <1>2, <1>3, <1>4, <2>1, <2>2, <2>3
  <1>8. Subdomain(base, full) \in Seq(Char)
    <2>1. TrimSuffix(TrimSuffix(full, Dot \o base), base) \in Seq(Char)
      BY <1>2, <1>5, <1>6, <1>7
    <2>2. <<>> \in Seq(Char)
      BY EmptySeq
    <2> QED BY <2>1, <2>2 DEF Subdomain
  <1> DEFINE sub == Subdomain(base, full)
  <1> HIDE DEF sub
  <1>9. sub \o Dot \o base \in Seq(Char) \ {<<>>}
    <2>1. sub \in Seq(Char)
      BY <1>8 DEF sub
    <2>2. sub \o Dot \in Seq(Char) /\ Len(sub \o Dot) = Len(sub) + Len(Dot)
      BY <1>3, <1>4, <2>1
    <2>3. /\ sub \o Dot \o base \in Seq(Char)
          /\ Len(sub \o Dot \o base) = Len(sub \o Dot) + Len(base)
      BY <1>2, <1>3, <2>2
    <2>4. Len(base) \in Nat /\ Len(base) # 0 /\ Len(sub \o Dot) \in Nat
      BY <1>2, <2>2, LenProperties, EmptySeq
    <2>5. Len(sub \o Dot \o base) # 0
      BY <2>3, <2>4
    <2>6. Len(<<>>) = 0
      BY EmptySeq
    <2> QED BY <2>3, <2>5, <2>6
  <1>10. FullDomainOf(domains, res.id, res.sub) = IF sub = <<>> THEN base ELSE sub \o Dot \o base
    BY <1>1 DEF FullDomainOf, sub, base
  <1> QED BY <1>2, <1>9, <1>10 DEF res

\* Domain resolution, for any list of domains that their identifiers tell apart and any
\* full domain: it succeeds exactly when the full domain is one of the organisation's
\* domains or lies under one, it answers the longest of these whatever the order of the
\* list, and the answer names the full domain again, but for the full domains whose
\* subdomain the second TrimSuffix of ResolveDomain damages.
THEOREM ResolvedExact ==
  ASSUME NEW Char, "." \in Char
  PROVE  ResolvesExactly(DomainListType(Char), NameType(Char))
  <1> SUFFICES ASSUME NEW domains \in DomainListType(Char), NEW full \in NameType(Char),
                      ~TrimmedTwice(domains, full)
               PROVE  Resolved(domains, full)
    BY DEF ResolvesExactly
  <1> DEFINE M == Matching(domains, full)
             res == ResolveDomain(domains, full)
  <1>1. \A i \in DOMAIN domains : i \in M <=> Under(full, domains[i].base)
    <2> SUFFICES ASSUME NEW i \in DOMAIN domains
                 PROVE  i \in M <=> Under(full, domains[i].base)
      OBVIOUS
    <2>1. domains[i].base \in NameType(Char)
      BY DomainAt
    <2>2. i \in M <=> domains[i].base = full \/ HasSuffix(full, Dot \o domains[i].base)
      BY DEF Matching
    <2> QED BY <2>1, <2>2, MatchIsUnder
  <1>2. M \subseteq DOMAIN domains
    BY DEF Matching
  <1> HIDE DEF M
  <1>3. CASE ~res.ok
    <2>1. M = {}
      BY <1>3, Answered DEF M
    <2>2. ~\E i \in DOMAIN domains : Under(full, domains[i].base)
      BY <1>1, <2>1
    <2> QED BY <1>3, <2>2 DEF Resolved
  <1>4. CASE res.ok
    <2>1. PICK c \in M : /\ BaseOf(domains, res.id) = domains[c].base
                         /\ res.sub = Subdomain(domains[c].base, full)
                         /\ \A i \in M : Len(domains[i].base) <= Len(domains[c].base)
      BY <1>4, Answered DEF M
    <2> HIDE DEF res
    <2> DEFINE base == domains[c].base
    <2>2. c \in DOMAIN domains /\ base \in NameType(Char) /\ Under(full, base)
      BY <1>1, <1>2, DomainAt
    <2>3. base = full \/ HasSuffix(full, Dot \o base)
      BY <2>2, MatchIsUnder
    <2>4. ~(HasSuffix(full, Dot \o base) /\ HasSuffix(TrimSuffix(full, Dot \o base), base))
      BY <2>2 DEF TrimmedTwice
    <2>5. FullDomainOf(domains, res.id, res.sub) = full
      <3>1. (IF Subdomain(base, full) = <<>> THEN base ELSE Subdomain(base, full) \o Dot \o base)
            = full
        <4> HIDE DEF base
        <4> QED BY <2>2, <2>3, <2>4, Recomposed
      <3> QED BY <2>1, <3>1 DEF FullDomainOf
    <2>6. \A i \in DOMAIN domains : Under(full, domains[i].base) =>
            Len(domains[i].base) <= Len(BaseOf(domains, res.id))
      BY <1>1, <2>1
    <2> QED BY <1>4, <2>2, <2>5, <2>6 DEF Resolved, res
  <1> QED BY <1>3, <1>4
=============================================================================
