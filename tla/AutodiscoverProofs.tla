------------------------- MODULE AutodiscoverProofs -------------------------
(***************************************************************************)
(* Proofs about autodiscovery, for any sources, sites, contents and        *)
(* configurations: the types are kept, a PublicResource is only written    *)
(* for a source that asks for it, and one that is as its source wants it   *)
(* stays so.                                                               *)
(*                                                                         *)
(* Workers act on what they read before. What they read is kept in step    *)
(* with the cluster by three invariants: ReadInv, that an object a worker  *)
(* is about to patch was not written by anybody but for the same item;     *)
(* LabelInv, that labels are those of sources that may ask for the object; *)
(* and SslInv, that the API server's default for ssl is always filled in.  *)
(***************************************************************************)
EXTENDS Autodiscover, TLAPS

SpecType ==
  [site : Site \cup {NoSite}, via : Gateway \cup {None},
   part : Host \cup Port \cup {"tcp", None}, users : BOOLEAN, ssl : BOOLEAN]

-----------------------------------------------------------------------------
(* The invariants. *)

\* The scanner is at a NewtSite that it read, with a kind to list.
ScannerInv ==
  /\ w[Scanner].pc # "idle" => /\ w[Scanner].site \in Site
                               /\ w[Scanner].f \in Configs[w[Scanner].site]
  /\ w[Scanner].pc = "list" => w[Scanner].left # {}

\* A site and a kind that a worker saw on the object at x are there still.
SeenKept(seen, x) ==
  x \in DOMAIN res => \A r \in seen : /\ r.spec.site # NoSite => res[x].spec.site # NoSite
                                      /\ r.lab.kind # None => res[x].lab.kind # None

SeenInv == \A k \in Worker : w[k].pc = "write" => \A x \in w[k].keys : SeenKept(w[k].seen, x)

TypeInv == TypeOK /\ ScannerInv /\ SeenInv

\* Sources that may ask for x have the kind and the name.
MayAsk(x, kind, name) ==
  \E j1, j2 \in AllItems : /\ j1.key = x /\ j1.lab.kind = kind
                          /\ j2.key = x /\ j2.lab.name = name

Labelled(r, x) ==
  IF r.lab.kind = None THEN r.lab.name = None ELSE MayAsk(x, r.lab.kind, r.lab.name)

LabelInv ==
  /\ \A x \in DOMAIN res : Labelled(res[x], x)
  /\ \A k \in Worker : w[k].pc = "write" =>
       \A x \in w[k].keys : \A r \in w[k].seen : Labelled(r, x)
  /\ \A k \in Worker : w[k].pc = "delete" =>
       \E s \in w[k].src : \A x \in w[k].keys : MayAsk(x, k, s.name)

SslInv ==
  /\ \A x \in DOMAIN res : res[x].spec.ssl
  /\ \A k \in Worker : w[k].pc = "write" => \A r \in w[k].seen : r.spec.ssl

\* The object at i.key is as it was read, or as i asks for.
Current(i, seen) ==
  Alone(i) /\ i.key \in DOMAIN res =>
    \A r \in seen : \/ res[i.key].lab = r.lab /\ res[i.key].spec = r.spec
                    \/ Written(res[i.key], i)

ReadInv ==
  /\ DOMAIN cfg = Site
  /\ w[Scanner].pc # "idle" => w[Scanner].f = cfg[w[Scanner].site]
  /\ \A k \in Worker : w[k].todo \subseteq Wanted
  /\ \A k \in Worker : w[k].pc = "write" =>
       \A i \in w[k].todo : i.key \in w[k].keys => Current(i, w[k].seen)

Undisturbed == ~Seen({"race", "config"})

IInv == TypeInv /\ LabelInv /\ SslInv /\ (Undisturbed => ReadInv)

-----------------------------------------------------------------------------
(* Items. *)

\* HTTPRouteItems, TCPRouteItems and ServiceItems: what an item of a source is like.
ItemOK(i, s, t) ==
  /\ i.src = s
  /\ i.spec \in SpecType /\ i.spec.site # NoSite
  /\ i.lab \in [kind : Kind, name : {r.name : r \in Source}, site : Site]

\* buildHTTPResourceSpec and buildTCPResourceSpec give a resource a site, the
\* annotation's or the one that discovers the source, and the labels of its source.
LEMMA ItemsOK ==
  ASSUME NEW s \in Source, NEW t \in Site, NEW c \in Contents[s], NEW f \in Configs[t],
         NEW i \in Items(s, c, t, f)
  PROVE  ItemOK(i, s, t)
<1> USE ConstantsAssumption
<1>1. c \in ContentType /\ f \in ConfigType /\ s.kind \in Kind
  OBVIOUS
<1>2. ASSUME NEW h \in Host, NEW ref \in Site, NEW name, NEW via \in Gateway \cup {None}
      PROVE  ItemOK(Item(s, t, name, HTTPSpec(ref, via, h, c, f)), s, t)
  <2>1. Setting(c.users, f.users) \in BOOLEAN /\ Setting(c.ssl, f.ssl) \in BOOLEAN
    BY <1>1 DEF Setting, ConfigType
  <2>2. HTTPSpec(ref, via, h, c, f) \in SpecType /\ HTTPSpec(ref, via, h, c, f).site = ref
    BY <2>1 DEF HTTPSpec, SpecType
  <2> QED BY <1>1, <2>2 DEF ItemOK, Item
<1>3. ASSUME NEW p \in Port \cup {"tcp", None}, NEW ref \in Site, NEW name
      PROVE  ItemOK(Item(s, t, name, TCPSpec(ref, p)), s, t)
  <2>1. TCPSpec(ref, p) \in SpecType /\ TCPSpec(ref, p).site = ref
    BY DEF TCPSpec, SpecType
  <2> QED BY <1>1, <2>1 DEF ItemOK, Item
<1>4. siteRef(c, t) \in Site /\ (c.ref # NoSite => c.ref \in Site)
  BY <1>1 DEF siteRef, ContentType
<1>5. c.hosts \subseteq Host /\ c.ports \subseteq Port /\ f.gw \in Gateway \cup {None}
  BY <1>1 DEF ContentType, ConfigType
<1>6. CASE s.kind = "httproute"
  <2>1. i \in HTTPRouteItems(s, c, t, f)
    BY <1>6 DEF Items
  <2> QED BY <2>1, <1>2, <1>4, <1>5 DEF HTTPRouteItems
<1>7. CASE s.kind = "tcproute"
  <2>1. i \in TCPRouteItems(s, c, t)
    BY <1>7 DEF Items
  <2> QED BY <2>1, <1>3, <1>4 DEF TCPRouteItems
<1>8. CASE s.kind = "service"
  <2>1. i \in ServiceItems(s, c, t, f)
    BY <1>8 DEF Items
  <2>2. c.ref \in Site
    BY <2>1, <1>4 DEF ServiceItems
  <2>3. \/ \E p \in c.ports : i = Item(s, t, ServiceResourceName(s, p), TCPSpec(c.ref, p))
        \/ \E h \in c.hosts :
             i = Item(s, t, HostnameToResourceName(s.name, h), HTTPSpec(c.ref, None, h, c, f))
    BY <2>1 DEF ServiceItems, selectPort
  <2> QED BY <2>2, <2>3, <1>2, <1>3, <1>5
<1> QED BY <1>1, <1>6, <1>7, <1>8 DEF Kind

\* The items of a source are among all items.
LEMMA ItemsIn ==
  ASSUME NEW s \in Source, NEW t \in Site, NEW c \in Contents[s], NEW f \in Configs[t]
  PROVE  Items(s, c, t, f) \subseteq AllItems
<1> DEFINE of(r, u) == UNION {Items(r, d, u, g) : d \in Contents[r], g \in Configs[u]}
<1>1. Items(s, c, t, f) \subseteq of(s, t)
  OBVIOUS
<1>2. of(s, t) \in {of(r, u) : r \in Source, u \in Site}
  OBVIOUS
<1>3. AllItems = UNION {of(r, u) : r \in Source, u \in Site}
  BY DEF AllItems
<1> HIDE DEF of
<1> QED BY <1>1, <1>2, <1>3

\* Every item is one of a source's, and its key is a key.
LEMMA AllItemsOK ==
  ASSUME NEW i \in AllItems
  PROVE  i.key \in Key /\ \E s \in Source, t \in Site : ItemOK(i, s, t)
<1>1. PICK s \in Source, t \in Site :
        i \in UNION {Items(s, c, t, f) : c \in Contents[s], f \in Configs[t]}
  BY DEF AllItems
<1>2. PICK c \in Contents[s], f \in Configs[t] : i \in Items(s, c, t, f)
  BY <1>1
<1> QED BY <1>2, ItemsOK DEF Key

\* What an item writes into a resource: labels that name a kind, and a site.
LEMMA ItemFields ==
  ASSUME NEW i \in AllItems
  PROVE  /\ i.key \in Key /\ i.src \in Source
         /\ i.spec \in SpecType /\ i.spec.site \in Site /\ i.spec.site # NoSite
         /\ i.lab \in LabelType /\ i.lab.kind \in Kind /\ i.lab.kind # None
         /\ i.lab.site \in Site
<1>1. i.key \in Key
  BY AllItemsOK
<1>2. PICK own \in Source, at \in Site : ItemOK(i, own, at)
  BY AllItemsOK
<1>3. None \notin Kind
  BY DEF None, Kind
<1>4. i.lab \in LabelType
  BY <1>2 DEF ItemOK, LabelType
<1> QED BY <1>1, <1>2, <1>3, <1>4 DEF ItemOK, SpecType

-----------------------------------------------------------------------------
(* What is written. *)

\* NewResource: what Create stores, with the API server's default for ssl.
LEMMA NewResourceOK ==
  ASSUME NEW i \in AllItems
  PROVE  /\ NewResource(i) \in ResourceType
         /\ NewResource(i).lab.kind # None /\ NewResource(i).spec.site # NoSite
         /\ NewResource(i).spec.ssl /\ Written(NewResource(i), i)
         /\ Labelled(NewResource(i), i.key)
<1>1. /\ i.spec \in SpecType /\ i.spec.site # NoSite
      /\ i.lab \in LabelType /\ i.lab.kind # None /\ i.lab.site \in Site
  BY ItemFields
<1>2. /\ Defaulted(i.spec) \in SpecType /\ Defaulted(i.spec).ssl
      /\ Defaulted(i.spec).site = i.spec.site
  BY <1>1 DEF Defaulted, SpecType
<1>3. NewResource(i).lab = i.lab /\ NewResource(i).spec = Defaulted(i.spec)
  BY DEF NewResource
<1>4. NewResource(i) \in ResourceType
  BY <1>1, <1>2 DEF NewResource, ResourceType, SpecType
<1>5. Labelled(NewResource(i), i.key)
  BY <1>1, <1>3 DEF Labelled, MayAsk
<1> QED BY <1>1, <1>2, <1>3, <1>4, <1>5 DEF Written

\* The merge patch, field by field: a field is sent when the item differs from what
\* was read, and else the server's stays; ssl=false is never stored.
MergedLab(server, seen, i) ==
  [kind |-> Sent(seen.lab.kind, i.lab.kind, server.lab.kind),
   name |-> Sent(seen.lab.name, i.lab.name, server.lab.name),
   site |-> Sent(seen.lab.site, i.lab.site, server.lab.site)]
MergedSpec(server, seen, i) ==
  [site |-> Sent(seen.spec.site, i.spec.site, server.spec.site),
   via  |-> Sent(seen.spec.via, i.spec.via, server.spec.via),
   part |-> Sent(seen.spec.part, i.spec.part, server.spec.part),
   users |-> Sent(seen.spec.users, i.spec.users, server.spec.users),
   ssl  |-> IF i.spec.ssl = seen.spec.ssl THEN server.spec.ssl ELSE TRUE]

\* updateOwnedPublicResource: Merged is that.
LEMMA MergedFields ==
  ASSUME NEW server \in ResourceType, NEW seen \in ResourceType, NEW i \in AllItems
  PROVE  /\ Merged(server, seen, i) \in ResourceType
         /\ Merged(server, seen, i).del = server.del
         /\ Merged(server, seen, i).owner = server.owner
         /\ Merged(server, seen, i).lab = MergedLab(server, seen, i)
         /\ Merged(server, seen, i).spec = MergedSpec(server, seen, i)
<1>1. i.spec \in SpecType /\ i.lab \in LabelType
  BY ItemFields
<1>2. /\ server.spec \in SpecType /\ server.lab \in LabelType
      /\ seen.spec \in SpecType /\ seen.lab \in LabelType
  BY DEF ResourceType, SpecType
<1> DEFINE lab == [x \in DOMAIN server.lab |-> Sent(seen.lab[x], i.lab[x], server.lab[x])]
           spec == [x \in DOMAIN i.spec |-> Sent(seen.spec[x], i.spec[x], server.spec[x])]
           both == IF i.spec.ssl = seen.spec.ssl THEN spec ELSE Defaulted(spec)
<1>3. lab = MergedLab(server, seen, i)
  <2>1. DOMAIN server.lab = {"kind", "name", "site"}
    BY <1>2 DEF LabelType
  <2> QED BY <2>1 DEF MergedLab
<1>4. spec = [MergedSpec(server, seen, i) EXCEPT
                !.ssl = Sent(seen.spec.ssl, i.spec.ssl, server.spec.ssl)]
  <2>1. DOMAIN i.spec = {"site", "via", "part", "users", "ssl"}
    BY <1>1 DEF SpecType
  <2> QED BY <2>1 DEF MergedSpec
<1>5. lab \in LabelType /\ spec \in SpecType
  <2>1. lab \in LabelType
    BY <1>1, <1>2, <1>3 DEF LabelType, Sent, MergedLab
  <2>2. spec \in SpecType
    BY <1>1, <1>2, <1>4 DEF SpecType, Sent, MergedSpec
  <2> QED BY <2>1, <2>2
<1>6. both = MergedSpec(server, seen, i)
  <2>1. CASE i.spec.ssl = seen.spec.ssl
    BY <2>1, <1>4 DEF Sent, MergedSpec
  <2>2. CASE i.spec.ssl # seen.spec.ssl
    BY <2>2, <1>4 DEF Defaulted, MergedSpec
  <2> QED BY <2>1, <2>2
<1>7. both \in SpecType
  BY <1>5 DEF Defaulted, SpecType
<1>8. Merged(server, seen, i) = [server EXCEPT !.lab = lab, !.spec = both]
  BY DEF Merged
<1> HIDE DEF lab, both
<1>9. [server EXCEPT !.lab = lab, !.spec = both] \in ResourceType
  BY <1>5, <1>7 DEF ResourceType, SpecType
<1>10. /\ [server EXCEPT !.lab = lab, !.spec = both].del = server.del
       /\ [server EXCEPT !.lab = lab, !.spec = both].owner = server.owner
       /\ [server EXCEPT !.lab = lab, !.spec = both].lab = lab
       /\ [server EXCEPT !.lab = lab, !.spec = both].spec = both
  BY DEF ResourceType
<1> QED BY <1>3, <1>6, <1>8, <1>9, <1>10

\* A resource that was patched names a site and a kind, if what was read did.
LEMMA MergedNamed ==
  ASSUME NEW server \in ResourceType, NEW seen \in ResourceType, NEW i \in AllItems,
         seen.spec.site # NoSite => server.spec.site # NoSite,
         seen.lab.kind # None => server.lab.kind # None
  PROVE  Merged(server, seen, i).spec.site # NoSite /\ Merged(server, seen, i).lab.kind # None
<1>1. /\ Merged(server, seen, i).lab = MergedLab(server, seen, i)
      /\ Merged(server, seen, i).spec = MergedSpec(server, seen, i)
  BY MergedFields
<1>2. i.spec.site # NoSite /\ i.lab.kind # None
  BY ItemFields
<1>3. /\ MergedLab(server, seen, i).kind # None
      /\ MergedSpec(server, seen, i).site # NoSite
  BY <1>2 DEF MergedLab, MergedSpec, Sent
<1> QED BY <1>1, <1>3

\* Its labels are each of a source that may ask for it.
LEMMA MergedLabelled ==
  ASSUME NEW server \in ResourceType, NEW seen \in ResourceType, NEW i \in AllItems,
         seen.lab.kind # None => server.lab.kind # None,
         Labelled(server, i.key), Labelled(seen, i.key)
  PROVE  Labelled(Merged(server, seen, i), i.key)
<1>1. /\ Merged(server, seen, i).lab.kind = Sent(seen.lab.kind, i.lab.kind, server.lab.kind)
      /\ Merged(server, seen, i).lab.name = Sent(seen.lab.name, i.lab.name, server.lab.name)
  <2>1. Merged(server, seen, i).lab = MergedLab(server, seen, i)
    BY MergedFields
  <2> QED BY <2>1 DEF MergedLab
<1>2. i.lab.kind # None
  BY ItemFields
<1>3. MayAsk(i.key, i.lab.kind, i.lab.name)
  BY DEF MayAsk
<1>4. Merged(server, seen, i).lab.kind # None
  BY <1>1, <1>2 DEF Sent
<1>5. CASE server.lab.kind # None
  BY <1>1, <1>3, <1>4, <1>5 DEF Labelled, MayAsk, Sent
<1>6. CASE server.lab.kind = None
  BY <1>1, <1>2, <1>3, <1>4, <1>6 DEF Labelled, MayAsk, Sent
<1> QED BY <1>5, <1>6

\* Two specs with the same fields are one.
LEMMA SpecsEqual ==
  ASSUME NEW p \in SpecType, NEW q \in SpecType, p.site = q.site, p.via = q.via,
         p.part = q.part, p.users = q.users, p.ssl = q.ssl
  PROVE  p = q
BY DEF SpecType

\* A patch of an object that is as it was read, or as the item asks for, leaves it as
\* the item asks for.
LEMMA MergedWritten ==
  ASSUME NEW server \in ResourceType, NEW seen \in ResourceType, NEW i \in AllItems,
         seen.spec.ssl, server.spec.ssl,
         \/ server.lab = seen.lab /\ server.spec = seen.spec
         \/ Written(server, i)
  PROVE  Written(Merged(server, seen, i), i)
<1>1. i.spec \in SpecType /\ i.lab \in LabelType
  BY ItemFields
<1>2. /\ server.spec \in SpecType /\ server.lab \in LabelType
      /\ seen.spec \in SpecType /\ seen.lab \in LabelType
  BY DEF ResourceType, SpecType
<1>3. i.lab = [kind |-> i.lab.kind, name |-> i.lab.name, site |-> i.lab.site]
  BY <1>1 DEF LabelType
<1>4. /\ Defaulted(i.spec) \in SpecType /\ Defaulted(i.spec).ssl = TRUE
      /\ Defaulted(i.spec).site = i.spec.site /\ Defaulted(i.spec).via = i.spec.via
      /\ Defaulted(i.spec).part = i.spec.part /\ Defaulted(i.spec).users = i.spec.users
  BY <1>1 DEF Defaulted, SpecType
<1>5. /\ server.lab = seen.lab \/ server.lab = i.lab
      /\ server.spec = seen.spec \/ server.spec = Defaulted(i.spec)
  BY DEF Written
<1>6. MergedLab(server, seen, i) = i.lab
  <2>1. /\ Sent(seen.lab.kind, i.lab.kind, server.lab.kind) = i.lab.kind
        /\ Sent(seen.lab.name, i.lab.name, server.lab.name) = i.lab.name
        /\ Sent(seen.lab.site, i.lab.site, server.lab.site) = i.lab.site
    BY <1>5 DEF Sent
  <2> QED BY <2>1, <1>3 DEF MergedLab
<1>7. MergedSpec(server, seen, i) = Defaulted(i.spec)
  <2>1. /\ Sent(seen.spec.site, i.spec.site, server.spec.site) = i.spec.site
        /\ Sent(seen.spec.via, i.spec.via, server.spec.via) = i.spec.via
        /\ Sent(seen.spec.part, i.spec.part, server.spec.part) = i.spec.part
        /\ Sent(seen.spec.users, i.spec.users, server.spec.users) = i.spec.users
    BY <1>4, <1>5 DEF Sent
  <2>2. MergedSpec(server, seen, i).ssl = TRUE
    BY DEF MergedSpec
  <2>3. MergedSpec(server, seen, i) \in SpecType
    <3>1. Merged(server, seen, i) \in ResourceType
      BY MergedFields
    <3>2. Merged(server, seen, i).spec \in SpecType
      BY <3>1 DEF ResourceType, SpecType
    <3> QED BY <3>2, MergedFields
  <2>4. /\ MergedSpec(server, seen, i).site = i.spec.site
        /\ MergedSpec(server, seen, i).via = i.spec.via
        /\ MergedSpec(server, seen, i).part = i.spec.part
        /\ MergedSpec(server, seen, i).users = i.spec.users
    BY <2>1 DEF MergedSpec
  <2> QED BY <2>2, <2>3, <2>4, <1>4, SpecsEqual
<1> QED BY <1>6, <1>7, MergedFields DEF Written

-----------------------------------------------------------------------------
(* What a step does to each variable. *)

\* Every step is one of the handlers, or of what the environment does.
LEMMA StepCases ==
  ASSUME [Next]_vars
  PROVE  \/ \E s \in Source : Reconcile(s)
         \/ \E k \in Kind : ListOwned(k) \/ deleteOwnedResources(k) \/ EventDone(k)
         \/ \E k \in Worker : GetExisting(k) \/ ensureOwnedPublicResource(k)
         \/ ScanKind \/ KindDone
         \/ \E t \in DOMAIN cfg : StartScan(t)
         \/ \E x \in DOMAIN res : Collect(x) \/ Finalized(x)
         \/ \E s \in Source : \E c \in Contents[s] : Edit(s, {c})
         \/ \E s \in DOMAIN src : Edit(s, {})
         \/ \E t \in DOMAIN cfg : SiteDelete(t) \/ \E f \in Configs[t] : SiteEdit(t, f)
         \/ Crash
         \/ UNCHANGED vars
<1>1. CASE \E k \in Worker : WorkerStep(k)
  <2>1. PICK k \in Worker : WorkerStep(k)
    BY <1>1
  <2>2. k # Scanner => k \in Kind
    BY DEF Worker
  <2> QED BY <2>1, <2>2 DEF WorkerStep
<1>2. CASE Cluster
  BY <1>2 DEF Cluster
<1>3. CASE Environment
  BY <1>3 DEF Environment
<1> QED BY <1>1, <1>2, <1>3 DEF Next

\* A failure is counted and seen, and what was seen is not forgotten.
LEMMA FaultsFrame ==
  ASSUME TypeInv, [Next]_vars
  PROVE  /\ faults' \in [n : Nat, seen : SUBSET FaultKind]
         /\ faults.seen \subseteq faults'.seen
<1>1. faults \in [n : Nat, seen : SUBSET FaultKind] /\ Faults \subseteq FaultKind
  BY ConstantsAssumption DEF TypeInv, TypeOK
<1>2. \/ UNCHANGED faults
      \/ \E k \in Faults : faults' = [n |-> faults.n + 1, seen |-> faults.seen \cup {k}]
      \/ \E S \in SUBSET Faults : faults' = [faults EXCEPT !.seen = @ \cup S]
  <2>1. ASSUME NEW k, Fault(k)
        PROVE  \E j \in Faults : faults' = [n |-> faults.n + 1, seen |-> faults.seen \cup {j}]
    BY <2>1 DEF Fault
  <2>2. ASSUME NEW S, Note(S)
        PROVE  \E T \in SUBSET Faults : faults' = [faults EXCEPT !.seen = @ \cup T]
    BY <2>2 DEF Note
  <2>3. ASSUME NEW s, Reconcile(s) PROVE UNCHANGED faults \/ Fault("k8s")
    BY <2>3 DEF Reconcile
  <2>4. ASSUME NEW k, ListOwned(k) \/ deleteOwnedResources(k) \/ EventDone(k)
        PROVE  UNCHANGED faults \/ Fault("k8s")
    BY <2>4 DEF ListOwned, deleteOwnedResources, EventDone
  <2>5. ASSUME NEW k, GetExisting(k) \/ ensureOwnedPublicResource(k)
        PROVE  UNCHANGED faults \/ Fault("k8s")
    BY <2>5 DEF GetExisting, ensureOwnedPublicResource
  <2>6. CASE ScanKind \/ KindDone
    BY <2>1, <2>6 DEF ScanKind, KindDone
  <2>7. ASSUME NEW t, StartScan(t) PROVE UNCHANGED faults
    BY <2>7 DEF StartScan
  <2>8. ASSUME NEW x, Collect(x) \/ Finalized(x) PROVE UNCHANGED faults
    BY <2>8 DEF Collect, Finalized
  <2>9. ASSUME NEW s, NEW new, Edit(s, new) PROVE \E S : Note(S)
    BY <2>9 DEF Edit
  <2>10. ASSUME NEW t, NEW f, SiteDelete(t) \/ SiteEdit(t, f) PROVE \E S : Note(S)
    BY <2>10 DEF SiteDelete, SiteEdit
  <2>11. CASE Crash
    BY <2>1, <2>11 DEF Crash
  <2>12. CASE UNCHANGED vars
    BY <2>12 DEF vars
  <2> QED BY <2>1, <2>2, <2>3, <2>4, <2>5, <2>6, <2>7, <2>8, <2>9, <2>10, <2>11, <2>12,
             StepCases
<1> QED BY <1>1, <1>2

\* What the users write changes only when they write it, and keeps its types.
LEMMA EnvironmentFrame ==
  ASSUME TypeInv, [Next]_vars
  PROVE  \/ UNCHANGED <<src, cfg, edits>>
         \/ \E s \in Source : \E c \in Contents[s] : Edit(s, {c})
         \/ \E s \in DOMAIN src : Edit(s, {})
         \/ \E t \in DOMAIN cfg : SiteDelete(t) \/ \E f \in Configs[t] : SiteEdit(t, f)
<1>1. ASSUME NEW s, Reconcile(s) PROVE UNCHANGED <<src, cfg, edits>>
  BY <1>1 DEF Reconcile, Objects
<1>2. ASSUME NEW k, ListOwned(k) \/ deleteOwnedResources(k) \/ EventDone(k)
      PROVE  UNCHANGED <<src, cfg, edits>>
  BY <1>2 DEF ListOwned, deleteOwnedResources, EventDone, Objects
<1>3. ASSUME NEW k, GetExisting(k) \/ ensureOwnedPublicResource(k)
      PROVE  UNCHANGED <<src, cfg, edits>>
  BY <1>3 DEF GetExisting, ensureOwnedPublicResource, Objects
<1>4. CASE ScanKind \/ KindDone
  BY <1>4 DEF ScanKind, KindDone, Objects
<1>5. ASSUME NEW t, StartScan(t) PROVE UNCHANGED <<src, cfg, edits>>
  BY <1>5 DEF StartScan, Objects
<1>6. ASSUME NEW x, Collect(x) \/ Finalized(x) PROVE UNCHANGED <<src, cfg, edits>>
  BY <1>6 DEF Collect, Finalized, Objects
<1>7. CASE Crash
  BY <1>7 DEF Crash, Objects
<1>8. CASE UNCHANGED vars
  BY <1>8 DEF vars
<1> QED BY <1>1, <1>2, <1>3, <1>4, <1>5, <1>6, <1>7, <1>8, StepCases

\* PublicResource x was kept as it was, but may be on its way out.
Kept(x) == x \in DOMAIN res /\ (res'[x] = res[x] \/ res'[x] = [res[x] EXCEPT !.del = TRUE])

\* Worker k wrote item i to it: createOwnedPublicResource, updateOwnedPublicResource.
Stored(k, i) ==
  /\ w[k].pc = "write" /\ i \in w[k].todo /\ i.key \in w[k].keys
  /\ \/ i.key \notin DOMAIN res /\ w[k].seen = {} /\ res'[i.key] = NewResource(i)
     \/ /\ i.key \in DOMAIN res
        /\ \E r \in w[k].seen : res'[i.key] = Merged(res[i.key], r, i)

\* A PublicResource changes by a write of a worker, by an item for it, or is deleted.
LEMMA ResFrame ==
  ASSUME [Next]_vars, NEW x \in DOMAIN res'
  PROVE  Kept(x) \/ \E k \in Worker : \E i \in w[k].todo : i.key = x /\ Stored(k, i)
<1>1. ASSUME NEW y, Delete(y) PROVE Kept(x)
  BY <1>1 DEF Delete, Without, Kept
<1>2. ASSUME UNCHANGED res PROVE Kept(x)
  BY <1>2 DEF Kept
<1>3. ASSUME NEW k, NEW i \in w[k].todo, i.key \in w[k].keys, w[k].pc = "write",
             Write(i, w[k].seen)
      PROVE  Kept(x) \/ (i.key = x /\ Stored(k, i))
  BY <1>3 DEF Write, Kept, Stored, With
<1>4. ASSUME NEW s, Reconcile(s) PROVE UNCHANGED res
  BY <1>4 DEF Reconcile
<1>5. ASSUME NEW k, ListOwned(k) \/ EventDone(k) \/ GetExisting(k)
      PROVE  UNCHANGED res
  BY <1>5 DEF ListOwned, EventDone, GetExisting
<1>6. ASSUME NEW k, deleteOwnedResources(k) PROVE UNCHANGED res \/ \E y : Delete(y)
  BY <1>6 DEF deleteOwnedResources
<1>7. ASSUME NEW k \in Worker, ensureOwnedPublicResource(k)
      PROVE  Kept(x) \/ \E i \in w[k].todo : i.key = x /\ Stored(k, i)
  <2>1. PICK i \in w[k].todo : /\ i.key \in w[k].keys
                               /\ Write(i, w[k].seen) \/ UNCHANGED res
    BY <1>7 DEF ensureOwnedPublicResource
  <2>2. w[k].pc = "write"
    BY <1>7 DEF ensureOwnedPublicResource
  <2>3. CASE Write(i, w[k].seen)
    <3>1. Kept(x) \/ (i.key = x /\ Stored(k, i))
      BY <2>1, <2>2, <2>3, <1>3
    <3> QED BY <3>1
  <2>4. CASE UNCHANGED res
    BY <2>4, <1>2
  <2> QED BY <2>1, <2>3, <2>4
<1>8. CASE ScanKind \/ KindDone
  BY <1>2, <1>8 DEF ScanKind, KindDone
<1>9. ASSUME NEW t, StartScan(t) PROVE UNCHANGED res
  BY <1>9 DEF StartScan
<1>10. ASSUME NEW y, Collect(y) PROVE \E z : Delete(z)
  BY <1>10 DEF Collect
<1>11. ASSUME NEW y, Finalized(y) PROVE Kept(x)
  BY <1>11 DEF Finalized, Without, Kept
<1>12. ASSUME NEW s, NEW new, Edit(s, new) PROVE UNCHANGED res
  BY <1>12 DEF Edit
<1>13. ASSUME NEW t, NEW f, SiteDelete(t) \/ SiteEdit(t, f) PROVE UNCHANGED res
  BY <1>13 DEF SiteDelete, SiteEdit
<1>14. CASE Crash
  BY <1>2, <1>14 DEF Crash
<1>15. CASE UNCHANGED vars
  BY <1>2, <1>15 DEF vars
<1> QED BY <1>1, <1>2, <1>4, <1>5, <1>6, <1>7, <1>8, <1>9, <1>10, <1>11, <1>12, <1>13,
           <1>14, <1>15, StepCases DEF Worker

\* A worker that is done, or at the next item or kind, with no more to do than before.
Resting(k) ==
  w'[k].pc \in {"idle", "list", "ensure"} /\ w'[k].todo \subseteq w[k].todo

\* A worker that has read what the sources ask for.
Taking(k) ==
  /\ w'[k].pc = "ensure" /\ UNCHANGED <<src, cfg>>
  /\ \/ \E s \in DOMAIN src : \E t \in resolveSite(s) :
          ~IsOptOut(src[s]) /\ w'[k].todo = Items(s, src[s], t, cfg[t])
     \/ /\ k = Scanner /\ w[k].pc = "list"
        /\ \E n \in Kind : w'[k].todo = Scanned(n, w[k].site, w[k].f)

\* GetExisting and ListOwned: a worker that has read what it will write or delete.
Reading(k) ==
  /\ UNCHANGED <<res, src, cfg>> /\ w'[k].pc = "write" /\ w'[k].todo = w[k].todo
  /\ \E i \in w[k].todo : w'[k].seen = At(i.key) /\ w'[k].keys = {i.key}
Listing(k) ==
  /\ k \in Kind
  /\ UNCHANGED <<res, src, cfg>> /\ w'[k].pc = "delete" /\ w'[k].todo = w[k].todo
  /\ w'[k].src = w[k].src /\ \E s \in w[k].src : w'[k].keys = Owned(k, s)

\* deleteOwnedResources: a worker that has more to delete.
Deleting(k) ==
  /\ w[k].pc = "delete" /\ w'[k].pc = "delete" /\ w'[k].todo = w[k].todo
  /\ w'[k].src = w[k].src /\ w'[k].keys \subseteq w[k].keys

\* The NewtSite that the scanner is at, and its spec, are kept, or read anew.
Scanning ==
  \/ w'[Scanner].pc = "idle"
  \/ /\ w[Scanner].pc # "idle"
     /\ w'[Scanner].site = w[Scanner].site /\ w'[Scanner].f = w[Scanner].f
     /\ w'[Scanner].pc = "list" => w'[Scanner].left # {}
  \/ /\ UNCHANGED cfg /\ w'[Scanner].left # {}
     /\ w'[Scanner].site \in DOMAIN cfg /\ w'[Scanner].f = cfg[w'[Scanner].site]

\* What the step of worker k does to it, and that it keeps its type.
Moved(k) ==
  /\ w' = [w EXCEPT ![k] = w'[k]] /\ w'[k] \in WorkerType
  /\ Resting(k) \/ Taking(k) \/ Reading(k) \/ Listing(k) \/ Deleting(k)
  /\ k = Scanner => Scanning

\* The worker of a kind starts, and ends, with nothing.
LEMMA IdleOK == Idle \in WorkerType /\ Idle.pc = "idle" /\ Idle.todo = {} /\ Idle.seen = {}
<1>1. "idle" \in PC
  BY DEF PC
<1>2. \E f : f \in UNION {Configs[t] : t \in Site}
  BY ConstantsAssumption
<1>3. (CHOOSE f \in UNION {Configs[t] : t \in Site} : TRUE) \in UNION {Configs[t] : t \in Site}
  BY <1>2
<1> DEFINE any == CHOOSE f \in UNION {Configs[t] : t \in Site} : TRUE
<1>4. any \in UNION {Configs[t] : t \in Site}
  BY <1>3
<1>5. Idle = [pc |-> "idle", src |-> {}, site |-> NoSite, f |-> any, left |-> {},
              todo |-> {}, keys |-> {}, seen |-> {}, failed |-> FALSE]
  BY DEF Idle
<1> HIDE DEF any
<1> QED BY <1>1, <1>4, <1>5 DEF WorkerType

\* The item that ensureOwnedPublicResource is done with is taken off the list.
LEMMA StepMoves ==
  ASSUME TypeInv, NEW k \in Worker, NEW item, NEW v,
         v = w[k] \/ v = [w[k] EXCEPT !.failed = TRUE],
         Step(k, item, v), w[k].pc # "idle"
  PROVE  Moved(k)
<1>1. w \in [Worker -> WorkerType]
  BY DEF TypeInv, TypeOK
<1>2. "ensure" \in PC
  BY DEF PC
<1>3. /\ v \in WorkerType /\ v.todo = w[k].todo /\ v.site = w[k].site /\ v.f = w[k].f
  BY <1>1 DEF WorkerType
<1> DEFINE u == [v EXCEPT !.todo = @ \ {item}, !.seen = {}, !.keys = {}, !.pc = "ensure"]
<1>4. u \in WorkerType
  BY <1>2, <1>3 DEF WorkerType
<1>5. u.pc = "ensure" /\ u.todo \subseteq w[k].todo /\ u.site = w[k].site /\ u.f = w[k].f
  BY <1>3 DEF WorkerType
<1>6. w' = [w EXCEPT ![k] = u]
  BY DEF Step
<1> HIDE DEF u
<1>7. w'[k] = u
  BY <1>1, <1>6
<1> QED BY <1>4, <1>5, <1>6, <1>7 DEF Moved, Resting, Scanning

\* An idle worker, whatever it was at: Retry, EventDone, and a scan that ends.
LEMMA IdleMoves ==
  ASSUME TypeInv, NEW k \in Worker, w' = [w EXCEPT ![k] = Idle]
  PROVE  Moved(k)
<1>1. w'[k] = Idle
  BY DEF TypeInv, TypeOK
<1> QED BY <1>1, IdleOK DEF Moved, Resting, Scanning

\* Labels in the cluster are at keys.
LEMMA OwnedKeys ==
  ASSUME TypeInv, NEW k, NEW s
  PROVE  Owned(k, s) \subseteq Key
BY DEF Owned, TypeInv, TypeOK

\* ReconcileHTTPRoute, ReconcileTCPRoute, ReconcileService.
LEMMA ReconcileMoves ==
  ASSUME TypeInv, NEW s \in Source, Reconcile(s)
  PROVE  UNCHANGED w \/ Moved(s.kind)
<1>1. /\ w \in [Worker -> WorkerType] /\ s.kind \in Kind /\ s.kind \in Worker
      /\ s.kind # Scanner
  BY ConstantsAssumption DEF TypeInv, TypeOK, Worker, Scanner, Kind
<1>2. UNCHANGED <<src, cfg>>
  BY DEF Reconcile, Objects
<1>3. "list" \in PC /\ "ensure" \in PC
  BY DEF PC
<1>4. \/ UNCHANGED w
      \/ w' = [w EXCEPT ![s.kind] = [[Idle EXCEPT !.pc = "list"] EXCEPT !.src = {s}]]
      \/ w' = [w EXCEPT ![s.kind] = [[Idle EXCEPT !.pc = "list"] EXCEPT !.src = {}]]
      \/ /\ s \in DOMAIN src /\ ~IsOptOut(src[s])
         /\ \E t \in resolveSite(s) :
              LET items == Items(s, src[s], t, cfg[t])
              IN  \/ w' = [w EXCEPT ![s.kind] = [Process(items) EXCEPT !.src = {}]]
                  \/ w' = [w EXCEPT ![s.kind] = [Process(items) EXCEPT !.src = {s}]]
  BY DEF Reconcile
<1>5. ASSUME NEW S \in SUBSET {s}
      PROVE  /\ [[Idle EXCEPT !.pc = "list"] EXCEPT !.src = S] \in WorkerType
             /\ [[Idle EXCEPT !.pc = "list"] EXCEPT !.src = S].pc = "list"
             /\ [[Idle EXCEPT !.pc = "list"] EXCEPT !.src = S].todo = {}
  BY <1>3, IdleOK DEF WorkerType
<1>6. ASSUME NEW S \in SUBSET {s},
             w' = [w EXCEPT ![s.kind] = [[Idle EXCEPT !.pc = "list"] EXCEPT !.src = S]]
      PROVE  Moved(s.kind)
  <2>1. w'[s.kind] = [[Idle EXCEPT !.pc = "list"] EXCEPT !.src = S]
    BY <1>1, <1>6
  <2> QED BY <1>1, <1>5, <1>6, <2>1 DEF Moved, Resting
<1>7. ASSUME NEW S \in SUBSET {s}, s \in DOMAIN src, ~IsOptOut(src[s]),
             NEW t \in resolveSite(s), NEW items, items = Items(s, src[s], t, cfg[t]),
             w' = [w EXCEPT ![s.kind] = [Process(items) EXCEPT !.src = S]]
      PROVE  Moved(s.kind)
  <2>1. items \subseteq AllItems
    <3>1. /\ src[s] \in Contents[s] /\ t \in Site /\ cfg[t] \in Configs[t]
      BY <1>7 DEF TypeInv, TypeOK, resolveSite
    <3> QED BY <1>7, <3>1, ItemsIn
  <2> DEFINE v == [Process(items) EXCEPT !.src = S]
  <2>2. w'[s.kind] = v
    BY <1>1, <1>7
  <2>3. CASE items = {}
    <3>1. v \in WorkerType /\ v.pc = "idle" /\ v.todo = {}
      BY <2>3, IdleOK DEF Process, WorkerType
    <3> QED BY <1>1, <1>7, <2>2, <3>1 DEF Moved, Resting
  <2>4. CASE items # {}
    <3>1. v \in WorkerType /\ v.pc = "ensure" /\ v.todo = items
      BY <2>1, <2>4, <1>3, IdleOK DEF Process, WorkerType
    <3>2. Taking(s.kind)
      BY <1>2, <1>7, <2>2, <3>1 DEF Taking
    <3> QED BY <1>1, <1>7, <2>2, <3>1, <3>2 DEF Moved
  <2> QED BY <2>3, <2>4
<1>8. CASE /\ s \in DOMAIN src /\ ~IsOptOut(src[s])
           /\ \E t \in resolveSite(s) :
                LET items == Items(s, src[s], t, cfg[t])
                IN  \/ w' = [w EXCEPT ![s.kind] = [Process(items) EXCEPT !.src = {}]]
                    \/ w' = [w EXCEPT ![s.kind] = [Process(items) EXCEPT !.src = {s}]]
  <2>1. PICK t \in resolveSite(s) :
          \/ w' = [w EXCEPT ![s.kind] = [Process(Items(s, src[s], t, cfg[t])) EXCEPT !.src = {}]]
          \/ w' = [w EXCEPT ![s.kind] = [Process(Items(s, src[s], t, cfg[t])) EXCEPT !.src = {s}]]
    BY <1>8
  <2> DEFINE items == Items(s, src[s], t, cfg[t])
  <2>2. PICK S \in SUBSET {s} : w' = [w EXCEPT ![s.kind] = [Process(items) EXCEPT !.src = S]]
    BY <2>1
  <2>3. items = Items(s, src[s], t, cfg[t])
    OBVIOUS
  <2> HIDE DEF items
  <2> QED BY <1>8, <2>2, <2>3, <1>7
<1>9. ASSUME NEW S \in SUBSET {s},
             w' = [w EXCEPT ![s.kind] = [[Idle EXCEPT !.pc = "list"] EXCEPT !.src = S]]
      PROVE  UNCHANGED w \/ Moved(s.kind)
  BY <1>6, <1>9
<1>10. {} \in SUBSET {s} /\ {s} \in SUBSET {s}
  OBVIOUS
<1> QED BY <1>4, <1>8, <1>9, <1>10

\* ListOwned.
LEMMA ListMoves ==
  ASSUME TypeInv, NEW k \in Kind, ListOwned(k)
  PROVE  Moved(k)
<1>1. w \in [Worker -> WorkerType] /\ k \in Worker /\ k # Scanner
  BY DEF TypeInv, TypeOK, Worker, Scanner, Kind
<1>2. "delete" \in PC
  BY DEF PC
<1>3. UNCHANGED <<res, src, cfg>>
  BY DEF ListOwned, Objects
<1>4. ASSUME NEW s \in w[k].src,
             w' = [w EXCEPT ![k] = [@ EXCEPT !.pc = "delete", !.keys = Owned(k, s)]]
      PROVE  Moved(k)
  <2> DEFINE v == [w[k] EXCEPT !.pc = "delete", !.keys = Owned(k, s)]
  <2>1. /\ v \in WorkerType /\ v.pc = "delete" /\ v.todo = w[k].todo /\ v.src = w[k].src
        /\ v.keys = Owned(k, s)
    BY <1>1, <1>2, OwnedKeys DEF WorkerType
  <2>2. w' = [w EXCEPT ![k] = v]
    BY <1>4
  <2> HIDE DEF v
  <2>3. w'[k] = v
    BY <1>1, <2>2
  <2>4. Listing(k)
    BY <1>3, <2>1, <2>3 DEF Listing
  <2> QED BY <1>1, <2>1, <2>2, <2>3, <2>4 DEF Moved
<1>5. \/ \E s \in w[k].src :
           w' = [w EXCEPT ![k] = IF Owned(k, s) = {} THEN Idle
                                 ELSE [@ EXCEPT !.pc = "delete", !.keys = Owned(k, s)]]
      \/ w' = [w EXCEPT ![k] = Idle]
  BY DEF ListOwned, Retry
<1> QED BY <1>1, <1>4, <1>5, IdleMoves

\* deleteOwnedResources.
LEMMA DeleteMoves ==
  ASSUME TypeInv, NEW k \in Kind, deleteOwnedResources(k)
  PROVE  Moved(k)
<1>1. w \in [Worker -> WorkerType] /\ k \in Worker /\ k # Scanner /\ w[k].pc = "delete"
  BY DEF TypeInv, TypeOK, Worker, Scanner, Kind, deleteOwnedResources
<1>2. ASSUME NEW x, w' = [w EXCEPT ![k] = [w[k] EXCEPT !.keys = w[k].keys \ {x}]]
      PROVE  Moved(k)
  <2> DEFINE v == [w[k] EXCEPT !.keys = w[k].keys \ {x}]
  <2>1. /\ v \in WorkerType /\ v.pc = "delete" /\ v.todo = w[k].todo /\ v.src = w[k].src
        /\ v.keys \subseteq w[k].keys
    BY <1>1 DEF WorkerType
  <2>2. w' = [w EXCEPT ![k] = v]
    BY <1>2
  <2> HIDE DEF v
  <2>3. w'[k] = v
    BY <1>1, <2>2
  <2>4. Deleting(k)
    BY <1>1, <2>1, <2>3 DEF Deleting
  <2> QED BY <1>1, <2>1, <2>2, <2>3, <2>4 DEF Moved
<1>3. \/ \E x \in w[k].keys :
           w' = [w EXCEPT ![k] = IF w[k].keys = {x} THEN Idle
                                 ELSE [w[k] EXCEPT !.keys = w[k].keys \ {x}]]
      \/ w' = [w EXCEPT ![k] = Idle]
  BY DEF deleteOwnedResources, Retry
<1> QED BY <1>1, <1>2, <1>3, IdleMoves

\* ensureOwnedPublicResource, up to what Get returns.
LEMMA GetMoves ==
  ASSUME TypeInv, NEW k \in Worker, GetExisting(k)
  PROVE  Moved(k)
<1>1. w \in [Worker -> WorkerType] /\ w[k].pc = "ensure"
  BY DEF TypeInv, TypeOK, GetExisting
<1>2. "write" \in PC
  BY DEF PC
<1>3. UNCHANGED <<res, src, cfg>>
  BY DEF GetExisting, Objects
<1>4. ASSUME NEW i \in w[k].todo,
             w' = [w EXCEPT ![k] = [w[k] EXCEPT !.pc = "write", !.seen = At(i.key),
                                                !.keys = {i.key}]]
      PROVE  Moved(k)
  <2> DEFINE v == [w[k] EXCEPT !.pc = "write", !.seen = At(i.key), !.keys = {i.key}]
  <2>1. i \in AllItems /\ i.key \in Key
    BY <1>1, AllItemsOK DEF WorkerType
  <2>2. At(i.key) \subseteq ResourceType
    BY DEF At, TypeInv, TypeOK
  <2>3. /\ v \in WorkerType /\ v.pc = "write" /\ v.todo = w[k].todo /\ v.seen = At(i.key)
        /\ v.keys = {i.key} /\ v.site = w[k].site /\ v.f = w[k].f
    BY <1>1, <1>2, <2>1, <2>2 DEF WorkerType
  <2>4. w' = [w EXCEPT ![k] = v]
    BY <1>4
  <2> HIDE DEF v
  <2>5. w'[k] = v
    BY <1>1, <2>4
  <2>6. Reading(k)
    BY <1>3, <2>3, <2>5 DEF Reading
  <2>7. k = Scanner => Scanning
    BY <1>1, <2>3, <2>5 DEF Scanning
  <2> QED BY <2>3, <2>4, <2>5, <2>6, <2>7 DEF Moved
<1>5. \/ \E i \in w[k].todo : Step(k, i, w[k]) \/ Step(k, i, [w[k] EXCEPT !.failed = TRUE])
      \/ \E i \in w[k].todo :
           w' = [w EXCEPT ![k] = [w[k] EXCEPT !.pc = "write", !.seen = At(i.key),
                                              !.keys = {i.key}]]
  BY DEF GetExisting
<1> QED BY <1>1, <1>4, <1>5, StepMoves

\* ensureOwnedPublicResource, the write.
LEMMA WriteMoves ==
  ASSUME TypeInv, NEW k \in Worker, ensureOwnedPublicResource(k)
  PROVE  Moved(k)
<1>1. w[k].pc = "write"
  BY DEF ensureOwnedPublicResource
<1>2. \E i \in w[k].todo : Step(k, i, w[k]) \/ Step(k, i, [w[k] EXCEPT !.failed = TRUE])
  BY DEF ensureOwnedPublicResource
<1> QED BY <1>1, <1>2, StepMoves

\* The first kind that is left.
LEMMA StageOK ==
  ASSUME NEW left \in SUBSET Kind, left # {}
  PROVE  Stage(left) \in Kind
<1> DEFINE first(n) == Stages[n] \in left /\ \A m \in 1..3 : m < n => Stages[m] \notin left
<1>1. Stages[1] = "httproute" /\ Stages[2] = "tcproute" /\ Stages[3] = "service"
  BY DEF Stages
<1>2. \E n \in 1..3 : Stages[n] \in left
  <2>1. PICK k \in left : TRUE
    OBVIOUS
  <2>2. k = Stages[1] \/ k = Stages[2] \/ k = Stages[3]
    BY <1>1 DEF Kind
  <2>3. 1 \in 1..3 /\ 2 \in 1..3 /\ 3 \in 1..3
    OBVIOUS
  <2> QED BY <2>1, <2>2, <2>3
<1>3. \E n \in 1..3 : first(n)
  <2>1. CASE Stages[1] \in left
    BY <2>1
  <2>2. CASE Stages[1] \notin left /\ Stages[2] \in left
    BY <2>2
  <2>3. CASE Stages[1] \notin left /\ Stages[2] \notin left
    BY <2>3, <1>2
  <2> QED BY <2>1, <2>2, <2>3
<1>4. (CHOOSE n \in 1..3 : first(n)) \in 1..3
  BY <1>3
<1>5. Stage(left) = Stages[CHOOSE n \in 1..3 : first(n)]
  BY DEF Stage
<1>6. \A n \in 1..3 : Stages[n] \in Kind
  <2>1. \A n \in 1..3 : n = 1 \/ n = 2 \/ n = 3
    OBVIOUS
  <2>2. Stages[1] \in Kind /\ Stages[2] \in Kind /\ Stages[3] \in Kind
    BY <1>1 DEF Kind
  <2> QED BY <2>1, <2>2
<1> HIDE DEF first
<1> QED BY <1>4, <1>5, <1>6

\* scanHTTPRoutes, scanTCPRoutes, scanServices.
LEMMA ScanMoves ==
  ASSUME TypeInv, ScanKind
  PROVE  Moved(Scanner)
<1>1. /\ w \in [Worker -> WorkerType] /\ Scanner \in Worker /\ w[Scanner].pc = "list"
      /\ w[Scanner].left # {}
  BY DEF TypeInv, TypeOK, Worker, ScannerInv, ScanKind
<1>2. "ensure" \in PC
  BY DEF PC
<1>3. UNCHANGED <<src, cfg>>
  BY DEF ScanKind, Objects
<1> DEFINE n == Stage(w[Scanner].left)
           items == Scanned(n, w[Scanner].site, w[Scanner].f)
           v == [w[Scanner] EXCEPT !.pc = "ensure", !.left = @ \ {n}, !.todo = items]
<1>4. n \in Kind
  BY <1>1, StageOK DEF WorkerType
<1>5. items \subseteq AllItems
  <2>1. w[Scanner].site \in Site /\ w[Scanner].f \in Configs[w[Scanner].site]
    BY <1>1 DEF TypeInv, ScannerInv
  <2>2. \A s \in DOMAIN src : s \in Source /\ src[s] \in Contents[s]
    BY DEF TypeInv, TypeOK
  <2>3. \A s \in DOMAIN src : Items(s, src[s], w[Scanner].site, w[Scanner].f) \subseteq AllItems
    BY <2>1, <2>2, ItemsIn
  <2> QED BY <2>3 DEF Scanned
<1>6. \/ w' = [w EXCEPT ![Scanner] = Idle]
      \/ w' = [w EXCEPT ![Scanner].pc = "ensure", ![Scanner].left = @ \ {n},
                        ![Scanner].todo = items]
  BY DEF ScanKind
<1>7. CASE w' = [w EXCEPT ![Scanner].pc = "ensure", ![Scanner].left = @ \ {n},
                          ![Scanner].todo = items]
  <2> HIDE DEF n, items
  <2>1. /\ v \in WorkerType /\ v.pc = "ensure" /\ v.todo = items
        /\ v.site = w[Scanner].site /\ v.f = w[Scanner].f
    BY <1>1, <1>2, <1>5 DEF WorkerType
  <2>2. w' = [w EXCEPT ![Scanner] = v]
    BY <1>1, <1>7
  <2> HIDE DEF v
  <2>3. w'[Scanner] = v
    BY <1>1, <2>2
  <2>4. Taking(Scanner)
    <3>1. items = Scanned(n, w[Scanner].site, w[Scanner].f)
      BY DEF items
    <3> QED BY <1>1, <1>3, <1>4, <2>1, <2>3, <3>1 DEF Taking
  <2> QED BY <1>1, <2>1, <2>2, <2>3, <2>4 DEF Moved, Scanning
<1> QED BY <1>1, <1>6, <1>7, IdleMoves

\* A scan that goes on to the next kind, or ends; and one that begins.
LEMMA ScannerMoves ==
  ASSUME TypeInv, KindDone \/ \E t \in DOMAIN cfg : StartScan(t)
  PROVE  Moved(Scanner)
<1>1. w \in [Worker -> WorkerType] /\ Scanner \in Worker
  BY DEF TypeInv, TypeOK, Worker
<1>2. "list" \in PC
  BY DEF PC
<1>3. CASE KindDone
  <2> DEFINE v == [w[Scanner] EXCEPT !.pc = "list"]
  <2>1. w[Scanner].pc = "ensure" /\ w[Scanner].todo = {}
    BY <1>3 DEF KindDone
  <2>2. \/ w' = [w EXCEPT ![Scanner] = Idle]
        \/ w[Scanner].left # {} /\ w' = [w EXCEPT ![Scanner] = v]
    BY <1>3 DEF KindDone
  <2>3. /\ v \in WorkerType /\ v.pc = "list" /\ v.todo = {} /\ v.left = w[Scanner].left
        /\ v.site = w[Scanner].site /\ v.f = w[Scanner].f
    BY <1>1, <1>2, <2>1 DEF WorkerType
  <2> HIDE DEF v
  <2>4. ASSUME w[Scanner].left # {}, w' = [w EXCEPT ![Scanner] = v]
        PROVE  Moved(Scanner)
    <3>1. w'[Scanner] = v
      BY <1>1, <2>4
    <3> QED BY <2>1, <2>3, <2>4, <3>1 DEF Moved, Resting, Scanning
  <2> QED BY <1>1, <2>2, <2>4, IdleMoves
<1>4. CASE \E t \in DOMAIN cfg : StartScan(t)
  <2>1. PICK t \in DOMAIN cfg : StartScan(t)
    BY <1>4
  <2> DEFINE v == [Idle EXCEPT !.pc = "list", !.site = t, !.f = cfg[t], !.left = cfg[t].kinds]
  <2>2. t \in Site /\ cfg[t] \in Configs[t]
    BY DEF TypeInv, TypeOK
  <2>3. cfg[t].kinds \subseteq Kind /\ cfg[t] \in UNION {Configs[u] : u \in Site}
    BY <2>2, ConstantsAssumption DEF ConfigType
  <2>4. /\ v \in WorkerType /\ v.pc = "list" /\ v.todo = {} /\ v.left = cfg[t].kinds
        /\ v.site = t /\ v.f = cfg[t]
    BY <1>2, <2>2, <2>3, IdleOK DEF WorkerType
  <2>5. w' = [w EXCEPT ![Scanner] = v] /\ UNCHANGED cfg /\ cfg[t].kinds # {}
    BY <2>1 DEF StartScan, Objects
  <2> HIDE DEF v
  <2>6. w'[Scanner] = v
    BY <1>1, <2>5
  <2> QED BY <2>4, <2>5, <2>6 DEF Moved, Resting, Scanning
<1> QED BY <1>3, <1>4

\* A step moves one worker, none, or all when the operator restarts.
LEMMA WorkersFrame ==
  ASSUME TypeInv, [Next]_vars
  PROVE  \/ UNCHANGED w
         \/ \E k \in Worker : Moved(k)
         \/ w' = [k \in Worker |-> Idle]
<1>1. ASSUME NEW s \in Source, Reconcile(s) PROVE UNCHANGED w \/ \E k \in Worker : Moved(k)
  <2>1. s.kind \in Worker
    BY ConstantsAssumption DEF Worker
  <2> QED BY <1>1, <2>1, ReconcileMoves
<1>2. ASSUME NEW k \in Kind, EventDone(k) PROVE Moved(k)
  <2>1. w' = [w EXCEPT ![k] = Idle]
    BY <1>2 DEF EventDone, Retry
  <2>2. k \in Worker
    BY DEF Worker
  <2> QED BY <2>1, <2>2, IdleMoves
<1>3. ASSUME NEW k \in Kind, ListOwned(k) \/ deleteOwnedResources(k) PROVE Moved(k)
  BY <1>3, ListMoves, DeleteMoves
<1>4. ASSUME NEW k \in Worker, GetExisting(k) \/ ensureOwnedPublicResource(k) PROVE Moved(k)
  BY <1>4, GetMoves, WriteMoves
<1>5. ASSUME ScanKind \/ KindDone \/ \E t \in DOMAIN cfg : StartScan(t) PROVE Moved(Scanner)
  BY <1>5, ScanMoves, ScannerMoves
<1>6. ASSUME NEW x, Collect(x) \/ Finalized(x) PROVE UNCHANGED w
  BY <1>6 DEF Collect, Finalized
<1>7. ASSUME NEW s, NEW new, Edit(s, new) PROVE UNCHANGED w
  BY <1>7 DEF Edit
<1>8. ASSUME NEW t, NEW f, SiteDelete(t) \/ SiteEdit(t, f) PROVE UNCHANGED w
  BY <1>8 DEF SiteDelete, SiteEdit
<1>9. CASE Crash
  BY <1>9 DEF Crash
<1>10. CASE UNCHANGED vars
  BY <1>10 DEF vars
<1>11. Kind \subseteq Worker /\ Scanner \in Worker
  BY DEF Worker
<1> QED BY <1>1, <1>2, <1>3, <1>4, <1>5, <1>6, <1>7, <1>8, <1>9, <1>10, <1>11, StepCases

-----------------------------------------------------------------------------
(* The types. *)

\* Events are for sources.
LEMMA QueueStep ==
  ASSUME TypeInv, [Next]_vars
  PROVE  queue' \subseteq Source
<1>1. queue \subseteq Source /\ \A k \in Worker : w[k].src \subseteq Source
  BY DEF TypeInv, TypeOK, WorkerType
<1>2. ASSUME NEW k \in Kind, Retry(k) PROVE queue' \subseteq Source
  BY <1>1, <1>2 DEF Retry, Worker
<1>3. ASSUME NEW s \in Source, Reconcile(s) PROVE queue' \subseteq Source
  BY <1>1, <1>3 DEF Reconcile
<1>4. ASSUME NEW k \in Kind, ListOwned(k) \/ deleteOwnedResources(k) \/ EventDone(k)
      PROVE  UNCHANGED queue \/ Retry(k)
  BY <1>4 DEF ListOwned, deleteOwnedResources, EventDone
<1>5. ASSUME NEW k, GetExisting(k) \/ ensureOwnedPublicResource(k) PROVE UNCHANGED queue
  BY <1>5 DEF GetExisting, ensureOwnedPublicResource
<1>6. ASSUME ScanKind \/ KindDone \/ \E t \in DOMAIN cfg : StartScan(t) PROVE UNCHANGED queue
  BY <1>6 DEF ScanKind, KindDone, StartScan
<1>7. ASSUME NEW x, Collect(x) \/ Finalized(x) PROVE UNCHANGED queue
  BY <1>7 DEF Collect, Finalized
<1>8. ASSUME NEW s \in Source, NEW new, Edit(s, new) PROVE queue' \subseteq Source
  BY <1>1, <1>8 DEF Edit, Event
<1>9. ASSUME NEW t, NEW f, SiteDelete(t) \/ SiteEdit(t, f) PROVE UNCHANGED queue
  BY <1>9 DEF SiteDelete, SiteEdit
<1>10. ASSUME Crash PROVE queue' \subseteq DOMAIN src
  BY <1>10 DEF Crash
<1>11. DOMAIN src \subseteq Source
  BY DEF TypeInv, TypeOK
<1>12. CASE UNCHANGED vars
  BY <1>1, <1>12 DEF vars
<1> QED BY <1>1, <1>2, <1>3, <1>4, <1>5, <1>6, <1>7, <1>8, <1>9, <1>10, <1>11, <1>12,
           StepCases

\* Users write contents and specs of their types.
LEMMA EnvironmentStep ==
  ASSUME TypeInv, [Next]_vars
  PROVE  /\ DOMAIN src' \subseteq Source /\ \A s \in DOMAIN src' : src'[s] \in Contents[s]
         /\ DOMAIN cfg' \subseteq Site /\ \A t \in DOMAIN cfg' : cfg'[t] \in Configs[t]
         /\ edits' \in Nat
<1>1. /\ DOMAIN src \subseteq Source /\ \A s \in DOMAIN src : src[s] \in Contents[s]
      /\ DOMAIN cfg \subseteq Site /\ \A t \in DOMAIN cfg : cfg[t] \in Configs[t]
      /\ edits \in Nat
  BY DEF TypeInv, TypeOK
<1>2. CASE UNCHANGED <<src, cfg, edits>>
  BY <1>1, <1>2
<1>3. ASSUME NEW s \in Source, NEW c \in Contents[s], Edit(s, {c})
      PROVE  src' = With(src, s, c) /\ UNCHANGED cfg /\ edits' = edits + 1
  <2>1. (CHOOSE d \in {c} : TRUE) = c
    OBVIOUS
  <2> QED BY <1>3, <2>1 DEF Edit
<1>4. ASSUME NEW s \in DOMAIN src, Edit(s, {})
      PROVE  src' = Without(src, s) /\ UNCHANGED cfg /\ edits' = edits + 1
  BY <1>4 DEF Edit
<1>5. ASSUME NEW t \in DOMAIN cfg, SiteDelete(t)
      PROVE  cfg' = Without(cfg, t) /\ UNCHANGED src /\ edits' = edits + 1
  BY <1>5 DEF SiteDelete
<1>6. ASSUME NEW t \in DOMAIN cfg, NEW f \in Configs[t], SiteEdit(t, f)
      PROVE  cfg' = [cfg EXCEPT ![t] = f] /\ UNCHANGED src /\ edits' = edits + 1
  BY <1>6 DEF SiteEdit
<1>7. CASE \E s \in Source : \E c \in Contents[s] : Edit(s, {c})
  <2>1. PICK s \in Source : \E d \in Contents[s] : src' = With(src, s, d)
    BY <1>3, <1>7
  <2>2. UNCHANGED cfg /\ edits' = edits + 1
    BY <1>3, <1>7
  <2> PICK c \in Contents[s] : src' = With(src, s, c)
    BY <2>1
  <2>3. DOMAIN src' = DOMAIN src \cup {s}
    BY DEF With
  <2>4. \A r \in DOMAIN src' : src'[r] = IF r = s THEN c ELSE src[r]
    BY DEF With
  <2> QED BY <1>1, <2>2, <2>3, <2>4
<1>8. CASE \E s \in DOMAIN src : Edit(s, {})
  <2>1. PICK s \in DOMAIN src : src' = Without(src, s)
    BY <1>4, <1>8
  <2>2. UNCHANGED cfg /\ edits' = edits + 1
    BY <1>4, <1>8
  <2>3. DOMAIN src' = DOMAIN src \ {s} /\ \A r \in DOMAIN src' : src'[r] = src[r]
    BY <2>1 DEF Without
  <2> QED BY <1>1, <2>2, <2>3
<1>9. CASE \E t \in DOMAIN cfg : SiteDelete(t) \/ \E f \in Configs[t] : SiteEdit(t, f)
  <2>1. PICK t \in DOMAIN cfg :
          \/ cfg' = Without(cfg, t)
          \/ \E f \in Configs[t] : cfg' = [cfg EXCEPT ![t] = f]
    BY <1>5, <1>6, <1>9
  <2>2. UNCHANGED src /\ edits' = edits + 1
    BY <1>5, <1>6, <1>9
  <2>3. DOMAIN cfg' \subseteq Site /\ \A u \in DOMAIN cfg' : cfg'[u] \in Configs[u]
    BY <1>1, <2>1 DEF Without
  <2> QED BY <1>1, <2>2, <2>3
<1> QED BY <1>2, <1>7, <1>8, <1>9, EnvironmentFrame

\* A write leaves a resource of its type that names a site and a kind, since what the
\* worker had seen of it is there still.
LEMMA StoredOK ==
  ASSUME TypeInv, NEW k \in Worker, NEW i, Stored(k, i)
  PROVE  /\ i \in AllItems /\ i.key \in Key
         /\ res'[i.key] \in ResourceType
         /\ res'[i.key].spec.site # NoSite /\ res'[i.key].lab.kind # None
<1>1. i \in AllItems /\ i.key \in w[k].keys /\ w[k].seen \subseteq ResourceType
  BY DEF Stored, TypeInv, TypeOK, WorkerType
<1>2. i.key \in Key
  BY <1>1, AllItemsOK
<1>3. CASE res'[i.key] = NewResource(i)
  BY <1>1, <1>2, <1>3, NewResourceOK
<1>4. CASE i.key \in DOMAIN res /\ \E r \in w[k].seen : res'[i.key] = Merged(res[i.key], r, i)
  <2>1. PICK r \in w[k].seen : res'[i.key] = Merged(res[i.key], r, i)
    BY <1>4
  <2>2. r \in ResourceType /\ res[i.key] \in ResourceType
    BY <1>1, <1>4 DEF TypeInv, TypeOK
  <2>3. /\ r.spec.site # NoSite => res[i.key].spec.site # NoSite
        /\ r.lab.kind # None => res[i.key].lab.kind # None
    BY <1>1, <1>4 DEF Stored, TypeInv, SeenInv, SeenKept
  <2>4. /\ Merged(res[i.key], r, i).spec.site # NoSite
        /\ Merged(res[i.key], r, i).lab.kind # None
    BY <1>1, <2>2, <2>3, MergedNamed
  <2>5. Merged(res[i.key], r, i) \in ResourceType
    BY <1>1, <2>2, MergedFields
  <2> QED BY <1>1, <1>2, <2>1, <2>4, <2>5
<1> QED BY <1>3, <1>4 DEF Stored

\* What is kept of a resource but for the deletion mark.
LEMMA KeptOK ==
  ASSUME TypeInv, NEW x, Kept(x)
  PROVE  /\ x \in DOMAIN res /\ res[x] \in ResourceType /\ res'[x] \in ResourceType
         /\ res'[x].lab = res[x].lab /\ res'[x].spec = res[x].spec
<1>1. x \in DOMAIN res /\ res[x] \in ResourceType
  BY DEF Kept, TypeInv, TypeOK
<1>2. /\ [res[x] EXCEPT !.del = TRUE] \in ResourceType
      /\ [res[x] EXCEPT !.del = TRUE].lab = res[x].lab
      /\ [res[x] EXCEPT !.del = TRUE].spec = res[x].spec
  BY <1>1 DEF ResourceType
<1> QED BY <1>1, <1>2 DEF Kept

\* Every PublicResource keeps its type, and names a site if it has a kind.
LEMMA ResStep ==
  ASSUME TypeInv, [Next]_vars, NEW x \in DOMAIN res'
  PROVE  /\ x \in Key /\ res'[x] \in ResourceType
         /\ res'[x].lab.kind = None \/ res'[x].spec.site # NoSite
<1>1. CASE Kept(x)
  <2>1. /\ x \in Key
        /\ res[x].lab.kind = None \/ res[x].spec.site # NoSite
    BY <1>1 DEF Kept, TypeInv, TypeOK
  <2> QED BY <1>1, <2>1, KeptOK
<1>2. ASSUME NEW k \in Worker, NEW i \in w[k].todo, i.key = x, Stored(k, i)
      PROVE  /\ x \in Key /\ res'[x] \in ResourceType
             /\ res'[x].lab.kind = None \/ res'[x].spec.site # NoSite
  BY <1>2, StoredOK
<1> QED BY <1>1, <1>2, ResFrame

\* A site and a kind, once there, stay as long as the object does.
LEMMA NamedKept ==
  ASSUME TypeInv, [Next]_vars, NEW x, NEW r,
         x \in DOMAIN res => /\ r.spec.site # NoSite => res[x].spec.site # NoSite
                             /\ r.lab.kind # None => res[x].lab.kind # None
  PROVE  x \in DOMAIN res' => /\ r.spec.site # NoSite => res'[x].spec.site # NoSite
                              /\ r.lab.kind # None => res'[x].lab.kind # None
<1> SUFFICES ASSUME x \in DOMAIN res'
             PROVE  /\ r.spec.site # NoSite => res'[x].spec.site # NoSite
                    /\ r.lab.kind # None => res'[x].lab.kind # None
  OBVIOUS
<1>1. CASE Kept(x)
  BY <1>1, KeptOK
<1>2. ASSUME NEW k \in Worker, NEW i \in w[k].todo, i.key = x, Stored(k, i)
      PROVE  res'[x].spec.site # NoSite /\ res'[x].lab.kind # None
  BY <1>2, StoredOK
<1> QED BY <1>1, <1>2, ResFrame

\* What workers have seen: a worker reads the object as it is.
LEMMA SeenStep ==
  ASSUME TypeInv, [Next]_vars
  PROVE  SeenInv'
<1> SUFFICES ASSUME NEW k \in Worker, w'[k].pc = "write", NEW x \in w'[k].keys,
                    x \in DOMAIN res', NEW r \in w'[k].seen
             PROVE  /\ r.spec.site # NoSite => res'[x].spec.site # NoSite
                    /\ r.lab.kind # None => res'[x].lab.kind # None
  BY DEF SeenInv, SeenKept
<1>1. CASE w'[k] = w[k]
  <2>1. x \in DOMAIN res => /\ r.spec.site # NoSite => res[x].spec.site # NoSite
                            /\ r.lab.kind # None => res[x].lab.kind # None
    BY <1>1 DEF TypeInv, SeenInv, SeenKept
  <2> QED BY <2>1, NamedKept
<1>2. CASE Moved(k)
  <2>1. Reading(k)
    BY <1>2 DEF Moved, Resting, Taking, Listing, Deleting
  <2>2. w'[k].seen = At(x) /\ res' = res
    BY <2>1 DEF Reading
  <2> QED BY <2>2 DEF At
<1>3. CASE w' = [j \in Worker |-> Idle]
  BY <1>3, IdleOK
<1>4. ASSUME NEW j \in Worker, Moved(j), j # k PROVE w'[k] = w[k]
  BY <1>4 DEF Moved, TypeInv, TypeOK
<1> QED BY <1>1, <1>2, <1>3, <1>4, WorkersFrame

\* Every handler keeps the types.
LEMMA TypeStep ==
  ASSUME TypeInv, [Next]_vars
  PROVE  TypeInv'
<1>1. w' \in [Worker -> WorkerType]
  BY WorkersFrame, IdleOK DEF Moved, TypeInv, TypeOK
<1>2. ScannerInv'
  <2>1. CASE w'[Scanner] = w[Scanner]
    BY <2>1 DEF TypeInv, ScannerInv
  <2>2. CASE Moved(Scanner)
    <3>1. Scanning
      BY <2>2 DEF Moved
    <3>2. DOMAIN cfg \subseteq Site /\ \A t \in DOMAIN cfg : cfg[t] \in Configs[t]
      BY DEF TypeInv, TypeOK
    <3> QED BY <3>1, <3>2 DEF Scanning, TypeInv, ScannerInv
  <2>3. CASE w'[Scanner] = Idle
    BY <2>3, IdleOK DEF ScannerInv
  <2>4. Scanner \in Worker
    BY DEF Worker
  <2>5. ASSUME NEW j \in Worker, Moved(j), j # Scanner PROVE w'[Scanner] = w[Scanner]
    BY <2>4, <2>5 DEF Moved, TypeInv, TypeOK
  <2> QED BY <2>1, <2>2, <2>3, <2>4, <2>5, WorkersFrame
<1>3. TypeOK'
  BY <1>1, QueueStep, EnvironmentStep, ResStep, FaultsFrame DEF TypeOK
<1> QED BY <1>2, <1>3, SeenStep DEF TypeInv

\* The operator starts with nothing read; users may have made objects by hand.
LEMMA TypeInit ==
  ASSUME Init
  PROVE  TypeInv
<1>1. w \in [Worker -> WorkerType] /\ \A k \in Worker : w[k] = Idle
  BY IdleOK DEF Init
<1>2. DOMAIN src \subseteq Source /\ \A s \in DOMAIN src : src[s] \in Contents[s]
  <2>1. PICK S \in Together : src \in {f \in [S -> UNION {Contents[s] : s \in S}] :
                                         \A s \in S : f[s] \in Contents[s]}
    BY DEF Init
  <2>2. S \subseteq Source
    BY ConstantsAssumption
  <2> QED BY <2>1, <2>2
<1>3. DOMAIN cfg = Site /\ \A t \in DOMAIN cfg : cfg[t] \in Configs[t]
  BY DEF Init
<1>4. Wanted \subseteq AllItems
  <2>1. ASSUME NEW s \in DOMAIN src, NEW t \in DOMAIN cfg
        PROVE  Items(s, src[s], t, cfg[t]) \subseteq AllItems
    BY <1>2, <1>3, ItemsIn
  <2> QED BY <2>1 DEF Wanted
<1>5. Manual \in ResourceType /\ Manual.lab.kind = None
  BY DEF Manual, ResourceType, LabelType
<1>6. /\ DOMAIN res \subseteq Key /\ \A x \in DOMAIN res : res[x] = Manual
  BY <1>4 DEF Init, Key
<1>7. queue \subseteq Source
  BY <1>2 DEF Init
<1>8. faults \in [n : Nat, seen : SUBSET FaultKind] /\ edits \in Nat
  BY DEF Init
<1>9. TypeOK
  BY <1>1, <1>2, <1>3, <1>5, <1>6, <1>7, <1>8 DEF TypeOK
<1>10. ScannerInv /\ SeenInv
  BY <1>1, IdleOK DEF ScannerInv, SeenInv, Worker
<1> QED BY <1>9, <1>10 DEF TypeInv

\* Every variable keeps its type, for any sources, sites and contents; in particular
\* every PublicResource that discovery wrote names a NewtSite, though a merge patch
\* sends only the fields that differ from what was read.
THEOREM TypeCorrect == Spec => []TypeOK
<1>1. Init => TypeInv
  BY TypeInit
<1>2. TypeInv /\ [Next]_vars => TypeInv'
  BY TypeStep
<1>3. TypeInv => TypeOK
  BY DEF TypeInv
<1> QED BY <1>1, <1>2, <1>3, PTL DEF Spec

-----------------------------------------------------------------------------
(* Labels, and the default of ssl. *)

\* A write leaves labels of sources that may ask for the object, and ssl=true.
LEMMA StoredLabelled ==
  ASSUME TypeInv, LabelInv, SslInv, NEW k \in Worker, NEW i, Stored(k, i)
  PROVE  Labelled(res'[i.key], i.key) /\ res'[i.key].spec.ssl
<1>1. i \in AllItems /\ i.key \in w[k].keys /\ w[k].seen \subseteq ResourceType
  BY DEF Stored, TypeInv, TypeOK, WorkerType
<1>2. CASE res'[i.key] = NewResource(i)
  BY <1>1, <1>2, NewResourceOK
<1>3. CASE i.key \in DOMAIN res /\ \E r \in w[k].seen : res'[i.key] = Merged(res[i.key], r, i)
  <2>1. PICK r \in w[k].seen : res'[i.key] = Merged(res[i.key], r, i)
    BY <1>3
  <2>2. r \in ResourceType /\ res[i.key] \in ResourceType
    BY <1>1, <1>3 DEF TypeInv, TypeOK
  <2>3. r.lab.kind # None => res[i.key].lab.kind # None
    BY <1>1, <1>3 DEF Stored, TypeInv, SeenInv, SeenKept
  <2>4. Labelled(res[i.key], i.key) /\ Labelled(r, i.key)
    BY <1>1, <1>3 DEF Stored, LabelInv
  <2>5. Labelled(Merged(res[i.key], r, i), i.key)
    BY <1>1, <2>2, <2>3, <2>4, MergedLabelled
  <2>6. res[i.key].spec.ssl
    BY <1>3 DEF SslInv
  <2>7. Merged(res[i.key], r, i).spec = MergedSpec(res[i.key], r, i)
    BY <1>1, <2>2, MergedFields
  <2>8. MergedSpec(res[i.key], r, i).ssl
    BY <2>6 DEF MergedSpec
  <2> QED BY <2>1, <2>5, <2>7, <2>8
<1> QED BY <1>2, <1>3 DEF Stored

\* Every handler keeps the labels and the default.
LEMMA LabelStep ==
  ASSUME TypeInv, LabelInv, SslInv, [Next]_vars
  PROVE  LabelInv' /\ SslInv'
<1>1. ASSUME NEW x \in DOMAIN res'
      PROVE  Labelled(res'[x], x) /\ res'[x].spec.ssl
  <2>1. CASE Kept(x)
    BY <2>1, KeptOK DEF LabelInv, SslInv, Labelled
  <2>2. ASSUME NEW k \in Worker, NEW i \in w[k].todo, i.key = x, Stored(k, i)
        PROVE  Labelled(res'[x], x) /\ res'[x].spec.ssl
    BY <2>2, StoredLabelled
  <2> QED BY <2>1, <2>2, ResFrame
<1>2. ASSUME NEW k \in Worker
      PROVE  /\ w'[k].pc = "write" => \A r \in w'[k].seen :
                   r.spec.ssl /\ \A x \in w'[k].keys : Labelled(r, x)
             /\ w'[k].pc = "delete" => \E s \in w'[k].src : \A x \in w'[k].keys :
                                         MayAsk(x, k, s.name)
  <2>1. CASE w'[k] = w[k]
    BY <2>1 DEF LabelInv, SslInv
  <2>2. CASE Moved(k)
    <3>1. CASE Resting(k) \/ Taking(k)
      BY <3>1 DEF Resting, Taking
    <3>2. CASE Reading(k)
      <4>1. PICK i \in w[k].todo : w'[k].seen = At(i.key) /\ w'[k].keys = {i.key}
        BY <3>2 DEF Reading
      <4>2. \A r \in At(i.key) : Labelled(r, i.key) /\ r.spec.ssl
        BY DEF At, LabelInv, SslInv
      <4> QED BY <3>2, <4>1, <4>2 DEF Reading
    <3>3. CASE Listing(k)
      <4>1. PICK s \in w[k].src : w'[k].keys = Owned(k, s)
        BY <3>3 DEF Listing
      <4>2. \A x \in Owned(k, s) : Labelled(res[x], x) /\ res[x].lab.kind = k
                                   /\ res[x].lab.name = s.name
        BY DEF Owned, LabelInv
      <4>3. k # None
        BY <3>3 DEF Listing, Kind, None
      <4> QED BY <3>3, <4>1, <4>2, <4>3 DEF Listing, Labelled
    <3>4. CASE Deleting(k)
      BY <3>4 DEF Deleting, LabelInv
    <3> QED BY <2>2, <3>1, <3>2, <3>3, <3>4 DEF Moved
  <2>3. CASE w' = [j \in Worker |-> Idle]
    BY <2>3, IdleOK
  <2>4. ASSUME NEW j \in Worker, Moved(j), j # k PROVE w'[k] = w[k]
    BY <2>4 DEF Moved, TypeInv, TypeOK
  <2> QED BY <2>1, <2>2, <2>3, <2>4, WorkersFrame
<1>3. /\ \A k \in Worker : w'[k].pc = "write" =>
             \A x \in w'[k].keys : \A r \in w'[k].seen : Labelled(r, x)
      /\ \A k \in Worker : w'[k].pc = "delete" =>
             \E s \in w'[k].src : \A x \in w'[k].keys : MayAsk(x, k, s.name)
  BY <1>2
<1>4. LabelInv'
  BY <1>1, <1>3 DEF LabelInv, Labelled, MayAsk
<1>5. SslInv'
  BY <1>1, <1>2 DEF SslInv
<1> QED BY <1>4, <1>5

-----------------------------------------------------------------------------
(* What workers read stays true while no source and no site changes under them. *)

\* While nothing that was read changes, a step leaves the sites as they are, and the
\* sources too, but for one that no worker is at.
LEMMA QuietStep ==
  ASSUME TypeInv, [Next]_vars, Undisturbed'
  PROVE  /\ Undisturbed /\ UNCHANGED cfg
         /\ \/ UNCHANGED src
            \/ /\ UNCHANGED <<res, w>>
               /\ \E s \in Source : ~Held(s) /\ \A r \in Source : r # s =>
                    /\ r \in DOMAIN src <=> r \in DOMAIN src'
                    /\ r \in DOMAIN src => src'[r] = src[r]
<1>1. faults.seen \subseteq faults'.seen /\ faults \in [n : Nat, seen : SUBSET FaultKind]
  BY FaultsFrame DEF TypeInv, TypeOK
<1>2. Undisturbed
  BY <1>1 DEF Undisturbed, Seen
<1>3. "race" \notin faults'.seen /\ "config" \notin faults'.seen
  BY DEF Undisturbed, Seen
<1>4. ASSUME NEW S, Note(S) PROVE S \subseteq faults'.seen
  BY <1>1, <1>4 DEF Note
<1>5. CASE UNCHANGED <<src, cfg, edits>>
  BY <1>2, <1>5
<1>6. ASSUME NEW s \in Source, NEW new, Edit(s, new)
      PROVE  ~Held(s) /\ UNCHANGED <<cfg, res, w>>
  <2>1. Note((IF Held(s) THEN {"race"} ELSE {})
             \cup (IF \E c \in (IF s \in DOMAIN src THEN {src[s]} ELSE {}) \cup new : Visible(s, c)
                   THEN {} ELSE {"hidden"}))
    BY <1>6 DEF Edit
  <2>2. (IF Held(s) THEN {"race"} ELSE {}) \subseteq faults'.seen
    BY <2>1, <1>4
  <2>3. ~Held(s)
    BY <2>2, <1>3
  <2> QED BY <1>6, <2>3 DEF Edit
<1>7. CASE \E s \in Source : \E c \in Contents[s] : Edit(s, {c})
  <2>1. PICK s \in Source : \E c \in Contents[s] : Edit(s, {c})
    BY <1>7
  <2>2. PICK c \in Contents[s] : Edit(s, {c})
    BY <2>1
  <2>3. src' = With(src, s, CHOOSE d \in {c} : TRUE)
    BY <2>2 DEF Edit
  <2>4. /\ DOMAIN src' = DOMAIN src \cup {s}
        /\ \A r \in DOMAIN src : r # s => src'[r] = src[r]
    BY <2>3 DEF With
  <2>5. \A r \in Source : r # s => (r \in DOMAIN src <=> r \in DOMAIN src')
    BY <2>4
  <2> QED BY <1>2, <1>6, <2>2, <2>4, <2>5
<1>8. CASE \E s \in DOMAIN src : Edit(s, {})
  <2>1. PICK s \in DOMAIN src : Edit(s, {})
    BY <1>8
  <2>2. src' = Without(src, s) /\ s \in Source
    BY <2>1 DEF Edit, TypeInv, TypeOK
  <2>3. DOMAIN src' = DOMAIN src \ {s} /\ \A r \in DOMAIN src' : src'[r] = src[r]
    BY <2>2 DEF Without
  <2> QED BY <1>2, <1>6, <2>1, <2>2, <2>3
<1>9. ASSUME NEW t, NEW f, SiteDelete(t) \/ SiteEdit(t, f) PROVE FALSE
  <2>1. Note({"config"})
    BY <1>9 DEF SiteDelete, SiteEdit
  <2> QED BY <2>1, <1>3, <1>4
<1> QED BY <1>5, <1>7, <1>8, <1>9, EnvironmentFrame

\* An item is wanted when its source exists, is not opted out, and is discovered.
WantedOf(i, s, t) ==
  /\ s \in DOMAIN src /\ t \in DOMAIN cfg /\ ~IsOptOut(src[s])
  /\ Discovers(s, src[s], t, cfg[t]) /\ i \in Items(s, src[s], t, cfg[t])

WantedMembers ==
  \A i : i \in Wanted <=> \E s \in DOMAIN src, t \in DOMAIN cfg : WantedOf(i, s, t)
WantedItems ==
  \A i, s, t : WantedOf(i, s, t) => s \in Source /\ t \in Site /\ i \in AllItems /\ i.src = s

LEMMA WantedMember == WantedMembers
<1> SUFFICES ASSUME NEW i
             PROVE  i \in Wanted <=> \E s \in DOMAIN src, t \in DOMAIN cfg : WantedOf(i, s, t)
  BY DEF WantedMembers
<1> DEFINE some(t) == {s \in DOMAIN src : ~IsOptOut(src[s]) /\ Discovers(s, src[s], t, cfg[t])}
           of(t) == UNION {Items(s, src[s], t, cfg[t]) : s \in some(t)}
<1>1. Wanted = UNION {of(t) : t \in DOMAIN cfg}
  BY DEF Wanted
<1>2. ASSUME NEW t \in DOMAIN cfg
      PROVE  i \in of(t) <=> \E s \in DOMAIN src : WantedOf(i, s, t)
  BY DEF WantedOf
<1> HIDE DEF of
<1>3. i \in Wanted <=> \E t \in DOMAIN cfg : i \in of(t)
  BY <1>1
<1> QED BY <1>2, <1>3

\* A wanted item is one of its source's.
LEMMA WantedItem == TypeInv => WantedItems
<1> SUFFICES ASSUME TypeInv, NEW i, NEW s, NEW t, WantedOf(i, s, t)
             PROVE  s \in Source /\ t \in Site /\ i \in AllItems /\ i.src = s
  BY DEF WantedItems
<1>1. s \in Source /\ src[s] \in Contents[s] /\ t \in Site /\ cfg[t] \in Configs[t]
  BY DEF WantedOf, TypeInv, TypeOK
<1>2. i \in Items(s, src[s], t, cfg[t])
  BY DEF WantedOf
<1> QED BY <1>1, <1>2, ItemsIn, ItemsOK DEF ItemOK

\* The items that share the key of one that a worker has to ensure are wanted as before.
LEMMA WantedKept ==
  ASSUME TypeInv, [Next]_vars, Undisturbed', NEW k \in Worker, NEW i \in w[k].todo, NEW j,
         j.key = i.key
  PROVE  j \in Wanted <=> j \in Wanted'
<1>1. UNCHANGED cfg
  BY QuietStep
<1>2. CASE UNCHANGED src
  BY <1>1, <1>2 DEF Wanted, IsOptOut, Discovers
<1>3. CASE \E s \in Source : ~Held(s) /\ \A r \in Source : r # s =>
                    /\ r \in DOMAIN src <=> r \in DOMAIN src'
                    /\ r \in DOMAIN src => src'[r] = src[r]
  <2>1. PICK s \in Source : ~Held(s) /\ \A r \in Source : r # s =>
                    /\ r \in DOMAIN src <=> r \in DOMAIN src'
                    /\ r \in DOMAIN src => src'[r] = src[r]
    BY <1>3
  <2>2. ~(j \in AllItems /\ j.src = s)
    BY <2>1 DEF Held
  <2>3. ASSUME NEW r, NEW t, WantedOf(j, r, t)
        PROVE  j \in Wanted'
    <3>1. r \in Source /\ r # s
      BY <2>2, <2>3, WantedItem DEF WantedItems
    <3>2. r \in DOMAIN src' /\ t \in DOMAIN cfg' /\ WantedOf(j, r, t)'
      BY <1>1, <2>1, <2>3, <3>1 DEF WantedOf
    <3>3. WantedMembers'
      BY WantedMember, PTL
    <3> QED BY <3>2, <3>3 DEF WantedMembers
  <2>4. ASSUME NEW r, NEW t, WantedOf(j, r, t)'
        PROVE  j \in Wanted
    <3>1. TypeInv'
      BY TypeStep
    <3>2. (TypeInv => WantedItems)'
      BY WantedItem, PTL
    <3>3. r \in Source /\ r # s
      BY <2>2, <2>4, <3>1, <3>2 DEF WantedItems
    <3>4. r \in DOMAIN src /\ t \in DOMAIN cfg /\ WantedOf(j, r, t)
      BY <1>1, <2>1, <2>4, <3>3 DEF WantedOf
    <3> QED BY <3>4, WantedMember DEF WantedMembers
  <2>5. WantedMembers /\ WantedMembers'
    BY WantedMember, PTL
  <2> QED BY <2>3, <2>4, <2>5 DEF WantedMembers
<1> QED BY <1>2, <1>3, QuietStep

\* What the site and the sources ask for is wanted, as read by an event's worker or by
\* the scan.
LEMMA TakenWanted ==
  ASSUME TypeInv, ReadInv, NEW k \in Worker, Taking(k)
  PROVE  w'[k].todo \subseteq Wanted
<1> USE WantedMember DEF WantedMembers, WantedOf
<1>1. CASE \E s \in DOMAIN src : \E t \in resolveSite(s) :
             ~IsOptOut(src[s]) /\ w'[k].todo = Items(s, src[s], t, cfg[t])
  BY <1>1 DEF resolveSite
<1>2. CASE /\ k = Scanner /\ w[k].pc = "list"
           /\ \E n \in Kind : w'[k].todo = Scanned(n, w[k].site, w[k].f)
  <2>1. /\ w[Scanner].site \in DOMAIN cfg /\ w[Scanner].f = cfg[w[Scanner].site]
    BY <1>2 DEF ReadInv, TypeInv, ScannerInv
  <2>2. PICK n \in Kind : w'[k].todo = Scanned(n, w[Scanner].site, cfg[w[Scanner].site])
    BY <1>2, <2>1
  <2>3. ASSUME NEW i \in w'[k].todo
        PROVE  \E s \in DOMAIN src : WantedOf(i, s, w[Scanner].site)
    BY <2>1, <2>2, <2>3 DEF Scanned
  <2> QED BY <2>1, <2>3
<1> QED BY <1>1, <1>2 DEF Taking

\* A write leaves the object as the item asks for, if nothing else asks for it.
LEMMA StoredWritten ==
  ASSUME TypeInv, SslInv, ReadInv, NEW k \in Worker, NEW i, Stored(k, i), Alone(i)
  PROVE  Written(res'[i.key], i)
<1>1. /\ i \in AllItems /\ i.key \in w[k].keys /\ w[k].seen \subseteq ResourceType
      /\ w[k].pc = "write" /\ i \in w[k].todo
  BY DEF Stored, TypeInv, TypeOK, WorkerType
<1>2. CASE res'[i.key] = NewResource(i)
  BY <1>1, <1>2, NewResourceOK
<1>3. CASE i.key \in DOMAIN res /\ \E r \in w[k].seen : res'[i.key] = Merged(res[i.key], r, i)
  <2>1. PICK r \in w[k].seen : res'[i.key] = Merged(res[i.key], r, i)
    BY <1>3
  <2>2. r \in ResourceType /\ res[i.key] \in ResourceType
    BY <1>1, <1>3 DEF TypeInv, TypeOK
  <2>3. r.spec.ssl /\ res[i.key].spec.ssl
    BY <1>1, <1>3 DEF SslInv
  <2>4. Current(i, w[k].seen)
    BY <1>1 DEF ReadInv
  <2>5. \/ res[i.key].lab = r.lab /\ res[i.key].spec = r.spec
        \/ Written(res[i.key], i)
    BY <1>3, <2>4 DEF Current
  <2> QED BY <1>1, <2>1, <2>2, <2>3, <2>5, MergedWritten
<1> QED BY <1>2, <1>3 DEF Stored

\* What a worker read of the object stays current: who writes it meanwhile writes the
\* same item.
LEMMA CurrentKept ==
  ASSUME TypeInv, SslInv, ReadInv, [Next]_vars, Undisturbed',
         NEW k \in Worker, NEW i \in w[k].todo, NEW seen, Current(i, seen)
  PROVE  Current(i, seen)'
<1> SUFFICES ASSUME Alone(i)', i.key \in DOMAIN res', NEW r \in seen
             PROVE  \/ res'[i.key].lab = r.lab /\ res'[i.key].spec = r.spec
                    \/ Written(res'[i.key], i)
  BY DEF Current, Written
<1>1. Alone(i)
  BY WantedKept DEF Alone
<1>2. CASE Kept(i.key)
  BY <1>1, <1>2, KeptOK DEF Current, Written
<1>3. ASSUME NEW j \in Worker, NEW n \in w[j].todo, n.key = i.key, Stored(j, n)
      PROVE  Written(res'[i.key], i)
  <2>1. n = i
    BY <1>1, <1>3 DEF ReadInv, Alone
  <2> QED BY <1>1, <1>3, <2>1, StoredWritten
<1> QED BY <1>2, <1>3, ResFrame

\* Every handler, and every change that no worker is at, keeps that.
LEMMA ReadStep ==
  ASSUME TypeInv, SslInv, ReadInv, [Next]_vars, Undisturbed'
  PROVE  ReadInv'
<1>1. UNCHANGED cfg
  BY QuietStep
<1>2. DOMAIN cfg' = Site /\ (w'[Scanner].pc # "idle" => w'[Scanner].f = cfg'[w'[Scanner].site])
  <2>1. CASE w'[Scanner] = w[Scanner]
    BY <1>1, <2>1 DEF ReadInv
  <2>2. CASE Moved(Scanner)
    BY <1>1, <2>2 DEF Moved, Scanning, ReadInv
  <2>3. CASE w'[Scanner] = Idle
    BY <1>1, <2>3, IdleOK DEF ReadInv
  <2>4. Scanner \in Worker
    BY DEF Worker
  <2>5. ASSUME NEW j \in Worker, Moved(j), j # Scanner PROVE w'[Scanner] = w[Scanner]
    BY <2>4, <2>5 DEF Moved, TypeInv, TypeOK
  <2> QED BY <2>1, <2>2, <2>3, <2>4, <2>5, WorkersFrame
<1>3. ASSUME NEW k \in Worker
      PROVE  /\ w'[k].todo \subseteq Wanted'
             /\ w'[k].pc = "write" =>
                  \A i \in w'[k].todo : i.key \in w'[k].keys => Current(i, w[k].seen)'
  <2>1. w[k].todo \subseteq Wanted /\ \A i \in w[k].todo : i \in Wanted'
    BY WantedKept DEF ReadInv
  <2>2. CASE w'[k] = w[k]
    <3>1. ASSUME w[k].pc = "write", NEW i \in w[k].todo, i.key \in w[k].keys
          PROVE  Current(i, w[k].seen)
      BY <3>1 DEF ReadInv
    <3>2. ASSUME w[k].pc = "write", NEW i \in w[k].todo, i.key \in w[k].keys
          PROVE  Current(i, w[k].seen)'
      <4>1. PICK seen : seen = w[k].seen
        OBVIOUS
      <4>2. Current(i, seen)
        BY <3>1, <3>2, <4>1
      <4>3. Current(i, seen)'
        BY <3>2, <4>2, CurrentKept
      <4> QED BY <2>2, <4>1, <4>3 DEF Current
    <3> QED BY <2>1, <2>2, <3>2
  <2>3. CASE Resting(k)
    BY <2>1, <2>3 DEF Resting
  <2>4. CASE Taking(k)
    <3>1. Wanted' = Wanted
      BY <2>4 DEF Taking, Wanted, IsOptOut, Discovers
    <3> QED BY <2>4, <3>1, TakenWanted DEF Taking
  <2>5. CASE Listing(k) \/ Deleting(k)
    BY <2>1, <2>5 DEF Listing, Deleting
  <2>6. CASE Reading(k)
    <3>1. ASSUME NEW i \in w'[k].todo, i.key \in w'[k].keys PROVE Current(i, w[k].seen)'
      <4>1. w'[k].seen = At(i.key) /\ res' = res
        BY <2>6, <3>1 DEF Reading
      <4> QED BY <4>1 DEF At, Current
    <3> QED BY <2>1, <2>6, <3>1 DEF Reading
  <2>7. CASE w' = [j \in Worker |-> Idle]
    BY <2>7, IdleOK
  <2>8. ASSUME NEW j \in Worker, Moved(j), j # k PROVE w'[k] = w[k]
    BY <2>8 DEF Moved, TypeInv, TypeOK
  <2> QED BY <2>2, <2>3, <2>4, <2>5, <2>6, <2>7, <2>8, WorkersFrame DEF Moved
<1> QED BY <1>2, <1>3 DEF ReadInv

-----------------------------------------------------------------------------
(* The theorems. *)

\* The invariants hold when the operator starts.
LEMMA IInvInit ==
  ASSUME Init
  PROVE  IInv
<1>1. \A k \in Worker : w[k] = Idle
  BY DEF Init
<1>2. \A x \in DOMAIN res : res[x] = Manual
  BY DEF Init
<1>3. Manual.lab.kind = None /\ Manual.lab.name = None /\ Manual.spec.ssl
  BY DEF Manual
<1>4. LabelInv /\ SslInv
  BY <1>1, <1>2, <1>3, IdleOK DEF LabelInv, SslInv, Labelled
<1>5. ReadInv
  <2>1. DOMAIN cfg = Site
    BY DEF Init
  <2>2. Scanner \in Worker
    BY DEF Worker
  <2> QED BY <1>1, <2>1, <2>2, IdleOK DEF ReadInv
<1> QED BY <1>4, <1>5, TypeInit DEF IInv

\* Every step keeps them.
LEMMA IInvStep ==
  ASSUME IInv, [Next]_vars
  PROVE  IInv'
<1>1. TypeInv' /\ LabelInv' /\ SslInv'
  BY TypeStep, LabelStep DEF IInv
<1>2. Undisturbed' => ReadInv'
  BY QuietStep, ReadStep DEF IInv
<1> QED BY <1>1, <1>2 DEF IInv

\* A PublicResource is only written for a source that asks for it, with what it asks
\* for, by any number of workers, whatever they read before and whatever users made by
\* hand, in ensureOwnedPublicResource: a merge patch that no resourceVersion guards
\* cannot mix two versions while no source that the workers are at changes.
THEOREM WrittenAsWanted == Spec => OnlyWanted
<1>1. ASSUME IInv, [Next]_vars, ~Seen({"race", "config"})', NEW x \in DOMAIN res',
             x \notin DOMAIN res \/ <<res[x].lab, res[x].spec>> # <<res'[x].lab, res'[x].spec>>
      PROVE  \E i \in Wanted : i.key = x /\ (Written(res'[x], i) \/ ~Alone(i))
  <2>1. TypeInv /\ SslInv /\ ReadInv
    <3>1. TypeInv /\ SslInv /\ (Undisturbed => ReadInv)
      BY <1>1 DEF IInv
    <3> QED BY <1>1, <3>1, QuietStep DEF Undisturbed
  <2>2. ~Kept(x)
    BY <1>1, <2>1, KeptOK
  <2>3. PICK k \in Worker : \E i \in w[k].todo : i.key = x /\ Stored(k, i)
    BY <1>1, <2>2, ResFrame
  <2> PICK i \in w[k].todo : i.key = x /\ Stored(k, i)
    BY <2>3
  <2>4. i \in Wanted
    BY <2>1, <2>3 DEF ReadInv, Stored
  <2> QED BY <2>1, <2>3, <2>4, StoredWritten
<1>2. IInv /\ [Next]_vars =>
        [~Seen({"race", "config"})' =>
           \A x \in DOMAIN res' :
             x \notin DOMAIN res \/ <<res[x].lab, res[x].spec>> # <<res'[x].lab, res'[x].spec>>
             => \E i \in Wanted : i.key = x /\ (Written(res'[x], i) \/ ~Alone(i))]_vars
  BY <1>1
<1>3. Init => IInv
  BY IInvInit
<1>4. IInv /\ [Next]_vars => IInv'
  BY IInvStep
<1> QED BY <1>2, <1>3, <1>4, PTL DEF Spec, OnlyWanted

\* What a source wants stays while nobody deletes it: no worker overwrites it, the
\* garbage collector leaves it, and deleteOwnedResources is not at its labels.
LEMMA SteadyStep ==
  ASSUME IInv, [Next]_vars, ~Seen({"race", "config"}), NEW i \in Wanted,
         Alone(i), Present(i), ~NamesakeRemoved(i)
  PROVE  Present(i)'
<1>1. TypeInv /\ LabelInv /\ SslInv /\ ReadInv
  BY DEF IInv, Undisturbed
<1> DEFINE x == i.key
<1>2. x \in DOMAIN res /\ ~res[x].del /\ Written(res[x], i)
  BY DEF Present
<1>3. UNCHANGED res => Present(i)'
  BY <1>2 DEF Present, Written
<1>4. \A y : y # x /\ Delete(y) => Present(i)'
  BY <1>2 DEF Delete, Present, Written, Without
<1>5. ASSUME NEW k \in Kind, deleteOwnedResources(k)
      PROVE  Present(i)'
  <2>1. PICK s \in w[k].src : \A y \in w[k].keys : MayAsk(y, k, s.name)
    BY <1>1, <1>5 DEF LabelInv, deleteOwnedResources, Worker
  <2>2. x \notin w[k].keys
    <3>1. w[k].pc = "delete"
      BY <1>5 DEF deleteOwnedResources
    <3> QED BY <2>1, <3>1 DEF NamesakeRemoved, MayAsk
  <2>3. UNCHANGED res \/ \E y \in w[k].keys : Delete(y)
    BY <1>5 DEF deleteOwnedResources
  <2> QED BY <1>3, <1>4, <2>2, <2>3
<1>6. ASSUME NEW k \in Worker, ensureOwnedPublicResource(k)
      PROVE  Present(i)'
  <2>1. PICK n \in w[k].todo : /\ n.key \in w[k].keys /\ w[k].pc = "write"
                               /\ Write(n, w[k].seen) \/ UNCHANGED res
    BY <1>6 DEF ensureOwnedPublicResource
  <2>2. CASE UNCHANGED res
    BY <1>3, <2>2
  <2>3. CASE Write(n, w[k].seen) /\ n.key # x
    BY <1>2, <2>3 DEF Write, With, Present, Written
  <2>4. CASE Write(n, w[k].seen) /\ n.key = x
    <3>1. n = i
      BY <1>1, <2>4 DEF ReadInv, Alone
    <3>2. PICK r \in w[k].seen : res' = [res EXCEPT ![x] = Merged(res[x], r, i)]
      BY <1>2, <2>4, <3>1 DEF Write
    <3>3. res'[x] = Merged(res[x], r, i) /\ x \in DOMAIN res'
      BY <1>2, <3>2
    <3>4. Stored(k, i)
      BY <1>2, <2>1, <3>1, <3>3 DEF Stored
    <3>5. Written(res'[x], i)
      BY <1>1, <3>4, StoredWritten
    <3>6. r \in ResourceType /\ res[x] \in ResourceType /\ i \in AllItems
      BY <1>1, <1>2, <2>1, <3>1 DEF TypeInv, TypeOK, WorkerType
    <3>7. res'[x].del = res[x].del
      <4>1. Merged(res[x], r, i).del = res[x].del
        BY <3>6, MergedFields
      <4> QED BY <3>3, <4>1
    <3> QED BY <1>2, <3>3, <3>5, <3>7 DEF Present, Written
  <2> QED BY <2>1, <2>2, <2>3, <2>4
<1>7. ASSUME NEW y, Collect(y), y \in DOMAIN res PROVE FALSE
  <2>1. res[y].owner \in DOMAIN cfg \cup {NoSite}
    BY <1>1, <1>7 DEF ReadInv, TypeInv, TypeOK, ResourceType
  <2> QED BY <1>7, <2>1 DEF Collect
<1>8. ASSUME NEW y, Finalized(y)
      PROVE  Present(i)'
  <2>1. y # x /\ res' = Without(res, y)
    BY <1>2, <1>8 DEF Finalized
  <2> QED BY <1>2, <2>1 DEF Without, Present, Written
<1>9. ASSUME NEW s, Reconcile(s) PROVE UNCHANGED res
  BY <1>9 DEF Reconcile
<1>10. ASSUME NEW k, ListOwned(k) \/ EventDone(k) \/ GetExisting(k) PROVE UNCHANGED res
  BY <1>10 DEF ListOwned, EventDone, GetExisting
<1>11. ASSUME ScanKind \/ KindDone \/ \E t \in DOMAIN cfg : StartScan(t) PROVE UNCHANGED res
  BY <1>11 DEF ScanKind, KindDone, StartScan
<1>12. ASSUME NEW s, NEW new, Edit(s, new) PROVE UNCHANGED res
  BY <1>12 DEF Edit
<1>13. ASSUME NEW t, NEW f, SiteDelete(t) \/ SiteEdit(t, f) PROVE UNCHANGED res
  BY <1>13 DEF SiteDelete, SiteEdit
<1>14. ASSUME Crash PROVE UNCHANGED res
  BY <1>14 DEF Crash
<1>15. CASE UNCHANGED vars
  BY <1>3, <1>15 DEF vars
<1> HIDE DEF x
<1> QED BY <1>3, <1>5, <1>6, <1>7, <1>8, <1>9, <1>10, <1>11, <1>12, <1>13, <1>14, <1>15,
           StepCases

\* A PublicResource that is as its source wants it stays so through the workers'
\* steps for other sources, through failures and restarts: neither an unguarded patch,
\* nor deleteOwnedResources of other labels, nor the garbage collector touches it.
THEOREM StaysAsWanted == Spec => Steady
<1>1. IInv /\ [Next]_vars =>
        [~Seen({"race", "config"}) =>
           \A i \in Wanted : i \in Wanted' /\ Alone(i) /\ Present(i) /\ ~NamesakeRemoved(i)
                             => Present(i)']_vars
  BY SteadyStep
<1>2. Init => IInv
  BY IInvInit
<1>3. IInv /\ [Next]_vars => IInv'
  BY IInvStep
<1> QED BY <1>1, <1>2, <1>3, PTL DEF Spec, Steady
=============================================================================
