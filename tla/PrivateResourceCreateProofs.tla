--------------------- MODULE PrivateResourceCreateProofs ---------------------
(***************************************************************************)
(* What PrivateResource creates in Pangolin is created once and stays      *)
(* linked: proofs for every value of the constants.                        *)
(***************************************************************************)
EXTENDS PrivateResourceProofs

-----------------------------------------------------------------------------
(* What a site resource is found by. *)

\* Nothing changed that adoption matches on, the name left aside, and ResolveDomain
\* damages no full domain.
Still == ~Seen({"move", "resite", "trim"})

\* Two versions of an object ask for the same site resource.
Alike(a, b) ==
  /\ a.spec.name = b.spec.name
  /\ Still => /\ a.spec.http = b.spec.http /\ a.spec.dest = b.spec.dest
              /\ a.spec.dom = b.spec.dom /\ a.spec.site = b.spec.site

\* r is in mode and place what the spec s asks for.
Asked(s, r) ==
  /\ r.http = s.http
  /\ IF s.http THEN r.dom = s.dom ELSE r.dest = s.dest /\ r.sid = SiteId[s.site]

\* The site resource that an identifier stands for is the one that s asks for.
Stands(id, s) ==
  \A r \in resources : r.id = id => r.name = s.name /\ (Still => Asked(s, r))

IdsUnique == \A r1, r2 \in resources : r1.id = r2.id => r1 = r2

\* Generations only grow, also from one object of a name to the next.
GenInv == \A c \in CR : cache[c].gen <= cr[c].gen

SitesInv == ~Seen({"resite"}) => \A s \in Site : siteId[s] \in {0, SiteId[s]}

NoneLate == ~Seen({"late"}) => late = {}

WholeInv ==
  ~Seen({"trim"}) => \A c \in CR : cr[c].exists => ~Damaged(cr[c].spec)

\* The versions of an object in the cache, at the API server and in memory ask for
\* the same site resource, for none of them can be of an earlier object of that name
\* as long as the finalizer is seen; and the worker goes on with the siteId of the
\* site they name.
UseInv ==
  /\ \A c \in CR : /\ Held(cache[c]) => Alike(cache[c], cr[c])
                   /\ Stands(cr[c].st.rid, cr[c].spec)
                   /\ Stands(cache[c].st.rid, cache[c].spec)
  /\ w.pc = "finalize" =>
       w.rid = 0 /\ mem.gen <= cr[c0].gen /\ (cr[c0] = mem => Alike(cache[c0], mem))
  /\ w.pc \in Working =>
       /\ Alike(mem, cr[c0]) /\ Alike(cache[c0], cr[c0])
       /\ Stands(mem.st.rid, cr[c0].spec) /\ Stands(w.rid, cr[c0].spec)
       /\ w.pc \in Sited /\ Still => w.sid = SiteId[cr[c0].spec.site]

\* On the way to createSiteResource there is no site resource that the object asks
\* for.
VacantInv ==
  w.pc \in {"creating", "create"} /\ (mem.spec.http => mem.spec.dom # NoDom) =>
    \A r \in resources : ~(r.name = mem.spec.name /\ Asked(mem.spec, r))

NameInv ==
  /\ LinkInv /\ IdsUnique /\ GenInv /\ SitesInv /\ NoneLate /\ WholeInv
  /\ ~Seen({"rename"}) => UseInv
  /\ ~Seen({"rename", "move", "resite", "late", "trim"}) => VacantInv
  /\ NoDuplicate

-----------------------------------------------------------------------------
(* What every step does to the faults that were seen, to the sites and to the *)
(* resources. *)

FaultsGrow == faults.seen \subseteq faults'.seen

LEMMA FaultsGrowNext == ASSUME TypeOK, [Next]_vars PROVE FaultsGrow
  <1>1. \A k : Fault(k) => FaultsGrow
    BY DEF Fault, FaultsGrow
  <1>2. \A S : Note(S) => FaultsGrow
    BY DEF Note, FaultsGrow, TypeOK
  <1>3. UNCHANGED faults => FaultsGrow
    BY DEF FaultsGrow
  <1>4. \A c : Get(c) => FaultsGrow
    BY <1>1, <1>3 DEF Get
  <1>5. \A st, ok, ko : patchStatus(st, ok, ko) => FaultsGrow
    BY <1>1, <1>3 DEF patchStatus
  <1>6. \A st : patchAndReturn(st) => FaultsGrow
    BY <1>1, <1>3 DEF patchAndReturn
  <1>7. Refused => FaultsGrow
    BY <1>1 DEF Refused
  <1>8. CASE WorkerStep
    <2>1. CASE AddFinalizer \/ ResolveSite \/ ensureExists \/ Refetch \/ Cleanup
               \/ RemoveFinalizer
      BY <1>1, <1>3, <1>4, <1>7, <2>1 DEF AddFinalizer, ResolveSite, ensureExists, Refetch,
         Cleanup, RemoveFinalizer
    <2>2. CASE Adopt \/ MarkCreating \/ RecordResource
      <3>1. \E st, ok, ko : patchStatus(st, ok, ko)
        BY <2>2, Zenon DEF Adopt, MarkCreating, RecordResource
      <3> QED BY <1>5, <3>1
    <2>3. CASE MarkReady \/ ReportFailure
      BY <1>6, <2>3 DEF MarkReady, ReportFailure
    <2>4. CASE createSiteResource \/ Rollback \/ updateSiteResource
      BY <1>1, <1>3, <1>7, <2>4 DEF createSiteResource, Rollback, updateSiteResource
    <2> QED BY <1>8, <2>1, <2>2, <2>3, <2>4 DEF WorkerStep
  <1>9. CASE Environment
    <2>1. ASSUME NEW c \in CR, NEW s \in Specs[c], UserCreate(c, s) \/ UserEdit(c, s)
          PROVE  FaultsGrow
      BY <1>2, <1>3, <2>1 DEF UserCreate, UserEdit
    <2> QED BY <1>1, <1>3, <1>9, <2>1
            DEF Environment, UserDelete, Drift, SiteReady, SiteLost, SiteReplaced, Crash
  <1>10. CASE (\E c \in CR : CacheSync(c) \/ Reconcile(c)) \/ (\E r \in late : Land(r))
              \/ UNCHANGED vars
    BY <1>3, <1>4, <1>10 DEF CacheSync, Reconcile, Land, vars
  <1> QED BY <1>8, <1>9, <1>10 DEF Next

\* A NewtSite has the siteId it got first, as long as it is not created anew.
LEMMA SitesInvNext == ASSUME TypeOK, SitesInv, [Next]_vars PROVE SitesInv'
  <1> SUFFICES ASSUME ~Seen({"resite"})', NEW s \in Site
               PROVE  siteId'[s] \in {0, SiteId[s]}
    BY DEF SitesInv
  <1>1. \A t \in Site : siteId[t] \in {0, SiteId[t]}
    BY FaultsGrowNext DEF FaultsGrow, Seen, SitesInv
  <1>2. siteId \in [Site -> Nat] /\ ~Fault("resite")
    BY DEF TypeOK, Fault, Seen
  <1>3. CASE UNCHANGED siteId
    BY <1>1, <1>3
  <1>4. ASSUME NEW t \in Site, SiteReady(t) \/ SiteLost(t)
        PROVE  siteId'[s] \in {0, SiteId[s]}
    BY <1>1, <1>2, <1>4 DEF SiteReady, SiteLost
  <1>5. CASE WorkerStep
    BY <1>3, <1>5 DEF WorkerStep, AddFinalizer, ResolveSite, ensureExists, Adopt,
       MarkCreating, createSiteResource, RecordResource, Rollback, Refetch,
       updateSiteResource, MarkReady, ReportFailure, Cleanup, RemoveFinalizer
  <1>6. CASE Environment
    BY <1>2, <1>3, <1>4, <1>6
       DEF Environment, UserDelete, UserCreate, UserEdit, Drift, SiteReplaced, Crash
  <1>7. CASE (\E c \in CR : CacheSync(c) \/ Reconcile(c)) \/ (\E r \in late : Land(r))
             \/ UNCHANGED vars
    BY <1>3, <1>7 DEF CacheSync, Reconcile, Land, vars
  <1> QED BY <1>5, <1>6, <1>7 DEF Next

LEMMA NoneLateNext == ASSUME TypeOK, NoneLate, [Next]_vars PROVE NoneLate'
  <1> SUFFICES ASSUME ~Seen({"late"})' PROVE late' = {}
    BY DEF NoneLate
  <1>1. late = {}
    BY FaultsGrowNext DEF FaultsGrow, Seen, NoneLate
  <1>2. ~Fault("late")
    BY DEF TypeOK, Fault, Seen
  <1> QED BY <1>1, <1>2, PangolinStep DEF Shrinks, ResourceCreated, LateAsked

\* The Update that adds the finalizer changes nothing that a site resource is found
\* by.
LEMMA FinalizerKeeps ==
  ASSUME mem \in ObjectType
  PROVE  /\ WithFinalizer.st = mem.st
         /\ WithFinalizer.gen \in Nat /\ mem.gen <= WithFinalizer.gen
         /\ WithFinalizer.spec.name = mem.spec.name
         /\ WithFinalizer.spec.http = mem.spec.http
         /\ WithFinalizer.spec.dest = mem.spec.dest
         /\ WithFinalizer.spec.dom = mem.spec.dom
         /\ WithFinalizer.spec.site = mem.spec.site
  <1> DEFINE sp == [mem.spec EXCEPT !.ports = Kept("*", "", @)]
             g == IF mem.spec.ports = "" THEN mem.gen + 1 ELSE mem.gen
  <1>1. mem.spec \in SpecType /\ mem.gen \in Nat
    BY DEF ObjectType
  <1>2. WithFinalizer = [mem EXCEPT !.fin = TRUE, !.spec = sp, !.gen = g]
    BY <1>1 DEF WithFinalizer, ObjectType, SpecType
  <1>3. /\ sp.name = mem.spec.name /\ sp.http = mem.spec.http /\ sp.dest = mem.spec.dest
        /\ sp.dom = mem.spec.dom /\ sp.site = mem.spec.site
    BY <1>1 DEF SpecType
  <1>4. g \in {mem.gen, mem.gen + 1}
    OBVIOUS
  <1> HIDE DEF sp, g
  <1>5. WithFinalizer.st = mem.st /\ WithFinalizer.gen = g /\ WithFinalizer.spec = sp
    BY <1>2 DEF ObjectType
  <1> QED BY <1>1, <1>3, <1>4, <1>5

\* No object asks for a full domain that ResolveDomain damages, unless a user said so.
LEMMA WholeInvNext == ASSUME LinkInv, WholeInv, [Next]_vars PROVE WholeInv'
  <1> SUFFICES ASSUME ~Seen({"trim"})', NEW c \in CR, cr'[c].exists
               PROVE  ~Damaged(cr'[c].spec)
    BY DEF WholeInv, Damaged
  <1>1. /\ TypeOK /\ c0 \in CR /\ mem \in ObjectType /\ cr[c] \in ObjectType
        /\ cr \in [CR -> ObjectType]
        /\ \A n : ~Gone(n).exists
    BY DEF LinkInv, TypeOK, WorkerType, c0, mem, Gone
  <1>2. cr[c].exists => ~Damaged(cr[c].spec)
    BY <1>1, FaultsGrowNext DEF FaultsGrow, Seen, WholeInv
  <1>3. CASE UNCHANGED cr
    BY <1>2, <1>3
  <1>4. CASE AddFinalizer \/ RemoveFinalizer
    <2>1. CASE cr[c0] = mem /\ cr' = [cr EXCEPT ![c0] = WithFinalizer]
      <3>1. WithFinalizer.spec.dom = mem.spec.dom /\ WithFinalizer.exists = mem.exists
        BY <1>1, FinalizerKeeps DEF WithFinalizer, ObjectType
      <3> QED BY <1>1, <1>2, <2>1, <3>1 DEF Damaged
    <2>2. CASE cr' = [cr EXCEPT ![c0] = Gone(mem.gen)]
      BY <1>1, <1>2, <2>2
    <2> QED BY <1>3, <1>4, <2>1, <2>2 DEF AddFinalizer, RemoveFinalizer, Unmodified
  <1>5. CASE WorkerStep /\ ~AddFinalizer /\ ~RemoveFinalizer /\ ~Cleanup
             /\ ~createSiteResource
    <2>1. StatusOnly
      BY <1>1, <1>5, OngoingStep
    <2> QED BY <1>2, <2>1 DEF StatusOnly
  <1>6. ASSUME NEW d \in CR, NEW s \in Specs[d], UserCreate(d, s) PROVE ~Damaged(cr'[c].spec)
    <2>1. NewObject(cr[d].gen + 1, s).spec = s
      BY DEF NewObject
    <2>2. ~Damaged(s)
      BY <1>1, <1>6 DEF UserCreate, Note, Seen, TypeOK
    <2> QED BY <1>1, <1>2, <1>6, <2>1, <2>2 DEF UserCreate
  <1>7. ASSUME NEW d \in CR, NEW s \in Specs[d], UserEdit(d, s) PROVE ~Damaged(cr'[c].spec)
    <2>1. /\ cr'[d].spec = s /\ cr[d].exists
          /\ c # d => cr'[c] = cr[c]
      BY <1>1, <1>7 DEF UserEdit, ObjectType
    <2>2. EditIs("trim", d, s) => "trim" \in faults'.seen
      BY <1>1, <1>7 DEF UserEdit, Note, TypeOK
    <2>3. ~Damaged(s)
      BY <2>2 DEF EditIs, Seen
    <2> QED BY <1>2, <2>1, <2>3
  <1>8. ASSUME NEW d \in CR, UserDelete(d) PROVE ~Damaged(cr'[c].spec)
    <2>1. \/ Deleted(cr[d]).spec = cr[d].spec /\ cr[d].exists
          \/ ~Deleted(cr[d]).exists
      BY <1>1, <1>8 DEF Deleted, UserDelete, ObjectType
    <2> QED BY <1>1, <1>2, <1>8, <2>1 DEF UserDelete
  <1>9. CASE Environment
    BY <1>3, <1>6, <1>7, <1>8, <1>9
       DEF Environment, Drift, SiteReady, SiteLost, SiteReplaced, Crash
  <1>10. CASE createSiteResource \/ Cleanup
    BY <1>3, <1>10 DEF createSiteResource, Cleanup
  <1>11. CASE \/ \E d \in CR : CacheSync(d) \/ Reconcile(d)
              \/ \E r \in late : Land(r)
              \/ UNCHANGED vars
    BY <1>3, <1>11 DEF CacheSync, Reconcile, Land, vars
  <1> QED BY <1>4, <1>5, <1>9, <1>10, <1>11 DEF Next

\* Neither does the version of its object that the worker holds.
LEMMA MemWhole ==
  ASSUME LinkInv, WholeInv, UseInv, Still, w.pc \in Working
  PROVE  ~Damaged(mem.spec)
  <1>1. c0 \in CR /\ cr[c0].exists
    BY DEF LinkInv, TypeOK, WorkerType, WorkerInv, ObjectsInv, c0
  <1>2. ~Damaged(cr[c0].spec)
    BY <1>1 DEF WholeInv, Still, Seen
  <1>3. mem.spec.dom = cr[c0].spec.dom
    BY DEF UseInv, Alike
  <1> QED BY <1>2, <1>3 DEF Damaged

\* r is what became of q: fields may change, but what it is found by only where an
\* edit, or a site, did.
Became(r, q) ==
  /\ r.id = q.id /\ r.by = q.by
  /\ ~Seen({"rename"}) => r.name = q.name
  /\ ~Seen({"rename"}) /\ Still => SameUse(r, q)

Retained ==
  \A r1, r2 \in resources' : \E q1, q2 \in resources :
    Became(r1, q1) /\ Became(r2, q2) /\ (q1 = q2 => r1 = r2)

Created ==
  /\ createSiteResource /\ Resolvable(mem.spec)
  /\ resources' = resources \cup {CreatedResource(nextId)} /\ nextId' = nextId + 1

\* What updateSiteResource makes of the site resource that it finds is found by the
\* same name and the same place.
LEMMA ConfiguredBecame ==
  ASSUME LinkInv, WholeInv, ~Seen({"rename"}) => UseInv, w.pc = "update",
         Resolvable(mem.spec),
         NEW q \in resources, q.id = mem.st.rid
  PROVE  Became(Configured(q), q)
  <1>1. q \in ResourceType /\ mem \in ObjectType /\ w.pc \in Working /\ w.pc \in Sited
    BY DEF LinkInv, TypeOK, WorkerType, Working, Sited, PC, mem
  <1>2. /\ Configured(q).id = q.id /\ Configured(q).by = q.by
        /\ Configured(q).name = mem.spec.name /\ Configured(q).http = mem.spec.http
        /\ Configured(q).dest = mem.spec.dest /\ Configured(q).sid = w.sid
        /\ mem.spec.http => Configured(q).dom = SentDom
    BY <1>1 DEF Configured, ResourceType
  <1>3. ~Seen({"rename"}) /\ Still /\ mem.spec.http => SentDom = mem.spec.dom
    BY <1>1, SentIsAsked, MemWhole
  <1>4. ~Seen({"rename"}) =>
          /\ Alike(mem, cr[c0]) /\ Stands(mem.st.rid, cr[c0].spec)
          /\ Still => w.sid = SiteId[cr[c0].spec.site]
    BY <1>1 DEF UseInv
  <1>5. ~Seen({"rename"}) => q.name = mem.spec.name
    BY <1>4 DEF Alike, Stands
  <1>6. ~Seen({"rename"}) /\ Still => Asked(mem.spec, q) /\ w.sid = SiteId[mem.spec.site]
    BY <1>4 DEF Alike, Stands, Asked
  <1>7. ~Seen({"rename"}) /\ Still => SameUse(Configured(q), q)
    BY <1>2, <1>3, <1>5, <1>6 DEF SameUse, Asked
  <1> QED BY <1>2, <1>5, <1>7 DEF Became

LEMMA RetainedStep ==
  ASSUME LinkInv, WholeInv, ~Seen({"rename"}) => UseInv, [Next]_vars
  PROVE  Retained \/ Created \/ \E r \in late : Land(r)
  <1>0. \A r : Became(r, r)
    BY DEF Became, SameUse
  <1>1. resources' \subseteq resources => Retained
    BY <1>0 DEF Retained
  <1>2. UNCHANGED pangolin => Retained
    BY <1>1 DEF pangolin
  <1>3. \A id : DeleteSiteResource(id) => Retained
    BY <1>1 DEF DeleteSiteResource
  <1>4. CASE WorkerStep
    <2>1. CASE AddFinalizer \/ ResolveSite \/ ensureExists \/ Adopt \/ MarkCreating
               \/ RecordResource \/ Refetch \/ MarkReady \/ ReportFailure
               \/ RemoveFinalizer
      BY <1>2, <2>1 DEF AddFinalizer, ResolveSite, ensureExists, Refused, Adopt,
         MarkCreating, RecordResource, Refetch, MarkReady, ReportFailure, RemoveFinalizer
    <2>2. CASE createSiteResource
      BY <1>1, <1>2, <2>2 DEF createSiteResource, Refused, Created, pangolin
    <2>3. CASE Rollback \/ Cleanup
      BY <1>2, <1>3, <2>3 DEF Rollback, Cleanup
    <2>4. CASE updateSiteResource
      <3>1. CASE UNCHANGED pangolin
        BY <1>2, <3>1
      <3>2. CASE /\ Resolvable(mem.spec)
                 /\ resources' = {IF r.id = mem.st.rid THEN Configured(r) ELSE r :
                                  r \in resources}
        <4> DEFINE f(r) == IF r.id = mem.st.rid THEN Configured(r) ELSE r
        <4>1. w.pc = "update"
          BY <2>4 DEF updateSiteResource, At
        <4>2. \A q \in resources : Became(f(q), q)
          BY <1>0, <3>2, <4>1, ConfiguredBecame
        <4>3. \A r \in resources' : \E q \in resources : r = f(q)
          BY <3>2
        <4> HIDE DEF f
        <4> QED BY <4>2, <4>3 DEF Retained
      <3> QED BY <2>4, <3>1, <3>2 DEF updateSiteResource
    <2> QED BY <1>4, <2>1, <2>2, <2>3, <2>4 DEF WorkerStep
  <1>5. CASE Environment
    BY <1>2, <1>3, <1>5
       DEF Environment, UserCreate, UserEdit, UserDelete, Drift, SiteReady, SiteLost,
           SiteReplaced, Crash
  <1>6. CASE (\E c \in CR : CacheSync(c) \/ Reconcile(c)) \/ UNCHANGED vars
    BY <1>2, <1>6 DEF CacheSync, Reconcile, vars, pangolin
  <1> QED BY <1>4, <1>5, <1>6 DEF Next

\* What id stands for suits s also after the step.
Suits(id, s) ==
  \A r \in resources : r.id = id => r.name = s.name /\ (Still' => Asked(s, r))

\* An identifier that was handed out stands for the same use as before.
LEMMA StandsKept ==
  ASSUME LinkInv, WholeInv, ~Seen({"rename"}), UseInv, [Next]_vars
  PROVE  \A s : \A id \in Nat : id < nextId /\ Suits(id, s) => Stands(id, s)'
  <1> SUFFICES ASSUME NEW s, NEW id \in Nat, id < nextId, Suits(id, s),
                      NEW r \in resources', r.id = id
               PROVE  r.name = s.name /\ (Still' => Asked(s, r))
    BY DEF Stands, Asked
  <1>1. TypeOK /\ nextId \in Nat
    BY DEF LinkInv, TypeOK
  <1>2. Still' => Still
    BY <1>1, FaultsGrowNext DEF FaultsGrow, Still, Seen
  <1>3. \A q \in resources : q.id = id => q.name = s.name /\ (Still' => Asked(s, q))
    BY DEF Suits
  <1>4. CASE Retained
    <2>1. PICK q \in resources : Became(r, q)
      BY <1>4 DEF Retained
    <2>2. q.name = s.name /\ r.name = q.name /\ (Still' => Asked(s, q) /\ SameUse(r, q))
      BY <1>2, <1>3, <2>1 DEF Became
    <2> QED BY <1>2, <2>2 DEF SameUse, Asked
  <1>5. CASE Created
    <2>1. CreatedResource(nextId).id = nextId
      BY DEF CreatedResource
    <2>2. r \in resources
      BY <1>1, <1>5, <2>1 DEF Created
    <2> QED BY <1>2, <1>3, <2>2
  <1>6. ASSUME NEW q \in late, Land(q)
        PROVE  r.name = s.name /\ (Still' => Asked(s, r))
    <2> DEFINE x == [q EXCEPT !.id = nextId]
    <2>1. x.id = nextId /\ resources' = resources \cup {x}
      BY <1>1, <1>6 DEF TypeOK, ResourceType, Land
    <2> HIDE DEF x
    <2>2. r \in resources
      BY <1>1, <2>1
    <2> QED BY <1>2, <1>3, <2>2
  <1> QED BY <1>1, <1>4, <1>5, <1>6, RetainedStep

LEMMA IdsUniqueNext ==
  ASSUME LinkInv, WholeInv, ~Seen({"rename"}) => UseInv, IdsUnique, [Next]_vars
  PROVE  IdsUnique'
  <1>1. TypeOK /\ \A r \in resources : r.id # nextId
    <2>1. TypeOK /\ IdsInv /\ \A r \in resources : r.id \in live /\ r.id \in Nat
      BY DEF LinkInv, live, TypeOK, ResourceType
    <2>2. nextId \in Nat
      BY <2>1 DEF TypeOK
    <2> QED BY <2>1, <2>2 DEF IdsInv
  <1>2. CASE Retained
    BY <1>2 DEF Retained, Became, IdsUnique
  <1>3. CASE Created
    <2>1. CreatedResource(nextId).id = nextId
      BY DEF CreatedResource
    <2> QED BY <1>1, <1>3, <2>1 DEF Created, IdsUnique
  <1>4. ASSUME NEW q \in late, Land(q) PROVE IdsUnique'
    <2> DEFINE x == [q EXCEPT !.id = nextId]
    <2>1. x.id = nextId /\ resources' = resources \cup {x}
      BY <1>1, <1>4 DEF TypeOK, ResourceType, Land
    <2> HIDE DEF x
    <2> QED BY <1>1, <2>1 DEF IdsUnique
  <1> QED BY <1>1, <1>2, <1>3, <1>4, RetainedStep

LEMMA GenInvNext ==
  ASSUME LinkInv, GenInv, [Next]_vars
  PROVE  GenInv'
  <1>1. /\ TypeOK /\ c0 \in CR /\ mem \in ObjectType
        /\ \A c \in CR : cr[c].gen \in Nat /\ cache[c].gen \in Nat
    BY DEF LinkInv, TypeOK, WorkerType, ObjectType, c0, mem
  <1>2. \A n : Gone(n).gen = n
    BY DEF Gone
  <1>3. ASSUME UNCHANGED cache, \A c \in CR : cr'[c].gen \in Nat /\ cr[c].gen <= cr'[c].gen
        PROVE  GenInv'
    BY <1>1, <1>3 DEF GenInv
  <1>4. CASE UNCHANGED <<cr, cache>>
    BY <1>4 DEF GenInv
  <1>5. ASSUME NEW c \in CR, CacheSync(c)
        PROVE  GenInv'
    BY <1>1, <1>5 DEF CacheSync, GenInv, TypeOK
  <1>6. CASE AddFinalizer
    <2>1. cr[c0] = mem => WithFinalizer.gen \in Nat /\ cr[c0].gen <= WithFinalizer.gen
      BY <1>1, FinalizerKeeps
    <2>2. UNCHANGED cr \/ (cr[c0] = mem /\ cr' = [cr EXCEPT ![c0] = WithFinalizer])
      BY <1>6 DEF AddFinalizer, Unmodified
    <2> QED BY <1>1, <1>3, <1>6, <2>1, <2>2 DEF AddFinalizer, TypeOK
  <1>7. CASE RemoveFinalizer
    <2>1. UNCHANGED cr \/ (cr[c0] = mem /\ cr' = [cr EXCEPT ![c0] = Gone(mem.gen)])
      BY <1>7 DEF RemoveFinalizer, Unmodified
    <2> QED BY <1>1, <1>2, <1>3, <1>7, <2>1 DEF RemoveFinalizer, TypeOK
  <1>8. CASE WorkerStep /\ ~AddFinalizer /\ ~RemoveFinalizer /\ ~Cleanup
             /\ ~createSiteResource
    <2>1. StatusOnly
      BY <1>1, <1>8, OngoingStep
    <2>2. UNCHANGED cache
      BY <1>8 DEF WorkerStep, ResolveSite, ensureExists, Adopt, MarkCreating,
         RecordResource, Rollback, Refetch, updateSiteResource, MarkReady, ReportFailure
    <2> QED BY <1>1, <1>3, <2>1, <2>2 DEF StatusOnly
  <1>9. ASSUME NEW c \in CR, NEW s \in Specs[c], UserCreate(c, s) \/ UserEdit(c, s)
        PROVE  GenInv'
    <2>1. NewObject(cr[c].gen + 1, s).gen = cr[c].gen + 1
      BY DEF NewObject
    <2>2. \A d \in CR : cr'[d].gen \in {cr[d].gen, cr[d].gen + 1}
      <3>1. CASE UserCreate(c, s)
        BY <1>1, <2>1, <3>1 DEF UserCreate, TypeOK
      <3>2. CASE UserEdit(c, s)
        BY <1>1, <3>2 DEF UserEdit, TypeOK, ObjectType
      <3> QED BY <1>9, <3>1, <3>2
    <2>3. UNCHANGED cache
      BY <1>9 DEF UserCreate, UserEdit
    <2> QED BY <1>1, <1>3, <2>2, <2>3
  <1>10. ASSUME NEW c \in CR, UserDelete(c)
         PROVE  GenInv'
    <2>1. Deleted(cr[c]).gen \in {cr[c].gen, cr[c].gen + 1}
      BY <1>1, <1>2 DEF Deleted, TypeOK, ObjectType
    <2> QED BY <1>1, <1>3, <1>10, <2>1 DEF UserDelete, TypeOK
  <1>11. CASE Crash
    BY <1>1, <1>11 DEF Crash, GenInv
  <1>12. CASE createSiteResource \/ Cleanup
    BY <1>4, <1>12 DEF createSiteResource, Cleanup
  <1>13. CASE Environment
    BY <1>4, <1>9, <1>10, <1>11, <1>13
       DEF Environment, Drift, SiteReady, SiteLost, SiteReplaced
  <1>14. CASE (\E c \in CR : Reconcile(c)) \/ (\E r \in late : Land(r)) \/ UNCHANGED vars
    BY <1>4, <1>14 DEF Reconcile, Land, vars
  <1> QED BY <1>5, <1>6, <1>7, <1>8, <1>12, <1>13, <1>14 DEF Next

LEMMA UseInvNext ==
  ASSUME LinkInv, IdsUnique, GenInv, SitesInv, WholeInv, ~Seen({"rename"}), UseInv,
         [Next]_vars, ~Seen({"rename"})'
  PROVE  UseInv'
  <1> DEFINE Like(a, b) == /\ a.spec.name = b.spec.name
                           /\ Still' => /\ a.spec.http = b.spec.http
                                        /\ a.spec.dest = b.spec.dest
                                        /\ a.spec.dom = b.spec.dom
                                        /\ a.spec.site = b.spec.site
             Has(id, s) == id \in Nat /\ id < nextId /\ Suits(id, s)
             Via(v, s) == v.pc \in Sited /\ Still' => v.sid = SiteId[s.site]
             Objects == \A c \in CR : /\ Held(cache'[c]) => Like(cache'[c], cr'[c])
                                      /\ Has(cr'[c].st.rid, cr'[c].spec)
                                      /\ Has(cache'[c].st.rid, cache'[c].spec)
             Memory ==
               /\ w'.pc = "finalize" =>
                    /\ w'.rid = 0
                    /\ w'.mem.gen <= cr'[w'.c].gen
                    /\ cr'[w'.c] = w'.mem => Like(cache'[w'.c], w'.mem)
               /\ w'.pc \in Working =>
                    /\ Like(w'.mem, cr'[w'.c]) /\ Like(cache'[w'.c], cr'[w'.c])
                    /\ Has(w'.mem.st.rid, cr'[w'.c].spec)
                    /\ \/ Has(w'.rid, cr'[w'.c].spec)
                       \/ Created /\ w'.rid = nextId /\ w'.c = c0
                    /\ Via(w', cr'[w'.c].spec)
             Goal == Objects /\ Memory
  <1>0. \A o : Like(o, o)
    OBVIOUS
  <1>1. /\ TypeOK /\ IdsInv /\ ObjectsInv /\ CachedInv /\ WorkerInv
        /\ TypeOK' /\ nextId \in Nat /\ c0 \in CR /\ w \in WorkerType /\ mem \in ObjectType
        /\ \A c \in CR : cr[c] \in ObjectType /\ cache[c] \in ObjectType
                         /\ cr[c].gen \in Nat /\ cache[c].gen \in Nat
                         /\ (cr[c].fin => cr[c].exists)
    BY TypeOKNext DEF LinkInv, ObjectsInv, TypeOK, WorkerType, ObjectType, c0, mem
  <1>2. Still' => Still
    BY <1>1, FaultsGrowNext DEF FaultsGrow, Still, Seen
  <1>3. \A id, s : Stands(id, s) => Suits(id, s)
    BY <1>2 DEF Stands, Suits
  <1>4. \A a, b : Alike(a, b) => Like(a, b)
    BY <1>2 DEF Alike
  <1>5. /\ \A c \in CR : Has(cr[c].st.rid, cr[c].spec) /\ Has(cache[c].st.rid, cache[c].spec)
        /\ w.pc \in Working => Has(mem.st.rid, cr[c0].spec) /\ Has(w.rid, cr[c0].spec)
    BY <1>1, <1>3 DEF IdsInv, UseInv, TypeOK, ObjectType, WorkerType, StatusType, mem
  <1>6. \A s : Has(0, s)
    <2>1. \A r \in resources : r.id # 0
      BY <1>1 DEF TypeOK, ResourceType
    <2>2. 0 < nextId
      BY <1>1 DEF TypeOK
    <2> QED BY <2>1, <2>2 DEF Suits
  <1> HIDE DEF Like
  <1>7. /\ \A c \in CR : Held(cache[c]) => Like(cache[c], cr[c])
        /\ w.pc \in Working => /\ Like(mem, cr[c0]) /\ Like(cache[c0], cr[c0])
                               /\ Via(w, cr[c0].spec)
        /\ w.pc = "finalize" =>
             w.rid = 0 /\ mem.gen <= cr[c0].gen /\ (cr[c0] = mem => Like(cache[c0], mem))
    BY <1>2, <1>4 DEF UseInv
  <1>8. Idle.pc = "idle" /\ "idle" \notin Working /\ "finalize" \notin Working
        /\ "cleanup" \notin Working /\ "unfinalize" \notin Working
        /\ "site" \notin Sited
    BY DEF Idle, Working, Sited
  <1>9. \A n : /\ ~Gone(n).fin /\ ~Gone(n).exists /\ Gone(n).st.rid = 0
    BY DEF Gone, ZeroStatus
  <1> HIDE DEF Has
  <1>10. ASSUME w' = Idle PROVE Memory
    BY <1>8, <1>10
  <1>11. ASSUME UNCHANGED <<cr, cache>> PROVE Objects
    BY <1>5, <1>7, <1>11
  <1>12. ASSUME UNCHANGED <<cr, cache, w>> PROVE Goal
    BY <1>5, <1>7, <1>12 DEF c0, mem
  <1>13. ASSUME NEW c \in CR, CacheSync(c) PROVE Goal
    <2>1. cache' = [cache EXCEPT ![c] = cr[c]] /\ UNCHANGED <<cr, w>>
      BY <1>13 DEF CacheSync
    <2>2. \A d \in CR : cache'[d] = IF d = c THEN cr[c] ELSE cache[d]
      BY <1>1, <2>1 DEF TypeOK
    <2>3. Objects
      BY <1>5, <1>7, <2>1, <2>2, <1>0
    <2>4. Memory
      BY <1>1, <1>5, <1>7, <2>1, <2>2, <1>0 DEF c0, mem
    <2> QED BY <2>3, <2>4
  <1>14. ASSUME NEW c \in CR, Reconcile(c) PROVE Goal
    <2>1. UNCHANGED <<cr, cache>>
      BY <1>14 DEF Reconcile
    <2>2. CASE cache[c].exists
      <3> DEFINE pc == IF cache[c].del THEN "cleanup"
                       ELSE IF cache[c].fin THEN "site" ELSE "finalize"
      <3>1. w'.c = c /\ w'.mem = cache[c] /\ w'.pc = pc /\ w'.rid = 0
        BY <1>14, <2>2, IdleType DEF Reconcile, WorkerType, Idle
      <3>2. ASSUME w'.pc = "finalize" PROVE Memory
        BY <1>8, <2>1, <3>1, <3>2, <1>0 DEF GenInv
      <3>3. ASSUME w'.pc \in Working PROVE Memory
        <4>1. Held(cache[c]) /\ w'.pc = "site"
          BY <1>8, <3>1, <3>3 DEF Held
        <4>2. Like(cache[c], cr[c]) /\ Has(cache[c].st.rid, cache[c].spec)
          BY <1>5, <1>7, <4>1
        <4>3. Has(cache[c].st.rid, cr[c].spec)
          BY <4>2 DEF Like, Has, Suits, Asked
        <4>4. Via(w', cr'[c].spec)
          BY <1>8, <4>1
        <4> QED BY <1>6, <1>8, <2>1, <3>1, <3>3, <4>2, <4>3, <4>4
      <3>4. Memory
        BY <3>2, <3>3
      <3> QED BY <1>11, <2>1, <3>4
    <2>3. CASE ~cache[c].exists
      BY <1>10, <1>11, <1>14, <2>1, <2>3 DEF Reconcile
    <2> QED BY <2>2, <2>3
  <1>15. ASSUME AddFinalizer PROVE Goal
    <2>1. w.pc = "finalize" /\ UNCHANGED cache
      BY <1>15 DEF AddFinalizer, At
    <2>2. CASE UNCHANGED cr /\ w' = Idle
      BY <1>10, <1>11, <2>1, <2>2
    <2>3. CASE cr[c0] = mem /\ cr' = [cr EXCEPT ![c0] = WithFinalizer]
      <3>1. \A c \in CR : cr'[c] = IF c = c0 THEN WithFinalizer ELSE cr[c]
        BY <1>1, <2>3 DEF TypeOK
      <3>2. Like(cache[c0], WithFinalizer)
        BY <1>1, <1>7, <2>1, <2>3, FinalizerKeeps DEF Like
      <3>3. Has(WithFinalizer.st.rid, WithFinalizer.spec)
        <4>1. Has(mem.st.rid, mem.spec)
          BY <1>1, <1>5, <2>3
        <4> QED BY <1>1, <4>1, FinalizerKeeps DEF Has, Suits, Asked
      <3>4. Objects
        BY <1>1, <1>5, <1>7, <2>1, <3>1, <3>2, <3>3
      <3>5. CASE w' = Idle
        BY <1>10, <3>4, <3>5
      <3>6. CASE w' = [w EXCEPT !.pc = "site", !.mem = WithFinalizer]
        <4>1. w'.pc = "site" /\ w'.c = c0 /\ w'.mem = WithFinalizer /\ w'.rid = w.rid
          BY <1>1, <3>6 DEF WorkerType, c0
        <4>2. Memory
          BY <1>1, <1>6, <1>7, <1>8, <2>1, <3>1, <3>2, <3>3, <4>1, <1>0
        <4> QED BY <3>4, <4>2
      <3> QED BY <1>15, <2>3, <3>5, <3>6 DEF AddFinalizer, Requeue
    <2> QED BY <1>15, <2>2, <2>3 DEF AddFinalizer, Requeue, Unmodified
  <1>16. ASSUME Cleanup PROVE Goal
    <2>1. w' = Idle \/ w'.pc = "unfinalize"
      BY <1>1, <1>16 DEF Cleanup, Requeue, Goto, WorkerType
    <2> QED BY <1>8, <1>10, <1>11, <1>16, <2>1 DEF Cleanup
  <1>17. ASSUME RemoveFinalizer PROVE Goal
    <2>1. w' = Idle /\ UNCHANGED cache /\ ~Held(cache[c0])
      BY <1>1, <1>17 DEF RemoveFinalizer, Requeue, Forget, At, WorkerInv
    <2>2. CASE UNCHANGED cr
      BY <1>10, <1>11, <2>1, <2>2
    <2>3. CASE cr' = [cr EXCEPT ![c0] = Gone(mem.gen)]
      <3>1. \A c \in CR : cr'[c] = IF c = c0 THEN Gone(mem.gen) ELSE cr[c]
        BY <1>1, <2>3 DEF TypeOK
      <3>2. Objects
        BY <1>1, <1>5, <1>6, <1>7, <1>9, <2>1, <3>1
      <3> QED BY <1>10, <2>1, <3>2
    <2> QED BY <1>17, <2>2, <2>3 DEF RemoveFinalizer
  <1>18. ASSUME createSiteResource PROVE Goal
    <2>1. w.pc = "create" /\ UNCHANGED <<cr, cache>>
      BY <1>18 DEF createSiteResource, At
    <2>2. \A y \in Why : /\ Fail(y).pc = "fail" /\ Fail(y).c = c0 /\ Fail(y).mem = mem
                         /\ Fail(y).rid = 0
      BY IdleType DEF Fail, WorkerType, Idle
    <2>3. \/ \E y \in Why : w' = Fail(y)
          \/ /\ w' = [w EXCEPT !.pc = "record", !.rid = nextId, !.dom = SentDom]
             /\ Created
      BY <1>1, <1>18 DEF createSiteResource, Refused, Created, Why
    <2>4. /\ w'.pc # "finalize" /\ w'.c = c0 /\ w'.mem = mem
          /\ w'.rid = 0 \/ (w'.rid = nextId /\ Created)
          /\ w'.pc = "fail" \/ w'.sid = w.sid
      BY <1>1, <2>2, <2>3 DEF WorkerType, mem, c0
    <2>5. Via(w', cr[c0].spec)
      <3>1. Via(w, cr[c0].spec) /\ w.pc \in Sited /\ "fail" \notin Sited
        BY <1>7, <2>1 DEF Working, PC, Sited
      <3> QED BY <2>4, <3>1
    <2>6. Memory
      <3>1. /\ Like(mem, cr[c0]) /\ Like(cache[c0], cr[c0]) /\ Has(mem.st.rid, cr[c0].spec)
        BY <1>5, <1>7, <2>1 DEF Working, PC
      <3>2. Has(w'.rid, cr[c0].spec) \/ (Created /\ w'.rid = nextId)
        BY <1>6, <2>4
      <3> HIDE DEF Via
      <3> QED BY <2>1, <2>4, <2>5, <3>1, <3>2
    <2> QED BY <1>11, <2>1, <2>6
  <1>19. ASSUME WorkerStep, ~AddFinalizer, ~RemoveFinalizer, ~Cleanup,
                ~createSiteResource
         PROVE  Goal
    <2>1. w.pc \in Working /\ (w' = Idle \/ Ongoing(w')) /\ StatusOnly
      BY <1>1, <1>19, OngoingStep
    <2>2. UNCHANGED cache
      BY <1>19 DEF WorkerStep, ResolveSite, ensureExists, Adopt, MarkCreating,
         RecordResource, Rollback, Refetch, updateSiteResource, MarkReady, ReportFailure
    <2>3. Like(mem, cr[c0]) /\ Like(cache[c0], cr[c0]) /\ Via(w, cr[c0].spec)
      BY <1>7, <2>1
    <2>4. \A i : KnownRid(i) => Has(i, cr[c0].spec)
      <3>1. ASSUME w.pc = "list", NEW r \in findSiteResource
            PROVE  Has(r.id, cr[c0].spec)
        <4>1. /\ r \in resources /\ r.name = mem.spec.name /\ r.http = mem.spec.http
              /\ IF mem.spec.http THEN r.dom = mem.spec.dom
                 ELSE r.dest = mem.spec.dest /\ r.sid = w.sid
          BY <3>1 DEF findSiteResource, Listed
        <4>2. Still' => w.sid = SiteId[cr[c0].spec.site]
          BY <2>3, <3>1 DEF Sited
        <4>3. r.name = cr[c0].spec.name /\ (Still' => Asked(cr[c0].spec, r))
          BY <2>3, <4>1, <4>2 DEF Like, Asked
        <4>4. Suits(r.id, cr[c0].spec)
          BY <4>1, <4>3 DEF Suits, IdsUnique
        <4>5. r.id \in Nat /\ r.id < nextId
          BY <1>1, <4>1 DEF TypeOK, ResourceType, IdsInv, live
        <4> QED BY <4>4, <4>5 DEF Has
      <3>2. Has(cache[c0].st.rid, cr[c0].spec)
        <4>1. Has(cache[c0].st.rid, cache[c0].spec)
          BY <1>1, <1>5
        <4> QED BY <2>3, <4>1 DEF Like, Has, Suits, Asked
      <3> QED BY <1>1, <1>5, <1>6, <2>1, <3>1, <3>2 DEF KnownRid
    <2>5. \A o : KnownSpec(o.spec) => Like(o, cr[c0])
      <3>1. /\ DecodedSpec(mem.spec, cr[c0].spec).name = cr[c0].spec.name
            /\ DecodedSpec(mem.spec, cr[c0].spec).http = cr[c0].spec.http
            /\ DecodedSpec(mem.spec, cr[c0].spec).dest = cr[c0].spec.dest
            /\ DecodedSpec(mem.spec, cr[c0].spec).dom = Kept(mem.spec.dom, NoDom, cr[c0].spec.dom)
            /\ DecodedSpec(mem.spec, cr[c0].spec).site = cr[c0].spec.site
        <4>1. cr[c0].spec \in SpecType
          BY <1>1 DEF ObjectType
        <4> QED BY <4>1 DEF DecodedSpec, SpecType
      <3>2. CASE Still'
        <4>1. Kept(mem.spec.dom, NoDom, cr[c0].spec.dom) = cr[c0].spec.dom
          BY <2>3, <3>2 DEF Like, Kept
        <4> QED BY <2>3, <3>1, <4>1 DEF KnownSpec, Like
      <3>3. CASE ~Still'
        BY <2>3, <3>1, <3>3 DEF KnownSpec, Like
      <3> QED BY <3>2, <3>3
    <2>6. /\ \A c \in CR : cr'[c].spec = cr[c].spec
          /\ \A c \in CR : Has(cr'[c].st.rid, cr[c].spec)
      BY <1>1, <1>5, <2>1, <2>4 DEF StatusOnly
    <2>7. \A a : \A c \in CR : Like(a, cr[c]) => Like(a, cr'[c])
      BY <2>6 DEF Like
    <2>8. Objects
      BY <1>5, <1>7, <2>2, <2>6, <2>7
    <2>9. Ongoing(w') => Via(w', cr[c0].spec)
      <3> SUFFICES ASSUME KnownSid(w'), w'.pc \in Sited, Still'
                   PROVE  w'.sid = SiteId[cr[c0].spec.site]
        BY DEF Ongoing
      <3>1. CASE w.pc \in Sited /\ w'.sid = w.sid
        BY <2>3, <3>1
      <3>2. CASE w'.sid = siteId[mem.spec.site] /\ w'.sid # 0
        <4>1. mem.spec.site \in Site /\ mem.spec.site = cr[c0].spec.site
          BY <1>1, <2>3 DEF Like, ObjectType, SpecType
        <4>2. ~Seen({"resite"})
          BY <1>2 DEF Still, Seen
        <4> QED BY <3>2, <4>1, <4>2 DEF SitesInv
      <3> QED BY <3>1, <3>2 DEF KnownSid
    <2>10. Memory
      <3>1. CASE w' = Idle
        BY <1>10, <3>1
      <3>2. CASE Ongoing(w')
        <4>1. /\ w'.pc # "finalize" /\ w'.c = c0 /\ Like(w'.mem, cr'[c0])
              /\ Has(w'.mem.st.rid, cr[c0].spec) /\ Has(w'.rid, cr[c0].spec)
          BY <1>1, <1>8, <2>4, <2>5, <2>7, <3>2 DEF Ongoing
        <4>2. Like(cache'[c0], cr'[c0]) /\ cr'[c0].spec = cr[c0].spec
          BY <1>1, <2>2, <2>3, <2>6, <2>7
        <4> QED BY <2>9, <3>2, <4>1, <4>2
      <3> QED BY <2>1, <3>1, <3>2
    <2> QED BY <2>8, <2>10
  <1>20. ASSUME NEW c \in CR, NEW s \in Specs[c], UserCreate(c, s) PROVE Goal
    <2> DEFINE new == NewObject(cr[c].gen + 1, s)
    <2>1. /\ new.st.rid = 0 /\ new.gen = cr[c].gen + 1
          /\ ~cr[c].fin /\ ~Held(cache[c]) /\ UNCHANGED <<cache, w>>
      BY <1>1, <1>20 DEF NewObject, ZeroStatus, UserCreate, CachedInv
    <2>2. \A d \in CR : cr'[d] = IF d = c THEN new ELSE cr[d]
      BY <1>1, <1>20 DEF UserCreate, TypeOK
    <2> HIDE DEF new
    <2>3. Objects
      BY <1>5, <1>6, <1>7, <2>1, <2>2
    <2>4. w.pc = "finalize" =>
            mem.gen <= cr'[c0].gen /\ (cr'[c0] = mem => Like(cache[c0], mem))
      <3>1. CASE c # c0
        BY <1>1, <1>7, <2>2, <3>1
      <3>2. CASE c = c0
        <4>1. mem.gen \in Nat /\ cr'[c0].gen = cr[c0].gen + 1
          BY <1>1, <2>1, <2>2, <3>2 DEF ObjectType
        <4>2. w.pc = "finalize" => mem.gen < cr'[c0].gen
          BY <1>1, <1>7, <4>1
        <4>3. w.pc = "finalize" => mem.gen <= cr'[c0].gen
          BY <1>1, <4>1, <4>2
        <4>4. w.pc = "finalize" => cr'[c0].gen # mem.gen
          BY <1>1, <4>1, <4>2
        <4> QED BY <4>3, <4>4
      <3> QED BY <3>1, <3>2
    <2>5. w.pc \in Working => cr'[c0] = cr[c0]
      BY <1>1, <2>1, <2>2 DEF WorkerInv
    <2>6. Memory
      BY <1>5, <1>7, <2>1, <2>4, <2>5 DEF c0, mem
    <2> QED BY <2>3, <2>6
  <1>21. ASSUME NEW c \in CR, NEW s \in Specs[c], UserEdit(c, s) PROVE Goal
    <2>1. /\ \A d \in CR : cr'[d].st = cr[d].st /\ (d # c => cr'[d] = cr[d])
          /\ cr'[c].spec = s /\ cr'[c].gen = cr[c].gen + 1
          /\ UNCHANGED <<cache, w>>
      BY <1>1, <1>21 DEF UserEdit, TypeOK, ObjectType
    <2>2. /\ s.name = cr[c].spec.name
          /\ Still' => /\ s.http = cr[c].spec.http /\ s.dest = cr[c].spec.dest
                       /\ s.dom = cr[c].spec.dom /\ s.site = cr[c].spec.site
      <3>1. \A k \in {"race", "rename", "move", "unsent"} :
              EditIs(k, c, s) => k \in faults'.seen
        BY <1>1, <1>21 DEF UserEdit, Note, TypeOK
      <3>2. "rename" \notin faults'.seen /\ (Still' => "move" \notin faults'.seen)
        BY DEF Seen, Still
      <3>3. ~EditIs("rename", c, s) /\ (Still' => ~EditIs("move", c, s))
        BY <3>1, <3>2
      <3> QED BY <3>3 DEF EditIs
    <2>3. \A a : \A d \in CR : Like(a, cr[d]) => Like(a, cr'[d])
      BY <2>1, <2>2 DEF Like
    <2>4. \A id : \A d \in CR : Has(id, cr[d].spec) => Has(id, cr'[d].spec)
      BY <2>1, <2>2 DEF Has, Suits, Asked
    <2>5. \A d \in CR : Via(w, cr[d].spec) => Via(w, cr'[d].spec)
      BY <2>1, <2>2
    <2>6. Objects
      BY <1>5, <1>7, <2>1, <2>3, <2>4
    <2>7. w.pc = "finalize" =>
            mem.gen <= cr'[c0].gen /\ (cr'[c0] = mem => Like(cache[c0], mem))
      <3>1. CASE c # c0
        BY <1>1, <1>7, <2>1, <3>1
      <3>2. CASE c = c0
        <4>1. mem.gen \in Nat /\ cr'[c0].gen = cr[c0].gen + 1
          BY <1>1, <2>1, <3>2 DEF ObjectType
        <4>2. w.pc = "finalize" => mem.gen < cr'[c0].gen
          BY <1>1, <1>7, <4>1
        <4>3. w.pc = "finalize" => mem.gen <= cr'[c0].gen
          BY <1>1, <4>1, <4>2
        <4>4. w.pc = "finalize" => cr'[c0].gen # mem.gen
          BY <1>1, <4>1, <4>2
        <4> QED BY <4>3, <4>4
      <3> QED BY <3>1, <3>2
    <2>8. Memory
      <3> HIDE DEF Via
      <3> QED BY <1>1, <1>5, <1>7, <2>1, <2>3, <2>4, <2>5, <2>7 DEF c0, mem
    <2> QED BY <2>6, <2>8
  <1>22. ASSUME NEW c \in CR, UserDelete(c) PROVE Goal
    <2> DEFINE new == Deleted(cr[c])
    <2>1. \A d \in CR : cr'[d] = IF d = c THEN new ELSE cr[d]
      BY <1>1, <1>22 DEF UserDelete, TypeOK
    <2>2. UNCHANGED <<cache, w>>
      BY <1>22 DEF UserDelete
    <2>3. cr[c].fin => /\ new.spec = cr[c].spec /\ new.st = cr[c].st /\ new.del
                       /\ new.gen = cr[c].gen + 1
      BY <1>1 DEF Deleted, ObjectType
    <2>4. ~cr[c].fin => new.st.rid = 0 /\ ~new.exists /\ new.gen = cr[c].gen
      BY DEF Deleted, Gone, ZeroStatus
    <2> HIDE DEF new
    <2>5. Objects
      <3>1. Held(cache[c]) => cr[c].fin
        BY <1>1 DEF CachedInv
      <3>2. Held(cache[c]) => Like(cache[c], new)
        BY <1>7, <2>3, <3>1 DEF Like
      <3>3. Has(new.st.rid, new.spec)
        BY <1>5, <1>6, <2>3, <2>4
      <3> QED BY <1>5, <1>7, <2>1, <2>2, <3>2, <3>3
    <2>6. w.pc = "finalize" =>
            mem.gen <= cr'[c0].gen /\ (cr'[c0] = mem => Like(cache[c0], mem))
      <3>1. CASE c # c0
        BY <1>1, <1>7, <2>1, <3>1
      <3>2. CASE c = c0
        <4>1. mem.gen \in Nat /\ cr'[c0] = new /\ new.gen \in {cr[c0].gen, cr[c0].gen + 1}
          BY <1>1, <2>1, <2>3, <2>4, <3>2 DEF ObjectType
        <4>2. w.pc = "finalize" => mem.gen <= cr'[c0].gen
          BY <1>1, <1>7, <4>1
        <4>3. w.pc = "finalize" => mem # new
          BY <1>1, <2>3, <2>4 DEF WorkerInv
        <4> QED BY <4>1, <4>2, <4>3
      <3> QED BY <3>1, <3>2
    <2>7. w.pc \in Working => /\ cr'[c0].spec = cr[c0].spec
                              /\ \A a : Like(a, cr[c0]) => Like(a, cr'[c0])
      BY <1>1, <2>1, <2>3 DEF WorkerInv, Like
    <2>8. Memory
      <3>1. w.pc \in Working =>
              /\ Like(mem, cr'[c0]) /\ Like(cache[c0], cr'[c0])
              /\ Has(mem.st.rid, cr'[c0].spec) /\ Has(w.rid, cr'[c0].spec)
              /\ Via(w, cr'[c0].spec)
        BY <1>5, <1>7, <2>7
      <3> HIDE DEF Via
      <3> QED BY <1>7, <2>2, <2>6, <3>1 DEF c0, mem
    <2> QED BY <2>5, <2>8
  <1>23. ASSUME Crash PROVE Goal
    <2>1. UNCHANGED cr /\ cache' = cr /\ w' = Idle
      BY <1>23 DEF Crash
    <2>2. Objects
      BY <1>0, <1>5, <2>1
    <2> QED BY <1>10, <2>1, <2>2
  <1>24. Goal
    <2> HIDE DEF Goal
    <2>1. ASSUME Environment PROVE Goal
      BY <1>12, <1>20, <1>21, <1>22, <1>23, <2>1
         DEF Environment, Drift, SiteReady, SiteLost, SiteReplaced
    <2>2. ASSUME WorkerStep PROVE Goal
      BY <1>15, <1>16, <1>17, <1>18, <1>19, <2>2
    <2>3. ASSUME (\E r \in late : Land(r)) \/ UNCHANGED vars PROVE Goal
      BY <1>12, <2>3 DEF Land, vars
    <2> QED BY <1>13, <1>14, <2>1, <2>2, <2>3 DEF Next
  <1>25. \A id, s : Has(id, s) => Stands(id, s)'
    BY StandsKept DEF Has
  <1>26. \A a, b : Like(a, b) => Alike(a, b)'
    BY DEF Like, Alike
  <1>27. Created =>
           \A id, s : id = nextId /\ Like([spec |-> s], mem) => Stands(id, s)'
    <2> SUFFICES ASSUME Created, NEW s, Like([spec |-> s], mem),
                        NEW r \in resources', r.id = nextId
                 PROVE  r.name = s.name /\ (Still' => Asked(s, r))
      BY DEF Stands, Asked
    <2> DEFINE x == CreatedResource(nextId)
    <2>1. \A q \in resources : q.id # nextId
      <3>1. \A q \in resources : q.id \in live /\ q.id \in Nat
        BY <1>1 DEF live, TypeOK, ResourceType
      <3> QED BY <1>1, <3>1 DEF IdsInv
    <2>2. r = x
      BY <2>1 DEF Created
    <2>3. /\ x.name = mem.spec.name /\ x.http = mem.spec.http /\ x.dest = mem.spec.dest
          /\ x.dom = SentDom /\ x.sid = w.sid
      BY DEF CreatedResource
    <2>4. w.pc \in Working /\ Resolvable(mem.spec)
      BY DEF Created, createSiteResource, At, Working, PC
    <2>5. Via(w, cr[c0].spec) /\ Like(mem, cr[c0]) /\ w.pc \in Sited
      BY <1>7 DEF Created, createSiteResource, At, Working, PC, Sited
    <2>7. Still' /\ mem.spec.http => SentDom = mem.spec.dom
      BY <1>1, <1>2, <2>4, SentIsAsked, MemWhole
    <2> HIDE DEF x
    <2>6. s.name = mem.spec.name /\ (Still' => Asked(s, x))
      BY <2>3, <2>5, <2>7 DEF Like, Asked
    <2> QED BY <2>2, <2>3, <2>6
  <1>28. Created => Like(mem, cr[c0]) /\ cr' = cr
    BY <1>7 DEF Created, createSiteResource, At, Working, PC
  <1>29. (\A c \in CR : /\ Held(cache[c]) => Alike(cache[c], cr[c])
                        /\ Stands(cr[c].st.rid, cr[c].spec)
                        /\ Stands(cache[c].st.rid, cache[c].spec))'
    BY <1>24, <1>25, <1>26 DEF Held
  <1>30. (w.pc = "finalize" =>
           w.rid = 0 /\ mem.gen <= cr[c0].gen /\ (cr[c0] = mem => Alike(cache[c0], mem)))'
    BY <1>24, <1>26 DEF c0, mem
  <1>31. (w.pc \in Working =>
           /\ Alike(mem, cr[c0]) /\ Alike(cache[c0], cr[c0])
           /\ Stands(mem.st.rid, cr[c0].spec) /\ Stands(w.rid, cr[c0].spec)
           /\ w.pc \in Sited /\ Still => w.sid = SiteId[cr[c0].spec.site])'
    <2>1. ASSUME w'.pc \in Working
          PROVE  /\ Alike(mem, cr[c0])' /\ Alike(cache[c0], cr[c0])'
                 /\ Stands(mem.st.rid, cr[c0].spec)'
      BY <1>24, <1>25, <1>26, <2>1 DEF c0, mem
    <2>2. ASSUME w'.pc \in Working
          PROVE  Stands(w.rid, cr[c0].spec)'
      <3>1. CASE Has(w'.rid, cr'[w'.c].spec)
        BY <1>25, <3>1 DEF c0
      <3>2. CASE Created /\ w'.rid = nextId /\ w'.c = c0
        <4>1. Like([spec |-> cr'[c0].spec], mem)
          BY <1>28, <3>2 DEF Like
        <4> QED BY <1>27, <3>2, <4>1 DEF c0
      <3> QED BY <1>24, <2>2, <3>1, <3>2
    <2>3. ASSUME w'.pc \in Working
          PROVE  (w.pc \in Sited /\ Still => w.sid = SiteId[cr[c0].spec.site])'
      BY <1>24, <2>3 DEF c0
    <2> QED BY <2>1, <2>2, <2>3 DEF Working
  <1> QED BY <1>29, <1>30, <1>31 DEF UseInv

-----------------------------------------------------------------------------
(* The way to createSiteResource, and NoDuplicate. *)

LEMMA PatchPC ==
  ASSUME NEW st, NEW ok \in WorkerType, NEW ko \in WorkerType, patchStatus(st, ok, ko)
  PROVE  w'.pc \in {ok.pc, ko.pc}
  <1> DEFINE new == [cr[c0] EXCEPT !.st = Merge(cr[c0].st, mem.st, st)]
  <1>1. \A o : [ok EXCEPT !.mem = o].pc = ok.pc
    BY DEF WorkerType
  <1>2. [ko EXCEPT !.mem.st = st].pc = ko.pc
    BY DEF WorkerType
  <1>3. w' = [ok EXCEPT !.mem = Decoded(new, st)] \/ w' = [ko EXCEPT !.mem.st = st]
    BY DEF patchStatus
  <1> HIDE DEF new
  <1> QED BY <1>1, <1>2, <1>3

\* Each of these places of the worker is reached by one action.
LEMMA CreatePC ==
  ASSUME TypeOK, WorkerStep
  PROVE  /\ w'.pc \in {"adopt", "creating"} => ensureExists
         /\ w'.pc = "create" => MarkCreating
         /\ w'.pc = "record" => createSiteResource
         /\ w'.pc = "rollback" => RecordResource
  <1> DEFINE Special == {"adopt", "creating", "create", "record", "rollback"}
             Free(v) == v.pc \notin Special
  <1>1. w \in WorkerType /\ c0 \in CR /\ cache[c0] \in ObjectType
    BY DEF TypeOK, WorkerType, c0
  <1>2. /\ Fail("Error") \in WorkerType /\ Free(Fail("Error"))
        /\ Free(Fail("BadRequest")) /\ Free(Fail("Pending")) /\ Free(Fail("Reset"))
    <2>1. \A y \in Why : Fail(y) \in WorkerType /\ Free(Fail(y))
      BY <1>1, IdleType, FailType DEF Fail, WorkerType
    <2> QED BY <2>1 DEF Why
  <1>3. \A v \in WorkerType : Ready(v) \in WorkerType /\ Free(Ready(v))
    BY IdleType, ReadyType DEF Ready, WorkerType
  <1>4. \A pc \in PC : Goto(pc) \in WorkerType /\ Goto(pc).pc = pc
    BY <1>1, GotoType DEF Goto, WorkerType
  <1>5. /\ Goto("refetch") \in WorkerType /\ Free(Goto("refetch"))
        /\ Goto("update") \in WorkerType /\ Free(Goto("update"))
        /\ Free(Goto("unfinalize"))
        /\ Goto("create") \in WorkerType /\ Goto("create").pc = "create"
        /\ Goto("rollback") \in WorkerType /\ Goto("rollback").pc = "rollback"
        /\ Goto("creating").pc = "creating"
    BY <1>4 DEF PC
  <1>6. Free(Idle)
    BY DEF Idle
  <1>7. Requeue \/ Forget => Free(w')
    BY <1>6 DEF Requeue, Forget
  <1>8. Refused => Free(w')
    BY <1>2 DEF Refused
  <1>9. CASE ensureExists
    <2>1. \A r : [w EXCEPT !.pc = "adopt", !.rid = r.id, !.dom = r.dom].pc = "adopt"
      BY <1>1 DEF WorkerType
    <2>2. \/ w' = Goto("refetch") \/ w' = Goto("creating") \/ Refused
          \/ \E r \in findSiteResource :
               w' = [w EXCEPT !.pc = "adopt", !.rid = r.id, !.dom = r.dom]
      BY <1>9 DEF ensureExists
    <2>3. w'.pc \in {"adopt", "creating"} \/ Free(w')
      BY <1>5, <1>8, <2>1, <2>2
    <2> QED BY <1>9, <2>3
  <1>10. CASE MarkCreating
    <2>1. w'.pc = "create" \/ Free(w')
      BY <1>2, <1>5, <1>10, PatchPC DEF MarkCreating
    <2> QED BY <1>10, <2>1
  <1>11. CASE createSiteResource
    <2>1. [w EXCEPT !.pc = "record", !.rid = nextId, !.dom = SentDom].pc = "record"
      BY <1>1 DEF WorkerType
    <2>2. w'.pc = "record" \/ Free(w')
      BY <1>2, <1>8, <1>11, <2>1 DEF createSiteResource
    <2> QED BY <1>11, <2>2
  <1>12. CASE RecordResource
    <2> DEFINE ok == IF w.had THEN Goto("refetch") ELSE Ready(w)
    <2>1. ok \in WorkerType /\ Free(ok)
      BY <1>1, <1>3, <1>5
    <2>2. \E st : patchStatus(st, ok, Goto("rollback"))
      BY <1>12 DEF RecordResource
    <2> HIDE DEF ok
    <2>3. w'.pc \in {ok.pc, "rollback"}
      BY <1>5, <2>1, <2>2, PatchPC
    <2> QED BY <1>12, <2>1, <2>3
  <1>13. CASE AddFinalizer
    <2>1. Free([w EXCEPT !.pc = "site", !.mem = WithFinalizer])
      BY <1>1 DEF WorkerType
    <2>2. Free(w')
      BY <1>7, <1>13, <2>1 DEF AddFinalizer
    <2> QED BY <2>2
  <1>14. CASE ResolveSite
    <2>1. Free(w')
      BY <1>1, <1>2, <1>14 DEF ResolveSite, WorkerType
    <2> QED BY <2>1
  <1>15. CASE Adopt
    <2>1. Free(w')
      BY <1>2, <1>5, <1>15, PatchPC DEF Adopt
    <2> QED BY <2>1
  <1>16. CASE Rollback \/ updateSiteResource
    <2>1. Free(w')
      BY <1>1, <1>2, <1>3, <1>16 DEF Rollback, updateSiteResource
    <2> QED BY <2>1
  <1>17. CASE Refetch
    <2> DEFINE v == [w EXCEPT !.mem = cache[c0], !.pc = "update"]
    <2>1. v \in WorkerType /\ Free(v)
      BY <1>1 DEF WorkerType, PC
    <2>2. w' = v \/ w' = Ready(v)
      BY <1>17 DEF Refetch
    <2> HIDE DEF v
    <2>3. Free(w')
      BY <1>3, <2>1, <2>2
    <2> QED BY <2>3
  <1>18. CASE MarkReady \/ ReportFailure \/ Cleanup \/ RemoveFinalizer
    <2>1. Free(w')
      BY <1>5, <1>7, <1>18 DEF MarkReady, ReportFailure, Cleanup, RemoveFinalizer
    <2> QED BY <2>1
  <1> QED BY <1>9, <1>10, <1>11, <1>12, <1>13, <1>14, <1>15, <1>16, <1>17, <1>18
          DEF WorkerStep

\* Steps of others leave the worker where it is, or bring it to idle or to the start
\* of reconcile.
LEMMA OthersPC ==
  ASSUME TypeOK, [Next]_vars, ~WorkerStep
  PROVE  \/ UNCHANGED <<w, cr>> \/ UNCHANGED <<w, cache>> \/ w' = Idle
         \/ w'.pc \in {"cleanup", "site", "finalize"} /\ UNCHANGED <<cr, cache>>
  <1>1. ASSUME NEW c \in CR, Reconcile(c)
        PROVE  w' = Idle \/ (w'.pc \in {"cleanup", "site", "finalize"}
                             /\ UNCHANGED <<cr, cache>>)
    BY <1>1, IdleType DEF Reconcile, WorkerType
  <1> QED BY <1>1 DEF Next, CacheSync, Land, Environment, UserCreate, UserEdit, UserDelete,
             Drift, SiteReady, SiteLost, SiteReplaced, Crash, vars

\* No site resource is what the spec s asks for.
Vacant(s) ==
  (s.http => s.dom # NoDom) => \A r \in resources : ~(r.name = s.name /\ Asked(s, r))

LEMMA VacantInvNext ==
  ASSUME LinkInv, WholeInv, UseInv, VacantInv, late = {},
         ~Seen({"rename"}), Still, [Next]_vars
  PROVE  VacantInv'
  <1>1. /\ TypeOK /\ c0 \in CR /\ w \in WorkerType /\ mem \in ObjectType
        /\ mem.spec.name \in Name
    BY DEF LinkInv, TypeOK, WorkerType, ObjectType, SpecType, c0, mem
  <1>2. VacantInv <=> (w.pc \in {"creating", "create"} => Vacant(mem.spec))
    BY DEF VacantInv, Vacant
  <1>3. (w'.pc \in {"creating", "create"} => \A s : s = w'.mem.spec => Vacant(s)')
          => VacantInv'
    BY DEF VacantInv, Vacant, Asked, mem
  <1>4. ASSUME Retained, w'.pc \in {"creating", "create"} => Vacant(w'.mem.spec)
        PROVE  VacantInv'
    <2>1. \A s : Vacant(s) => Vacant(s)'
      <3> SUFFICES ASSUME NEW s, Vacant(s), s.http => s.dom # NoDom, NEW r \in resources'
                   PROVE  ~(r.name = s.name /\ Asked(s, r))
        BY DEF Vacant, Asked
      <3>1. PICK q \in resources : Became(r, q)
        BY <1>4 DEF Retained
      <3>2. r.name = q.name /\ SameUse(r, q)
        BY <3>1 DEF Became
      <3> QED BY <3>2 DEF Vacant, SameUse, Asked
    <2> QED BY <1>3, <1>4, <2>1
  <1>5. Retained \/ Created
    BY <1>1, RetainedStep
  <1>6. CASE WorkerStep
    <2>1. CASE ensureExists
      <3>1. UNCHANGED resources /\ w.pc = "list"
        BY <2>1 DEF ensureExists, Refused, pangolin, At
      <3>2. Retained
        BY <3>1 DEF Retained, Became, SameUse
      <3>3. w'.pc \in {"creating", "create"} => findSiteResource = {} /\ w'.mem = mem
        <4>1. \A y \in Why : Fail(y).pc = "fail"
          BY IdleType DEF Fail, WorkerType
        <4>2. \A r : [w EXCEPT !.pc = "adopt", !.rid = r.id, !.dom = r.dom].pc = "adopt"
          BY <1>1 DEF WorkerType
        <4>3. Goto("refetch").pc = "refetch" /\ Goto("creating").mem = mem
          BY <1>1 DEF Goto, WorkerType, mem
        <4> HIDE DEF findSiteResource
        <4> QED BY <2>1, <4>1, <4>2, <4>3 DEF ensureExists, Refused, Why
      <3>4. findSiteResource = {} => Vacant(mem.spec)
        <4>1. \A r \in resources : r.name = mem.spec.name => r \in Listed
          BY <1>1, SearchFindsName DEF Listed
        <4>2. w.sid = SiteId[mem.spec.site]
          BY <3>1 DEF UseInv, Alike, Working, PC, Sited
        <4> QED BY <4>1, <4>2 DEF findSiteResource, Vacant, Asked
      <3> QED BY <1>4, <3>2, <3>3, <3>4
    <2>2. CASE MarkCreating
      <3>1. w.pc = "creating" /\ UNCHANGED resources
        BY <2>2 DEF MarkCreating, At, pangolin
      <3>2. Retained
        BY <3>1 DEF Retained, Became, SameUse
      <3>3. Vacant(mem.spec)
        BY <1>2, <3>1
      <3>4. Alike(mem, cr[c0])
        BY <3>1 DEF UseInv, Working, PC
      <3>5. w'.pc # "fail" => w'.mem.spec = DecodedSpec(mem.spec, cr[c0].spec)
        <4> DEFINE st == [mem.st EXCEPT !.phase = "Creating"]
                   new == [cr[c0] EXCEPT !.st = Merge(cr[c0].st, mem.st, st)]
        <4>1. Fail("Error") \in WorkerType
          BY <1>1, FailType DEF Why
        <4>2. w' = [Goto("create") EXCEPT !.mem = Decoded(new, st)]
              \/ w' = [Fail("Error") EXCEPT !.mem.st = st]
          BY <2>2 DEF MarkCreating, patchStatus
        <4>3. Decoded(new, st).spec = DecodedSpec(mem.spec, cr[c0].spec)
          <5>1. cr[c0] \in ObjectType
            BY <1>1 DEF TypeOK
          <5>2. new.spec = cr[c0].spec /\ new \in [exists : BOOLEAN, del : BOOLEAN,
                  fin : BOOLEAN, gen : Nat, spec : SpecType,
                  st : {Merge(cr[c0].st, mem.st, st)}]
            BY <5>1 DEF ObjectType
          <5> QED BY <5>2 DEF Decoded
        <4> HIDE DEF new, st
        <4>4. [Goto("create") EXCEPT !.mem = Decoded(new, st)].mem = Decoded(new, st)
          BY <1>1 DEF Goto, WorkerType
        <4>5. [Fail("Error") EXCEPT !.mem.st = st].pc = "fail"
          <5>1. Fail("Error").pc = "fail"
            BY IdleType DEF Fail, WorkerType
          <5> QED BY <4>1, <5>1 DEF WorkerType
        <4> QED BY <4>2, <4>3, <4>4, <4>5
      <3>6. \A s : s = DecodedSpec(mem.spec, cr[c0].spec) => Vacant(s)
        <4>1. cr[c0].spec \in SpecType
          BY <1>1 DEF TypeOK, ObjectType
        <4>2. /\ DecodedSpec(mem.spec, cr[c0].spec).name = mem.spec.name
              /\ DecodedSpec(mem.spec, cr[c0].spec).http = mem.spec.http
              /\ DecodedSpec(mem.spec, cr[c0].spec).dest = mem.spec.dest
              /\ DecodedSpec(mem.spec, cr[c0].spec).dom = mem.spec.dom
              /\ DecodedSpec(mem.spec, cr[c0].spec).site = mem.spec.site
          BY <3>4, <4>1 DEF DecodedSpec, Kept, Alike, SpecType
        <4> QED BY <3>3, <4>2 DEF Vacant, Asked
      <3> QED BY <1>4, <3>2, <3>5, <3>6
    <2>3. CASE ~ensureExists /\ ~MarkCreating
      <3>1. w'.pc \notin {"creating", "create"}
        BY <1>1, <1>6, <2>3, CreatePC
      <3> QED BY <1>3, <3>1
    <2> QED BY <2>1, <2>2, <2>3
  <1>7. CASE ~WorkerStep
    <2>1. Retained
      BY <1>5, <1>7 DEF Created, WorkerStep
    <2>2. w' = w \/ w'.pc \in {"idle", "cleanup", "site", "finalize"}
      <3>1. Idle.pc = "idle"
        BY DEF Idle
      <3> QED BY <1>1, <1>7, <3>1, OthersPC
    <2> QED BY <1>2, <1>4, <2>1, <2>2 DEF mem
  <1> QED BY <1>6, <1>7

LEMMA NoDuplicateNext ==
  ASSUME NameInv, [Next]_vars
  PROVE  NoDuplicate'
  <1> DEFINE Excepted == {"rename", "move", "resite", "late", "trim"}
  <1> SUFFICES ASSUME ~Seen(Excepted)', NEW r1 \in resources', NEW r2 \in resources',
                      r1.by # NoCR, SameUse(r1, r2)
               PROVE  r1 = r2
    BY DEF NoDuplicate, SameUse
  <1>1. TypeOK /\ LinkInv /\ WholeInv
    BY DEF NameInv, LinkInv
  <1>2. ~Seen(Excepted)
    BY <1>1, FaultsGrowNext DEF FaultsGrow, Seen
  <1>3. /\ ~Seen({"rename"}) /\ Still /\ UseInv /\ VacantInv /\ late = {}
        /\ \A q1, q2 \in resources : q1.by # NoCR /\ SameUse(q1, q2) => q1 = q2
    BY <1>2 DEF Seen, Still, NameInv, NoneLate, NoDuplicate
  <1>4. CASE Retained
    <2>1. PICK q1 \in resources, q2 \in resources :
            Became(r1, q1) /\ Became(r2, q2) /\ (q1 = q2 => r1 = r2)
      BY <1>4 DEF Retained
    <2>2. SameUse(q1, q2) /\ q1.by # NoCR
      BY <1>3, <2>1 DEF Became, SameUse
    <2> QED BY <1>3, <2>1, <2>2
  <1>5. CASE Created
    <2> DEFINE x == CreatedResource(nextId)
    <2>1. resources' = resources \cup {x} /\ w.pc = "create"
      BY <1>5 DEF Created, createSiteResource, At
    <2>2. /\ x.name = mem.spec.name /\ x.http = mem.spec.http /\ x.dest = mem.spec.dest
          /\ x.dom = SentDom /\ x.sid = w.sid
      BY DEF CreatedResource
    <2>3. mem.spec.http => SentDom = mem.spec.dom /\ mem.spec.dom # NoDom
      <3>1. mem \in ObjectType /\ Resolvable(mem.spec) /\ w.pc \in Working
        BY <1>1, <1>5, <2>1 DEF Created, TypeOK, WorkerType, Working, PC, mem
      <3> QED BY <1>1, <1>3, <3>1, SentIsAsked, MemWhole
    <2>4. w.sid = SiteId[mem.spec.site]
      BY <1>3, <2>1 DEF UseInv, Alike, Working, PC, Sited
    <2>5. \A r \in resources : ~(r.name = mem.spec.name /\ Asked(mem.spec, r))
      BY <1>3, <2>1, <2>3 DEF VacantInv
    <2> HIDE DEF x
    <2>6. \A r \in resources : ~SameUse(x, r) /\ ~SameUse(r, x)
      BY <2>2, <2>3, <2>4, <2>5 DEF SameUse, Asked
    <2> QED BY <1>3, <2>1, <2>6
  <1> QED BY <1>1, <1>3, <1>4, <1>5, RetainedStep

LEMMA NameInvInit == Init => NameInv
  <1> SUFFICES ASSUME Init PROVE NameInv
    OBVIOUS
  <1>1. LinkInv
    BY LinkInvInit
  <1>2. /\ ~Gone(0).fin /\ Gone(0).st.rid = 0 /\ Gone(0).gen = 0
    BY DEF Gone, ZeroStatus
  <1>3. /\ \A c \in CR : cr[c] = Gone(0) /\ cache[c] = Gone(0)
        /\ w.pc = "idle" /\ resources \subseteq Foreign /\ late = {}
        /\ \A s \in Site : siteId[s] = 0
    BY DEF Init, Idle
  <1>4. \A r \in Foreign : r.id # 0 /\ r.by = NoCR
    BY ConstantsAssumption DEF ResourceType
  <1>5. IdsUnique
    BY <1>3, ConstantsAssumption DEF IdsUnique
  <1>6. GenInv /\ SitesInv /\ NoneLate /\ WholeInv
    <2>1. ~Gone(0).exists
      BY DEF Gone
    <2> QED BY <1>2, <1>3, <2>1 DEF GenInv, SitesInv, NoneLate, WholeInv
  <1>7. UseInv
    BY <1>2, <1>3, <1>4 DEF UseInv, Held, Stands, Working
  <1>8. VacantInv /\ NoDuplicate
    BY <1>3, <1>4 DEF VacantInv, NoDuplicate
  <1> QED BY <1>1, <1>5, <1>6, <1>7, <1>8 DEF NameInv

LEMMA NameInvNext == NameInv /\ [Next]_vars => NameInv'
  <1> SUFFICES ASSUME NameInv, [Next]_vars PROVE NameInv'
    OBVIOUS
  <1>1. /\ TypeOK /\ LinkInv /\ IdsUnique /\ GenInv /\ SitesInv /\ NoneLate /\ WholeInv
        /\ ~Seen({"rename"}) => UseInv
    BY DEF NameInv, LinkInv
  <1>2. FaultsGrow
    BY <1>1, FaultsGrowNext
  <1>3. LinkInv' /\ IdsUnique' /\ GenInv' /\ SitesInv' /\ NoneLate' /\ WholeInv'
    BY <1>1, LinkInvNext, IdsUniqueNext, GenInvNext, SitesInvNext, NoneLateNext, WholeInvNext
  <1>4. ~Seen({"rename"})' => UseInv'
    <2>1. ~Seen({"rename"})' => ~Seen({"rename"})
      BY <1>2 DEF FaultsGrow, Seen
    <2> QED BY <1>1, <2>1, UseInvNext
  <1>5. ~Seen({"rename", "move", "resite", "late", "trim"})' => VacantInv'
    <2>1. ~Seen({"rename", "move", "resite", "late", "trim"})' =>
            /\ ~Seen({"rename", "move", "resite", "late", "trim"}) /\ ~Seen({"rename"})
            /\ ~Seen({"late"}) /\ Still
      BY <1>2 DEF FaultsGrow, Seen, Still
    <2> QED BY <1>1, <2>1, VacantInvNext DEF NameInv, NoneLate
  <1> QED BY <1>3, <1>4, <1>5, NoDuplicateNext DEF NameInv

LEMMA NameInvariant == Spec => []NameInv
  BY NameInvInit, NameInvNext, PTL DEF Spec

\* ensureExists lists before createSiteResource creates: whatever crashes, gets lost
\* or is read late, the operator creates no site resource of a name and a place that
\* a site resource has already, for any number of objects and sites, as long as no
\* edit changes what an object asks for, sites keep their siteId, no creation takes
\* effect after the client gave up on it and ResolveDomain trims no full domain twice.
THEOREM CreatedOnce == Spec => []NoDuplicate
  <1>1. NameInv => NoDuplicate
    BY DEF NameInv
  <1> QED BY <1>1, NameInvariant, PTL

-----------------------------------------------------------------------------
(* Links, and NoOrphan. *)

\* Nothing happened that NoOrphan makes an exception for.
Undisturbed == ~Seen({"crash", "apiLost", "late", "del", "lag", "rename"})

\* Where the identifier in memory is the one in the status at the API server.
Synced == Working \ {"rollback", "ready", "fail"}

\* The worker v has the link of its object, and gives it up (Reset) only after the
\* site resource is gone.
Sync(v) ==
  /\ v.pc \in Synced => v.mem.st.rid = cr[v.c].st.rid
  /\ v.pc = "fail" /\ v.why = "Reset" =>
       v.mem.st.rid = cr[v.c].st.rid /\ v.mem.st.rid \notin live

\* Nothing that was created for its object can be lost while it links another site
\* resource.
Alone(v) ==
  \A r \in resources : r.by = v.c =>
    /\ v.pc \notin {"adopt", "creating", "create"}
    /\ v.pc = "record" => r.id = v.rid

OrphanInv == NameInv /\ (Undisturbed => Linked /\ Sync(w) /\ Alone(w))

LEMMA PatchSync ==
  ASSUME TypeOK, NEW st \in StatusType, NEW ok \in WorkerType, NEW ko \in WorkerType,
         patchStatus(st, ok, ko)
  PROVE  /\ \A c \in CR : c # c0 => cr'[c] = cr[c]
         /\ cr'[c0].st.rid \in {st.rid, cr[c0].st.rid}
         /\ st.rid = mem.st.rid => cr'[c0].st.rid = cr[c0].st.rid
         /\ \/ /\ w'.pc = ok.pc /\ w'.c = ok.c /\ w'.rid = ok.rid /\ w'.why = ok.why
               /\ mem.st.rid = cr[c0].st.rid =>
                    w'.mem.st.rid = st.rid /\ cr'[c0].st.rid = st.rid
            \/ w'.pc = ko.pc /\ w'.c = ko.c /\ w'.rid = ko.rid /\ w'.why = ko.why
  <1> DEFINE new == [cr[c0] EXCEPT !.st = Merge(cr[c0].st, mem.st, st)]
             Patched == cr' = [cr EXCEPT ![c0] = new]
  <1>1. c0 \in CR /\ cr[c0] \in ObjectType /\ cr \in [CR -> ObjectType]
    BY DEF TypeOK, WorkerType, c0
  <1>2. Merge(cr[c0].st, mem.st, st).rid =
          IF st.rid # mem.st.rid THEN st.rid ELSE cr[c0].st.rid
    BY DEF Merge, Sent
  <1>3. /\ new.st = Merge(cr[c0].st, mem.st, st)
        /\ new \in [exists : BOOLEAN, del : BOOLEAN, fin : BOOLEAN, gen : Nat,
                    spec : SpecType, st : {Merge(cr[c0].st, mem.st, st)}]
    BY <1>1 DEF ObjectType
  <1>4. Decoded(new, st).st.rid = IF new.st.rid = 0 THEN st.rid ELSE new.st.rid
    BY <1>3 DEF Decoded, DecodedStatus, Kept
  <1>5. /\ \A x : LET v == [ok EXCEPT !.mem = x]
                  IN  /\ v.mem = x /\ v.pc = ok.pc /\ v.c = ok.c /\ v.rid = ok.rid
                      /\ v.why = ok.why
        /\ LET v == [ko EXCEPT !.mem.st = st]
           IN  v.pc = ko.pc /\ v.c = ko.c /\ v.rid = ko.rid /\ v.why = ko.why
    BY DEF WorkerType
  <1>6. \/ Patched /\ w' = [ok EXCEPT !.mem = Decoded(new, st)]
        \/ (Patched \/ UNCHANGED cr) /\ w' = [ko EXCEPT !.mem.st = st]
    BY DEF patchStatus
  <1>7. /\ \A c \in CR : c # c0 => cr'[c] = cr[c]
        /\ Patched => cr'[c0] = new
    BY <1>1, <1>6
  <1> HIDE DEF new
  <1>8. /\ cr'[c0].st.rid \in {st.rid, cr[c0].st.rid}
        /\ st.rid = mem.st.rid => cr'[c0].st.rid = cr[c0].st.rid
    BY <1>2, <1>3, <1>6, <1>7
  <1>9. CASE Patched /\ w' = [ok EXCEPT !.mem = Decoded(new, st)]
    <2>1. /\ w'.mem = Decoded(new, st)
          /\ w'.pc = ok.pc /\ w'.c = ok.c /\ w'.rid = ok.rid /\ w'.why = ok.why
      BY <1>5, <1>9
    <2>2. mem.st.rid = cr[c0].st.rid => cr'[c0].st.rid = st.rid
      BY <1>2, <1>3, <1>7, <1>9
    <2>3. mem.st.rid = cr[c0].st.rid => w'.mem.st.rid = st.rid
      BY <1>2, <1>3, <1>4, <2>1
    <2> QED BY <1>7, <1>8, <2>1, <2>2, <2>3
  <1>10. CASE w' = [ko EXCEPT !.mem.st = st]
    BY <1>5, <1>7, <1>8, <1>10
  <1> QED BY <1>6, <1>9, <1>10

LEMMA ReturnSync ==
  ASSUME TypeOK, NEW st \in StatusType, patchAndReturn(st)
  PROVE  /\ \A c \in CR : c # c0 => cr'[c] = cr[c]
         /\ st.rid = mem.st.rid => cr'[c0].st.rid = cr[c0].st.rid
  <1>1. c0 \in CR /\ cr[c0] \in ObjectType /\ cr \in [CR -> ObjectType]
    BY DEF TypeOK, WorkerType, c0
  <1>2. Merge(cr[c0].st, mem.st, st).rid =
          IF st.rid # mem.st.rid THEN st.rid ELSE cr[c0].st.rid
    BY DEF Merge, Sent
  <1>3. CASE UNCHANGED cr
    BY <1>3
  <1>4. CASE cr' = [cr EXCEPT ![c0].st = Merge(@, mem.st, st)]
    <2>1. cr'[c0].st = Merge(cr[c0].st, mem.st, st) /\ \A c \in CR : c # c0 => cr'[c] = cr[c]
      BY <1>1, <1>4 DEF ObjectType
    <2> QED BY <1>2, <2>1
  <1> QED BY <1>3, <1>4 DEF patchAndReturn

\* The status at the API server changes its link where an identifier is recorded, or
\* where the site resource that it links is gone.
RidMoves ==
  \A c \in CR : cr'[c].st.rid # cr[c].st.rid =>
    /\ c = c0
    /\ w.pc \in {"adopt", "record"} \/ cr[c].st.rid \notin live
    /\ w.pc = "record" => cr'[c].st.rid = w.rid

\* The worker stays in step with the status at the API server, and gives a link up
\* only when its site resource is gone.
LEMMA SyncWorker ==
  ASSUME LinkInv, Sync(w), WorkerStep, ~Seen({"apiLost", "lag"})'
  PROVE  Sync(w)' /\ RidMoves
  <1> DEFINE S(v) ==
        /\ v.pc \in Synced => v.mem.st.rid = cr'[v.c].st.rid
        /\ v.pc = "fail" /\ v.why = "Reset" =>
             v.mem.st.rid = cr'[v.c].st.rid /\ v.mem.st.rid \notin live'
      Goal == S(w') /\ RidMoves
  <1>1. /\ TypeOK /\ w \in WorkerType /\ c0 \in CR /\ mem.st \in StatusType
        /\ mem \in ObjectType /\ w.rid \in Nat /\ w.dom \in Seq(Char)
        /\ cache[c0] \in ObjectType /\ cr \in [CR -> ObjectType]
    BY DEF LinkInv, TypeOK, WorkerType, ObjectType, c0, mem
  <1>2. w.pc \in Synced => mem.st.rid = cr[c0].st.rid
    BY DEF Sync, mem, c0
  <1>3. UNCHANGED cr => RidMoves
    BY DEF RidMoves
  <1>4. /\ \A pc : Goto(pc).mem = mem /\ Goto(pc).c = c0 /\ Goto(pc).pc = pc
        /\ \A pc \in PC : Goto(pc) \in WorkerType
    BY <1>1 DEF Goto, WorkerType, mem, c0
  <1>5. /\ \A y : /\ Fail(y).pc = "fail" /\ Fail(y).why = y /\ Fail(y).mem = mem
                  /\ Fail(y).c = c0
        /\ Fail("Error") \in WorkerType
    BY <1>1, IdleType, FailType DEF Fail, WorkerType, Why
  <1>6. \A v : Ready(v).pc = "ready"
    BY IdleType DEF Ready, WorkerType
  <1>7. Idle.pc = "idle"
    BY DEF Idle
  <1>8. /\ "fail" \notin Synced /\ "ready" \notin Synced /\ "idle" \notin Synced
        /\ "rollback" \notin Synced /\ "unfinalize" \notin Synced
    BY DEF Synced, Working, PC
  <1>9. \A v : S(Ready(v))
    BY <1>6, <1>8
  <1>10. \A y : y # "Reset" => S(Fail(y))
    BY <1>5, <1>8
  <1>11. Refused => S(w')
    BY <1>10 DEF Refused
  <1>12. Requeue \/ Forget => S(w')
    BY <1>7, <1>8 DEF Requeue, Forget
  <1>13. S(w') => Sync(w)'
    BY DEF Sync, live
  <1>14. Get(c0) => cache[c0] = cr[c0]
    <2>1. Fault("lag") => Seen({"lag"})'
      BY <1>1 DEF Fault, Seen, TypeOK
    <2>2. ~Seen({"lag"})'
      BY DEF Seen
    <2> QED BY <2>1, <2>2 DEF Get
  <1>15. ASSUME AddFinalizer PROVE Goal
    <2>1. /\ [w EXCEPT !.pc = "site", !.mem = WithFinalizer].mem = WithFinalizer
          /\ [w EXCEPT !.pc = "site", !.mem = WithFinalizer].c = c0
      BY <1>1 DEF WorkerType, c0
    <2>2. \/ cr[c0] = mem /\ cr' = [cr EXCEPT ![c0] = WithFinalizer]
          \/ UNCHANGED cr
      BY <1>15 DEF AddFinalizer, Unmodified
    <2>3. RidMoves
      BY <1>1, <2>2, FinalizerKeeps DEF RidMoves
    <2>4. CASE w' = [w EXCEPT !.pc = "site", !.mem = WithFinalizer]
               /\ cr[c0] = mem /\ cr' = [cr EXCEPT ![c0] = WithFinalizer]
      <3>1. w'.mem.st.rid = cr'[w'.c].st.rid
        BY <1>1, <2>1, <2>4
      <3>2. w'.pc = "site"
        BY <1>1, <2>4 DEF WorkerType
      <3> QED BY <2>3, <3>1, <3>2
    <2>5. CASE Requeue
      BY <1>12, <2>3, <2>5
    <2> QED BY <1>15, <2>4, <2>5 DEF AddFinalizer, Unmodified
  <1>16. ASSUME ResolveSite PROVE Goal
    <2>1. w.pc = "site" /\ UNCHANGED cr
      BY <1>16 DEF ResolveSite, At
    <2>2. mem.st.rid = cr[c0].st.rid
      BY <1>2, <2>1 DEF Synced, Working, PC
    <2>3. \A s, h : LET v == [w EXCEPT !.pc = "list", !.sid = s, !.had = h]
                    IN  v.pc = "list" /\ v.mem = mem /\ v.c = c0
      BY <1>1 DEF WorkerType, mem, c0
    <2>4. \/ \E s, h : w' = [w EXCEPT !.pc = "list", !.sid = s, !.had = h]
          \/ w' = Fail("Pending")
      BY <1>16 DEF ResolveSite
    <2>5. S(w')
      <3>1. CASE w' = Fail("Pending")
        BY <1>10, <3>1
      <3>2. CASE \E s, h : w' = [w EXCEPT !.pc = "list", !.sid = s, !.had = h]
        BY <2>1, <2>2, <2>3, <3>2
      <3> QED BY <2>4, <3>1, <3>2
    <2> QED BY <1>3, <2>1, <2>5
  <1>17. ASSUME ensureExists PROVE Goal
    <2>1. w.pc = "list" /\ UNCHANGED cr
      BY <1>17 DEF ensureExists, At
    <2>2. mem.st.rid = cr[c0].st.rid
      BY <1>2, <2>1 DEF Synced, Working, PC
    <2>3. \A r : LET v == [w EXCEPT !.pc = "adopt", !.rid = r.id, !.dom = r.dom]
                 IN  v.pc = "adopt" /\ v.mem = mem /\ v.c = c0
      BY <1>1 DEF WorkerType, mem, c0
    <2>4. \/ w' = Goto("refetch") \/ w' = Goto("creating") \/ Refused
          \/ \E r : w' = [w EXCEPT !.pc = "adopt", !.rid = r.id, !.dom = r.dom]
      BY <1>17 DEF ensureExists
    <2>5. S(w')
      <3>1. CASE Refused
        BY <1>11, <3>1
      <3>2. CASE \E r : w' = [w EXCEPT !.pc = "adopt", !.rid = r.id, !.dom = r.dom]
        BY <2>1, <2>2, <2>3, <3>2
      <3>3. CASE w' = Goto("refetch") \/ w' = Goto("creating")
        BY <1>4, <2>1, <2>2, <3>3
      <3> QED BY <2>4, <3>1, <3>2, <3>3
    <2> QED BY <1>3, <2>1, <2>5
  <1>18. ASSUME Adopt PROVE Goal
    <2> DEFINE st == [mem.st EXCEPT !.rid = w.rid, !.dom = w.dom, !.phase = "Creating"]
    <2>1. st \in StatusType /\ st.rid = w.rid
      BY <1>1 DEF StatusType, Phase
    <2>2. patchStatus(st, Goto("update"), Fail("Error")) /\ w.pc = "adopt"
      BY <1>18 DEF Adopt, At
    <2>3. Goto("update") \in WorkerType
      BY <1>4 DEF PC
    <2>4. mem.st.rid = cr[c0].st.rid
      BY <1>2, <2>2 DEF Synced, Working, PC
    <2> HIDE DEF st
    <2>5. /\ \A c \in CR : c # c0 => cr'[c] = cr[c]
          /\ \/ w'.pc = "update" /\ w'.c = c0 /\ w'.mem.st.rid = cr'[c0].st.rid
             \/ w'.pc = "fail" /\ w'.why = "Error"
      BY <1>1, <1>4, <1>5, <2>1, <2>2, <2>3, <2>4, PatchSync
    <2>6. RidMoves
      BY <2>2, <2>5 DEF RidMoves
    <2>7. S(w')
      BY <1>8, <2>5
    <2> QED BY <2>6, <2>7
  <1>19. ASSUME MarkCreating PROVE Goal
    <2> DEFINE st == [mem.st EXCEPT !.phase = "Creating"]
    <2>1. st \in StatusType /\ st.rid = mem.st.rid
      BY <1>1 DEF StatusType, Phase
    <2>2. patchStatus(st, Goto("create"), Fail("Error")) /\ w.pc = "creating"
      BY <1>19 DEF MarkCreating, At
    <2>3. Goto("create") \in WorkerType
      BY <1>4 DEF PC
    <2>4. mem.st.rid = cr[c0].st.rid
      BY <1>2, <2>2 DEF Synced, Working, PC
    <2> HIDE DEF st
    <2>5. /\ \A c \in CR : c # c0 => cr'[c] = cr[c]
          /\ cr'[c0].st.rid = cr[c0].st.rid
          /\ \/ w'.pc = "create" /\ w'.c = c0 /\ w'.mem.st.rid = cr'[c0].st.rid
             \/ w'.pc = "fail" /\ w'.why = "Error"
      BY <1>1, <1>4, <1>5, <2>1, <2>2, <2>3, <2>4, PatchSync
    <2>6. RidMoves
      BY <2>5 DEF RidMoves
    <2>7. S(w')
      BY <1>8, <2>5
    <2> QED BY <2>6, <2>7
  <1>20. ASSUME createSiteResource PROVE Goal
    <2> DEFINE v == [w EXCEPT !.pc = "record", !.rid = nextId, !.dom = SentDom]
    <2>1. w.pc = "create" /\ UNCHANGED cr
      BY <1>20 DEF createSiteResource, At
    <2>2. mem.st.rid = cr[c0].st.rid
      BY <1>2, <2>1 DEF Synced, Working, PC
    <2>3. v.pc = "record" /\ v.mem = mem /\ v.c = c0
      BY <1>1 DEF WorkerType, mem, c0
    <2>4. w' = v \/ \E y : y # "Reset" /\ w' = Fail(y)
      BY <1>20 DEF createSiteResource, Refused
    <2> HIDE DEF v
    <2>5. S(w')
      <3>1. CASE \E y : y # "Reset" /\ w' = Fail(y)
        BY <1>10, <3>1
      <3>2. CASE w' = v
        BY <2>1, <2>2, <2>3, <3>2
      <3> QED BY <2>4, <3>1, <3>2
    <2> QED BY <1>3, <2>1, <2>5
  <1>21. ASSUME RecordResource PROVE Goal
    <2> DEFINE st == [mem.st EXCEPT !.rid = w.rid, !.dom = w.dom, !.phase = "Creating"]
               ok == IF w.had THEN Goto("refetch") ELSE Ready(w)
    <2>1. st \in StatusType /\ st.rid = w.rid
      BY <1>1 DEF StatusType, Phase
    <2>2. patchStatus(st, ok, Goto("rollback")) /\ w.pc = "record"
      BY <1>21 DEF RecordResource, At
    <2>3. Goto("rollback") \in WorkerType /\ Goto("refetch") \in WorkerType
      BY <1>4 DEF PC
    <2>4. ok \in WorkerType /\ ((ok.pc = "refetch" /\ ok.c = c0) \/ ok.pc = "ready")
      BY <1>1, <1>4, <1>6, <2>3, ReadyType
    <2>5. mem.st.rid = cr[c0].st.rid
      BY <1>2, <2>2 DEF Synced, Working, PC
    <2> HIDE DEF st, ok
    <2>6. /\ \A c \in CR : c # c0 => cr'[c] = cr[c]
          /\ cr'[c0].st.rid \in {w.rid, cr[c0].st.rid}
          /\ \/ w'.pc = ok.pc /\ w'.c = ok.c /\ w'.mem.st.rid = cr'[c0].st.rid
             \/ w'.pc = "rollback"
      BY <1>1, <1>4, <2>1, <2>2, <2>3, <2>4, <2>5, PatchSync
    <2>7. RidMoves
      BY <2>2, <2>6 DEF RidMoves
    <2>8. S(w')
      BY <1>8, <2>4, <2>6
    <2> QED BY <2>7, <2>8
  <1>22. ASSUME Rollback PROVE Goal
    <2>1. UNCHANGED cr /\ w' = Fail("Error")
      BY <1>22 DEF Rollback
    <2>2. S(w')
      BY <1>10, <2>1
    <2> QED BY <1>3, <2>1, <2>2
  <1>23. ASSUME Refetch PROVE Goal
    <2> DEFINE v == [w EXCEPT !.mem = cache[c0], !.pc = "update"]
    <2>1. UNCHANGED cr /\ cache[c0] = cr[c0] /\ (w' = v \/ w' = Ready(v))
      BY <1>14, <1>23 DEF Refetch
    <2>2. v.mem = cr[c0] /\ v.c = c0 /\ v.pc = "update"
      BY <1>1, <2>1 DEF WorkerType, c0
    <2> HIDE DEF v
    <2>3. S(v)
      BY <2>1, <2>2
    <2>4. S(Ready(v))
      BY <1>9
    <2> HIDE DEF S
    <2>5. S(w')
      BY <2>1, <2>3, <2>4
    <2> QED BY <1>3, <2>1, <2>5
  <1>24. ASSUME updateSiteResource PROVE Goal
    <2>1. UNCHANGED cr /\ w.pc = "update"
      BY <1>24 DEF updateSiteResource, At
    <2>2. mem.st.rid = cr[c0].st.rid
      BY <1>2, <2>1 DEF Synced, Working, PC
    <2>3. \/ w' = Ready(w) \/ w' = Fail("Error")
          \/ w' = Fail("Reset") /\ mem.st.rid \notin live /\ UNCHANGED resources
      BY <1>24 DEF updateSiteResource, pangolin
    <2>4. CASE w' = Fail("Reset") /\ mem.st.rid \notin live /\ UNCHANGED resources
      <3>1. live' = live
        BY <2>4 DEF live
      <3>2. w'.pc = "fail" /\ w'.mem = mem /\ w'.c = c0
        BY <1>5, <2>4
      <3> HIDE DEF live
      <3>3. S(w')
        BY <1>8, <2>1, <2>2, <2>4, <3>1, <3>2
      <3> QED BY <1>3, <2>1, <3>3
    <2>5. CASE w' = Ready(w) \/ w' = Fail("Error")
      <3>1. S(Ready(w)) /\ S(Fail("Error"))
        BY <1>9, <1>10
      <3> HIDE DEF S
      <3>2. S(w')
        BY <2>5, <3>1
      <3> QED BY <1>3, <2>1, <3>2
    <2> QED BY <2>3, <2>4, <2>5
  <1>25. ASSUME MarkReady PROVE Goal
    <2> DEFINE st == [mem.st EXCEPT !.phase = "Ready", !.obs = mem.gen,
                        !.cond = [reason |-> "Reconciled", gen |-> mem.gen]]
    <2>1. st \in StatusType /\ st.rid = mem.st.rid
      <3>1. mem.gen \in Nat
        BY <1>1 DEF ObjectType
      <3> QED BY <1>1, <3>1 DEF StatusType, Phase, Reason
    <2>2. patchAndReturn(st) /\ Requeue
      BY <1>25 DEF MarkReady
    <2> HIDE DEF st
    <2>3. \A c \in CR : cr'[c].st.rid = cr[c].st.rid
      BY <1>1, <2>1, <2>2, ReturnSync
    <2>4. RidMoves
      BY <2>3 DEF RidMoves
    <2> QED BY <1>12, <2>2, <2>4
  <1>26. ASSUME ReportFailure PROVE Goal
    <2>1. FailureStatus \in StatusType
          /\ (FailureStatus.rid = mem.st.rid \/ (FailureStatus.rid = 0 /\ w.why = "Reset"))
      <3>1. mem.gen \in Nat
        BY <1>1 DEF ObjectType
      <3> QED BY <1>1, <3>1 DEF FailureStatus, StatusType, Phase, Reason
    <2>2. patchAndReturn(FailureStatus) /\ (Requeue \/ Forget) /\ w.pc = "fail"
      BY <1>26 DEF ReportFailure, At
    <2>3. /\ \A c \in CR : c # c0 => cr'[c] = cr[c]
          /\ FailureStatus.rid = mem.st.rid => cr'[c0].st.rid = cr[c0].st.rid
      BY <1>1, <2>1, <2>2, ReturnSync
    <2>4. w.why = "Reset" => cr[c0].st.rid \notin live
      BY <2>2 DEF Sync, mem, c0
    <2>5. RidMoves
      BY <2>1, <2>2, <2>3, <2>4 DEF RidMoves
    <2> QED BY <1>12, <2>2, <2>5
  <1>27. ASSUME Cleanup PROVE Goal
    <2>1. UNCHANGED cr /\ (w' = Goto("unfinalize") \/ Requeue)
      BY <1>27 DEF Cleanup
    <2>2. S(Goto("unfinalize"))
      BY <1>4, <1>8
    <2> HIDE DEF S
    <2>3. S(w')
      BY <1>12, <2>1, <2>2
    <2> QED BY <1>3, <2>1, <2>3
  <1>28. ASSUME RemoveFinalizer PROVE Goal
    <2>1. /\ UNCHANGED cr \/ (cr[c0] = mem /\ cr' = [cr EXCEPT ![c0] = Gone(mem.gen)])
          /\ Requeue \/ Forget
          /\ w.pc = "unfinalize"
      BY <1>28 DEF RemoveFinalizer, Unmodified, At
    <2>2. mem.st.rid \notin live
      BY <2>1 DEF LinkInv, WorkerInv
    <2>3. RidMoves
      BY <1>1, <1>3, <2>1, <2>2 DEF RidMoves
    <2> QED BY <1>12, <2>1, <2>3
  <1> HIDE DEF Goal
  <1>29. Goal
    BY <1>15, <1>16, <1>17, <1>18, <1>19, <1>20, <1>21, <1>22, <1>23, <1>24, <1>25, <1>26,
       <1>27, <1>28 DEF WorkerStep
  <1> QED BY <1>13, <1>29 DEF Goal

\* Steps of others change no link, and site resources only go.
LEMMA OthersKeep ==
  ASSUME LinkInv, late = {}, [Next]_vars, ~WorkerStep
  PROVE  /\ \A c \in CR : cr'[c].st.rid = cr[c].st.rid
         /\ resources' \subseteq resources
         /\ w' = w \/ Crash \/ \E c \in CR : Reconcile(c)
  <1> DEFINE Goal == /\ \A c \in CR : cr'[c].st.rid = cr[c].st.rid
                     /\ resources' \subseteq resources
                     /\ w' = w \/ Crash \/ \E c \in CR : Reconcile(c)
  <1>1. /\ TypeOK /\ ObjectsInv
        /\ \A c \in CR : (cr[c].fin => cr[c].exists) /\ cr[c] \in ObjectType
    BY DEF LinkInv, ObjectsInv, TypeOK
  <1>2. ASSUME NEW c \in CR, CacheSync(c) \/ Reconcile(c) PROVE Goal
    BY <1>2 DEF CacheSync, Reconcile, pangolin
  <1>3. ASSUME NEW c \in CR, NEW s \in Specs[c], UserCreate(c, s) PROVE Goal
    <2>1. NewObject(cr[c].gen + 1, s).st.rid = 0 /\ cr[c].st.rid = 0
      BY <1>1, <1>3 DEF NewObject, ZeroStatus, UserCreate, ObjectsInv
    <2>2. \A d \in CR : cr'[d] = IF d = c THEN NewObject(cr[c].gen + 1, s) ELSE cr[d]
      BY <1>1, <1>3 DEF UserCreate, TypeOK
    <2> QED BY <1>3, <2>1, <2>2 DEF UserCreate, pangolin
  <1>4. ASSUME NEW c \in CR, NEW s \in Specs[c], UserEdit(c, s) PROVE Goal
    <2>1. \A d \in CR : cr'[d].st = cr[d].st
      BY <1>1, <1>4 DEF UserEdit, TypeOK, ObjectType
    <2> QED BY <1>4, <2>1 DEF UserEdit, pangolin
  <1>5. ASSUME NEW c \in CR, UserDelete(c) PROVE Goal
    <2>1. Deleted(cr[c]).st.rid = cr[c].st.rid
      BY <1>1 DEF Deleted, Gone, ZeroStatus, ObjectsInv, ObjectType
    <2>2. \A d \in CR : cr'[d] = IF d = c THEN Deleted(cr[c]) ELSE cr[d]
      BY <1>1, <1>5 DEF UserDelete, TypeOK
    <2> QED BY <1>5, <2>1, <2>2 DEF UserDelete, pangolin
  <1>6. ASSUME NEW id, Drift(id) PROVE Goal
    BY <1>6 DEF Drift, DeleteSiteResource
  <1>7. ASSUME NEW s, SiteReady(s) \/ SiteLost(s) \/ SiteReplaced(s) PROVE Goal
    BY <1>7 DEF SiteReady, SiteLost, SiteReplaced, pangolin
  <1>8. ASSUME Crash PROVE Goal
    BY <1>8 DEF Crash, pangolin
  <1>9. ASSUME UNCHANGED vars PROVE Goal
    BY <1>9 DEF vars, pangolin
  <1> HIDE DEF Goal
  <1>10. ASSUME Environment PROVE Goal
    BY <1>3, <1>4, <1>5, <1>6, <1>7, <1>8, <1>10 DEF Environment
  <1>11. ASSUME \E c \in CR : CacheSync(c) \/ Reconcile(c) PROVE Goal
    BY <1>2, <1>11
  <1>12. Goal
    BY <1>9, <1>10, <1>11 DEF Next
  <1> QED BY <1>12 DEF Goal

\* A site resource of the object that the worker has at hand is found by its
\* identifier: adopting another site resource, or creating one, loses nothing.
LEMMA NothingListed ==
  ASSUME NameInv, Undisturbed, Linked, Sync(w), ensureExists,
         w'.pc \in {"adopt", "creating"}
  PROVE  \A r \in resources : r.by # c0
  <1> SUFFICES ASSUME NEW r \in resources, r.by = c0 PROVE FALSE
    OBVIOUS
  <1>1. /\ TypeOK /\ UseInv /\ c0 \in CR /\ mem \in ObjectType /\ w \in WorkerType
        /\ mem.spec.name \in Name
    BY DEF NameInv, LinkInv, Undisturbed, Seen, TypeOK, WorkerType, ObjectType, SpecType,
           c0, mem
  <1>2. w.pc = "list"
    BY DEF ensureExists, At
  <1>3. r.id = mem.st.rid
    <2>1. c0 # NoCR
      BY <1>1, ConstantsAssumption
    <2> QED BY <1>2, <2>1 DEF Linked, Sync, Synced, Working, PC, mem, c0
  <1>4. r.name = mem.spec.name
    BY <1>1, <1>2, <1>3 DEF UseInv, Alike, Stands, Working, PC
  <1>5. r \in Listed
    BY <1>1, <1>4, SearchFindsName DEF Listed
  <1>6. Goto("refetch").pc = "refetch" /\ \A y : Fail(y).pc = "fail"
    BY <1>1, IdleType DEF Goto, Fail, WorkerType
  <1> HIDE DEF Listed, findSiteResource
  <1>7. w' = Goto("refetch") \/ Refused
    BY <1>3, <1>5 DEF ensureExists
  <1> QED BY <1>6, <1>7 DEF Refused

LEMMA AloneWorker ==
  ASSUME NameInv, Undisturbed', Undisturbed, Linked, Sync(w), Alone(w), WorkerStep
  PROVE  Alone(w)'
  <1>1. /\ TypeOK /\ UseInv /\ c0 \in CR /\ w \in WorkerType
    BY DEF NameInv, LinkInv, Undisturbed, Seen, TypeOK, WorkerType, c0
  <1> SUFFICES ASSUME w'.pc \in {"adopt", "creating", "create", "record"},
                      NEW r \in resources', r.by = w'.c
               PROVE  w'.pc = "record" /\ r.id = w'.rid
    BY DEF Alone
  <1>2. /\ w'.pc \in {"adopt", "creating"} => ensureExists
        /\ w'.pc = "create" => MarkCreating
        /\ w'.pc = "record" => createSiteResource
    BY <1>1, CreatePC
  <1>3. CASE w'.pc = "record"
    <2>1. LET v == [w EXCEPT !.pc = "record", !.rid = nextId, !.dom = SentDom]
          IN  v.c = c0 /\ v.rid = nextId
      BY <1>1 DEF WorkerType, c0
    <2>2. \A y : Fail(y).pc = "fail"
      BY IdleType DEF Fail, WorkerType
    <2>3. /\ w'.c = c0 /\ w'.rid = nextId /\ w.pc = "create"
          /\ resources' = resources \cup {CreatedResource(nextId)}
      BY <1>2, <1>3, <2>1, <2>2 DEF createSiteResource, Refused, At
    <2>4. r \notin resources
      BY <2>3 DEF Alone, c0
    <2>5. r = CreatedResource(nextId)
      BY <2>3, <2>4
    <2> QED BY <1>3, <2>3, <2>5 DEF CreatedResource
  <1>4. CASE w'.pc \in {"adopt", "creating", "create"}
    <2>1. ensureExists \/ MarkCreating
      BY <1>2, <1>4
    <2>2. resources' = resources
      BY <2>1 DEF ensureExists, Refused, MarkCreating, pangolin
    <2>3. w'.c = c0
      <3>1. ~AddFinalizer /\ ~Cleanup /\ ~RemoveFinalizer /\ ~createSiteResource
        BY <2>1 DEF ensureExists, MarkCreating, AddFinalizer, Cleanup, RemoveFinalizer,
           createSiteResource, At
      <3>2. w' = Idle \/ Ongoing(w')
        BY <1>1, <3>1, OngoingStep
      <3>3. Idle.pc = "idle"
        BY DEF Idle
      <3>4. w' # Idle
        BY <1>4, <3>3
      <3> QED BY <3>2, <3>4 DEF Ongoing
    <2>4. \A q \in resources : q.by # c0
      <3>1. CASE ensureExists
        <4>1. w'.pc # "create"
          BY <3>1, <1>2 DEF ensureExists, MarkCreating, At
        <4> QED BY <1>4, <3>1, <4>1, NothingListed
      <3>2. CASE MarkCreating
        BY <3>2 DEF MarkCreating, At, Alone, c0
      <3> QED BY <2>1, <3>1, <3>2
    <2> QED BY <2>2, <2>3, <2>4
  <1> QED BY <1>3, <1>4

LEMMA LinkedWorker ==
  ASSUME NameInv, Undisturbed', late = {}, Linked, Sync(w), Alone(w), WorkerStep, RidMoves
  PROVE  Linked'
  <1>1. /\ TypeOK /\ c0 \in CR /\ w \in WorkerType /\ mem.st \in StatusType
        /\ w.dom \in Seq(Char) /\ w.rid \in Nat
        /\ cr \in [CR -> ObjectType]
    BY DEF NameInv, LinkInv, TypeOK, WorkerType, ObjectType, c0, mem
  <1>2. ~Fault("apiLost") /\ ~Fault("del") /\ ~Fault("late")
    <2>1. \A k : Fault(k) => k \in faults'.seen
      BY DEF Fault
    <2> QED BY <2>1 DEF Undisturbed, Seen
  <1> SUFFICES ASSUME NEW r \in resources', r.by # NoCR
               PROVE  \/ cr'[r.by].st.rid = r.id
                      \/ w'.c = r.by /\ w'.rid = r.id /\ w'.pc \in {"record", "rollback"}
    BY DEF Linked, c0
  <1>3. CASE createSiteResource
    <2> DEFINE v == [w EXCEPT !.pc = "record", !.rid = nextId, !.dom = SentDom]
    <2>1. w.pc = "create" /\ UNCHANGED cr
      BY <1>3 DEF createSiteResource, At
    <2>2. CASE r \in resources
      BY <2>1, <2>2 DEF Linked
    <2>3. CASE r \notin resources
      <3>1. v.pc = "record" /\ v.c = c0 /\ v.rid = nextId
        BY <1>1 DEF WorkerType, c0
      <3>2. r = CreatedResource(nextId) /\ w' = v
        BY <1>2, <1>3, <2>3 DEF createSiteResource, Refused, pangolin
      <3> HIDE DEF v
      <3> QED BY <3>1, <3>2 DEF CreatedResource
    <2> QED BY <2>2, <2>3
  <1>4. CASE RecordResource
    <2> DEFINE st == [mem.st EXCEPT !.rid = w.rid, !.dom = w.dom, !.phase = "Creating"]
               ok == IF w.had THEN Goto("refetch") ELSE Ready(w)
    <2>1. st \in StatusType /\ st.rid = w.rid
      BY <1>1 DEF StatusType, Phase
    <2>2. patchStatus(st, ok, Goto("rollback")) /\ w.pc = "record" /\ r \in resources
      BY <1>4 DEF RecordResource, At, pangolin
    <2>3. /\ Goto("refetch") \in WorkerType
          /\ Goto("rollback") \in WorkerType /\ Goto("rollback").pc = "rollback"
          /\ Goto("rollback").c = c0 /\ Goto("rollback").rid = w.rid
      BY <1>1 DEF Goto, WorkerType, PC, c0
    <2>4. ok \in WorkerType
      BY <1>1, <2>3, ReadyType
    <2>5. mem.st.rid = cr[c0].st.rid
      BY <2>2 DEF Sync, Synced, Working, PC, mem, c0
    <2> HIDE DEF st, ok
    <2>6. /\ \A c \in CR : c # c0 => cr'[c] = cr[c]
          /\ \/ cr'[c0].st.rid = w.rid
             \/ w'.pc = "rollback" /\ w'.c = c0 /\ w'.rid = w.rid
      BY <1>1, <2>1, <2>2, <2>3, <2>4, <2>5, PatchSync
    <2>7. CASE r.by = c0
      <3>1. r.id = w.rid
        BY <2>2, <2>7 DEF Alone, c0
      <3> QED BY <2>6, <2>7, <3>1
    <2>8. CASE r.by # c0
      <3>1. r.by \in CR
        BY <1>1, <2>2 DEF TypeOK, ResourceType
      <3> QED BY <2>2, <2>6, <2>8, <3>1 DEF Linked
    <2> QED BY <2>7, <2>8
  <1>5. CASE Rollback
    <2>1. UNCHANGED cr /\ r \in resources /\ r.id # w.rid
      BY <1>2, <1>5 DEF Rollback, DeleteSiteResource
    <2> QED BY <2>1 DEF Linked
  <1>6. CASE ~createSiteResource /\ ~RecordResource /\ ~Rollback
    <2>1. w.pc \notin {"record", "rollback"}
      BY <1>6 DEF WorkerStep, AddFinalizer, ResolveSite, ensureExists, Adopt, MarkCreating,
         Refetch, updateSiteResource, MarkReady, ReportFailure, Cleanup, RemoveFinalizer, At
    <2>2. Retained
      BY <1>1, <1>6, RetainedStep DEF NameInv, Created, Next
    <2>3. PICK q \in resources : q.id = r.id /\ q.by = r.by
      BY <2>2 DEF Retained, Became
    <2>4. cr[r.by].st.rid = r.id /\ r.by \in CR /\ r.id \in live
      BY <1>1, <2>1, <2>3 DEF Linked, TypeOK, ResourceType, live
    <2>5. ~(r.by = c0 /\ w.pc = "adopt")
      BY <2>3 DEF Alone, c0
    <2> QED BY <2>1, <2>4, <2>5 DEF RidMoves
  <1> QED BY <1>3, <1>4, <1>5, <1>6

LEMMA OrphanInvNext == OrphanInv /\ [Next]_vars => OrphanInv'
  <1> SUFFICES ASSUME OrphanInv, [Next]_vars PROVE OrphanInv'
    OBVIOUS
  <1>1. NameInv /\ LinkInv /\ TypeOK
    BY DEF OrphanInv, NameInv, LinkInv
  <1>2. NameInv'
    BY <1>1, NameInvNext DEF OrphanInv
  <1> SUFFICES ASSUME Undisturbed' PROVE Linked' /\ Sync(w)' /\ Alone(w)'
    BY <1>2 DEF OrphanInv
  <1>3. Undisturbed /\ late = {}
    BY <1>1, FaultsGrowNext DEF FaultsGrow, Undisturbed, Seen, NameInv, NoneLate
  <1>4. Linked /\ Sync(w) /\ Alone(w)
    BY <1>3 DEF OrphanInv
  <1>5. CASE WorkerStep
    <2>1. ~Seen({"apiLost", "lag"})'
      BY DEF Undisturbed, Seen
    <2>2. Sync(w)' /\ RidMoves
      BY <1>1, <1>4, <1>5, <2>1, SyncWorker
    <2>3. Alone(w)'
      BY <1>1, <1>3, <1>4, <1>5, AloneWorker
    <2>4. Linked'
      BY <1>1, <1>3, <1>4, <1>5, <2>2, LinkedWorker
    <2> QED BY <2>2, <2>3, <2>4
  <1>6. CASE ~WorkerStep
    <2>1. /\ \A c \in CR : cr'[c].st.rid = cr[c].st.rid
          /\ resources' \subseteq resources
          /\ w' = w \/ Crash \/ \E c \in CR : Reconcile(c)
      BY <1>1, <1>3, <1>6, OthersKeep
    <2>2. w.c \in CR /\ w'.c \in CR /\ \A r \in resources : r.by \in CR \cup {NoCR}
      BY <1>1, <1>2 DEF NameInv, LinkInv, TypeOK, WorkerType, ResourceType
    <2>3. live' \subseteq live
      BY <2>1 DEF live
    <2>4. CASE w' = w
      <3>1. Linked'
        BY <1>4, <2>1, <2>2, <2>4 DEF Linked, c0
      <3>2. Sync(w)'
        <4> HIDE DEF live
        <4> QED BY <1>4, <2>1, <2>2, <2>3, <2>4 DEF Sync
      <3>3. Alone(w)'
        BY <1>4, <2>1, <2>4 DEF Alone
      <3> QED BY <3>1, <3>2, <3>3
    <2>5. ASSUME NEW c \in CR, Reconcile(c)
          PROVE  Linked' /\ Sync(w)' /\ Alone(w)'
      <3>1. w.pc = "idle" /\ cache[c] = cr[c] /\ UNCHANGED cr
        <4>1. ~Fault("lag")
          BY <1>1 DEF Fault, Undisturbed, Seen, TypeOK
        <4> QED BY <2>5, <4>1 DEF Reconcile, At, Get
      <3>2. \/ w'.pc = "idle"
            \/ w'.pc \in {"cleanup", "site", "finalize"} /\ w'.c = c /\ w'.mem = cr[c]
        BY <2>5, <3>1, IdleType DEF Reconcile, WorkerType, Idle
      <3>3. Linked'
        BY <1>4, <2>1, <3>1 DEF Linked
      <3>4. Sync(w)'
        BY <3>1, <3>2 DEF Sync, Synced, Working
      <3>5. Alone(w)'
        BY <3>2 DEF Alone
      <3> QED BY <3>3, <3>4, <3>5
    <2>6. ~Crash
      <3>1. ~Fault("crash")
        BY <1>1 DEF Fault, Undisturbed, Seen, TypeOK
      <3> QED BY <3>1 DEF Crash
    <2> QED BY <2>1, <2>4, <2>5, <2>6
  <1> QED BY <1>5, <1>6

LEMMA OrphanInvInit == Init => OrphanInv
  <1> SUFFICES ASSUME Init PROVE OrphanInv
    OBVIOUS
  <1>1. NameInv
    BY NameInvInit
  <1>2. w.pc = "idle" /\ \A r \in resources : r.by = NoCR
    BY ConstantsAssumption DEF Init, Idle
  <1> QED BY <1>1, <1>2 DEF OrphanInv, Linked, Sync, Synced, Working, Alone

\* createSiteResource, "Rollback to avoid orphaned Pangolin site resource": as long as
\* the operator survives, Pangolin answers, no read is stale and no name is edited, no
\* site resource that the operator created is without the object that links it, however
\* many objects and sites there are and whatever patches fail or are lost.
THEOREM NothingOrphaned == Spec => []NoOrphan
  <1>1. OrphanInv => NoOrphan
    BY DEF OrphanInv, NoOrphan, Undisturbed
  <1> QED BY <1>1, OrphanInvInit, OrphanInvNext, PTL DEF Spec
=============================================================================
