--------------------- MODULE PublicResourceCreateProofs ---------------------
(***************************************************************************)
(* What PublicResource creates in Pangolin is created once and stays       *)
(* linked: proofs for every value of the constants.                        *)
(***************************************************************************)
EXTENDS PublicResourceProofs

-----------------------------------------------------------------------------
(* Names. *)

\* Two versions of an object ask for the same resource.
SameUse(a, b) ==
  /\ a.spec.name = b.spec.name
  /\ ~Seen({"unsent"}) => a.spec.http = b.spec.http /\ a.spec.dom = b.spec.dom

\* The resource that an identifier stands for has the name n.
Names(id, n) == \A r \in resources : r.id = id => r.name = n

IdsUnique == \A r1, r2 \in resources : r1.id = r2.id => r1 = r2

\* Generations only grow, also from one object of a name to the next.
GenInv == \A c \in CR : cache[c].gen <= cr[c].gen

\* The versions of an object in the cache, at the API server and in memory ask for
\* the same resource, for none of them can be of an earlier object of that name as
\* long as the finalizer is seen.
UseInv ==
  /\ \A c \in CR : /\ Held(cache[c]) => SameUse(cache[c], cr[c])
                   /\ Names(cr[c].st.rid, cr[c].spec.name)
                   /\ Names(cache[c].st.rid, cache[c].spec.name)
  /\ w.pc = "finalize" =>
       w.rid = 0 /\ mem.gen <= cr[c0].gen /\ (cr[c0] = mem => SameUse(cache[c0], mem))
  /\ w.pc \in Working =>
       /\ SameUse(mem, cr[c0]) /\ SameUse(cache[c0], cr[c0])
       /\ Names(mem.st.rid, cr[c0].spec.name) /\ Names(w.rid, cr[c0].spec.name)

\* On the way to createResource for a spec without a domain there is no resource of
\* that name without one. Pangolin refuses a domain that is taken.
VacantInv ==
  w.pc \in {"creating", "create"} /\ ~(mem.spec.http /\ mem.spec.dom # NoDom) =>
    \A r \in resources : ~(r.name = mem.spec.name /\ r.dom = NoDom)

NameInv ==
  /\ LinkInv /\ IdsUnique /\ GenInv
  /\ ~Seen({"rename"}) => UseInv
  /\ ~Seen({"rename", "unsent"}) => VacantInv
  /\ NoDuplicate

-----------------------------------------------------------------------------
(* What every step does to the faults that were seen and to the resources. *)

FaultsGrow == faults.seen \subseteq faults'.seen

LEMMA FaultsGrowNext == ASSUME TypeOK, [Next]_vars PROVE FaultsGrow
  <1>1. \A k : Fault(k) => FaultsGrow
    BY DEF Fault, FaultsGrow
  <1>2. \A S : Note(S) => FaultsGrow
    BY DEF Note, FaultsGrow, TypeOK
  <1>3. UNCHANGED faults => FaultsGrow
    BY DEF FaultsGrow
  <1>4. \A c : Get(c) => FaultsGrow
    BY <1>1, <1>3 DEF Get
  <1>5. \A st, ok, ko : patchStatus(st, ok, ko) => FaultsGrow
    BY <1>1, <1>3 DEF patchStatus
  <1>6. \A st : patchAndReturn(st) => FaultsGrow
    BY <1>1, <1>3 DEF patchAndReturn
  <1>7. Refused => FaultsGrow
    BY <1>1 DEF Refused
  <1>8. CASE WorkerStep
    <2>1. CASE AddFinalizer \/ ResolveSite \/ ensureExists \/ Reget \/ Refetch \/ Pruned
               \/ Cleanup \/ RemoveFinalizer
      BY <1>1, <1>3, <1>4, <1>7, <2>1 DEF AddFinalizer, ResolveSite, ensureExists, Reget,
         Refetch, Pruned, Cleanup, RemoveFinalizer
    <2>2. CASE Adopt \/ MarkCreating \/ RecordResource \/ CreatedTargets \/ CreatedRules
               \/ PersistKids
      <3>1. (\E st, ok, ko : patchStatus(st, ok, ko)) \/ UNCHANGED faults
        BY <2>2, Zenon DEF Adopt, MarkCreating, RecordResource, CreatedTargets,
           CreatedRules, PersistKids
      <3> QED BY <1>3, <1>5, <3>1
    <2>3. CASE MarkReady \/ ReportFailure
      BY <1>6, <2>3 DEF MarkReady, ReportFailure
    <2>4. CASE createResource \/ Rollback \/ Settings \/ updateResource
      BY <1>1, <1>3, <1>7, <2>4 DEF createResource, Rollback, Settings, updateResource
    <2>5. CASE (\E i \in Item : CreateKid(i)) \/ \E id \in w.old : PruneKid(id)
      BY <1>1, <1>3, <2>5 DEF CreateKid, PruneKid
    <2> QED BY <1>8, <2>1, <2>2, <2>3, <2>4, <2>5 DEF WorkerStep
  <1>9. CASE Environment
    <2>1. ASSUME NEW c \in CR, NEW s \in Specs, UserCreate(c, s) \/ UserEdit(c, s)
          PROVE  FaultsGrow
      BY <1>2, <1>3, <2>1 DEF UserCreate, UserEdit
    <2> QED BY <1>1, <1>3, <1>9, <2>1
            DEF Environment, UserDelete, Drift, SiteReady, SiteLost, Crash
  <1>10. CASE (\E c \in CR : CacheSync(c) \/ Reconcile(c)) \/ UNCHANGED vars
    BY <1>3, <1>4, <1>10 DEF CacheSync, Reconcile, vars
  <1> QED BY <1>8, <1>9, <1>10 DEF Next

\* r is what became of q: settings may change, and the name where an edit did.
Became(r, q) ==
  /\ r.id = q.id /\ r.dom = q.dom /\ r.by = q.by
  /\ ~Seen({"rename"}) => r.name = q.name

Retained ==
  \A r1, r2 \in resources' : \E q1, q2 \in resources :
    Became(r1, q1) /\ Became(r2, q2) /\ (q1 = q2 => r1 = r2)

LEMMA RetainedStep ==
  ASSUME TypeOK, ~Seen({"rename"}) => UseInv, [Next]_vars
  PROVE  Retained \/ ResourceCreated
  <1>1. resources' \subseteq resources => Retained
    BY DEF Retained, Became
  <1>2. UNCHANGED pangolin => Retained
    BY <1>1 DEF pangolin
  <1>3. \A id : DeleteResource(id) => Retained
    BY <1>1 DEF DeleteResource
  <1>4. \A id, h, b : UpdateResource(id, h, b) /\ w.pc \in Working
                      /\ (b => id \in {mem.st.rid, w.rid}) => Retained
    <2> SUFFICES ASSUME NEW id, NEW h, NEW b, UpdateResource(id, h, b), w.pc \in Working,
                        b => id \in {mem.st.rid, w.rid},
                        NEW r1 \in resources', NEW r2 \in resources'
                 PROVE  \E q1, q2 \in resources :
                          Became(r1, q1) /\ Became(r2, q2) /\ (q1 = q2 => r1 = r2)
      BY DEF Retained
    <2> DEFINE f(r) == IF r.id # id THEN r
                       ELSE Configured(r, h, IF b THEN mem.spec.name ELSE r.name)
    <2>1. PICK q1 \in resources, q2 \in resources : r1 = f(q1) /\ r2 = f(q2)
      BY DEF UpdateResource
    <2>2. \A q \in resources : Became(f(q), q)
      <3> SUFFICES ASSUME NEW q \in resources PROVE Became(f(q), q)
        OBVIOUS
      <3>1. CASE q.id # id
        BY <3>1 DEF Became
      <3>2. CASE q.id = id
        <4>1. q \in ResourceType
          BY DEF TypeOK
        <4>2. ~Seen({"rename"}) /\ b => q.name = mem.spec.name
          BY <3>2 DEF UseInv, SameUse, Names
        <4> QED BY <3>2, <4>1, <4>2 DEF Became, Configured, ResourceType
      <3> QED BY <3>1, <3>2
    <2> QED BY <2>1, <2>2
  <1>5. CASE WorkerStep
    <2>1. CASE AddFinalizer \/ ResolveSite \/ ensureExists \/ Adopt \/ MarkCreating
               \/ RecordResource \/ Reget \/ CreatedTargets \/ CreatedRules \/ Refetch
               \/ PersistKids \/ Pruned \/ MarkReady \/ ReportFailure \/ RemoveFinalizer
      BY <1>2, <2>1 DEF AddFinalizer, ResolveSite, ensureExists, Refused, Adopt,
         MarkCreating, RecordResource, Reget, CreatedTargets, CreatedRules, Refetch,
         PersistKids, Pruned, MarkReady, ReportFailure, RemoveFinalizer
    <2>2. CASE createResource
      BY <1>2, <2>2 DEF createResource, Refused, ResourceCreated
    <2>3. CASE Rollback \/ Cleanup
      BY <1>2, <1>3, <2>3 DEF Rollback, Cleanup
    <2>4. CASE Settings \/ updateResource
      <3>1. w.pc \in Working
        BY <2>4 DEF Settings, updateResource, At, Working, PC
      <3>2. \/ UNCHANGED pangolin
            \/ UpdateResource(w.rid, w.http, ~w.http)
            \/ UpdateResource(mem.st.rid, mem.spec.http, TRUE)
        BY <2>4 DEF Settings, updateResource, Refused
      <3> QED BY <1>2, <1>4, <3>1, <3>2
    <2>5. CASE (\E i \in Item : CreateKid(i)) \/ \E id \in w.old : PruneKid(id)
      BY <1>1, <2>5 DEF CreateKid, PruneKid
    <2> QED BY <1>5, <2>1, <2>2, <2>3, <2>4, <2>5 DEF WorkerStep
  <1>6. CASE Environment
    BY <1>2, <1>3, <1>6
       DEF Environment, UserCreate, UserEdit, UserDelete, Drift, SiteReady, SiteLost, Crash
  <1>7. CASE (\E c \in CR : CacheSync(c) \/ Reconcile(c)) \/ UNCHANGED vars
    BY <1>2, <1>7 DEF CacheSync, Reconcile, vars, pangolin
  <1> QED BY <1>5, <1>6, <1>7 DEF Next

\* No step changes which name an identifier stands for.
LEMMA NamesKept ==
  ASSUME LinkInv, ~Seen({"rename"}), UseInv, [Next]_vars
  PROVE  \A n : \A id \in Nat : id < nextId /\ Names(id, n) => Names(id, n)'
  <1> SUFFICES ASSUME NEW n, NEW id \in Nat, id < nextId, Names(id, n),
                      NEW r \in resources', r.id = id
               PROVE  r.name = n
    BY DEF Names
  <1>1. TypeOK /\ nextId \in Nat
    BY DEF LinkInv, CleanupInv, TypeOK
  <1>2. CASE Retained
    BY <1>2 DEF Retained, Became, Names
  <1>3. CASE ResourceCreated
    <2>1. CreatedResource.id = nextId
      BY DEF CreatedResource
    <2> QED BY <1>1, <1>3, <2>1 DEF ResourceCreated, Names
  <1> QED BY <1>1, <1>2, <1>3, RetainedStep

LEMMA IdsUniqueNext ==
  ASSUME LinkInv, ~Seen({"rename"}) => UseInv, IdsUnique, [Next]_vars
  PROVE  IdsUnique'
  <1>1. TypeOK /\ \A r \in resources : r.id < nextId
    BY DEF LinkInv, CleanupInv, IdsInv, OldRid
  <1>2. CASE Retained
    BY <1>2 DEF Retained, Became, IdsUnique
  <1>3. CASE ResourceCreated
    <2>1. CreatedResource.id = nextId /\ \A r \in resources : r.id # nextId
      BY <1>1 DEF CreatedResource, TypeOK, ResourceType
    <2> QED BY <1>3, <2>1 DEF ResourceCreated, IdsUnique
  <1> QED BY <1>1, <1>2, <1>3, RetainedStep

LEMMA GenInvNext ==
  ASSUME LinkInv, GenInv, [Next]_vars
  PROVE  GenInv'
  <1>1. /\ TypeOK /\ c0 \in CR /\ mem \in ObjectType
        /\ \A c \in CR : cr[c].gen \in Nat /\ cache[c].gen \in Nat
    BY DEF LinkInv, CleanupInv, TypeOK, WorkerType, ObjectType, c0, mem
  <1>2. \A n : Gone(n).gen = n
    BY DEF Gone
  <1>3. ASSUME UNCHANGED cache, \A c \in CR : cr'[c].gen \in Nat /\ cr[c].gen <= cr'[c].gen
        PROVE  GenInv'
    BY <1>1, <1>3 DEF GenInv
  <1>4. CASE UNCHANGED <<cr, cache>>
    BY <1>4 DEF GenInv
  <1>5. ASSUME NEW c \in CR, CacheSync(c)
        PROVE  GenInv'
    BY <1>1, <1>5 DEF CacheSync, GenInv, TypeOK
  <1>6. CASE AddFinalizer
    <2>1. cr[c0] = mem => WithFinalizer.gen \in Nat /\ cr[c0].gen <= WithFinalizer.gen
      BY <1>1 DEF WithFinalizer, ObjectType
    <2>2. UNCHANGED cr \/ (cr[c0] = mem /\ cr' = [cr EXCEPT ![c0] = WithFinalizer])
      BY <1>6 DEF AddFinalizer, Unmodified
    <2> QED BY <1>1, <1>3, <1>6, <2>1, <2>2 DEF AddFinalizer, TypeOK
  <1>7. CASE RemoveFinalizer
    <2>1. UNCHANGED cr \/ (cr[c0] = mem /\ cr' = [cr EXCEPT ![c0] = Gone(mem.gen)])
      BY <1>7 DEF RemoveFinalizer, Unmodified
    <2> QED BY <1>1, <1>2, <1>3, <1>7, <2>1 DEF RemoveFinalizer, TypeOK
  <1>8. CASE WorkerStep /\ ~AddFinalizer /\ ~RemoveFinalizer /\ ~Cleanup /\ ~createResource
    <2>1. StatusOnly
      BY <1>1, <1>8, OngoingStep
    <2>2. UNCHANGED cache
      BY <1>8 DEF WorkerStep, ResolveSite, ensureExists, Adopt, MarkCreating,
         RecordResource, Rollback, Reget, Settings, CreateKid, CreatedTargets,
         CreatedRules, Refetch, updateResource, PersistKids, PruneKid, Pruned, MarkReady,
         ReportFailure
    <2> QED BY <1>1, <1>3, <2>1, <2>2 DEF StatusOnly
  <1>9. ASSUME NEW c \in CR, NEW s \in Specs, UserCreate(c, s) \/ UserEdit(c, s)
        PROVE  GenInv'
    <2>1. NewObject(cr[c].gen + 1, s).gen = cr[c].gen + 1
      BY DEF NewObject
    <2>2. \A d \in CR : cr'[d].gen \in {cr[d].gen, cr[d].gen + 1}
      <3>1. CASE UserCreate(c, s)
        BY <1>1, <2>1, <3>1 DEF UserCreate, TypeOK
      <3>2. CASE UserEdit(c, s)
        BY <1>1, <3>2 DEF UserEdit, TypeOK, ObjectType
      <3> QED BY <1>9, <3>1, <3>2
    <2>3. UNCHANGED cache
      BY <1>9 DEF UserCreate, UserEdit
    <2> QED BY <1>1, <1>3, <2>2, <2>3
  <1>10. ASSUME NEW c \in CR, UserDelete(c)
         PROVE  GenInv'
    <2>1. Deleted(cr[c]).gen \in {cr[c].gen, cr[c].gen + 1}
      BY <1>1, <1>2 DEF Deleted, TypeOK, ObjectType
    <2> QED BY <1>1, <1>3, <1>10, <2>1 DEF UserDelete, TypeOK
  <1>11. CASE Crash
    BY <1>1, <1>11 DEF Crash, GenInv
  <1>12. CASE createResource \/ Cleanup
    BY <1>4, <1>12 DEF createResource, Cleanup
  <1>13. CASE Environment
    BY <1>4, <1>9, <1>10, <1>11, <1>13 DEF Environment, Drift, SiteReady, SiteLost
  <1>14. CASE (\E c \in CR : Reconcile(c)) \/ UNCHANGED vars
    BY <1>4, <1>14 DEF Reconcile, vars
  <1> QED BY <1>5, <1>6, <1>7, <1>8, <1>12, <1>13, <1>14 DEF Next

LEMMA UseInvNext ==
  ASSUME LinkInv, IdsUnique, GenInv, ~Seen({"rename"}), UseInv, [Next]_vars,
         ~Seen({"rename"})'
  PROVE  UseInv'
  <1> DEFINE Alike(a, b) == /\ a.spec.name = b.spec.name
                            /\ ~Seen({"unsent"})' => /\ a.spec.http = b.spec.http
                                                     /\ a.spec.dom = b.spec.dom
             Has(id, n) == id \in Nat /\ id < nextId /\ Names(id, n)
             Objects == \A c \in CR : /\ Held(cache'[c]) => Alike(cache'[c], cr'[c])
                                      /\ Has(cr'[c].st.rid, cr'[c].spec.name)
                                      /\ Has(cache'[c].st.rid, cache'[c].spec.name)
             Memory ==
               /\ w'.pc = "finalize" =>
                    /\ w'.rid = 0
                    /\ w'.mem.gen <= cr'[w'.c].gen
                    /\ cr'[w'.c] = w'.mem => Alike(cache'[w'.c], w'.mem)
               /\ w'.pc \in Working =>
                    /\ Alike(w'.mem, cr'[w'.c]) /\ Alike(cache'[w'.c], cr'[w'.c])
                    /\ Has(w'.mem.st.rid, cr'[w'.c].spec.name)
                    /\ \/ Has(w'.rid, cr'[w'.c].spec.name)
                       \/ ResourceCreated /\ w'.rid = nextId /\ w'.c = c0
             Goal == Objects /\ Memory
  <1>0. \A o : Alike(o, o)
    OBVIOUS
  <1>1. /\ TypeOK /\ IdsInv /\ ObjectsInv /\ CachedInv /\ WorkerInv
        /\ TypeOK' /\ nextId \in Nat /\ c0 \in CR /\ w \in WorkerType /\ mem \in ObjectType
        /\ \A c \in CR : cr[c] \in ObjectType /\ cache[c] \in ObjectType
                         /\ cr[c].gen \in Nat /\ cache[c].gen \in Nat
                         /\ (cr[c].fin => cr[c].exists)
    BY TypeOKNext DEF LinkInv, CleanupInv, TypeOK, WorkerType, ObjectType, c0, mem
  <1>2. /\ \A c \in CR : /\ Has(cr[c].st.rid, cr[c].spec.name)
                         /\ Has(cache[c].st.rid, cache[c].spec.name)
        /\ w.pc \in Working => /\ Has(mem.st.rid, cr[c0].spec.name)
                               /\ Has(w.rid, cr[c0].spec.name)
    BY <1>1 DEF IdsInv, OldRid, UseInv, TypeOK, ObjectType, WorkerType, StatusType, mem
  <1>3. \A n : Has(0, n)
    <2>1. \A r \in resources : r.id # 0
      BY <1>1 DEF TypeOK, ResourceType
    <2> QED BY <1>1, <2>1 DEF Names, TypeOK
  <1>4. /\ \A c \in CR : Held(cache[c]) => Alike(cache[c], cr[c])
        /\ w.pc \in Working => Alike(mem, cr[c0]) /\ Alike(cache[c0], cr[c0])
        /\ w.pc = "finalize" =>
             w.rid = 0 /\ mem.gen <= cr[c0].gen /\ (cr[c0] = mem => Alike(cache[c0], mem))
    <2>1. FaultsGrow
      BY <1>1, FaultsGrowNext
    <2>2. \A a, b : SameUse(a, b) => Alike(a, b)
      BY <2>1 DEF FaultsGrow, SameUse, Seen
    <2> HIDE DEF Alike
    <2> QED BY <2>2 DEF UseInv
  <1>5. Idle.pc = "idle" /\ "idle" \notin Working /\ "finalize" \notin Working
        /\ "cleanup" \notin Working /\ "unfinalize" \notin Working
    BY DEF Idle, Working
  <1>6. \A n : /\ ~Gone(n).fin /\ ~Gone(n).exists /\ Gone(n).st.rid = 0
    BY DEF Gone, ZeroStatus
  <1> HIDE DEF Has, Alike
  <1>7. ASSUME w' = Idle PROVE Memory
    BY <1>5, <1>7
  <1>8. ASSUME UNCHANGED <<cr, cache>> PROVE Objects
    BY <1>2, <1>4, <1>8
  <1>9. ASSUME UNCHANGED <<cr, cache, w>> PROVE Goal
    BY <1>2, <1>4, <1>9 DEF c0, mem
  <1>10. ASSUME NEW c \in CR, CacheSync(c) PROVE Goal
    <2>1. cache' = [cache EXCEPT ![c] = cr[c]] /\ UNCHANGED <<cr, w>>
      BY <1>10 DEF CacheSync
    <2>2. \A d \in CR : cache'[d] = IF d = c THEN cr[c] ELSE cache[d]
      BY <1>1, <2>1 DEF TypeOK
    <2>3. Objects
      BY <1>2, <1>4, <2>1, <2>2, <1>0
    <2>4. Memory
      BY <1>1, <1>2, <1>4, <2>1, <2>2, <1>0 DEF c0, mem
    <2> QED BY <2>3, <2>4
  <1>11. ASSUME NEW c \in CR, Reconcile(c) PROVE Goal
    <2>1. UNCHANGED <<cr, cache>>
      BY <1>11 DEF Reconcile
    <2>2. CASE cache[c].exists
      <3> DEFINE pc == IF cache[c].del THEN "cleanup"
                       ELSE IF cache[c].fin THEN "site" ELSE "finalize"
      <3>1. w'.c = c /\ w'.mem = cache[c] /\ w'.pc = pc /\ w'.rid = 0
        BY <1>11, <2>2, IdleType DEF Reconcile, WorkerType, Idle
      <3>2. ASSUME w'.pc = "finalize" PROVE Memory
        BY <1>5, <2>1, <3>1, <3>2, <1>0 DEF GenInv
      <3>3. ASSUME w'.pc \in Working PROVE Memory
        <4>1. Held(cache[c])
          BY <1>5, <3>1, <3>3 DEF Held
        <4>2. Alike(cache[c], cr[c]) /\ cache[c].spec.name = cr[c].spec.name
          BY <1>4, <4>1 DEF Alike
        <4> QED BY <1>2, <1>3, <1>5, <2>1, <3>1, <3>3, <4>2
      <3>4. Memory
        BY <3>2, <3>3
      <3> QED BY <1>8, <2>1, <3>4
    <2>3. CASE ~cache[c].exists
      BY <1>7, <1>8, <1>11, <2>1, <2>3 DEF Reconcile
    <2> QED BY <2>2, <2>3
  <1>12. ASSUME AddFinalizer PROVE Goal
    <2>1. w.pc = "finalize" /\ UNCHANGED cache /\ ~cache'[c0].del = ~cache[c0].del
      BY <1>12 DEF AddFinalizer, At
    <2>2. CASE UNCHANGED cr /\ w' = Idle
      BY <1>7, <1>8, <2>1, <2>2
    <2>3. CASE cr[c0] = mem /\ cr' = [cr EXCEPT ![c0] = WithFinalizer]
      <3>1. /\ WithFinalizer.st = mem.st /\ WithFinalizer.spec.name = mem.spec.name
            /\ WithFinalizer.spec.http = mem.spec.http
            /\ WithFinalizer.spec.dom = mem.spec.dom
        BY <1>1 DEF WithFinalizer, ObjectType, SpecType
      <3>2. \A c \in CR : cr'[c] = IF c = c0 THEN WithFinalizer ELSE cr[c]
        BY <1>1, <2>3 DEF TypeOK
      <3>3. Alike(cache[c0], WithFinalizer)
        BY <1>4, <2>1, <2>3, <3>1 DEF Alike
      <3>4. Has(WithFinalizer.st.rid, WithFinalizer.spec.name)
        BY <1>1, <1>2, <2>3, <3>1
      <3>5. Objects
        BY <1>1, <1>2, <1>4, <2>1, <3>2, <3>3, <3>4
      <3>6. CASE w' = Idle
        BY <1>7, <3>5, <3>6
      <3>7. CASE w' = [w EXCEPT !.pc = "site", !.mem = WithFinalizer]
        <4>1. w'.pc = "site" /\ w'.c = c0 /\ w'.mem = WithFinalizer /\ w'.rid = w.rid
          BY <1>1, <3>7 DEF WorkerType, c0
        <4>2. Memory
          BY <1>1, <1>3, <1>4, <1>5, <2>1, <3>2, <3>3, <3>4, <4>1, <1>0
        <4> QED BY <3>5, <4>2
      <3> QED BY <1>12, <2>3, <3>6, <3>7 DEF AddFinalizer, Requeue
    <2> QED BY <1>12, <2>2, <2>3 DEF AddFinalizer, Requeue, Unmodified
  <1>13. ASSUME Cleanup PROVE Goal
    <2>1. w' = Idle \/ w'.pc = "unfinalize"
      BY <1>1, <1>13 DEF Cleanup, Requeue, Goto, WorkerType
    <2> QED BY <1>5, <1>7, <1>8, <1>13, <2>1 DEF Cleanup
  <1>14. ASSUME RemoveFinalizer PROVE Goal
    <2>1. w' = Idle /\ UNCHANGED cache /\ ~Held(cache[c0])
      BY <1>1, <1>14 DEF RemoveFinalizer, Requeue, Forget, At, WorkerInv
    <2>2. CASE UNCHANGED cr
      BY <1>7, <1>8, <2>1, <2>2
    <2>3. CASE cr' = [cr EXCEPT ![c0] = Gone(mem.gen)]
      <3>1. \A c \in CR : cr'[c] = IF c = c0 THEN Gone(mem.gen) ELSE cr[c]
        BY <1>1, <2>3 DEF TypeOK
      <3>2. Objects
        BY <1>1, <1>2, <1>3, <1>4, <1>6, <2>1, <3>1
      <3> QED BY <1>7, <2>1, <3>2
    <2> QED BY <1>14, <2>2, <2>3 DEF RemoveFinalizer
  <1>15. ASSUME createResource PROVE Goal
    <2>1. w.pc = "create" /\ UNCHANGED <<cr, cache>>
      BY <1>15 DEF createResource, At
    <2>2. \A y \in Why : /\ Fail(y).pc = "fail" /\ Fail(y).c = c0 /\ Fail(y).mem = mem
                         /\ Fail(y).rid = 0
      BY IdleType DEF Fail, WorkerType, Idle
    <2>3. \/ \E y \in Why : w' = Fail(y)
          \/ w'.pc = "record" /\ w'.c = c0 /\ w'.mem = mem /\ w'.rid = nextId
             /\ ResourceCreated
      BY <1>1, <1>15 DEF createResource, Refused, ResourceCreated, Why, WorkerType, mem, c0
    <2>4. /\ w'.pc # "finalize" /\ w'.c = c0 /\ w'.mem = mem
          /\ w'.rid = 0 \/ (w'.rid = nextId /\ ResourceCreated)
      BY <2>2, <2>3
    <2>5. Memory
      BY <1>1, <1>2, <1>3, <1>4, <2>1, <2>4 DEF Working, PC
    <2> QED BY <1>8, <2>1, <2>5
  <1>16. ASSUME WorkerStep, ~AddFinalizer, ~RemoveFinalizer, ~Cleanup, ~createResource
         PROVE  Goal
    <2>1. w.pc \in Working /\ (w' = Idle \/ Ongoing(w')) /\ StatusOnly
      BY <1>1, <1>16, OngoingStep
    <2>2. UNCHANGED cache
      BY <1>16 DEF WorkerStep, ResolveSite, ensureExists, Adopt, MarkCreating,
         RecordResource, Rollback, Reget, Settings, CreateKid, CreatedTargets,
         CreatedRules, Refetch, updateResource, PersistKids, PruneKid, Pruned, MarkReady,
         ReportFailure
    <2>3. \A i : KnownRid(i) => Has(i, cr[c0].spec.name)
      <3>1. ASSUME NEW r \in findResource PROVE Has(r.id, cr[c0].spec.name)
        <4>1. r \in resources /\ r.name = mem.spec.name
          BY <3>1 DEF findResource, Listed
        <4>2. r.name = cr[c0].spec.name
          BY <1>4, <2>1, <4>1 DEF Alike
        <4>3. Names(r.id, cr[c0].spec.name)
          BY <4>1, <4>2 DEF Names, IdsUnique
        <4>4. r.id \in Nat /\ r.id < nextId
          BY <1>1, <4>1 DEF TypeOK, ResourceType, IdsInv, OldRid
        <4> QED BY <4>3, <4>4 DEF Has
      <3>2. cache[c0].spec.name = cr[c0].spec.name
        BY <1>4, <2>1 DEF Alike
      <3> QED BY <1>1, <1>2, <1>3, <2>1, <3>1, <3>2 DEF KnownRid
    <2>4. \A o : KnownSpec(o.spec) => Alike(o, cr[c0])
      <3>1. /\ DecodedSpec(mem.spec, cr[c0].spec).name = cr[c0].spec.name
            /\ DecodedSpec(mem.spec, cr[c0].spec).http = cr[c0].spec.http
            /\ DecodedSpec(mem.spec, cr[c0].spec).dom = Kept(mem.spec.dom, NoDom, cr[c0].spec.dom)
        BY DEF DecodedSpec
      <3> QED BY <1>4, <2>1, <3>1 DEF KnownSpec, Alike, Kept
    <2>5. /\ \A c \in CR : cr'[c].spec = cr[c].spec
          /\ \A c \in CR : Has(cr'[c].st.rid, cr[c].spec.name)
      BY <1>1, <1>2, <2>1, <2>3 DEF StatusOnly
    <2>6. \A a : \A c \in CR : Alike(a, cr[c]) => Alike(a, cr'[c])
      BY <2>5 DEF Alike
    <2>7. Objects
      BY <1>2, <1>4, <2>2, <2>5, <2>6
    <2>8. Memory
      <3>1. CASE w' = Idle
        BY <1>7, <3>1
      <3>2. CASE Ongoing(w')
        <4>1. /\ w'.pc # "finalize" /\ w'.c = c0 /\ Alike(w'.mem, cr'[c0])
              /\ Has(w'.mem.st.rid, cr[c0].spec.name) /\ Has(w'.rid, cr[c0].spec.name)
          BY <1>1, <1>5, <2>3, <2>4, <2>6, <3>2 DEF Ongoing
        <4>2. Alike(cache'[c0], cr'[c0]) /\ cr'[c0].spec = cr[c0].spec
          BY <1>1, <1>4, <2>1, <2>2, <2>5, <2>6
        <4> QED BY <4>1, <4>2
      <3> QED BY <2>1, <3>1, <3>2
    <2> QED BY <2>7, <2>8
  <1>17. ASSUME NEW c \in CR, NEW s \in Specs, UserCreate(c, s) PROVE Goal
    <2> DEFINE new == NewObject(cr[c].gen + 1, s)
    <2>1. /\ new.st.rid = 0 /\ new.gen = cr[c].gen + 1
          /\ ~cr[c].fin /\ ~Held(cache[c]) /\ UNCHANGED <<cache, w>>
      BY <1>1, <1>17 DEF NewObject, ZeroStatus, UserCreate, CachedInv
    <2>2. \A d \in CR : cr'[d] = IF d = c THEN new ELSE cr[d]
      BY <1>1, <1>17 DEF UserCreate, TypeOK
    <2> HIDE DEF new
    <2>3. Objects
      BY <1>2, <1>3, <1>4, <2>1, <2>2
    <2>4. w.pc = "finalize" =>
            mem.gen <= cr'[c0].gen /\ (cr'[c0] = mem => Alike(cache[c0], mem))
      <3>1. CASE c # c0
        BY <1>1, <1>4, <2>2, <3>1
      <3>2. CASE c = c0
        <4>1. mem.gen \in Nat /\ cr'[c0].gen = cr[c0].gen + 1
          BY <1>1, <2>1, <2>2, <3>2 DEF ObjectType
        <4>2. w.pc = "finalize" => mem.gen < cr'[c0].gen
          BY <1>1, <1>4, <4>1
        <4>3. w.pc = "finalize" => mem.gen <= cr'[c0].gen
          BY <1>1, <4>1, <4>2
        <4>4. w.pc = "finalize" => cr'[c0].gen # mem.gen
          BY <1>1, <4>1, <4>2
        <4> QED BY <4>3, <4>4
      <3> QED BY <3>1, <3>2
    <2>5. w.pc \in Working => cr'[c0] = cr[c0]
      BY <1>1, <2>1, <2>2 DEF WorkerInv
    <2>6. Memory
      BY <1>2, <1>4, <2>1, <2>4, <2>5 DEF c0, mem
    <2> QED BY <2>3, <2>6
  <1>18. ASSUME NEW c \in CR, NEW s \in Specs, UserEdit(c, s) PROVE Goal
    <2>1. /\ \A d \in CR : cr'[d].st = cr[d].st /\ (d # c => cr'[d] = cr[d])
          /\ cr'[c].spec = s /\ cr'[c].gen = cr[c].gen + 1
          /\ UNCHANGED <<cache, w>>
      BY <1>1, <1>18 DEF UserEdit, TypeOK, ObjectType
    <2>2. /\ s.name = cr[c].spec.name
          /\ ~Seen({"unsent"})' =>
               s.http = cr[c].spec.http /\ s.dom = cr[c].spec.dom
      <3>1. \A k \in {"race", "rename", "unsent"} : EditIs(k, c, s) => k \in faults'.seen
        BY <1>1, <1>18 DEF UserEdit, Note, TypeOK
      <3>2. "rename" \notin faults'.seen /\ ("unsent" \in faults'.seen => Seen({"unsent"})')
        BY DEF Seen
      <3> QED BY <3>1, <3>2 DEF EditIs
    <2>3. \A a : Alike(a, cr[c]) => Alike(a, cr'[c])
      BY <2>1, <2>2 DEF Alike
    <2>4. \A a : \A d \in CR : Alike(a, cr[d]) => Alike(a, cr'[d])
      BY <2>1, <2>3
    <2>5. \A d \in CR : cr'[d].spec.name = cr[d].spec.name
      BY <2>1, <2>2
    <2>6. Objects
      BY <1>2, <1>4, <2>1, <2>4, <2>5
    <2>7. w.pc = "finalize" =>
            mem.gen <= cr'[c0].gen /\ (cr'[c0] = mem => Alike(cache[c0], mem))
      <3>1. CASE c # c0
        BY <1>1, <1>4, <2>1, <3>1
      <3>2. CASE c = c0
        <4>1. mem.gen \in Nat /\ cr'[c0].gen = cr[c0].gen + 1
          BY <1>1, <2>1, <3>2 DEF ObjectType
        <4>2. w.pc = "finalize" => mem.gen < cr'[c0].gen
          BY <1>1, <1>4, <4>1
        <4>3. w.pc = "finalize" => mem.gen <= cr'[c0].gen
          BY <1>1, <4>1, <4>2
        <4>4. w.pc = "finalize" => cr'[c0].gen # mem.gen
          BY <1>1, <4>1, <4>2
        <4> QED BY <4>3, <4>4
      <3> QED BY <3>1, <3>2
    <2>8. Memory
      BY <1>1, <1>2, <1>4, <2>1, <2>4, <2>5, <2>7 DEF c0, mem
    <2> QED BY <2>6, <2>8
  <1>19. ASSUME NEW c \in CR, UserDelete(c) PROVE Goal
    <2> DEFINE new == Deleted(cr[c])
    <2>1. \A d \in CR : cr'[d] = IF d = c THEN new ELSE cr[d]
      BY <1>1, <1>19 DEF UserDelete, TypeOK
    <2>2. UNCHANGED <<cache, w>>
      BY <1>19 DEF UserDelete
    <2>3. cr[c].fin => /\ new.spec = cr[c].spec /\ new.st = cr[c].st /\ new.del
                       /\ new.gen = cr[c].gen + 1
      BY <1>1 DEF Deleted, ObjectType
    <2>4. ~cr[c].fin => new.st.rid = 0 /\ ~new.exists /\ new.gen = cr[c].gen
      BY DEF Deleted, Gone, ZeroStatus
    <2> HIDE DEF new
    <2>5. Objects
      <3>1. Held(cache[c]) => cr[c].fin
        BY <1>1 DEF CachedInv
      <3>2. Held(cache[c]) => Alike(cache[c], new)
        BY <1>4, <2>3, <3>1 DEF Alike
      <3>3. Has(new.st.rid, new.spec.name)
        BY <1>2, <1>3, <2>3, <2>4
      <3> QED BY <1>2, <1>4, <2>1, <2>2, <3>2, <3>3
    <2>6. w.pc = "finalize" =>
            mem.gen <= cr'[c0].gen /\ (cr'[c0] = mem => Alike(cache[c0], mem))
      <3>1. CASE c # c0
        BY <1>1, <1>4, <2>1, <3>1
      <3>2. CASE c = c0
        <4>1. mem.gen \in Nat /\ cr'[c0] = new /\ new.gen \in {cr[c0].gen, cr[c0].gen + 1}
          BY <1>1, <2>1, <2>3, <2>4, <3>2 DEF ObjectType
        <4>2. w.pc = "finalize" => mem.gen <= cr'[c0].gen
          BY <1>1, <1>4, <4>1
        <4>3. w.pc = "finalize" => mem # new
          BY <1>1, <2>3, <2>4 DEF WorkerInv
        <4> QED BY <4>1, <4>2, <4>3
      <3> QED BY <3>1, <3>2
    <2>7. w.pc \in Working => /\ cr'[c0].spec = cr[c0].spec
                              /\ \A a : Alike(a, cr[c0]) => Alike(a, cr'[c0])
      BY <1>1, <2>1, <2>3 DEF WorkerInv, Alike
    <2>8. Memory
      BY <1>1, <1>2, <1>4, <2>2, <2>6, <2>7 DEF c0, mem
    <2> QED BY <2>5, <2>8
  <1>20. ASSUME Crash PROVE Goal
    <2>1. UNCHANGED cr /\ cache' = cr /\ w' = Idle
      BY <1>20 DEF Crash
    <2>2. Objects
      BY <1>0, <1>2, <2>1
    <2> QED BY <1>7, <2>1, <2>2
  <1>21. Goal
    <2> HIDE DEF Goal
    <2>1. ASSUME Environment PROVE Goal
      BY <1>9, <1>17, <1>18, <1>19, <1>20, <2>1
         DEF Environment, Drift, SiteReady, SiteLost
    <2>2. ASSUME WorkerStep PROVE Goal
      BY <1>12, <1>13, <1>14, <1>15, <1>16, <2>2
    <2>3. ASSUME UNCHANGED vars PROVE Goal
      BY <1>9, <2>3 DEF vars
    <2> QED BY <1>10, <1>11, <2>1, <2>2, <2>3 DEF Next
  <1>22. \A n, id : Has(id, n) => Names(id, n)'
    BY NamesKept DEF Has
  <1>23. \A a, b : Alike(a, b) => SameUse(a, b)'
    BY DEF Alike, SameUse
  <1>24. ResourceCreated =>
           \A id, n : id = nextId /\ n = mem.spec.name => Names(id, n)'
    <2>1. CreatedResource.id = nextId /\ CreatedResource.name = mem.spec.name
      BY DEF CreatedResource
    <2>2. \A r \in resources : r.id # nextId
      BY <1>1 DEF IdsInv, OldRid, TypeOK, ResourceType
    <2> QED BY <2>1, <2>2 DEF ResourceCreated, Names
  <1>25. ResourceCreated => mem.spec.name = cr'[c0].spec.name
    <2>1. ResourceCreated => w.pc \in Working /\ cr' = cr
      BY DEF ResourceCreated, createResource, At, Working, PC
    <2> QED BY <1>4, <2>1 DEF Alike
  <1>26. (\A c \in CR : /\ Held(cache[c]) => SameUse(cache[c], cr[c])
                        /\ Names(cr[c].st.rid, cr[c].spec.name)
                        /\ Names(cache[c].st.rid, cache[c].spec.name))'
    BY <1>21, <1>22, <1>23 DEF Held
  <1>27. (w.pc = "finalize" =>
           w.rid = 0 /\ mem.gen <= cr[c0].gen /\ (cr[c0] = mem => SameUse(cache[c0], mem)))'
    BY <1>21, <1>23 DEF c0, mem
  <1>28. (w.pc \in Working =>
           /\ SameUse(mem, cr[c0]) /\ SameUse(cache[c0], cr[c0])
           /\ Names(mem.st.rid, cr[c0].spec.name) /\ Names(w.rid, cr[c0].spec.name))'
    <2>1. ASSUME w'.pc \in Working
          PROVE  /\ SameUse(mem, cr[c0])' /\ SameUse(cache[c0], cr[c0])'
                 /\ Names(mem.st.rid, cr[c0].spec.name)'
      BY <1>21, <1>22, <1>23, <2>1 DEF c0, mem
    <2>2. ASSUME w'.pc \in Working
          PROVE  Names(w.rid, cr[c0].spec.name)'
      <3>1. CASE Has(w'.rid, cr'[w'.c].spec.name)
        BY <1>22, <3>1 DEF c0
      <3>2. CASE ResourceCreated /\ w'.rid = nextId /\ w'.c = c0
        BY <1>24, <1>25, <3>2 DEF c0
      <3> QED BY <1>21, <2>2, <3>1, <3>2
    <2> QED BY <2>1, <2>2 DEF Working
  <1> QED BY <1>26, <1>27, <1>28 DEF UseInv

-----------------------------------------------------------------------------
(* The way to createResource, and NoDuplicate. *)

\* Each of these places of the worker is reached by one action.
LEMMA CreatePC ==
  ASSUME TypeOK, WorkerStep
  PROVE  /\ w'.pc \in {"adopt", "creating"} => ensureExists
         /\ w'.pc = "create" => MarkCreating
         /\ w'.pc = "record" => createResource
         /\ w'.pc \in {"rollback", "reget"} => RecordResource
  <1> DEFINE Special == {"adopt", "creating", "create", "record", "rollback", "reget"}
             Free(v) == v.pc \notin Special
  <1>1. \A y \in Why : Fail(y) \in WorkerType /\ Free(Fail(y))
    BY IdleType, FailType DEF Fail, WorkerType, TypeOK
  <1>2. \A v \in WorkerType : Ready(v) \in WorkerType /\ Free(Ready(v))
    BY IdleType, ReadyType DEF Ready, WorkerType
  <1>0. w \in WorkerType /\ c0 \in CR /\ cache[c0] \in ObjectType
    BY DEF TypeOK, WorkerType, c0
  <1>3. w \in WorkerType /\ \A pc \in PC : Goto(pc) \in WorkerType /\ Goto(pc).pc = pc
    BY DEF Goto, TypeOK, WorkerType
  <1>4. Free(Idle)
    BY DEF Idle
  <1>5. \A v \in WorkerType : \A k \in Kind : Free(StartKids(v, k))
    BY DEF StartKids, WorkerType
  <1>6. \A v \in WorkerType : Free(UpdateRules(v)) /\ Free(UpdateTargets(v))
    BY <1>2, <1>5 DEF UpdateRules, UpdateTargets, Kind
  <1>7. /\ Fail(EnsureWhy) \in WorkerType /\ Free(Fail(EnsureWhy))
        /\ Fail(UpdateWhy) \in WorkerType /\ Free(Fail(UpdateWhy))
        /\ Fail("Error") \in WorkerType /\ Free(Fail("Error"))
        /\ Free(Fail("BadRequest")) /\ Free(Fail("Conflict")) /\ Free(Fail("Pending"))
        /\ Free(Fail("Reset"))
    BY <1>1 DEF EnsureWhy, UpdateWhy, Why
  <1>8. /\ Goto("refetch") \in WorkerType /\ Free(Goto("refetch"))
        /\ Goto("prune") \in WorkerType /\ Free(Goto("prune"))
        /\ Free(Goto("unfinalize"))
    BY <1>3 DEF PC
  <1>9. /\ Goto("create") \in WorkerType /\ Goto("create").pc = "create"
        /\ Goto("reget") \in WorkerType /\ Goto("reget").pc = "reget"
        /\ Goto("rollback") \in WorkerType /\ Goto("rollback").pc = "rollback"
        /\ Goto("creating").pc = "creating"
    BY <1>3 DEF PC
  <1>10. Requeue \/ Forget => Free(w')
    BY <1>4 DEF Requeue, Forget
  <1>11. Refused => Free(w')
    BY <1>7 DEF Refused
  <1>12. CASE ensureExists
    <2>1. \A r : [w EXCEPT !.pc = "adopt", !.rid = r.id, !.dom = r.dom].pc = "adopt"
      BY <1>3 DEF WorkerType
    <2>2. \/ w' = Goto("refetch") \/ w' = Goto("creating") \/ Refused
          \/ \E r \in findResource :
               w' = [w EXCEPT !.pc = "adopt", !.rid = r.id, !.dom = r.dom]
      BY <1>12 DEF ensureExists
    <2>3. w'.pc \in {"adopt", "creating"} \/ Free(w')
      BY <1>8, <1>9, <1>11, <2>1, <2>2
    <2> QED BY <1>12, <2>3
  <1>13. CASE MarkCreating
    <2>1. w'.pc = "create" \/ Free(w')
      BY <1>7, <1>9, <1>13, PatchPC DEF MarkCreating
    <2> QED BY <1>13, <2>1
  <1>14. CASE createResource
    <2>1. [w EXCEPT !.pc = "record", !.http = mem.spec.http, !.rid = nextId,
                    !.dom = DomainOf(mem.spec)].pc = "record"
      BY <1>3 DEF WorkerType
    <2>2. w'.pc = "record" \/ Free(w')
      BY <1>7, <1>11, <1>14, <2>1 DEF createResource
    <2> QED BY <1>14, <2>2
  <1>15. CASE RecordResource
    <2>1. w'.pc \in {"reget", "rollback"}
      BY <1>9, <1>15, PatchPC DEF RecordResource
    <2> QED BY <1>15, <2>1
  <1>16. CASE AddFinalizer
    <2>1. Free([w EXCEPT !.pc = "site", !.mem = WithFinalizer])
      BY <1>3 DEF WorkerType
    <2>2. Free(w')
      BY <1>10, <1>16, <2>1 DEF AddFinalizer
    <2> QED BY <2>2
  <1>17. CASE ResolveSite
    <2>1. Free(w')
      BY <1>3, <1>7, <1>17 DEF ResolveSite, WorkerType
    <2> QED BY <2>1
  <1>18. CASE Adopt
    <2> DEFINE v == [w EXCEPT !.pc = "update", !.adopted = TRUE]
    <2>0. "update" \in PC
      BY DEF PC
    <2>1. v \in WorkerType /\ Free(v)
      BY <1>0, <2>0 DEF WorkerType
    <2>2. Free(w')
      BY <1>7, <1>18, <2>1, PatchPC DEF Adopt
    <2> QED BY <2>2
  <1>19. CASE Rollback \/ Reget \/ Settings
    <2>1. [w EXCEPT !.pc = "settings", !.mem = cache[c0]].pc = "settings"
      BY <1>3 DEF WorkerType
    <2>2. \/ w' \in {Fail("Error"), StartKids(w, "target")} \/ Refused
          \/ w' = [w EXCEPT !.pc = "settings", !.mem = cache[c0]]
      BY <1>19 DEF Rollback, Reget, Settings
    <2>3. Free(StartKids(w, "target"))
      BY <1>3, <1>5 DEF Kind
    <2> QED BY <1>7, <1>11, <2>1, <2>2, <2>3
  <1>20. CASE (\E i \in Item : CreateKid(i)) \/ \E id \in w.old : PruneKid(id)
    <2>1. Free(w')
      BY <1>3, <1>20 DEF CreateKid, KidFails, PruneKid, At, WorkerType
    <2> QED BY <2>1
  <1>21. CASE CreatedTargets
    <2>1. Free(w')
      BY <1>3, <1>5, <1>7, <1>21, PatchPC DEF CreatedTargets, Kind
    <2> QED BY <2>1
  <1>22. CASE CreatedRules
    <2>1. (IF w.had THEN Goto("refetch") ELSE Ready(w)) \in WorkerType
          /\ Free(IF w.had THEN Goto("refetch") ELSE Ready(w))
      BY <1>2, <1>3, <1>8
    <2>2. Free(w')
      BY <1>7, <1>22, <2>1, PatchPC DEF CreatedRules
    <2> QED BY <2>2
  <1>23. CASE Refetch
    <2>0. "update" \in PC
      BY DEF PC
    <2>1. [w EXCEPT !.mem = cache[c0], !.pc = "update"] \in WorkerType
          /\ Free([w EXCEPT !.mem = cache[c0], !.pc = "update"])
      BY <1>0, <2>0 DEF WorkerType
    <2>2. Free(w')
      <3> HIDE DEF Free
      <3> QED BY <1>2, <1>3, <1>23, <2>1 DEF Refetch
    <2> QED BY <2>2
  <1>24. CASE updateResource
    <2>1. [w EXCEPT !.updating = TRUE] \in WorkerType
      BY <1>3 DEF WorkerType
    <2>2. Free(w')
      BY <1>6, <1>7, <1>24, <2>1 DEF updateResource
    <2> QED BY <2>2
  <1>25. CASE PersistKids
    <2>1. Free(w')
      BY <1>7, <1>8, <1>25, PatchPC DEF PersistKids
    <2> QED BY <2>1
  <1>26. CASE Pruned
    <2>1. Free(w')
      BY <1>2, <1>3, <1>6, <1>26 DEF Pruned
    <2> QED BY <2>1
  <1>27. CASE MarkReady \/ ReportFailure \/ Cleanup \/ RemoveFinalizer
    <2>1. Free(w')
      BY <1>8, <1>10, <1>27 DEF MarkReady, ReportFailure, Cleanup, RemoveFinalizer
    <2> QED BY <2>1
  <1> QED BY <1>12, <1>13, <1>14, <1>15, <1>16, <1>17, <1>18, <1>19, <1>20, <1>21,
             <1>22, <1>23, <1>24, <1>25, <1>26, <1>27 DEF WorkerStep

\* Steps of others leave the worker where it is, or bring it to idle or to the start
\* of reconcile.
LEMMA OthersPC ==
  ASSUME TypeOK, [Next]_vars, ~WorkerStep
  PROVE  \/ UNCHANGED <<w, cr>> \/ UNCHANGED <<w, cache>> \/ w' = Idle
         \/ w'.pc \in {"cleanup", "site", "finalize"} /\ UNCHANGED <<cr, cache>>
  <1>1. ASSUME NEW c \in CR, Reconcile(c)
        PROVE  w' = Idle \/ (w'.pc \in {"cleanup", "site", "finalize"}
                             /\ UNCHANGED <<cr, cache>>)
    BY <1>1, IdleType DEF Reconcile, WorkerType
  <1> QED BY <1>1 DEF Next, CacheSync, Environment, UserCreate, UserEdit, UserDelete,
             Drift, SiteReady, SiteLost, Crash, vars

LEMMA VacantInvNext ==
  ASSUME LinkInv, ~Seen({"rename"}), UseInv, ~Seen({"unsent"}), VacantInv, [Next]_vars
  PROVE  VacantInv'
  <1> DEFINE Vacant(s) == ~(s.http /\ s.dom # NoDom) =>
                            \A r \in resources : ~(r.name = s.name /\ r.dom = NoDom)
  <1>1. /\ TypeOK /\ c0 \in CR /\ w \in WorkerType /\ mem \in ObjectType
        /\ mem.spec.name \in Name /\ mem.spec \in SpecType
    BY DEF LinkInv, CleanupInv, TypeOK, WorkerType, ObjectType, SpecType, c0, mem
  <1>2. VacantInv <=> (w.pc \in {"creating", "create"} => Vacant(mem.spec))
    BY DEF VacantInv
  <1>3. (w'.pc \in {"creating", "create"} => \A s : s = w'.mem.spec => Vacant(s)')
          => VacantInv'
    BY DEF VacantInv, mem
  <1>4. ASSUME Retained, w'.pc \in {"creating", "create"} => Vacant(w'.mem.spec)
        PROVE  VacantInv'
    <2>1. \A s : Vacant(s) => Vacant(s)'
      BY <1>4 DEF Retained, Became
    <2> HIDE DEF Vacant
    <2> QED BY <1>3, <1>4, <2>1
  <1> HIDE DEF Vacant
  <1>5. Retained \/ ResourceCreated
    BY <1>1, RetainedStep
  <1>6. CASE WorkerStep
    <2>1. CASE ensureExists
      <3>1. UNCHANGED resources
        BY <2>1 DEF ensureExists, Refused, pangolin
      <3>2. Retained
        BY <3>1 DEF Retained, Became
      <3>3. w'.pc \in {"creating", "create"} => findResource = {} /\ w'.mem = mem
        <4>1. \A y \in Why : Fail(y).pc = "fail"
          BY IdleType DEF Fail, WorkerType
        <4>2. \A r : [w EXCEPT !.pc = "adopt", !.rid = r.id, !.dom = r.dom].pc = "adopt"
          BY <1>1 DEF WorkerType
        <4>3. Goto("refetch").pc = "refetch" /\ Goto("creating").mem = mem
          BY <1>1 DEF Goto, WorkerType, mem
        <4> HIDE DEF findResource
        <4> QED BY <2>1, <4>1, <4>2, <4>3 DEF ensureExists, Refused, Why
      <3>4. findResource = {} => Vacant(mem.spec)
        <4>1. \A r \in resources : r.name = mem.spec.name => r \in Listed
          BY <1>1, SearchFindsName DEF Listed
        <4> QED BY <4>1 DEF findResource, Vacant
      <3> QED BY <1>4, <3>2, <3>3, <3>4
    <2>2. CASE MarkCreating
      <3>1. w.pc = "creating" /\ UNCHANGED resources
        BY <2>2 DEF MarkCreating, At, pangolin
      <3>2. Retained
        BY <3>1 DEF Retained, Became
      <3>3. Vacant(mem.spec)
        BY <1>2, <3>1
      <3>4. /\ cr[c0].spec.name = mem.spec.name /\ cr[c0].spec.http = mem.spec.http
            /\ cr[c0].spec.dom = mem.spec.dom
        BY <3>1 DEF UseInv, SameUse, Working, PC
      <3>5. w'.pc # "fail" => w'.mem.spec = DecodedSpec(mem.spec, cr[c0].spec)
        <4> DEFINE st == [mem.st EXCEPT !.phase = "Creating"]
                   new == [cr[c0] EXCEPT !.st = Merge(cr[c0].st, mem.st, st)]
        <4>1. Fail("Error") \in WorkerType
          BY <1>1, FailType DEF Why
        <4>2. w' = [Goto("create") EXCEPT !.mem = Decoded(new, st)]
              \/ w' = [Fail("Error") EXCEPT !.mem.st = st]
          BY <2>2 DEF MarkCreating, patchStatus
        <4>3. Decoded(new, st).spec = DecodedSpec(mem.spec, cr[c0].spec)
          <5>1. cr[c0] \in ObjectType
            BY <1>1 DEF TypeOK
          <5>2. new.spec = cr[c0].spec /\ new \in [exists : BOOLEAN, del : BOOLEAN,
                  fin : BOOLEAN, gen : Nat, spec : SpecType,
                  st : {Merge(cr[c0].st, mem.st, st)}]
            BY <5>1 DEF ObjectType
          <5> QED BY <5>2 DEF Decoded
        <4> HIDE DEF new, st
        <4>4. [Goto("create") EXCEPT !.mem = Decoded(new, st)].mem = Decoded(new, st)
          BY <1>1 DEF Goto, WorkerType
        <4>5. [Fail("Error") EXCEPT !.mem.st = st].pc = "fail"
          <5>1. Fail("Error").pc = "fail"
            BY IdleType DEF Fail, WorkerType
          <5> QED BY <4>1, <5>1 DEF WorkerType
        <4> QED BY <4>2, <4>3, <4>4, <4>5
      <3>6. \A s : s = DecodedSpec(mem.spec, cr[c0].spec) => Vacant(s)
        <4>1. /\ DecodedSpec(mem.spec, cr[c0].spec).name = mem.spec.name
              /\ DecodedSpec(mem.spec, cr[c0].spec).http = mem.spec.http
              /\ DecodedSpec(mem.spec, cr[c0].spec).dom = mem.spec.dom
          BY <3>4 DEF DecodedSpec, Kept
        <4> QED BY <3>3, <4>1 DEF Vacant
      <3> QED BY <1>4, <3>2, <3>5, <3>6
    <2>3. CASE ~ensureExists /\ ~MarkCreating
      <3>1. w'.pc \notin {"creating", "create"}
        BY <1>1, <1>6, <2>3, CreatePC
      <3> QED BY <1>3, <3>1
    <2> QED BY <2>1, <2>2, <2>3
  <1>7. CASE ~WorkerStep
    <2>1. Retained
      BY <1>5, <1>7 DEF ResourceCreated, WorkerStep
    <2>2. \/ w' = w \/ w'.pc \in {"idle", "cleanup", "site", "finalize"}
      <3>1. Idle.pc = "idle"
        BY DEF Idle
      <3> QED BY <1>1, <1>7, <3>1, OthersPC
    <2> QED BY <1>2, <1>4, <2>1, <2>2 DEF mem
  <1> QED BY <1>6, <1>7

LEMMA NoDuplicateNext ==
  ASSUME NameInv, [Next]_vars
  PROVE  NoDuplicate'
  <1> SUFFICES ASSUME ~Seen({"rename", "unsent"})',
                      NEW r1 \in resources', NEW r2 \in resources', r1.by # NoCR,
                      r1.name = r2.name, r1.dom = r2.dom
               PROVE  r1 = r2
    BY DEF NoDuplicate
  <1>1. TypeOK /\ LinkInv /\ IdsUnique
    BY DEF NameInv, LinkInv, CleanupInv
  <1>2. /\ ~Seen({"rename", "unsent"}) /\ ~Seen({"rename"}) /\ UseInv /\ VacantInv
        /\ \A q1, q2 \in resources :
             q1.by # NoCR /\ q1.name = q2.name /\ q1.dom = q2.dom => q1 = q2
    BY <1>1, FaultsGrowNext DEF FaultsGrow, Seen, NameInv, NoDuplicate
  <1>3. CASE Retained
    <2>1. PICK q1 \in resources, q2 \in resources :
            Became(r1, q1) /\ Became(r2, q2) /\ (q1 = q2 => r1 = r2)
      BY <1>3 DEF Retained
    <2> QED BY <1>2, <2>1 DEF Became
  <1>4. CASE ResourceCreated
    <2>1. /\ resources' = resources \cup {CreatedResource} /\ w.pc = "create"
          /\ CreatedResource.name = mem.spec.name
          /\ CreatedResource.dom = DomainOf(mem.spec)
      BY <1>4 DEF ResourceCreated, createResource, At, CreatedResource
    <2>2. Resolvable(mem.spec) /\ ~DomainTaken
      <3>1. nextId' # nextId
        BY <1>1, <1>4 DEF ResourceCreated, TypeOK
      <3> QED BY <1>4, <3>1 DEF ResourceCreated, createResource, Refused, pangolin
    <2>3. mem.spec \in SpecType
      BY <1>1 DEF TypeOK, WorkerType, ObjectType, mem
    <2>4. \A r \in resources : ~(r.name = mem.spec.name /\ r.dom = DomainOf(mem.spec))
      <3>1. CASE mem.spec.http /\ mem.spec.dom # NoDom
        BY <2>2, <2>3, <3>1, DomainOfType DEF DomainTaken
      <3>2. CASE ~(mem.spec.http /\ mem.spec.dom # NoDom)
        BY <1>2, <2>1, <3>2 DEF VacantInv, DomainOf
      <3> QED BY <3>1, <3>2
    <2> QED BY <1>2, <2>1, <2>4
  <1> QED BY <1>1, <1>2, <1>3, <1>4, RetainedStep

LEMMA NameInvInit == Init => NameInv
  <1> SUFFICES ASSUME Init PROVE NameInv
    OBVIOUS
  <1>1. LinkInv /\ TypeOK
    BY LinkInvInit DEF LinkInv, CleanupInv
  <1>2. /\ ~Gone(0).fin /\ Gone(0).st.rid = 0 /\ Gone(0).gen = 0
    BY DEF Gone, ZeroStatus
  <1>3. /\ \A c \in CR : cr[c] = Gone(0) /\ cache[c] = Gone(0)
        /\ w.pc = "idle" /\ resources \subseteq Foreign
    BY DEF Init, Idle
  <1>4. \A r \in Foreign : r.id # 0 /\ r.by = NoCR
    BY ConstantsAssumption DEF ResourceType
  <1>5. IdsUnique
    BY <1>3, ConstantsAssumption DEF IdsUnique
  <1>6. GenInv
    BY <1>2, <1>3 DEF GenInv
  <1>7. UseInv
    BY <1>2, <1>3, <1>4 DEF UseInv, Held, Names, Working
  <1>8. VacantInv /\ NoDuplicate
    BY <1>3, <1>4 DEF VacantInv, NoDuplicate
  <1> QED BY <1>1, <1>5, <1>6, <1>7, <1>8 DEF NameInv

LEMMA NameInvNext == NameInv /\ [Next]_vars => NameInv'
  <1> SUFFICES ASSUME NameInv, [Next]_vars PROVE NameInv'
    OBVIOUS
  <1>1. TypeOK /\ LinkInv /\ IdsUnique /\ GenInv /\ (~Seen({"rename"}) => UseInv)
    BY DEF NameInv, LinkInv, CleanupInv
  <1>2. FaultsGrow
    BY <1>1, FaultsGrowNext
  <1>3. LinkInv' /\ IdsUnique' /\ GenInv'
    BY <1>1, LinkInvNext, IdsUniqueNext, GenInvNext
  <1>4. ~Seen({"rename"})' => UseInv'
    <2>1. ~Seen({"rename"})' => ~Seen({"rename"})
      BY <1>2 DEF FaultsGrow, Seen
    <2> QED BY <1>1, <2>1, UseInvNext
  <1>5. ~Seen({"rename", "unsent"})' => VacantInv'
    <2>1. ~Seen({"rename", "unsent"})' =>
            ~Seen({"rename", "unsent"}) /\ ~Seen({"rename"}) /\ ~Seen({"unsent"})
      BY <1>2 DEF FaultsGrow, Seen
    <2> QED BY <1>1, <2>1, VacantInvNext DEF NameInv
  <1> QED BY <1>3, <1>4, <1>5, NoDuplicateNext DEF NameInv

LEMMA NameInvariant == Spec => []NameInv
  BY NameInvInit, NameInvNext, PTL DEF Spec

\* ensureExists lists before createResource creates: whatever crashes, gets lost or
\* is read late, the operator creates no resource of a name and a domain that a
\* resource has already, for any number of objects, as long as no edit changes an
\* object's name or domain.
THEOREM CreatedOnce == Spec => []NoDuplicate
  <1>1. NameInv => NoDuplicate
    BY DEF NameInv
  <1> QED BY <1>1, NameInvariant, PTL

-----------------------------------------------------------------------------
(* Links, and NoOrphan. *)

\* Nothing happened that NoOrphan makes an exception for.
Undisturbed == ~Seen({"crash", "apiLost", "del", "lag", "rename"})

\* Where the identifier in memory is the one in the status at the API server.
Synced == Working \ {"rollback", "ready", "fail"}

\* The worker v has the link of its object, and gives it up (Reset) only after the
\* resource is gone.
Sync(v) ==
  /\ v.pc \in Synced => v.mem.st.rid = cr[v.c].st.rid
  /\ v.pc = "kids" /\ v.updating /\ "NotFound" \in v.errs => v.mem.st.rid \notin live
  /\ v.pc = "fail" /\ v.why = "Reset" =>
       v.mem.st.rid = cr[v.c].st.rid /\ v.mem.st.rid \notin live

\* Nothing that was created for its object can be lost while it links another
\* resource.
Alone(v) ==
  \A r \in resources : r.by = v.c =>
    /\ v.pc \notin {"adopt", "creating", "create"}
    /\ v.pc = "record" => r.id = v.rid

OrphanInv == NameInv /\ (Undisturbed => Linked /\ Sync(w) /\ Alone(w))

LEMMA PatchSync ==
  ASSUME TypeOK, NEW st \in StatusType, NEW ok \in WorkerType, NEW ko \in WorkerType,
         patchStatus(st, ok, ko)
  PROVE  /\ \A c \in CR : c # c0 => cr'[c] = cr[c]
         /\ cr'[c0].st.rid \in {st.rid, cr[c0].st.rid}
         /\ st.rid = mem.st.rid => cr'[c0].st.rid = cr[c0].st.rid
         /\ w'.mem.st.rid \in {st.rid, cr'[c0].st.rid}
         /\ \/ /\ w'.pc = ok.pc /\ w'.c = ok.c /\ w'.rid = ok.rid
               /\ w'.updating = ok.updating /\ w'.errs = ok.errs /\ w'.why = ok.why
               /\ mem.st.rid = cr[c0].st.rid =>
                    w'.mem.st.rid = st.rid /\ cr'[c0].st.rid = st.rid
            \/ /\ w'.pc = ko.pc /\ w'.c = ko.c /\ w'.rid = ko.rid
               /\ w'.updating = ko.updating /\ w'.errs = ko.errs /\ w'.why = ko.why
               /\ w'.mem.st.rid = st.rid
  <1> DEFINE new == [cr[c0] EXCEPT !.st = Merge(cr[c0].st, mem.st, st)]
  <1>1. c0 \in CR /\ cr[c0] \in ObjectType /\ cr \in [CR -> ObjectType]
    BY DEF TypeOK, WorkerType, c0
  <1>2. /\ Merge(cr[c0].st, mem.st, st).rid = IF st.rid # mem.st.rid THEN st.rid
                                             ELSE cr[c0].st.rid
        /\ Merge(cr[c0].st, mem.st, st).rid \in {st.rid, cr[c0].st.rid}
    BY DEF Merge, Sent
  <1>3. /\ new.st = Merge(cr[c0].st, mem.st, st)
        /\ new \in [exists : BOOLEAN, del : BOOLEAN, fin : BOOLEAN, gen : Nat,
                    spec : SpecType, st : {Merge(cr[c0].st, mem.st, st)}]
    BY <1>1 DEF ObjectType
  <1>4. Decoded(new, st).st.rid = IF new.st.rid = 0 THEN st.rid ELSE new.st.rid
    BY <1>3 DEF Decoded, DecodedStatus, Kept
  <1>5. /\ \A x : [ok EXCEPT !.mem = x].mem = x
        /\ [ko EXCEPT !.mem.st = st].mem.st = st
    BY DEF WorkerType, ObjectType
  <1>6. /\ \A x : LET v == [ok EXCEPT !.mem = x]
                  IN  /\ v.pc = ok.pc /\ v.c = ok.c /\ v.rid = ok.rid
                      /\ v.updating = ok.updating /\ v.errs = ok.errs /\ v.why = ok.why
        /\ LET v == [ko EXCEPT !.mem.st = st]
           IN  /\ v.pc = ko.pc /\ v.c = ko.c /\ v.rid = ko.rid
               /\ v.updating = ko.updating /\ v.errs = ko.errs /\ v.why = ko.why
    BY DEF WorkerType
  <1>7. \/ cr' = [cr EXCEPT ![c0] = new] /\ w' = [ok EXCEPT !.mem = Decoded(new, st)]
        \/ cr' = cr /\ w' = [ko EXCEPT !.mem.st = st]
        \/ cr' = [cr EXCEPT ![c0] = new] /\ w' = [ko EXCEPT !.mem.st = st]
    BY DEF patchStatus
  <1> HIDE DEF new
  <1>8. CASE cr' = [cr EXCEPT ![c0] = new] /\ w' = [ok EXCEPT !.mem = Decoded(new, st)]
    <2>1. cr'[c0] = new /\ \A c \in CR : c # c0 => cr'[c] = cr[c]
      BY <1>1, <1>8
    <2>2. w'.mem = Decoded(new, st)
      BY <1>5, <1>8
    <2>3. /\ w'.pc = ok.pc /\ w'.c = ok.c /\ w'.rid = ok.rid
          /\ w'.updating = ok.updating /\ w'.errs = ok.errs /\ w'.why = ok.why
      BY <1>6, <1>8
    <2> QED BY <1>2, <1>3, <1>4, <2>1, <2>2, <2>3
  <1>9. ASSUME w' = [ko EXCEPT !.mem.st = st],
               cr' = cr \/ cr' = [cr EXCEPT ![c0] = new]
        PROVE  /\ \A c \in CR : c # c0 => cr'[c] = cr[c]
               /\ cr'[c0].st.rid \in {st.rid, cr[c0].st.rid}
               /\ st.rid = mem.st.rid => cr'[c0].st.rid = cr[c0].st.rid
               /\ w'.pc = ko.pc /\ w'.c = ko.c /\ w'.rid = ko.rid
               /\ w'.updating = ko.updating /\ w'.errs = ko.errs /\ w'.why = ko.why
               /\ w'.mem.st.rid = st.rid
    <2>1. cr'[c0] \in {cr[c0], new} /\ \A c \in CR : c # c0 => cr'[c] = cr[c]
      BY <1>1, <1>9
    <2> QED BY <1>2, <1>3, <1>5, <1>6, <1>9, <2>1
  <1> QED BY <1>7, <1>8, <1>9

LEMMA ReturnSync ==
  ASSUME TypeOK, NEW st \in StatusType, patchAndReturn(st)
  PROVE  /\ \A c \in CR : c # c0 => cr'[c] = cr[c]
         /\ cr'[c0].st.rid \in {st.rid, cr[c0].st.rid}
         /\ st.rid = mem.st.rid => cr'[c0].st.rid = cr[c0].st.rid
  <1>1. c0 \in CR /\ cr[c0] \in ObjectType /\ cr \in [CR -> ObjectType]
    BY DEF TypeOK, WorkerType, c0
  <1>2. Merge(cr[c0].st, mem.st, st).rid = IF st.rid # mem.st.rid THEN st.rid
                                           ELSE cr[c0].st.rid
    BY DEF Merge, Sent
  <1>3. CASE UNCHANGED cr
    BY <1>3
  <1>4. CASE cr' = [cr EXCEPT ![c0].st = Merge(@, mem.st, st)]
    <2>1. cr'[c0].st = Merge(cr[c0].st, mem.st, st) /\ \A c \in CR : c # c0 => cr'[c] = cr[c]
      BY <1>1, <1>4 DEF ObjectType
    <2> QED BY <1>2, <2>1
  <1> QED BY <1>3, <1>4 DEF patchAndReturn

\* The status at the API server changes its link where an identifier is recorded, or
\* where the resource that it links is gone.
RidMoves ==
  \A c \in CR : cr'[c].st.rid # cr[c].st.rid =>
    /\ c = c0
    /\ w.pc \in {"adopt", "record"} \/ cr[c].st.rid \notin live
    /\ w.pc = "record" => cr'[c].st.rid = w.rid

\* The worker stays in step with the status at the API server, and gives a link up
\* only when its resource is gone.
LEMMA SyncWorker ==
  ASSUME LinkInv, Sync(w), WorkerStep, ~Seen({"apiLost", "lag"})'
  PROVE  Sync(w)' /\ RidMoves
  <1> DEFINE S(v) ==
        /\ v.pc \in Synced => v.mem.st.rid = cr'[v.c].st.rid
        /\ v.pc = "kids" /\ v.updating /\ "NotFound" \in v.errs => v.mem.st.rid \notin live'
        /\ v.pc = "fail" /\ v.why = "Reset" =>
             v.mem.st.rid = cr'[v.c].st.rid /\ v.mem.st.rid \notin live'
      Goal == S(w') /\ RidMoves
  <1>0. TypeOK
    BY DEF LinkInv, CleanupInv
  <1>1. /\ TypeOK /\ w \in WorkerType /\ c0 \in CR /\ mem.st \in StatusType
        /\ mem.spec \in SpecType /\ mem \in ObjectType
        /\ w.kind \in Kind /\ w.got \in [Kind -> SUBSET Nat] /\ w.rid \in Nat
        /\ w.dom \in Seq(Char) /\ cache[c0] \in ObjectType /\ cr \in [CR -> ObjectType]
    BY DEF LinkInv, CleanupInv, TypeOK, WorkerType, ObjectType, c0, mem
  <1>2. w.pc \in Synced => mem.st.rid = cr[c0].st.rid
    BY DEF Sync, mem, c0
  <1>3. UNCHANGED cr => RidMoves
    BY DEF RidMoves
  <1>4. /\ \A pc : Goto(pc).mem = mem /\ Goto(pc).c = c0 /\ Goto(pc).pc = pc
        /\ \A pc \in PC : Goto(pc) \in WorkerType
    BY <1>1 DEF Goto, WorkerType, mem, c0
  <1>5. \A y : /\ Fail(y).pc = "fail" /\ Fail(y).why = y /\ Fail(y).mem = mem
               /\ Fail(y).c = c0
    BY IdleType DEF Fail, WorkerType
  <1>6. \A v : /\ Ready(v).pc = "ready"
    BY IdleType DEF Ready, WorkerType
  <1>7. \A v \in WorkerType : \A k \in Kind :
          LET u == StartKids(v, k)
          IN  u.pc = "kids" /\ u.mem = v.mem /\ u.c = v.c /\ u.errs = {}
    BY DEF StartKids, WorkerType
  <1>8. Idle.pc = "idle"
    BY DEF Idle
  <1>9. /\ "fail" \notin Synced /\ "ready" \notin Synced /\ "idle" \notin Synced
        /\ "rollback" \notin Synced /\ "unfinalize" \notin Synced
        /\ "kids" \in Synced
    BY DEF Synced, Working, PC
  <1>10. S(Idle)
    BY <1>8, <1>9
  <1>11. \A v : S(Ready(v))
    BY <1>6, <1>9
  <1>12. \A y : y # "Reset" => S(Fail(y))
    BY <1>5, <1>9
  <1>13. EnsureWhy # "Reset"
    BY DEF EnsureWhy
  <1>14. \A v \in WorkerType :
           v.mem.st.rid = cr'[v.c].st.rid =>
             S(StartKids(v, "target")) /\ S(StartKids(v, "rule"))
             /\ S(UpdateRules(v)) /\ S(UpdateTargets(v))
    <2>1. \A v \in WorkerType : \A k \in Kind :
            v.mem.st.rid = cr'[v.c].st.rid => S(StartKids(v, k))
      BY <1>7
    <2> HIDE DEF S
    <2> QED BY <1>11, <2>1 DEF UpdateRules, UpdateTargets, Kind
  <1>15. Refused => S(w')
    BY <1>12 DEF Refused
  <1>16. Requeue \/ Forget => S(w')
    BY <1>10 DEF Requeue, Forget
  <1>17. S(w') => Sync(w)'
    BY DEF Sync, live
  <1>18. ASSUME AddFinalizer PROVE Goal
    <2>1. /\ WithFinalizer.st = mem.st
          /\ [w EXCEPT !.pc = "site", !.mem = WithFinalizer].mem = WithFinalizer
          /\ [w EXCEPT !.pc = "site", !.mem = WithFinalizer].pc = "site"
          /\ [w EXCEPT !.pc = "site", !.mem = WithFinalizer].c = c0
      BY <1>1 DEF WithFinalizer, ObjectType, WorkerType, c0
    <2>2. \/ cr[c0] = mem /\ cr' = [cr EXCEPT ![c0] = WithFinalizer]
          \/ UNCHANGED cr
      BY <1>18 DEF AddFinalizer, Unmodified
    <2>3. RidMoves
      BY <1>1, <2>1, <2>2 DEF RidMoves
    <2>4. CASE w' = [w EXCEPT !.pc = "site", !.mem = WithFinalizer]
               /\ cr[c0] = mem /\ cr' = [cr EXCEPT ![c0] = WithFinalizer]
      <3>1. w'.mem.st.rid = cr'[w'.c].st.rid /\ w'.pc = "site"
        BY <1>1, <2>1, <2>4
      <3> QED BY <2>3, <3>1
    <2>5. CASE Requeue
      BY <1>16, <2>3, <2>5
    <2> QED BY <1>18, <2>4, <2>5 DEF AddFinalizer, Unmodified
  <1>19. ASSUME ResolveSite PROVE Goal
    <2>1. w.pc = "site" /\ UNCHANGED cr
      BY <1>19 DEF ResolveSite, At
    <2>2. mem.st.rid = cr[c0].st.rid
      BY <1>2, <2>1 DEF Synced, Working, PC
    <2>3. \A s, h : LET v == [w EXCEPT !.pc = "list", !.site = s, !.had = h]
                    IN  v.pc = "list" /\ v.mem = mem /\ v.c = c0
      BY <1>1 DEF WorkerType, mem, c0
    <2>4. \/ \E s, h : w' = [w EXCEPT !.pc = "list", !.site = s, !.had = h]
          \/ w' = Fail("Pending")
      BY <1>19 DEF ResolveSite
    <2>5. S(w')
      <3>1. CASE w' = Fail("Pending")
        BY <1>12, <3>1
      <3>2. CASE \E s, h : w' = [w EXCEPT !.pc = "list", !.site = s, !.had = h]
        BY <2>1, <2>2, <2>3, <3>2
      <3> QED BY <2>4, <3>1, <3>2
    <2> QED BY <1>3, <2>1, <2>5
  <1>20. ASSUME ensureExists PROVE Goal
    <2>1. w.pc = "list" /\ UNCHANGED cr
      BY <1>20 DEF ensureExists, At
    <2>2. mem.st.rid = cr[c0].st.rid
      BY <1>2, <2>1 DEF Synced, Working, PC
    <2>3. \A r : LET v == [w EXCEPT !.pc = "adopt", !.rid = r.id, !.dom = r.dom]
                 IN  v.pc = "adopt" /\ v.mem = mem /\ v.c = c0
      BY <1>1 DEF WorkerType, mem, c0
    <2>4. \/ w' = Goto("refetch") \/ w' = Goto("creating") \/ Refused
          \/ \E r : w' = [w EXCEPT !.pc = "adopt", !.rid = r.id, !.dom = r.dom]
      BY <1>20 DEF ensureExists
    <2>5. S(w')
      <3>1. CASE Refused
        BY <1>15, <3>1
      <3>2. CASE \E r : w' = [w EXCEPT !.pc = "adopt", !.rid = r.id, !.dom = r.dom]
        BY <2>1, <2>2, <2>3, <3>2
      <3>3. CASE w' = Goto("refetch") \/ w' = Goto("creating")
        BY <1>4, <2>1, <2>2, <3>3
      <3> QED BY <2>4, <3>1, <3>2, <3>3
    <2> QED BY <1>3, <2>1, <2>5
  <1>21. ASSUME Adopt PROVE Goal
    <2> DEFINE st == [mem.st EXCEPT !.rid = w.rid, !.dom = w.dom, !.phase = "Creating",
                        !.ids = [k \in Kind |-> {}], !.hash = [k \in Kind |-> {}]]
               ok == [w EXCEPT !.pc = "update", !.adopted = TRUE]
    <2>1. st \in StatusType
      BY <1>1 DEF StatusType, Phase
    <2>2. ok \in WorkerType /\ ok.pc = "update" /\ ok.c = c0
      BY <1>1 DEF WorkerType, PC, c0
    <2>3. patchStatus(st, ok, Fail("Error")) /\ w.pc = "adopt"
      BY <1>21 DEF Adopt, At
    <2>4. Fail("Error") \in WorkerType
      BY <1>1, FailType DEF Why
    <2>5. mem.st.rid = cr[c0].st.rid
      BY <1>2, <2>3 DEF Synced, Working, PC
    <2> HIDE DEF st, ok
    <2>6. /\ \A c \in CR : c # c0 => cr'[c] = cr[c]
          /\ \/ w'.pc = "update" /\ w'.c = c0 /\ w'.mem.st.rid = cr'[c0].st.rid
             \/ w'.pc = "fail" /\ w'.why = "Error"
      BY <1>0, <1>5, <2>1, <2>2, <2>3, <2>4, <2>5, PatchSync
    <2>7. RidMoves
      BY <2>3, <2>6 DEF RidMoves
    <2>8. S(w')
      BY <1>9, <2>6
    <2> QED BY <2>7, <2>8
  <1>22. ASSUME MarkCreating PROVE Goal
    <2> DEFINE st == [mem.st EXCEPT !.phase = "Creating"]
    <2>1. st \in StatusType /\ st.rid = mem.st.rid
      BY <1>1 DEF StatusType, Phase
    <2>2. patchStatus(st, Goto("create"), Fail("Error")) /\ w.pc = "creating"
      BY <1>22 DEF MarkCreating, At
    <2>3. Fail("Error") \in WorkerType /\ Goto("create") \in WorkerType
      BY <1>1, <1>4, FailType DEF Why, PC
    <2>4. mem.st.rid = cr[c0].st.rid
      BY <1>2, <2>2 DEF Synced, Working, PC
    <2> HIDE DEF st
    <2>5. /\ \A c \in CR : c # c0 => cr'[c] = cr[c]
          /\ cr'[c0].st.rid = cr[c0].st.rid
          /\ \/ w'.pc = "create" /\ w'.c = c0 /\ w'.mem.st.rid = cr'[c0].st.rid
             \/ w'.pc = "fail" /\ w'.why = "Error"
      BY <1>0, <1>4, <1>5, <2>1, <2>2, <2>3, <2>4, PatchSync
    <2>6. RidMoves
      BY <2>5 DEF RidMoves
    <2>7. S(w')
      BY <1>9, <2>5
    <2> QED BY <2>6, <2>7
  <1>23. ASSUME createResource PROVE Goal
    <2>1. w.pc = "create" /\ UNCHANGED cr
      BY <1>23 DEF createResource, At
    <2>2. mem.st.rid = cr[c0].st.rid
      BY <1>2, <2>1 DEF Synced, Working, PC
    <2>3. LET v == [w EXCEPT !.pc = "record", !.http = mem.spec.http, !.rid = nextId,
                             !.dom = DomainOf(mem.spec)]
          IN  v.pc = "record" /\ v.mem = mem /\ v.c = c0
      BY <1>1 DEF WorkerType, mem, c0
    <2>4. \/ w' = [w EXCEPT !.pc = "record", !.http = mem.spec.http, !.rid = nextId,
                            !.dom = DomainOf(mem.spec)]
          \/ \E y : y # "Reset" /\ w' = Fail(y)
      BY <1>23 DEF createResource, Refused
    <2>5. S(w')
      <3>1. CASE \E y : y # "Reset" /\ w' = Fail(y)
        BY <1>12, <3>1
      <3>2. CASE ~ \E y : y # "Reset" /\ w' = Fail(y)
        BY <2>1, <2>2, <2>3, <2>4, <3>2
      <3> QED BY <3>1, <3>2
    <2> QED BY <1>3, <2>1, <2>5
  <1>24. ASSUME RecordResource PROVE Goal
    <2> DEFINE st == [mem.st EXCEPT !.rid = w.rid, !.dom = w.dom, !.phase = "Creating"]
    <2>1. st \in StatusType /\ st.rid = w.rid
      BY <1>1 DEF StatusType, Phase
    <2>2. patchStatus(st, Goto("reget"), Goto("rollback")) /\ w.pc = "record"
      BY <1>24 DEF RecordResource, At
    <2>3. Goto("reget") \in WorkerType /\ Goto("rollback") \in WorkerType
      BY <1>4 DEF PC
    <2>4. mem.st.rid = cr[c0].st.rid
      BY <1>2, <2>2 DEF Synced, Working, PC
    <2> HIDE DEF st
    <2>5. /\ \A c \in CR : c # c0 => cr'[c] = cr[c]
          /\ cr'[c0].st.rid \in {w.rid, cr[c0].st.rid}
          /\ \/ w'.pc = "reget" /\ w'.c = c0 /\ w'.mem.st.rid = cr'[c0].st.rid
             \/ w'.pc = "rollback"
      BY <1>0, <1>4, <2>1, <2>2, <2>3, <2>4, PatchSync
    <2>6. RidMoves
      BY <2>2, <2>5 DEF RidMoves
    <2>7. S(w')
      BY <1>9, <2>5
    <2> QED BY <2>6, <2>7
  <1>25. ASSUME Rollback PROVE Goal
    <2>1. UNCHANGED cr /\ w' = Fail("Error")
      BY <1>25 DEF Rollback
    <2>2. S(w')
      BY <1>12, <2>1
    <2> QED BY <1>3, <2>1, <2>2
  <1>26. Get(c0) => cache[c0] = cr[c0]
    <2>1. Fault("lag") => Seen({"lag"})'
      BY DEF Fault, Seen, LinkInv, CleanupInv, TypeOK
    <2>2. ~Seen({"lag"})'
      BY DEF Seen
    <2> QED BY <2>1, <2>2 DEF Get
  <1>27. ASSUME Reget PROVE Goal
    <2>1. UNCHANGED cr /\ w' = [w EXCEPT !.pc = "settings", !.mem = cache[c0]]
          /\ cache[c0] = cr[c0]
      BY <1>26, <1>27 DEF Reget
    <2>2. w'.mem = cr[c0] /\ w'.c = c0 /\ w'.pc = "settings"
      BY <1>1, <2>1 DEF WorkerType, c0
    <2>3. S(w')
      BY <2>1, <2>2
    <2> QED BY <1>3, <2>1, <2>3
  <1>28. ASSUME Settings PROVE Goal
    <2>1. UNCHANGED cr /\ w.pc = "settings"
      BY <1>28 DEF Settings, At
    <2>2. w.mem.st.rid = cr'[w.c].st.rid
      BY <1>2, <2>1 DEF Synced, Working, PC, mem, c0
    <2>3. w' = StartKids(w, "target") \/ w' = Fail("Error") \/ Refused
      BY <1>28 DEF Settings
    <2>4. S(StartKids(w, "target")) /\ S(Fail("Error"))
      BY <1>1, <1>12, <1>14, <2>2
    <2> HIDE DEF S
    <2>5. S(w')
      BY <1>15, <2>3, <2>4
    <2> QED BY <1>3, <2>1, <2>5
  <1>29. ASSUME NEW i \in Item, CreateKid(i) PROVE Goal
    <2>1. /\ UNCHANGED <<cr, resources>> /\ w.pc = "kids"
      BY <1>29 DEF CreateKid, At
    <2>2. w'.pc = w.pc /\ w'.c = w.c /\ w'.mem = w.mem /\ w'.updating = w.updating
      BY <1>1, <1>29 DEF CreateKid, KidFails, WorkerType
    <2>3. "NotFound" \in w'.errs => "NotFound" \in w.errs \/ KidsOf \notin live
      <3>1. \A e : KidFails(i, e) => w'.errs = w.errs \cup {e}
        BY <1>1 DEF KidFails, WorkerType
      <3>2. \/ w'.errs = w.errs
            \/ KidFails(i, "Error") \/ KidFails(i, "BadRequest")
            \/ KidFails(i, "NotFound") /\ KidsOf \notin live
        <4>1. [w EXCEPT !.todo = @ \ {i}, !.got[w.kind] = @ \cup {nextId}].errs = w.errs
          BY <1>1 DEF WorkerType
        <4> QED BY <1>29, <4>1 DEF CreateKid
      <3> QED BY <3>1, <3>2
    <2>4. live' = live
      BY <2>1 DEF live
    <2>5. w.updating => KidsOf = w.mem.st.rid
      BY DEF KidsOf, mem
    <2>6. w.mem.st.rid = cr'[w.c].st.rid
      BY <1>2, <2>1 DEF Synced, Working, PC, mem, c0
    <2>7. w.updating /\ "NotFound" \in w.errs => w.mem.st.rid \notin live
      BY <2>1 DEF Sync
    <2> HIDE DEF live
    <2>8. w'.updating /\ "NotFound" \in w'.errs => w'.mem.st.rid \notin live'
      BY <2>2, <2>3, <2>4, <2>5, <2>7
    <2>9. S(w')
      BY <2>1, <2>2, <2>6, <2>8
    <2> QED BY <1>3, <2>1, <2>9
  <1>30. /\ Fail(EnsureWhy) \in WorkerType /\ Fail(UpdateWhy) \in WorkerType
         /\ Fail("Error") \in WorkerType
    <2>1. EnsureWhy \in Why /\ UpdateWhy \in Why /\ "Error" \in Why
      BY DEF EnsureWhy, UpdateWhy, Why
    <2> QED BY <1>1, <2>1, FailType
  <1>31. ASSUME CreatedTargets PROVE Goal
    <2> DEFINE st == [mem.st EXCEPT !.ids["target"] = w.got["target"]]
    <2>1. st \in StatusType /\ st.rid = mem.st.rid
      BY <1>1 DEF StatusType, Kind
    <2>2. w.pc = "kids"
      BY <1>31 DEF CreatedTargets, AllTried, At
    <2>3. \/ w' = StartKids(w, "rule") /\ UNCHANGED cr
          \/ w' = Fail(EnsureWhy) /\ UNCHANGED cr
          \/ patchStatus(st, Fail(EnsureWhy), Fail(EnsureWhy))
      BY <1>31 DEF CreatedTargets
    <2> HIDE DEF st
    <2>4. CASE UNCHANGED cr /\ (w' = StartKids(w, "rule") \/ w' = Fail(EnsureWhy))
      <3>1. w.mem.st.rid = cr'[w.c].st.rid
        BY <1>2, <2>2, <2>4 DEF Synced, Working, PC, mem, c0
      <3>2. S(StartKids(w, "rule")) /\ S(Fail(EnsureWhy))
        BY <1>1, <1>12, <1>13, <1>14, <3>1
      <3> HIDE DEF S
      <3>3. S(w')
        BY <2>4, <3>2
      <3> QED BY <1>3, <2>4, <3>3
    <2>5. CASE patchStatus(st, Fail(EnsureWhy), Fail(EnsureWhy))
      <3>1. /\ \A c \in CR : c # c0 => cr'[c] = cr[c]
            /\ cr'[c0].st.rid = cr[c0].st.rid
            /\ w'.pc = "fail" /\ w'.why = EnsureWhy
        BY <1>0, <1>5, <1>30, <2>1, <2>5, PatchSync
      <3>2. RidMoves
        BY <3>1 DEF RidMoves
      <3>3. S(w')
        BY <1>9, <1>13, <3>1
      <3> QED BY <3>2, <3>3
    <2> QED BY <2>3, <2>4, <2>5
  <1>32. ASSUME CreatedRules PROVE Goal
    <2> DEFINE s1 == [mem.st EXCEPT !.ids = w.got]
               s2 == [mem.st EXCEPT !.ids = w.got,
                        !.hash = [k \in Kind |-> hashJSON(mem.spec.kids[k])]]
               ok == IF w.had THEN Goto("refetch") ELSE Ready(w)
    <2>1. s1 \in StatusType /\ s1.rid = mem.st.rid
      BY <1>1 DEF StatusType
    <2>2. s2 \in StatusType /\ s2.rid = mem.st.rid
      <3>1. [k \in Kind |-> hashJSON(mem.spec.kids[k])] \in [Kind -> SUBSET (SUBSET Item)]
        BY <1>1 DEF SpecType, hashJSON
      <3> QED BY <1>1, <3>1 DEF StatusType
    <2>3. w.pc = "kids"
      BY <1>32 DEF CreatedRules, AllTried, At
    <2>4. ok \in WorkerType
          /\ ((ok.pc = "refetch" /\ ok.c = c0) \/ ok.pc = "ready")
      <3>1. Goto("refetch") \in WorkerType /\ Ready(w) \in WorkerType
        BY <1>1, <1>4, ReadyType DEF PC
      <3> QED BY <1>4, <1>6, <3>1
    <2>5. \/ patchStatus(s1, Fail(EnsureWhy), Fail(EnsureWhy))
          \/ patchStatus(s2, ok, Fail("Error"))
      BY <1>32 DEF CreatedRules
    <2>6. mem.st.rid = cr[c0].st.rid
      BY <1>2, <2>3 DEF Synced, Working, PC
    <2> HIDE DEF s1, s2, ok
    <2>7. CASE patchStatus(s1, Fail(EnsureWhy), Fail(EnsureWhy))
      <3>1. /\ \A c \in CR : c # c0 => cr'[c] = cr[c]
            /\ cr'[c0].st.rid = cr[c0].st.rid
            /\ w'.pc = "fail" /\ w'.why = EnsureWhy
        BY <1>0, <1>5, <1>30, <2>1, <2>7, PatchSync
      <3>2. RidMoves
        BY <3>1 DEF RidMoves
      <3>3. S(w')
        BY <1>9, <1>13, <3>1
      <3> QED BY <3>2, <3>3
    <2>8. CASE patchStatus(s2, ok, Fail("Error"))
      <3>1. /\ \A c \in CR : c # c0 => cr'[c] = cr[c]
            /\ cr'[c0].st.rid = cr[c0].st.rid
            /\ \/ w'.pc = ok.pc /\ w'.c = ok.c /\ w'.mem.st.rid = cr'[c0].st.rid
               \/ w'.pc = "fail" /\ w'.why = "Error"
        BY <1>0, <1>5, <1>30, <2>2, <2>4, <2>6, <2>8, PatchSync
      <3>2. RidMoves
        BY <3>1 DEF RidMoves
      <3>3. S(w')
        BY <1>9, <2>4, <3>1
      <3> QED BY <3>2, <3>3
    <2> QED BY <2>5, <2>7, <2>8
  <1>33. ASSUME Refetch PROVE Goal
    <2> DEFINE v == [w EXCEPT !.mem = cache[c0], !.pc = "update"]
    <2>1. UNCHANGED cr /\ cache[c0] = cr[c0] /\ (w' = v \/ w' = Ready(v))
      BY <1>26, <1>33 DEF Refetch
    <2>2. v.mem = cr[c0] /\ v.c = c0 /\ v.pc = "update"
      BY <1>1, <2>1 DEF WorkerType, c0
    <2> HIDE DEF v
    <2>3. S(v)
      BY <2>1, <2>2
    <2>4. S(Ready(v))
      BY <1>11
    <2> HIDE DEF S
    <2>5. S(w')
      BY <2>1, <2>3, <2>4
    <2> QED BY <1>3, <2>1, <2>5
  <1>34. ASSUME updateResource PROVE Goal
    <2> DEFINE v == [w EXCEPT !.updating = TRUE]
    <2>1. UNCHANGED cr /\ w.pc = "update"
      BY <1>34 DEF updateResource, At
    <2>2. mem.st.rid = cr[c0].st.rid
      BY <1>2, <2>1 DEF Synced, Working, PC
    <2>3. v \in WorkerType /\ v.mem = mem /\ v.c = c0
      BY <1>1 DEF WorkerType, mem, c0
    <2>4. \/ w' = UpdateTargets(v) \/ w' = Fail("Error")
          \/ w' = Fail("Reset") /\ mem.st.rid \notin live /\ UNCHANGED resources
      BY <1>34 DEF updateResource, pangolin
    <2> HIDE DEF v
    <2>5. S(UpdateTargets(v))
      BY <1>14, <2>1, <2>2, <2>3
    <2>6. S(Fail("Error"))
      BY <1>12
    <2>7. CASE w' = Fail("Reset") /\ mem.st.rid \notin live /\ UNCHANGED resources
      <3>1. live' = live
        BY <2>7 DEF live
      <3>2. w'.pc = "fail" /\ w'.mem = mem /\ w'.c = c0
        BY <1>5, <2>7
      <3> HIDE DEF live
      <3>3. S(w')
        BY <1>9, <2>1, <2>2, <2>7, <3>1, <3>2
      <3> QED BY <1>3, <2>1, <3>3
    <2>8. CASE w' = UpdateTargets(v) \/ w' = Fail("Error")
      <3> HIDE DEF S
      <3>1. S(w')
        BY <2>5, <2>6, <2>8
      <3> QED BY <1>3, <2>1, <3>1
    <2> QED BY <2>4, <2>7, <2>8
  <1>35. ASSUME PersistKids PROVE Goal
    <2> DEFINE s1 == [mem.st EXCEPT !.ids[w.kind] = w.got[w.kind],
                        !.hash[w.kind] = hashJSON(mem.spec.kids[w.kind])]
               s2 == [mem.st EXCEPT !.ids[w.kind] = append(@, w.got[w.kind])]
    <2>1. s1 \in StatusType /\ s1.rid = mem.st.rid
      <3>1. hashJSON(mem.spec.kids[w.kind]) \in SUBSET (SUBSET Item)
        BY <1>1 DEF SpecType, hashJSON
      <3> QED BY <1>1, <3>1 DEF StatusType
    <2>2. s2 \in StatusType /\ s2.rid = mem.st.rid
      BY <1>1 DEF StatusType, append
    <2>3. w.pc = "kids" /\ w.updating /\ UNCHANGED resources
      BY <1>35 DEF PersistKids, AllTried, At, pangolin
    <2>4. Goto("prune") \in WorkerType /\ Goto("prune").pc = "prune"
          /\ Goto("prune").c = c0
      BY <1>4 DEF PC
    <2>5. \/ patchStatus(s1, Goto("prune"), Fail("Error"))
          \/ patchStatus(s2, Fail(UpdateWhy), Fail(UpdateWhy))
          \/ w' = Fail(UpdateWhy) /\ UNCHANGED cr
      BY <1>35 DEF PersistKids
    <2>6. mem.st.rid = cr[c0].st.rid
      BY <1>2, <2>3 DEF Synced, Working, PC
    <2>7. live' = live
      BY <2>3 DEF live
    <2>8. UpdateWhy = "Reset" => mem.st.rid \notin live
      BY <2>3 DEF UpdateWhy, Sync, mem
    <2> HIDE DEF s1, s2, live
    <2>9. CASE patchStatus(s1, Goto("prune"), Fail("Error"))
      <3>1. /\ \A c \in CR : c # c0 => cr'[c] = cr[c]
            /\ cr'[c0].st.rid = cr[c0].st.rid
            /\ \/ w'.pc = "prune" /\ w'.c = c0 /\ w'.mem.st.rid = cr'[c0].st.rid
               \/ w'.pc = "fail" /\ w'.why = "Error"
        BY <1>0, <1>5, <1>30, <2>1, <2>4, <2>6, <2>9, PatchSync
      <3>2. RidMoves
        BY <3>1 DEF RidMoves
      <3>3. S(w')
        BY <1>9, <3>1
      <3> QED BY <3>2, <3>3
    <2>10. CASE patchStatus(s2, Fail(UpdateWhy), Fail(UpdateWhy))
      <3>1. /\ \A c \in CR : c # c0 => cr'[c] = cr[c]
            /\ cr'[c0].st.rid = cr[c0].st.rid
            /\ w'.pc = "fail" /\ w'.c = c0 /\ w'.why = UpdateWhy
            /\ w'.mem.st.rid = cr[c0].st.rid
        BY <1>0, <1>5, <1>30, <2>2, <2>6, <2>10, PatchSync
      <3>2. RidMoves
        BY <3>1 DEF RidMoves
      <3>3. S(w')
        BY <1>9, <2>6, <2>7, <2>8, <3>1
      <3> QED BY <3>2, <3>3
    <2>11. CASE w' = Fail(UpdateWhy) /\ UNCHANGED cr
      <3>1. w'.pc = "fail" /\ w'.c = c0 /\ w'.why = UpdateWhy /\ w'.mem = mem
        BY <1>5, <2>11
      <3>2. S(w')
        BY <1>9, <2>6, <2>7, <2>8, <2>11, <3>1
      <3> QED BY <1>3, <2>11, <3>2
    <2> QED BY <2>5, <2>9, <2>10, <2>11
  <1>36. ASSUME NEW id \in w.old, PruneKid(id) PROVE Goal
    <2>1. UNCHANGED cr /\ w.pc = "prune"
      BY <1>36 DEF PruneKid, At
    <2>2. w'.pc = w.pc /\ w'.c = w.c /\ w'.mem = w.mem
      BY <1>1, <1>36 DEF PruneKid, WorkerType
    <2>3. w.mem.st.rid = cr[w.c].st.rid
      BY <1>2, <2>1 DEF Synced, Working, PC, mem, c0
    <2>4. S(w')
      BY <2>1, <2>2, <2>3
    <2> QED BY <1>3, <2>1, <2>4
  <1>37. ASSUME Pruned PROVE Goal
    <2>1. UNCHANGED cr /\ w.pc = "prune" /\ (w' = UpdateRules(w) \/ w' = Ready(w))
      BY <1>37 DEF Pruned, At
    <2>2. w.mem.st.rid = cr'[w.c].st.rid
      BY <1>2, <2>1 DEF Synced, Working, PC, mem, c0
    <2>3. S(UpdateRules(w)) /\ S(Ready(w))
      BY <1>1, <1>11, <1>14, <2>2
    <2> HIDE DEF S
    <2>4. S(w')
      BY <2>1, <2>3
    <2> QED BY <1>3, <2>1, <2>4
  <1>38. ASSUME MarkReady PROVE Goal
    <2> DEFINE st == [mem.st EXCEPT !.phase = "Ready", !.obs = mem.gen,
                        !.cond = [reason |-> "Reconciled", gen |-> mem.gen]]
    <2>1. st \in StatusType /\ st.rid = mem.st.rid
      <3>1. mem.gen \in Nat
        BY <1>1 DEF ObjectType
      <3> QED BY <1>1, <3>1 DEF StatusType, Phase, Reason
    <2>2. patchAndReturn(st) /\ Requeue
      BY <1>38 DEF MarkReady
    <2> HIDE DEF st
    <2>3. \A c \in CR : cr'[c].st.rid = cr[c].st.rid
      BY <1>0, <2>1, <2>2, ReturnSync
    <2>4. RidMoves
      BY <2>3 DEF RidMoves
    <2> QED BY <1>16, <2>2, <2>4
  <1>39. ASSUME ReportFailure PROVE Goal
    <2>1. FailureStatus \in StatusType
          /\ (FailureStatus.rid = mem.st.rid \/ (FailureStatus.rid = 0 /\ w.why = "Reset"))
      <3>1. mem.gen \in Nat
        BY <1>1 DEF ObjectType
      <3> QED BY <1>1, <3>1, NoDomType DEF FailureStatus, StatusType, Phase, Reason
    <2>2. patchAndReturn(FailureStatus) /\ (Requeue \/ Forget) /\ w.pc = "fail"
      BY <1>39 DEF ReportFailure, At
    <2>3. /\ \A c \in CR : c # c0 => cr'[c] = cr[c]
          /\ FailureStatus.rid = mem.st.rid => cr'[c0].st.rid = cr[c0].st.rid
      BY <1>0, <2>1, <2>2, ReturnSync
    <2>4. w.why = "Reset" => cr[c0].st.rid \notin live
      BY <2>2 DEF Sync, mem, c0
    <2>5. RidMoves
      BY <2>1, <2>2, <2>3, <2>4 DEF RidMoves
    <2> QED BY <1>16, <2>2, <2>5
  <1>40. ASSUME Cleanup PROVE Goal
    <2>1. UNCHANGED cr /\ (w' = Goto("unfinalize") \/ Requeue)
      BY <1>40 DEF Cleanup
    <2>2. S(Goto("unfinalize"))
      BY <1>4, <1>9
    <2> HIDE DEF S
    <2>3. S(w')
      BY <1>16, <2>1, <2>2
    <2> QED BY <1>3, <2>1, <2>3
  <1>41. ASSUME RemoveFinalizer PROVE Goal
    <2>1. /\ UNCHANGED cr \/ (cr[c0] = mem /\ cr' = [cr EXCEPT ![c0] = Gone(mem.gen)])
          /\ Requeue \/ Forget
          /\ w.pc = "unfinalize"
      BY <1>41 DEF RemoveFinalizer, Unmodified, At
    <2>2. mem.st.rid \notin live
      BY <2>1 DEF LinkInv, CleanupInv
    <2>3. RidMoves
      BY <1>1, <1>3, <2>1, <2>2 DEF RidMoves
    <2> QED BY <1>16, <2>1, <2>3
  <1> HIDE DEF Goal
  <1>42. Goal
    BY <1>18, <1>19, <1>20, <1>21, <1>22, <1>23, <1>24, <1>25, <1>27, <1>28, <1>29, <1>31,
       <1>32, <1>33, <1>34, <1>35, <1>36, <1>37, <1>38, <1>39, <1>40, <1>41 DEF WorkerStep
  <1> QED BY <1>17, <1>42 DEF Goal

\* Steps of others change no link, and resources only go.
LEMMA OthersKeep ==
  ASSUME LinkInv, [Next]_vars, ~WorkerStep
  PROVE  /\ \A c \in CR : cr'[c].st.rid = cr[c].st.rid
         /\ resources' \subseteq resources
         /\ \/ w' = w
            \/ Crash
            \/ \E c \in CR : Reconcile(c)
  <1> DEFINE Goal == /\ \A c \in CR : cr'[c].st.rid = cr[c].st.rid
                     /\ resources' \subseteq resources
                     /\ w' = w \/ Crash \/ \E c \in CR : Reconcile(c)
  <1>1. /\ TypeOK /\ ObjectsInv
        /\ \A c \in CR : (cr[c].fin => cr[c].exists) /\ cr[c] \in ObjectType
    BY DEF LinkInv, CleanupInv, TypeOK
  <1>2. ASSUME NEW c \in CR, CacheSync(c) \/ Reconcile(c) PROVE Goal
    BY <1>2 DEF CacheSync, Reconcile, pangolin
  <1>3. ASSUME NEW c \in CR, NEW s \in Specs, UserCreate(c, s) PROVE Goal
    <2>1. NewObject(cr[c].gen + 1, s).st.rid = 0 /\ cr[c].st.rid = 0
      BY <1>1, <1>3 DEF NewObject, ZeroStatus, UserCreate, ObjectsInv
    <2>2. \A d \in CR : cr'[d] = IF d = c THEN NewObject(cr[c].gen + 1, s) ELSE cr[d]
      BY <1>1, <1>3 DEF UserCreate, TypeOK
    <2> QED BY <1>3, <2>1, <2>2 DEF UserCreate, pangolin
  <1>4. ASSUME NEW c \in CR, NEW s \in Specs, UserEdit(c, s) PROVE Goal
    <2>1. \A d \in CR : cr'[d].st = cr[d].st
      BY <1>1, <1>4 DEF UserEdit, TypeOK, ObjectType
    <2> QED BY <1>4, <2>1 DEF UserEdit, pangolin
  <1>5. ASSUME NEW c \in CR, UserDelete(c) PROVE Goal
    <2>1. Deleted(cr[c]).st.rid = cr[c].st.rid
      BY <1>1 DEF Deleted, Gone, ZeroStatus, ObjectsInv, ObjectType
    <2>2. \A d \in CR : cr'[d] = IF d = c THEN Deleted(cr[c]) ELSE cr[d]
      BY <1>1, <1>5 DEF UserDelete, TypeOK
    <2> QED BY <1>5, <2>1, <2>2 DEF UserDelete, pangolin
  <1>6. ASSUME NEW id, Drift(id) PROVE Goal
    BY <1>6 DEF Drift, DeleteResource
  <1>7. ASSUME NEW s, SiteReady(s) \/ SiteLost(s) PROVE Goal
    BY <1>7 DEF SiteReady, SiteLost, pangolin
  <1>8. ASSUME Crash PROVE Goal
    BY <1>8 DEF Crash, pangolin
  <1>9. ASSUME UNCHANGED vars PROVE Goal
    BY <1>9 DEF vars, pangolin
  <1> HIDE DEF Goal
  <1>10. ASSUME Environment PROVE Goal
    BY <1>3, <1>4, <1>5, <1>6, <1>7, <1>8, <1>10 DEF Environment
  <1>11. ASSUME \E c \in CR : CacheSync(c) \/ Reconcile(c) PROVE Goal
    BY <1>2, <1>11
  <1>12. Goal
    BY <1>9, <1>10, <1>11 DEF Next
  <1> QED BY <1>12 DEF Goal

\* A resource of the object that the worker has at hand is found by its identifier:
\* adopting another resource, or creating one, loses nothing.
LEMMA NothingListed ==
  ASSUME NameInv, Undisturbed, Linked, Sync(w), ensureExists,
         w'.pc \in {"adopt", "creating"}
  PROVE  \A r \in resources : r.by # c0
  <1> SUFFICES ASSUME NEW r \in resources, r.by = c0 PROVE FALSE
    OBVIOUS
  <1>1. /\ TypeOK /\ UseInv /\ c0 \in CR /\ mem \in ObjectType /\ w \in WorkerType
        /\ mem.spec.name \in Name
    BY DEF NameInv, LinkInv, CleanupInv, Undisturbed, Seen, TypeOK, WorkerType, ObjectType,
           SpecType, c0, mem
  <1>2. w.pc = "list"
    BY DEF ensureExists, At
  <1>3. r.id = mem.st.rid
    <2>1. c0 # NoCR
      BY <1>1, ConstantsAssumption
    <2> QED BY <1>2, <2>1 DEF Linked, Sync, Synced, Working, PC, mem, c0
  <1>4. r.name = mem.spec.name
    BY <1>1, <1>2, <1>3 DEF UseInv, SameUse, Names, Working, PC
  <1>5. r \in Listed
    BY <1>1, <1>4, SearchFindsName DEF Listed
  <1>6. Goto("refetch").pc = "refetch" /\ \A y : Fail(y).pc = "fail"
    BY <1>1, IdleType DEF Goto, Fail, WorkerType
  <1> HIDE DEF Listed, findResource
  <1>7. w' = Goto("refetch") \/ Refused
    BY <1>3, <1>5 DEF ensureExists
  <1> QED BY <1>6, <1>7 DEF Refused

LEMMA AloneWorker ==
  ASSUME NameInv, Undisturbed, Linked, Sync(w), Alone(w), WorkerStep
  PROVE  Alone(w)'
  <1>1. /\ TypeOK /\ UseInv /\ c0 \in CR /\ w \in WorkerType
    BY DEF NameInv, LinkInv, CleanupInv, Undisturbed, Seen, TypeOK, WorkerType, c0
  <1> SUFFICES ASSUME w'.pc \in {"adopt", "creating", "create", "record"},
                      NEW r \in resources', r.by = w'.c
               PROVE  w'.pc = "record" /\ r.id = w'.rid
    BY DEF Alone
  <1>2. /\ w'.pc \in {"adopt", "creating"} => ensureExists
        /\ w'.pc = "create" => MarkCreating
        /\ w'.pc = "record" => createResource
    BY <1>1, CreatePC
  <1>3. CASE w'.pc = "record"
    <2>1. LET v == [w EXCEPT !.pc = "record", !.http = mem.spec.http, !.rid = nextId,
                             !.dom = DomainOf(mem.spec)]
          IN  v.c = c0 /\ v.rid = nextId
      BY <1>1 DEF WorkerType, c0
    <2>2. \A y : Fail(y).pc = "fail"
      BY IdleType DEF Fail, WorkerType
    <2>3. /\ w'.c = c0 /\ w'.rid = nextId /\ w.pc = "create"
          /\ resources' = resources \cup {CreatedResource}
      BY <1>2, <1>3, <2>1, <2>2 DEF createResource, Refused, At
    <2>4. r \notin resources
      BY <2>3 DEF Alone, c0
    <2>5. r = CreatedResource
      BY <2>3, <2>4
    <2> QED BY <1>3, <2>3, <2>5 DEF CreatedResource
  <1>4. CASE w'.pc \in {"adopt", "creating", "create"}
    <2>1. ensureExists \/ MarkCreating
      BY <1>2, <1>4
    <2>2. resources' = resources
      BY <2>1 DEF ensureExists, Refused, MarkCreating, pangolin
    <2>3. w'.c = c0
      <3>1. ~AddFinalizer /\ ~Cleanup /\ ~RemoveFinalizer /\ ~createResource
        BY <2>1 DEF ensureExists, MarkCreating, AddFinalizer, Cleanup, RemoveFinalizer,
           createResource, At
      <3>2. w' = Idle \/ Ongoing(w')
        BY <1>1, <3>1, OngoingStep
      <3>3. Idle.pc = "idle"
        BY DEF Idle
      <3>4. w' # Idle
        BY <1>4, <3>3
      <3> QED BY <3>2, <3>4 DEF Ongoing
    <2>4. \A q \in resources : q.by # c0
      <3>1. CASE ensureExists
        <4>1. w'.pc # "create"
          BY <3>1, <1>2 DEF ensureExists, MarkCreating, At
        <4> QED BY <1>4, <3>1, <4>1, NothingListed
      <3>2. CASE MarkCreating
        BY <3>2 DEF MarkCreating, At, Alone, c0
      <3> QED BY <2>1, <3>1, <3>2
    <2> QED BY <2>2, <2>3, <2>4
  <1> QED BY <1>3, <1>4

LEMMA LinkedWorker ==
  ASSUME NameInv, Undisturbed', Linked, Sync(w), Alone(w), WorkerStep, RidMoves
  PROVE  Linked'
  <1>1. /\ TypeOK /\ c0 \in CR /\ w \in WorkerType /\ mem.st \in StatusType
        /\ w.dom \in Seq(Char) /\ w.rid \in Nat
        /\ cr \in [CR -> ObjectType]
    BY DEF NameInv, LinkInv, CleanupInv, TypeOK, WorkerType, ObjectType, c0, mem
  <1>2. ~Fault("apiLost") /\ ~Fault("del")
    <2>1. \A f : Fault(f) => f \in faults'.seen
      BY DEF Fault
    <2> QED BY <2>1 DEF Undisturbed, Seen
  <1> SUFFICES ASSUME NEW r \in resources', r.by # NoCR
               PROVE  \/ cr'[r.by].st.rid = r.id
                      \/ w'.c = r.by /\ w'.rid = r.id /\ w'.pc \in {"record", "rollback"}
    BY DEF Linked, c0
  <1>3. CASE createResource
    <2>1. w.pc = "create" /\ UNCHANGED cr
      BY <1>3 DEF createResource, At
    <2>2. CASE r \in resources
      BY <2>1, <2>2 DEF Linked
    <2>3. CASE r \notin resources
      <3>1. LET v == [w EXCEPT !.pc = "record", !.http = mem.spec.http, !.rid = nextId,
                               !.dom = DomainOf(mem.spec)]
            IN  v.pc = "record" /\ v.c = c0 /\ v.rid = nextId
        BY <1>1 DEF WorkerType, c0
      <3>2. /\ r = CreatedResource
            /\ w' = [w EXCEPT !.pc = "record", !.http = mem.spec.http, !.rid = nextId,
                              !.dom = DomainOf(mem.spec)]
        BY <1>2, <1>3, <2>3 DEF createResource, Refused, pangolin
      <3> QED BY <3>1, <3>2 DEF CreatedResource
    <2> QED BY <2>2, <2>3
  <1>4. CASE RecordResource
    <2> DEFINE st == [mem.st EXCEPT !.rid = w.rid, !.dom = w.dom, !.phase = "Creating"]
    <2>1. st \in StatusType /\ st.rid = w.rid
      BY <1>1 DEF StatusType, Phase
    <2>2. patchStatus(st, Goto("reget"), Goto("rollback")) /\ w.pc = "record"
          /\ r \in resources
      BY <1>4 DEF RecordResource, At, pangolin
    <2>3. /\ Goto("reget") \in WorkerType
          /\ Goto("rollback") \in WorkerType /\ Goto("rollback").pc = "rollback"
          /\ Goto("rollback").c = c0 /\ Goto("rollback").rid = w.rid
      BY <1>1 DEF Goto, WorkerType, PC, c0
    <2>4. mem.st.rid = cr[c0].st.rid
      BY <2>2 DEF Sync, Synced, Working, PC, mem, c0
    <2> HIDE DEF st
    <2>5. /\ \A c \in CR : c # c0 => cr'[c] = cr[c]
          /\ \/ cr'[c0].st.rid = w.rid
             \/ w'.pc = "rollback" /\ w'.c = c0 /\ w'.rid = w.rid
      BY <1>1, <2>1, <2>2, <2>3, <2>4, PatchSync
    <2>6. CASE r.by = c0
      <3>1. r.id = w.rid
        BY <2>2, <2>6 DEF Alone, c0
      <3> QED BY <2>5, <2>6, <3>1
    <2>7. CASE r.by # c0
      <3>1. r.by \in CR
        BY <1>1, <2>2 DEF TypeOK, ResourceType
      <3> QED BY <2>2, <2>5, <2>7, <3>1 DEF Linked
    <2> QED BY <2>6, <2>7
  <1>5. CASE Rollback
    <2>1. UNCHANGED cr /\ r \in resources /\ r.id # w.rid
      BY <1>2, <1>5 DEF Rollback, DeleteResource
    <2> QED BY <2>1 DEF Linked
  <1>6. CASE ~createResource /\ ~RecordResource /\ ~Rollback
    <2>1. w.pc \notin {"record", "rollback"}
      BY <1>6 DEF WorkerStep, AddFinalizer, ResolveSite, ensureExists, Adopt, MarkCreating,
         Reget, Settings, CreateKid, CreatedTargets, CreatedRules, AllTried, Refetch,
         updateResource, PersistKids, PruneKid, Pruned, MarkReady, ReportFailure, Cleanup,
         RemoveFinalizer, At
    <2>2. Retained
      BY <1>1, <1>6, RetainedStep DEF NameInv, ResourceCreated, Next
    <2>3. PICK q \in resources : q.id = r.id /\ q.by = r.by
      BY <2>2 DEF Retained, Became
    <2>4. cr[r.by].st.rid = r.id /\ r.by \in CR /\ r.id \in live
      BY <1>1, <2>1, <2>3 DEF Linked, TypeOK, ResourceType, live
    <2>5. ~(r.by = c0 /\ w.pc = "adopt")
      BY <2>3 DEF Alone, c0
    <2> QED BY <2>1, <2>4, <2>5 DEF RidMoves
  <1> QED BY <1>3, <1>4, <1>5, <1>6

LEMMA OrphanInvNext == OrphanInv /\ [Next]_vars => OrphanInv'
  <1> SUFFICES ASSUME OrphanInv, [Next]_vars PROVE OrphanInv'
    OBVIOUS
  <1>1. NameInv /\ LinkInv /\ TypeOK
    BY DEF OrphanInv, NameInv, LinkInv, CleanupInv
  <1>2. NameInv'
    BY <1>1, NameInvNext
  <1> SUFFICES ASSUME Undisturbed' PROVE Linked' /\ Sync(w)' /\ Alone(w)'
    BY <1>2 DEF OrphanInv
  <1>3. Undisturbed
    BY <1>1, FaultsGrowNext DEF FaultsGrow, Undisturbed, Seen
  <1>4. Linked /\ Sync(w) /\ Alone(w)
    BY <1>3 DEF OrphanInv
  <1>5. CASE WorkerStep
    <2>1. ~Seen({"apiLost", "lag"})'
      BY DEF Undisturbed, Seen
    <2>2. Sync(w)' /\ RidMoves
      BY <1>1, <1>4, <1>5, <2>1, SyncWorker
    <2>3. Alone(w)'
      BY <1>1, <1>3, <1>4, <1>5, AloneWorker
    <2>4. Linked'
      BY <1>1, <1>4, <1>5, <2>2, LinkedWorker
    <2> QED BY <2>2, <2>3, <2>4
  <1>6. CASE ~WorkerStep
    <2>1. /\ \A c \in CR : cr'[c].st.rid = cr[c].st.rid
          /\ resources' \subseteq resources
          /\ w' = w \/ Crash \/ \E c \in CR : Reconcile(c)
      BY <1>1, <1>6, OthersKeep
    <2>2. w.c \in CR /\ w'.c \in CR /\ \A r \in resources : r.by \in CR \cup {NoCR}
      BY <1>1, <1>2 DEF NameInv, LinkInv, CleanupInv, TypeOK, WorkerType, ResourceType
    <2>3. live' \subseteq live
      BY <2>1 DEF live
    <2>4. CASE w' = w
      <3>1. Linked'
        BY <1>4, <2>1, <2>2, <2>4 DEF Linked, c0
      <3>2. Sync(w)'
        <4> HIDE DEF live
        <4> QED BY <1>4, <2>1, <2>2, <2>3, <2>4 DEF Sync
      <3>3. Alone(w)'
        BY <1>4, <2>1, <2>4 DEF Alone
      <3> QED BY <3>1, <3>2, <3>3
    <2>5. ASSUME NEW c \in CR, Reconcile(c)
          PROVE  Linked' /\ Sync(w)' /\ Alone(w)'
      <3>1. w.pc = "idle" /\ cache[c] = cr[c] /\ UNCHANGED cr
        <4>1. ~Fault("lag")
          BY <1>1 DEF Fault, Undisturbed, Seen, TypeOK
        <4> QED BY <2>5, <4>1 DEF Reconcile, At, Get
      <3>2. \/ w'.pc = "idle"
            \/ w'.pc \in {"cleanup", "site", "finalize"} /\ w'.c = c /\ w'.mem = cr[c]
        BY <2>5, <3>1, IdleType DEF Reconcile, WorkerType, Idle
      <3>3. Linked'
        BY <1>4, <2>1, <3>1 DEF Linked
      <3>4. Sync(w)'
        BY <3>1, <3>2 DEF Sync, Synced, Working
      <3>5. Alone(w)'
        BY <3>2 DEF Alone
      <3> QED BY <3>3, <3>4, <3>5
    <2>6. ~Crash
      BY <1>1 DEF Crash, Fault, Undisturbed, Seen, TypeOK
    <2> QED BY <2>1, <2>4, <2>5, <2>6
  <1> QED BY <1>5, <1>6

LEMMA OrphanInvInit == Init => OrphanInv
  <1> SUFFICES ASSUME Init PROVE OrphanInv
    OBVIOUS
  <1>1. NameInv
    BY NameInvInit
  <1>2. w.pc = "idle" /\ \A r \in resources : r.by = NoCR
    BY ConstantsAssumption DEF Init, Idle
  <1> QED BY <1>1, <1>2 DEF OrphanInv, Linked, Sync, Synced, Working, Alone

\* createResource, "Rollback to avoid orphaned Pangolin resource": as long as the
\* operator survives, Pangolin answers, no read is stale and no name is edited, no
\* resource that the operator created is without the object that links it, however
\* many objects there are and whatever patches fail or are lost.
THEOREM NothingOrphaned == Spec => []NoOrphan
  <1>1. OrphanInv => NoOrphan
    BY DEF OrphanInv, NoOrphan, Undisturbed
  <1> QED BY <1>1, OrphanInvInit, OrphanInvNext, PTL DEF Spec
=============================================================================
