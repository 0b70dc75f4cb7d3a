------------------------ MODULE PublicResourceProofs ------------------------
(***************************************************************************)
(* Proofs about PublicResource, for every value of its constants: any      *)
(* number of objects, any specs, any number of failures. First the types   *)
(* and what the finalizer guards; then that PublicResource implements      *)
(* Link, and what the operator creates stays linked.                       *)
(***************************************************************************)
EXTENDS PublicResource, DomainsProofs, TLAPS

(* The values the actions are built from have their types. *)

LEMMA NoDomType == NoDom \in Seq(Char)
  BY EmptySeq DEF NoDom

\* Pangolin composes some full domain of what createResource sends.
LEMMA DomainOfType ==
  ASSUME NEW s \in SpecType
  PROVE  /\ DomainOf(s) \in Seq(Char)
         /\ s.http /\ s.dom # NoDom /\ Resolvable(s) => DomainOf(s) # NoDom
  <1>1. CASE s.http /\ s.dom # NoDom /\ Resolution[s.dom].ok
    <2> DEFINE d == s.dom
    <2>1. d \in FullDomain
      BY <1>1 DEF SpecType
    <2>2. "." \in Char /\ Domains \in DomainListType(Char) /\ d \in NameType(Char)
      BY <2>1, DomainsAssumption
    <2>3. Resolution[d] = ResolveDomain(Domains, d)
      BY <2>1 DEF Resolution
    <2>4. DomainOf(s) = FullDomainOf(Domains, Resolution[d].id, Resolution[d].sub)
      BY <1>1, <2>1 DEF DomainOf, Composed
    <2>5. ResolveDomain(Domains, d).ok
      BY <1>1, <2>3
    <2> HIDE DEF d
    <2>6. DomainOf(s) \in Seq(Char) \ {<<>>}
      BY <2>2, <2>3, <2>4, <2>5, ComposedName
    <2> QED BY <2>6 DEF NoDom
  <1>2. CASE s.http /\ s.dom # NoDom /\ ~Resolution[s.dom].ok
    <2>1. s.dom \in FullDomain
      BY <1>2 DEF SpecType
    <2>2. DomainOf(s) = NoDom
      BY <1>2, <2>1 DEF DomainOf, Composed
    <2> QED BY <1>2, <2>2, NoDomType DEF Resolvable
  <1>3. CASE ~(s.http /\ s.dom # NoDom)
    <2>1. DomainOf(s) = NoDom
      BY <1>3 DEF DomainOf
    <2> QED BY <1>3, <2>1, NoDomType
  <1> QED BY <1>1, <1>2, <1>3

LEMMA ZeroStatusType == ZeroStatus \in StatusType
  BY NoDomType DEF ZeroStatus, StatusType, Phase, Reason

LEMMA GoneType == \A n \in Nat : Gone(n) \in ObjectType
  <1>1. (CHOOSE s \in Specs : TRUE) \in SpecType
    BY ConstantsAssumption
  <1> QED BY <1>1, ZeroStatusType DEF Gone, ObjectType

LEMMA IdleType == Idle \in WorkerType
  <1>1. (CHOOSE c \in CR : TRUE) \in CR
    BY ConstantsAssumption
  <1>2. Gone(0) \in ObjectType
    BY GoneType
  <1> QED BY <1>1, <1>2, NoDomType DEF Idle, WorkerType, PC, Kind, Why

LEMMA MergeType ==
  ASSUME NEW s \in StatusType, NEW b \in StatusType, NEW a \in StatusType
  PROVE  Merge(s, b, a) \in StatusType
  BY DEF Merge, Sent, StatusType

LEMMA DecodedStatusType ==
  ASSUME NEW old \in StatusType, NEW new \in StatusType
  PROVE  DecodedStatus(old, new) \in StatusType
  BY DEF DecodedStatus, Kept, StatusType

LEMMA DecodedSpecType ==
  ASSUME NEW old \in SpecType, NEW new \in SpecType
  PROVE  DecodedSpec(old, new) \in SpecType
  BY DEF DecodedSpec, Kept, SpecType

LEMMA DecodedType ==
  ASSUME w \in WorkerType, NEW server \in ObjectType, NEW st \in StatusType
  PROVE  Decoded(server, st) \in ObjectType
  <1>1. mem.spec \in SpecType /\ server.spec \in SpecType /\ server.st \in StatusType
    BY DEF mem, WorkerType, ObjectType
  <1>2. DecodedSpec(mem.spec, server.spec) \in SpecType
    BY <1>1, DecodedSpecType
  <1>3. DecodedStatus(st, server.st) \in StatusType
    BY <1>1, DecodedStatusType
  <1> QED BY <1>2, <1>3 DEF Decoded, ObjectType

LEMMA FaultType ==
  ASSUME faults \in [n : Nat, seen : SUBSET FaultKind], NEW k, Fault(k)
  PROVE  faults' \in [n : Nat, seen : SUBSET FaultKind]
  BY ConstantsAssumption DEF Fault

LEMMA FailType ==
  ASSUME w \in WorkerType, NEW why \in Why
  PROVE  Fail(why) \in WorkerType
  <1>1. Idle \in WorkerType
    BY IdleType
  <1> QED BY <1>1 DEF Fail, WorkerType, PC, c0, mem

LEMMA ReadyType ==
  ASSUME NEW v \in WorkerType
  PROVE  Ready(v) \in WorkerType
  <1>1. Idle \in WorkerType
    BY IdleType
  <1> QED BY <1>1 DEF Ready, WorkerType, PC

LEMMA StartKidsType ==
  ASSUME NEW v \in WorkerType, NEW k \in Kind
  PROVE  StartKids(v, k) \in WorkerType
  <1>1. /\ v.mem.spec.kids[k] \in SUBSET Item
        /\ v.mem.st.ids[k] \in SUBSET Nat
    BY DEF WorkerType, ObjectType, SpecType, StatusType
  <1> QED BY <1>1 DEF StartKids, WorkerType, PC

LEMMA UpdateRulesType ==
  ASSUME NEW v \in WorkerType
  PROVE  UpdateRules(v) \in WorkerType
  BY StartKidsType, ReadyType DEF UpdateRules, Kind

LEMMA UpdateTargetsType ==
  ASSUME NEW v \in WorkerType
  PROVE  UpdateTargets(v) \in WorkerType
  BY StartKidsType, UpdateRulesType DEF UpdateTargets, Kind

LEMMA PatchType ==
  ASSUME TypeOK, NEW st \in StatusType, NEW ok \in WorkerType, NEW ko \in WorkerType,
         patchStatus(st, ok, ko)
  PROVE  /\ cr' \in [CR -> ObjectType]
         /\ w' \in WorkerType
         /\ faults' \in [n : Nat, seen : SUBSET FaultKind]
  <1> DEFINE new == [cr[c0] EXCEPT !.st = Merge(cr[c0].st, mem.st, st)]
  <1>1. c0 \in CR /\ cr[c0] \in ObjectType /\ cr[c0].st \in StatusType
        /\ mem.st \in StatusType
    BY DEF TypeOK, WorkerType, ObjectType, c0, mem
  <1>2. Merge(cr[c0].st, mem.st, st) \in StatusType
    BY <1>1, MergeType
  <1>3. new \in ObjectType
    BY <1>1, <1>2 DEF ObjectType
  <1>4. Decoded(new, st) \in ObjectType
    BY <1>3, DecodedType DEF TypeOK
  <1>5. [ok EXCEPT !.mem = Decoded(new, st)] \in WorkerType
    BY <1>4 DEF WorkerType
  <1>6. [ko EXCEPT !.mem.st = st] \in WorkerType
    BY DEF WorkerType, ObjectType
  <1>7. [cr EXCEPT ![c0] = new] \in [CR -> ObjectType]
    BY <1>1, <1>3 DEF TypeOK
  <1> HIDE DEF new
  <1>a. CASE cr' = [cr EXCEPT ![c0] = new] /\ w' = [ok EXCEPT !.mem = Decoded(new, st)]
             /\ UNCHANGED faults
    BY <1>a, <1>5, <1>7 DEF TypeOK
  <1>b. CASE Fault("k8s") /\ w' = [ko EXCEPT !.mem.st = st] /\ UNCHANGED cr
    BY <1>b, <1>6, FaultType DEF TypeOK
  <1>c. CASE Fault("k8sLost") /\ cr' = [cr EXCEPT ![c0] = new]
             /\ w' = [ko EXCEPT !.mem.st = st]
    BY <1>c, <1>6, <1>7, FaultType DEF TypeOK
  <1> QED BY <1>a, <1>b, <1>c DEF patchStatus, new

LEMMA ReturnType ==
  ASSUME TypeOK, NEW st \in StatusType, patchAndReturn(st)
  PROVE  /\ cr' \in [CR -> ObjectType]
         /\ faults' \in [n : Nat, seen : SUBSET FaultKind]
  <1>1. c0 \in CR /\ cr[c0] \in ObjectType /\ cr[c0].st \in StatusType
        /\ mem.st \in StatusType
    BY DEF TypeOK, WorkerType, ObjectType, c0, mem
  <1>2. Merge(cr[c0].st, mem.st, st) \in StatusType
    BY <1>1, MergeType
  <1>3. [cr EXCEPT ![c0].st = Merge(cr[c0].st, mem.st, st)] \in [CR -> ObjectType]
    BY <1>1, <1>2 DEF TypeOK, ObjectType
  <1>a. CASE Fault("k8s") /\ UNCHANGED cr
    BY <1>a, FaultType DEF TypeOK
  <1>b. CASE cr' = [cr EXCEPT ![c0].st = Merge(cr[c0].st, mem.st, st)] /\ UNCHANGED faults
    BY <1>b, <1>3 DEF TypeOK
  <1> QED BY <1>a, <1>b DEF patchAndReturn

LEMMA PangolinType ==
  ASSUME TypeOK, NEW id
  PROVE  /\ DeleteResource(id) => resources' \subseteq ResourceType /\ kids' \subseteq KidType
                                  /\ nextId' \in Nat \ {0}
         /\ \A h, b \in BOOLEAN : UpdateResource(id, h, b) =>
              resources' \subseteq ResourceType /\ kids' \subseteq KidType
              /\ nextId' \in Nat \ {0}
  <1>1. DeleteResource(id) => resources' \subseteq ResourceType /\ kids' \subseteq KidType
                              /\ nextId' \in Nat \ {0}
    BY DEF DeleteResource, TypeOK
  <1>2. ASSUME NEW r \in ResourceType, NEW h \in BOOLEAN, NEW n \in Name
        PROVE  Configured(r, h, n) \in ResourceType
    <2>1. mem.spec \in SpecType
      BY DEF TypeOK, mem, WorkerType, ObjectType
    <2> QED BY <2>1 DEF Configured, ResourceType, SpecType
  <1>3. ASSUME NEW h \in BOOLEAN, NEW b \in BOOLEAN, UpdateResource(id, h, b)
        PROVE  resources' \subseteq ResourceType
    <2>1. mem.spec.name \in Name
      BY DEF TypeOK, mem, WorkerType, ObjectType, SpecType
    <2>2. ASSUME NEW r \in resources
          PROVE  Configured(r, h, IF b THEN mem.spec.name ELSE r.name) \in ResourceType
      <3>1. r \in ResourceType /\ (IF b THEN mem.spec.name ELSE r.name) \in Name
        BY <2>1 DEF TypeOK, ResourceType
      <3> QED BY <3>1, <1>2
    <2> QED BY <1>3, <2>2 DEF UpdateResource, TypeOK
  <1> QED BY <1>1, <1>3 DEF UpdateResource, TypeOK

-----------------------------------------------------------------------------
(* Type correctness, one lemma per group of actions. *)

LEMMA TypeOKReconcile ==
  ASSUME TypeOK, NEW c \in CR, Reconcile(c) \/ CacheSync(c)
  PROVE  TypeOK'
  <1>1. CASE Reconcile(c)
    <2>1. \A pc \in PC : [Idle EXCEPT !.c = c, !.mem = cache[c], !.pc = pc] \in WorkerType
      BY IdleType DEF TypeOK, WorkerType
    <2>2. w' \in WorkerType
      <3>1. (IF cache[c].del THEN "cleanup"
             ELSE IF cache[c].fin THEN "site" ELSE "finalize") \in PC
        BY DEF PC
      <3> QED BY <1>1, <2>1, <3>1, IdleType DEF Reconcile
    <2>3. faults' \in [n : Nat, seen : SUBSET FaultKind]
      BY <1>1, FaultType DEF Reconcile, Get, TypeOK
    <2> QED BY <1>1, <2>2, <2>3 DEF Reconcile, pangolin, TypeOK
  <1>2. CASE CacheSync(c)
    BY <1>2 DEF CacheSync, pangolin, TypeOK
  <1> QED BY <1>1, <1>2

LEMMA TypeOKFinalizer ==
  ASSUME TypeOK, AddFinalizer \/ RemoveFinalizer
  PROVE  TypeOK'
  <1>1. c0 \in CR /\ mem \in ObjectType /\ mem.gen \in Nat
    BY DEF TypeOK, WorkerType, ObjectType, c0, mem
  <1>2. WithFinalizer \in ObjectType
    <2>1. mem.spec \in SpecType
      BY <1>1 DEF ObjectType
    <2>2. [mem.spec EXCEPT !.ssl = TRUE] \in SpecType
      BY <2>1 DEF SpecType
    <2>3. (IF mem.spec.ssl THEN mem.gen ELSE mem.gen + 1) \in Nat
      BY <1>1
    <2>4. \A s \in SpecType, g \in Nat :
            [mem EXCEPT !.fin = TRUE, !.spec = s, !.gen = g] \in ObjectType
      BY <1>1 DEF ObjectType
    <2>5. WithFinalizer =
            [mem EXCEPT !.fin = TRUE, !.spec = [mem.spec EXCEPT !.ssl = TRUE],
                        !.gen = IF mem.spec.ssl THEN mem.gen ELSE mem.gen + 1]
      BY <1>1 DEF WithFinalizer, ObjectType
    <2> QED BY <2>2, <2>3, <2>4, <2>5
  <1>3. Gone(mem.gen) \in ObjectType
    BY <1>1, GoneType
  <1>4. [w EXCEPT !.pc = "site", !.mem = WithFinalizer] \in WorkerType
    BY <1>2 DEF TypeOK, WorkerType, PC
  <1>5. Requeue \/ Forget => w' \in WorkerType /\ queue' \subseteq CR
    BY <1>1, IdleType DEF Requeue, Forget, TypeOK
  <1>6. \A k : Fault(k) => faults' \in [n : Nat, seen : SUBSET FaultKind]
    BY FaultType DEF TypeOK
  <1>7. CASE AddFinalizer
    BY <1>1, <1>2, <1>4, <1>5, <1>6, <1>7 DEF AddFinalizer, pangolin, TypeOK
  <1>8. CASE RemoveFinalizer
    BY <1>1, <1>3, <1>5, <1>6, <1>8 DEF RemoveFinalizer, pangolin, TypeOK
  <1> QED BY <1>7, <1>8

LEMMA TypeOKEnsure ==
  ASSUME TypeOK, ResolveSite \/ ensureExists \/ Adopt
  PROVE  TypeOK'
  <1>1. \A y \in Why : Fail(y) \in WorkerType
    BY FailType DEF TypeOK
  <1>2. \A k : Fault(k) => faults' \in [n : Nat, seen : SUBSET FaultKind]
    BY FaultType DEF TypeOK
  <1>3. Refused => w' \in WorkerType /\ faults' \in [n : Nat, seen : SUBSET FaultKind]
    BY <1>1, <1>2 DEF Refused, Why
  <1>4. CASE ResolveSite
    <2>1. mem.spec.site \in Site
      BY DEF TypeOK, WorkerType, ObjectType, SpecType, mem
    <2>2. \A b \in BOOLEAN :
            [w EXCEPT !.pc = "list", !.site = mem.spec.site, !.had = b] \in WorkerType
      BY <2>1 DEF TypeOK, WorkerType, PC
    <2>3. (mem.st.rid # 0) \in BOOLEAN
      OBVIOUS
    <2>4. Fail("Pending") \in WorkerType
      BY <1>1 DEF Why
    <2>5. w' \in WorkerType
      BY <1>4, <2>2, <2>3, <2>4 DEF ResolveSite
    <2> QED BY <1>4, <2>5 DEF ResolveSite, pangolin, TypeOK
  <1>5. CASE ensureExists
    <2>1. /\ Goto("refetch") \in WorkerType
          /\ Goto("creating") \in WorkerType
      BY DEF Goto, TypeOK, WorkerType, PC
    <2>2. \A r \in findResource :
            [w EXCEPT !.pc = "adopt", !.rid = r.id, !.dom = r.dom] \in WorkerType
      <3>1. \A r \in findResource : r.id \in Nat /\ r.dom \in Seq(Char)
        BY DEF findResource, Listed, TypeOK, ResourceType
      <3> QED BY <3>1 DEF TypeOK, WorkerType, PC
    <2> QED BY <1>3, <1>5, <2>1, <2>2 DEF ensureExists, Refused, pangolin, TypeOK
  <1>6. CASE Adopt
    <2> DEFINE st == [mem.st EXCEPT !.rid = w.rid, !.dom = w.dom, !.phase = "Creating",
                        !.ids = [k \in Kind |-> {}], !.hash = [k \in Kind |-> {}]]
               ok == [w EXCEPT !.pc = "update", !.adopted = TRUE]
    <2>1. st \in StatusType
      <3>1. mem.st \in StatusType /\ w.rid \in Nat /\ w.dom \in Seq(Char)
        BY DEF TypeOK, WorkerType, ObjectType, mem
      <3> QED BY <3>1 DEF StatusType, Phase
    <2>2. ok \in WorkerType
      BY DEF TypeOK, WorkerType, PC
    <2>3. patchStatus(st, ok, Fail("Error"))
      BY <1>6 DEF Adopt
    <2>4. Fail("Error") \in WorkerType
      BY <1>1 DEF Why
    <2> HIDE DEF st, ok
    <2> QED BY <1>6, <2>1, <2>2, <2>3, <2>4, PatchType DEF Adopt, pangolin, TypeOK
  <1> QED BY <1>4, <1>5, <1>6

LEMMA TypeOKCreate ==
  ASSUME TypeOK, MarkCreating \/ createResource \/ RecordResource \/ Rollback \/ Reget
                 \/ Settings
  PROVE  TypeOK'
  <1>1. \A y \in Why : Fail(y) \in WorkerType
    BY FailType DEF TypeOK
  <1>2. \A k : Fault(k) => faults' \in [n : Nat, seen : SUBSET FaultKind]
    BY FaultType DEF TypeOK
  <1>3. Refused => w' \in WorkerType /\ faults' \in [n : Nat, seen : SUBSET FaultKind]
    BY <1>1, <1>2 DEF Refused, Why
  <1>4. \A pc \in PC : Goto(pc) \in WorkerType
    BY DEF Goto, TypeOK, WorkerType
  <1>5. c0 \in CR /\ mem \in ObjectType /\ mem.st \in StatusType /\ mem.spec \in SpecType
        /\ w.rid \in Nat /\ w.dom \in Seq(Char)
    BY DEF TypeOK, WorkerType, ObjectType, c0, mem
  <1>6. CASE MarkCreating
    <2>1. [mem.st EXCEPT !.phase = "Creating"] \in StatusType
      BY <1>5 DEF StatusType, Phase
    <2>2. Goto("create") \in WorkerType /\ Fail("Error") \in WorkerType
      BY <1>1, <1>4 DEF PC, Why
    <2> QED BY <1>6, <2>1, <2>2, PatchType DEF MarkCreating, pangolin, TypeOK
  <1>7. CASE createResource
    <2>1. DomainOf(mem.spec) \in Seq(Char)
      BY <1>5, DomainOfType
    <2>2. CreatedResource \in ResourceType
      BY <1>5, <2>1 DEF CreatedResource, ResourceType, SpecType, TypeOK
    <2>3. [w EXCEPT !.pc = "record", !.http = mem.spec.http, !.rid = nextId,
                    !.dom = DomainOf(mem.spec)] \in WorkerType
      BY <1>5, <2>1 DEF SpecType, TypeOK, WorkerType, PC
    <2>4. Fail("Error") \in WorkerType /\ Fail("Conflict") \in WorkerType
      BY <1>1 DEF Why
    <2>5. w' \in WorkerType /\ faults' \in [n : Nat, seen : SUBSET FaultKind]
      BY <1>2, <1>3, <1>7, <2>3, <2>4 DEF createResource, TypeOK
    <2>6. resources' \subseteq ResourceType /\ kids' = kids /\ nextId' \in Nat \ {0}
      BY <1>7, <2>2 DEF createResource, Refused, pangolin, TypeOK
    <2> QED BY <1>7, <2>5, <2>6 DEF createResource, TypeOK
  <1>8. CASE RecordResource
    <2> DEFINE st == [mem.st EXCEPT !.rid = w.rid, !.dom = w.dom, !.phase = "Creating"]
    <2>1. st \in StatusType
      BY <1>5 DEF StatusType, Phase
    <2>2. Goto("reget") \in WorkerType /\ Goto("rollback") \in WorkerType
      BY <1>4 DEF PC
    <2>3. patchStatus(st, Goto("reget"), Goto("rollback"))
      BY <1>8 DEF RecordResource
    <2> HIDE DEF st
    <2> QED BY <1>8, <2>1, <2>2, <2>3, PatchType DEF RecordResource, pangolin, TypeOK
  <1>9. CASE Rollback
    <2>1. resources' \subseteq ResourceType /\ kids' \subseteq KidType /\ nextId' \in Nat \ {0}
      BY <1>9, PangolinType DEF Rollback, pangolin, TypeOK
    <2>2. w' \in WorkerType /\ faults' \in [n : Nat, seen : SUBSET FaultKind]
      BY <1>1, <1>2, <1>9 DEF Rollback, Why, TypeOK
    <2> QED BY <1>9, <2>1, <2>2 DEF Rollback, TypeOK
  <1>10. CASE Reget
    <2>1. w' \in WorkerType
      BY <1>5, <1>10 DEF Reget, TypeOK, WorkerType, PC
    <2>2. faults' \in [n : Nat, seen : SUBSET FaultKind]
      BY <1>2, <1>10 DEF Reget, Get, TypeOK
    <2> QED BY <1>10, <2>1, <2>2 DEF Reget, pangolin, TypeOK
  <1>11. CASE Settings
    <2>1. StartKids(w, "target") \in WorkerType
      BY StartKidsType DEF TypeOK, Kind
    <2>2. Fail("Error") \in WorkerType
      BY <1>1 DEF Why
    <2>3. w' \in WorkerType /\ faults' \in [n : Nat, seen : SUBSET FaultKind]
      BY <1>2, <1>3, <1>11, <2>1, <2>2 DEF Settings, TypeOK
    <2>4. resources' \subseteq ResourceType /\ kids' \subseteq KidType /\ nextId' \in Nat \ {0}
      <3>1. CASE UpdateResource(w.rid, w.http, ~w.http)
        <4>1. w.http \in BOOLEAN
          BY DEF TypeOK, WorkerType
        <4>2. (~w.http) \in BOOLEAN
          BY <4>1, Zenon
        <4> QED BY <3>1, <4>1, <4>2, PangolinType, Zenon
      <3>2. CASE UNCHANGED pangolin
        BY <3>2 DEF pangolin, TypeOK
      <3> QED BY <1>11, <3>1, <3>2 DEF Settings, Refused
    <2> QED BY <1>11, <2>3, <2>4 DEF Settings, TypeOK
  <1> QED BY <1>6, <1>7, <1>8, <1>9, <1>10, <1>11

LEMMA TypeOKKids ==
  ASSUME TypeOK,
         (\E i \in Item : CreateKid(i)) \/ CreatedTargets \/ CreatedRules \/ PersistKids
  PROVE  TypeOK'
  <1>1. \A y \in Why : Fail(y) \in WorkerType
    BY FailType DEF TypeOK
  <1>2. \A k : Fault(k) => faults' \in [n : Nat, seen : SUBSET FaultKind]
    BY FaultType DEF TypeOK
  <1>3. mem.st \in StatusType /\ mem.spec \in SpecType /\ w.kind \in Kind
        /\ w.got \in [Kind -> SUBSET Nat] /\ w.rid \in Nat /\ mem.st.rid \in Nat
    BY DEF TypeOK, WorkerType, ObjectType, StatusType, mem
  <1>4. Fail(EnsureWhy) \in WorkerType /\ Fail(UpdateWhy) \in WorkerType
        /\ Fail("Error") \in WorkerType
    BY <1>1 DEF EnsureWhy, UpdateWhy, Why
  <1>5. ASSUME NEW i \in Item, CreateKid(i)
        PROVE  TypeOK'
    <2>1. \A e \in APIError : KidFails(i, e) => w' \in WorkerType
      <3>1. w.todo \ {i} \in SUBSET Item /\ \A e \in APIError : w.errs \cup {e} \in SUBSET APIError
        BY DEF TypeOK, WorkerType
      <3>2. \A t \in SUBSET Item, e \in SUBSET APIError :
              [w EXCEPT !.todo = t, !.errs = e] \in WorkerType
        BY DEF TypeOK, WorkerType
      <3> QED BY <3>1, <3>2 DEF KidFails
    <2>2. [w EXCEPT !.todo = @ \ {i}, !.got[w.kind] = @ \cup {nextId}] \in WorkerType
      BY <1>3 DEF TypeOK, WorkerType
    <2>3. w' \in WorkerType
      BY <1>5, <2>1, <2>2 DEF CreateKid, APIError
    <2>4. KidsOf \in live => Kid(i) \in KidType
      <3>1. w.site \in Site \cup {NoSite}
        BY DEF TypeOK, WorkerType
      <3>2. KidsOf \in live => KidsOf \in Nat \ {0}
        BY DEF live, TypeOK, ResourceType
      <3> QED BY <1>3, <3>1, <3>2 DEF Kid, KidType, TypeOK
    <2>5. kids' \subseteq KidType /\ nextId' \in Nat \ {0}
      <3>1. \/ KidsOf \in live /\ kids' = kids \cup {Kid(i)} /\ nextId' = nextId + 1
            \/ UNCHANGED <<kids, nextId>>
        BY <1>5 DEF CreateKid
      <3> QED BY <2>4, <3>1 DEF TypeOK
    <2>6. faults' \in [n : Nat, seen : SUBSET FaultKind]
      BY <1>2, <1>5 DEF CreateKid, TypeOK
    <2> QED BY <1>5, <2>3, <2>5, <2>6 DEF CreateKid, TypeOK
  <1>6. CASE CreatedTargets
    <2> DEFINE st == [mem.st EXCEPT !.ids["target"] = w.got["target"]]
    <2>1. StartKids(w, "rule") \in WorkerType
      BY StartKidsType DEF TypeOK, Kind
    <2>2. st \in StatusType
      BY <1>3 DEF StatusType, Kind
    <2>3. patchStatus(st, Fail(EnsureWhy), Fail(EnsureWhy)) =>
            /\ cr' \in [CR -> ObjectType] /\ w' \in WorkerType
            /\ faults' \in [n : Nat, seen : SUBSET FaultKind]
      <3> HIDE DEF st
      <3> QED BY <1>4, <2>2, PatchType
    <2>4. /\ cr' \in [CR -> ObjectType] /\ w' \in WorkerType
          /\ faults' \in [n : Nat, seen : SUBSET FaultKind]
      BY <1>4, <1>6, <2>1, <2>3 DEF CreatedTargets, TypeOK
    <2> QED BY <1>6, <2>4 DEF CreatedTargets, pangolin, TypeOK
  <1>7. CASE CreatedRules
    <2> DEFINE s1 == [mem.st EXCEPT !.ids = w.got]
               s2 == [mem.st EXCEPT !.ids = w.got,
                        !.hash = [k \in Kind |-> hashJSON(mem.spec.kids[k])]]
               ok == IF w.had THEN Goto("refetch") ELSE Ready(w)
    <2>1. s1 \in StatusType
      BY <1>3 DEF StatusType
    <2>2. s2 \in StatusType
      <3>1. [k \in Kind |-> hashJSON(mem.spec.kids[k])] \in [Kind -> SUBSET (SUBSET Item)]
        BY <1>3 DEF SpecType, hashJSON
      <3> QED BY <1>3, <3>1 DEF StatusType
    <2>3. ok \in WorkerType
      <3>1. Goto("refetch") \in WorkerType
        BY DEF Goto, TypeOK, WorkerType, PC
      <3>2. Ready(w) \in WorkerType
        BY ReadyType DEF TypeOK
      <3> QED BY <3>1, <3>2
    <2>4. \/ patchStatus(s1, Fail(EnsureWhy), Fail(EnsureWhy))
          \/ patchStatus(s2, ok, Fail("Error"))
      BY <1>7 DEF CreatedRules
    <2> HIDE DEF s1, s2, ok
    <2>5. /\ cr' \in [CR -> ObjectType] /\ w' \in WorkerType
          /\ faults' \in [n : Nat, seen : SUBSET FaultKind]
      BY <1>4, <2>1, <2>2, <2>3, <2>4, PatchType
    <2> QED BY <1>7, <2>5 DEF CreatedRules, pangolin, TypeOK
  <1>8. CASE PersistKids
    <2> DEFINE s1 == [mem.st EXCEPT !.ids[w.kind] = w.got[w.kind],
                        !.hash[w.kind] = hashJSON(mem.spec.kids[w.kind])]
               s2 == [mem.st EXCEPT !.ids[w.kind] = append(@, w.got[w.kind])]
    <2>1. s1 \in StatusType
      <3>1. hashJSON(mem.spec.kids[w.kind]) \in SUBSET (SUBSET Item)
        BY <1>3 DEF SpecType, hashJSON
      <3> QED BY <1>3, <3>1 DEF StatusType
    <2>2. s2 \in StatusType
      BY <1>3 DEF StatusType, append
    <2>3. Goto("prune") \in WorkerType
      BY DEF Goto, TypeOK, WorkerType, PC
    <2>4. \/ patchStatus(s1, Goto("prune"), Fail("Error"))
          \/ patchStatus(s2, Fail(UpdateWhy), Fail(UpdateWhy))
          \/ w' = Fail(UpdateWhy) /\ UNCHANGED <<cr, faults>>
      BY <1>8 DEF PersistKids
    <2> HIDE DEF s1, s2
    <2>5. /\ cr' \in [CR -> ObjectType] /\ w' \in WorkerType
          /\ faults' \in [n : Nat, seen : SUBSET FaultKind]
      <3>1. CASE patchStatus(s1, Goto("prune"), Fail("Error"))
        BY <3>1, <1>4, <2>1, <2>3, PatchType
      <3>2. CASE patchStatus(s2, Fail(UpdateWhy), Fail(UpdateWhy))
        BY <3>2, <1>4, <2>2, PatchType
      <3>3. CASE w' = Fail(UpdateWhy) /\ UNCHANGED <<cr, faults>>
        BY <3>3, <1>4 DEF TypeOK
      <3> QED BY <2>4, <3>1, <3>2, <3>3
    <2> QED BY <1>8, <2>5 DEF PersistKids, pangolin, TypeOK
  <1> QED BY <1>5, <1>6, <1>7, <1>8

LEMMA TypeOKUpdate ==
  ASSUME TypeOK, Refetch \/ updateResource \/ (\E id \in w.old : PruneKid(id)) \/ Pruned
  PROVE  TypeOK'
  <1>1. \A y \in Why : Fail(y) \in WorkerType
    BY FailType DEF TypeOK
  <1>2. \A k : Fault(k) => faults' \in [n : Nat, seen : SUBSET FaultKind]
    BY FaultType DEF TypeOK
  <1>3. c0 \in CR /\ w \in WorkerType
    BY DEF c0, TypeOK, WorkerType
  <1>4. CASE Refetch
    <2>1. [w EXCEPT !.mem = cache[c0], !.pc = "update"] \in WorkerType
      BY <1>3 DEF TypeOK, WorkerType, PC
    <2>2. w' \in WorkerType
      BY <1>4, <2>1, ReadyType DEF Refetch
    <2>3. faults' \in [n : Nat, seen : SUBSET FaultKind]
      BY <1>2, <1>4 DEF Refetch, Get, TypeOK
    <2> QED BY <1>4, <2>2, <2>3 DEF Refetch, pangolin, TypeOK
  <1>5. CASE updateResource
    <2>1. [w EXCEPT !.updating = TRUE] \in WorkerType
      BY <1>3 DEF WorkerType
    <2>2. UpdateTargets([w EXCEPT !.updating = TRUE]) \in WorkerType
      BY <2>1, UpdateTargetsType
    <2>3. Fail("Error") \in WorkerType /\ Fail("Reset") \in WorkerType
      BY <1>1 DEF Why
    <2>4. w' \in WorkerType /\ faults' \in [n : Nat, seen : SUBSET FaultKind]
      BY <1>2, <1>5, <2>2, <2>3 DEF updateResource, TypeOK
    <2>5. resources' \subseteq ResourceType /\ kids' \subseteq KidType /\ nextId' \in Nat \ {0}
      <3>1. CASE UpdateResource(mem.st.rid, mem.spec.http, TRUE)
        <4>1. mem.spec.http \in BOOLEAN /\ TRUE \in BOOLEAN
          BY DEF TypeOK, mem, WorkerType, ObjectType, SpecType
        <4> QED BY <3>1, <4>1, PangolinType, Zenon
      <3>2. CASE UNCHANGED pangolin
        BY <3>2 DEF pangolin, TypeOK
      <3> QED BY <1>5, <3>1, <3>2 DEF updateResource
    <2> QED BY <1>5, <2>4, <2>5 DEF updateResource, TypeOK
  <1>6. ASSUME NEW id \in w.old, PruneKid(id)
        PROVE  TypeOK'
    <2>1. w' \in WorkerType
      BY <1>3, <1>6 DEF PruneKid, WorkerType
    <2>2. kids' \subseteq KidType /\ faults' \in [n : Nat, seen : SUBSET FaultKind]
      BY <1>2, <1>6 DEF PruneKid, TypeOK
    <2> QED BY <1>6, <2>1, <2>2 DEF PruneKid, TypeOK
  <1>7. CASE Pruned
    <2>1. w' \in WorkerType
      BY <1>3, <1>7, UpdateRulesType, ReadyType DEF Pruned
    <2> QED BY <1>7, <2>1 DEF Pruned, pangolin, TypeOK
  <1> QED BY <1>4, <1>5, <1>6, <1>7

LEMMA TypeOKEnds ==
  ASSUME TypeOK, MarkReady \/ ReportFailure \/ Cleanup
  PROVE  TypeOK'
  <1>1. \A k : Fault(k) => faults' \in [n : Nat, seen : SUBSET FaultKind]
    BY FaultType DEF TypeOK
  <1>2. c0 \in CR /\ mem.st \in StatusType /\ mem.gen \in Nat
    BY DEF TypeOK, WorkerType, ObjectType, c0, mem
  <1>3. Requeue \/ Forget => w' \in WorkerType /\ queue' \subseteq CR
    BY <1>2, IdleType DEF Requeue, Forget, TypeOK
  <1>4. CASE MarkReady
    <2> DEFINE st == [mem.st EXCEPT !.phase = "Ready", !.obs = mem.gen,
                        !.cond = [reason |-> "Reconciled", gen |-> mem.gen]]
    <2>1. st \in StatusType
      BY <1>2 DEF StatusType, Phase, Reason
    <2>2. patchAndReturn(st)
      BY <1>4 DEF MarkReady
    <2> HIDE DEF st
    <2> QED BY <1>3, <1>4, <2>1, <2>2, ReturnType DEF MarkReady, pangolin, TypeOK
  <1>5. CASE ReportFailure
    <2>1. FailureStatus \in StatusType
      BY <1>2, NoDomType DEF FailureStatus, StatusType, Phase, Reason
    <2> QED BY <1>3, <1>5, <2>1, ReturnType DEF ReportFailure, pangolin, TypeOK
  <1>6. CASE Cleanup
    <2>1. Goto("unfinalize") \in WorkerType
      BY DEF Goto, TypeOK, WorkerType, PC
    <2>2. w' \in WorkerType /\ queue' \subseteq CR
          /\ faults' \in [n : Nat, seen : SUBSET FaultKind]
      BY <1>1, <1>3, <1>6, <2>1 DEF Cleanup, TypeOK
    <2>3. resources' \subseteq ResourceType /\ kids' \subseteq KidType /\ nextId' \in Nat \ {0}
      BY <1>6, PangolinType DEF Cleanup, pangolin, TypeOK
    <2> QED BY <1>6, <2>2, <2>3 DEF Cleanup, TypeOK
  <1> QED BY <1>4, <1>5, <1>6

LEMMA TypeOKEnvironment ==
  ASSUME TypeOK, Environment
  PROVE  TypeOK'
  <1>1. \A k : Fault(k) => faults' \in [n : Nat, seen : SUBSET FaultKind]
    BY FaultType DEF TypeOK
  <1>2. ASSUME NEW c \in CR, NEW s \in Specs, UserCreate(c, s)
        PROVE  TypeOK'
    <2>1. cr[c].gen + 1 \in Nat /\ s \in SpecType
      BY ConstantsAssumption DEF TypeOK, ObjectType
    <2>2. NewObject(cr[c].gen + 1, s) \in ObjectType
      BY <2>1, ZeroStatusType DEF NewObject, ObjectType
    <2>3. faults' \in [n : Nat, seen : SUBSET FaultKind]
      BY <1>2, ConstantsAssumption DEF UserCreate, Note, TypeOK
    <2> QED BY <1>2, <2>2, <2>3 DEF UserCreate, pangolin, TypeOK
  <1>3. ASSUME NEW c \in CR, NEW s \in Specs, UserEdit(c, s)
        PROVE  TypeOK'
    <2>1. cr[c] \in ObjectType /\ cr[c].gen \in Nat /\ s \in SpecType
      BY ConstantsAssumption DEF TypeOK, ObjectType
    <2>2. cr' \in [CR -> ObjectType]
      BY <1>3, <2>1 DEF UserEdit, TypeOK, ObjectType
    <2>3. faults' \in [n : Nat, seen : SUBSET FaultKind]
      BY <1>3, ConstantsAssumption DEF UserEdit, Note, TypeOK
    <2> QED BY <1>3, <2>2, <2>3 DEF UserEdit, pangolin, TypeOK
  <1>4. ASSUME NEW c \in CR, UserDelete(c)
        PROVE  TypeOK'
    <2>1. cr[c] \in ObjectType /\ cr[c].gen \in Nat
      BY DEF TypeOK, ObjectType
    <2>2. Gone(cr[c].gen) \in ObjectType
      BY <2>1, GoneType
    <2>3. \A o \in ObjectType : [o EXCEPT !.del = TRUE, !.gen = o.gen + 1] \in ObjectType
      <3> SUFFICES ASSUME NEW o \in ObjectType
                   PROVE  [o EXCEPT !.del = TRUE, !.gen = o.gen + 1] \in ObjectType
        OBVIOUS
      <3>1. o.gen + 1 \in Nat
        BY DEF ObjectType
      <3>2. \A g \in Nat : [o EXCEPT !.del = TRUE, !.gen = g] \in ObjectType
        BY DEF ObjectType
      <3> QED BY <3>1, <3>2
    <2>4. Deleted(cr[c]) \in ObjectType
      BY <2>1, <2>2, <2>3 DEF Deleted
    <2> QED BY <1>4, <2>4 DEF UserDelete, pangolin, TypeOK
  <1>5. ASSUME NEW id \in live, Drift(id)
        PROVE  TypeOK'
    BY <1>1, <1>5, PangolinType DEF Drift, TypeOK
  <1>6. ASSUME NEW s \in Site, SiteReady(s) \/ SiteLost(s)
        PROVE  TypeOK'
    BY <1>1, <1>6 DEF SiteReady, SiteLost, pangolin, TypeOK
  <1>7. CASE Crash
    BY <1>1, <1>7, IdleType DEF Crash, pangolin, TypeOK
  <1> QED BY <1>2, <1>3, <1>4, <1>5, <1>6, <1>7 DEF Environment

LEMMA TypeOKInit == Init => TypeOK
  <1> SUFFICES ASSUME Init PROVE TypeOK
    OBVIOUS
  <1>1. Gone(0) \in ObjectType
    BY GoneType
  <1>2. cr \in [CR -> ObjectType] /\ cache \in [CR -> ObjectType]
    BY <1>1 DEF Init
  <1> QED BY <1>2, IdleType, ConstantsAssumption DEF Init, TypeOK

LEMMA TypeOKNext == TypeOK /\ [Next]_vars => TypeOK'
  <1> SUFFICES ASSUME TypeOK, [Next]_vars PROVE TypeOK'
    OBVIOUS
  <1>1. ASSUME NEW c \in CR, CacheSync(c) \/ Reconcile(c)
        PROVE  TypeOK'
    BY <1>1, TypeOKReconcile
  <1>2. CASE WorkerStep
    BY <1>2, TypeOKFinalizer, TypeOKEnsure, TypeOKCreate, TypeOKKids, TypeOKUpdate,
       TypeOKEnds DEF WorkerStep
  <1>3. CASE Environment
    BY <1>3, TypeOKEnvironment
  <1>4. CASE UNCHANGED vars
    BY <1>4 DEF vars, TypeOK
  <1> QED BY <1>1, <1>2, <1>3, <1>4 DEF Next

\* Type correctness for every instance: in particular no resource, target or rule
\* of Pangolin ever gets the identifier 0, so 0 in the status means "none".
THEOREM TypeCorrect == Spec => []TypeOK
  BY TypeOKInit, TypeOKNext, PTL DEF Spec

-----------------------------------------------------------------------------
(* The finalizer. *)

\* The inductive invariant behind FinalizerHeld: once cleanup has deleted the
\* resource that the object in memory links, nothing brings it back before
\* Update, because creating resources is up to the same worker. The other
\* conjuncts say that only existing objects carry the finalizer.
CleanupInv ==
  /\ TypeOK
  /\ \A c \in CR : cr[c].fin => cr[c].exists
  /\ w.pc = "finalize" => mem.exists
  /\ w.pc = "unfinalize" => mem.st.rid \notin live

\* A status patch changes nothing but the status.
LEMMA PatchKeeps ==
  ASSUME TypeOK,
         NEW st, (\E ok, ko : patchStatus(st, ok, ko)) \/ patchAndReturn(st)
  PROVE  \A c \in CR : cr'[c].fin = cr[c].fin /\ cr'[c].exists = cr[c].exists
  <1>1. c0 \in CR /\ cr[c0] \in ObjectType
    BY DEF TypeOK, WorkerType, c0
  <1>2. \/ cr' = cr
        \/ \E s : cr' = [cr EXCEPT ![c0] = [cr[c0] EXCEPT !.st = s]]
    BY DEF patchStatus, patchAndReturn
  <1> QED BY <1>1, <1>2 DEF TypeOK, ObjectType

LEMMA PatchPC ==
  ASSUME NEW st, NEW ok \in WorkerType, NEW ko \in WorkerType, patchStatus(st, ok, ko)
  PROVE  w'.pc \in {ok.pc, ko.pc}
  BY DEF patchStatus, WorkerType

\* Only Reconcile reaches "finalize", and only Cleanup reaches "unfinalize".
LEMMA OtherStepsPC ==
  ASSUME TypeOK, WorkerStep, ~Cleanup
  PROVE  w'.pc \notin {"finalize", "unfinalize"}
  <1> DEFINE Free(v) == v.pc \notin {"finalize", "unfinalize"}
  <1>1. \A y \in Why : Fail(y) \in WorkerType /\ Free(Fail(y))
    BY IdleType, FailType DEF Fail, WorkerType, TypeOK
  <1>2. \A v \in WorkerType : Ready(v) \in WorkerType /\ Free(Ready(v))
    BY IdleType, ReadyType DEF Ready, WorkerType
  <1>3. \A pc \in PC : Goto(pc) \in WorkerType /\ Goto(pc).pc = pc
    BY DEF Goto, TypeOK, WorkerType
  <1>4. Free(Idle)
    BY DEF Idle
  <1>5. \A v \in WorkerType : \A k \in Kind : Free(StartKids(v, k))
    BY DEF StartKids, WorkerType
  <1>6. \A v \in WorkerType : Free(UpdateRules(v)) /\ Free(UpdateTargets(v))
    BY <1>2, <1>5 DEF UpdateRules, UpdateTargets, Kind
  <1>7. w \in WorkerType
    BY DEF TypeOK
  <1>8. \A pc \in PC \ {"finalize", "unfinalize"} : Goto(pc) \in WorkerType /\ Free(Goto(pc))
    BY <1>3
  <1>9. Fail(EnsureWhy) \in WorkerType /\ Free(Fail(EnsureWhy))
        /\ Fail(UpdateWhy) \in WorkerType /\ Free(Fail(UpdateWhy))
        /\ Fail("Error") \in WorkerType /\ Free(Fail("Error"))
        /\ Free(Fail("BadRequest")) /\ Free(Fail("Conflict")) /\ Free(Fail("Pending"))
        /\ Free(Fail("Reset"))
    BY <1>1 DEF EnsureWhy, UpdateWhy, Why
  <1>10. /\ Goto("create") \in WorkerType /\ Free(Goto("create"))
         /\ Goto("reget") \in WorkerType /\ Free(Goto("reget"))
         /\ Goto("rollback") \in WorkerType /\ Free(Goto("rollback"))
         /\ Goto("refetch") \in WorkerType /\ Free(Goto("refetch"))
         /\ Goto("prune") \in WorkerType /\ Free(Goto("prune"))
         /\ Free(Goto("creating"))
    BY <1>8 DEF PC
  <1>11. Requeue \/ Forget => Free(w')
    BY <1>4 DEF Requeue, Forget
  <1>12. CASE AddFinalizer
    <2>1. Free([w EXCEPT !.pc = "site", !.mem = WithFinalizer])
      BY <1>7 DEF WorkerType
    <2> QED BY <1>11, <1>12, <2>1 DEF AddFinalizer
  <1>13. CASE ResolveSite
    BY <1>7, <1>9, <1>13 DEF ResolveSite, WorkerType
  <1>14. CASE ensureExists
    <2>1. \A r : Free([w EXCEPT !.pc = "adopt", !.rid = r.id, !.dom = r.dom])
      BY <1>7 DEF WorkerType
    <2>2. Refused => Free(w')
      BY <1>9 DEF Refused
    <2>3. \/ w' = Goto("refetch") \/ w' = Goto("creating") \/ Refused
          \/ \E r \in findResource :
               w' = [w EXCEPT !.pc = "adopt", !.rid = r.id, !.dom = r.dom]
      BY <1>14 DEF ensureExists
    <2> QED BY <1>10, <2>1, <2>2, <2>3
  <1>15. CASE Adopt
    <2> DEFINE v == [w EXCEPT !.pc = "update", !.adopted = TRUE]
    <2>0. "update" \in PC
      BY DEF PC
    <2>1. v \in WorkerType /\ Free(v)
      BY <1>7, <2>0 DEF WorkerType
    <2>2. \E st : patchStatus(st, v, Fail("Error"))
      BY <1>15 DEF Adopt
    <2> HIDE DEF v
    <2> QED BY <1>9, <2>1, <2>2, PatchPC
  <1>16. CASE MarkCreating
    BY <1>9, <1>10, <1>16, PatchPC DEF MarkCreating
  <1>17. CASE createResource
    <2>1. Free([w EXCEPT !.pc = "record", !.http = mem.spec.http, !.rid = nextId,
                         !.dom = DomainOf(mem.spec)])
      BY <1>7 DEF WorkerType
    <2>2. Refused => Free(w')
      BY <1>9 DEF Refused
    <2>3. \/ w' = [w EXCEPT !.pc = "record", !.http = mem.spec.http, !.rid = nextId,
                            !.dom = DomainOf(mem.spec)]
          \/ w' = Fail("Error") \/ w' = Fail("BadRequest") \/ w' = Fail("Conflict")
          \/ Refused
      BY <1>17 DEF createResource
    <2> QED BY <1>9, <2>1, <2>2, <2>3
  <1>18. CASE RecordResource
    BY <1>10, <1>18, PatchPC DEF RecordResource
  <1>19. CASE Rollback
    BY <1>9, <1>19 DEF Rollback
  <1>20. CASE Reget
    BY <1>7, <1>20 DEF Reget, WorkerType
  <1>21. CASE Settings
    BY <1>5, <1>7, <1>9, <1>21 DEF Settings, Refused, Kind
  <1>22. CASE \E i \in Item : CreateKid(i)
    BY <1>7, <1>22 DEF CreateKid, KidFails, At, WorkerType
  <1>23. CASE CreatedTargets
    BY <1>5, <1>7, <1>9, <1>23, PatchPC DEF CreatedTargets, Kind
  <1>24. CASE CreatedRules
    <2>1. (IF w.had THEN Goto("refetch") ELSE Ready(w)) \in WorkerType
          /\ Free(IF w.had THEN Goto("refetch") ELSE Ready(w))
      BY <1>2, <1>7, <1>10
    <2> QED BY <1>9, <1>24, <2>1, PatchPC DEF CreatedRules
  <1>25. CASE Refetch
    <2>1. [w EXCEPT !.mem = cache[c0], !.pc = "update"] \in WorkerType
          /\ Free([w EXCEPT !.mem = cache[c0], !.pc = "update"])
      BY <1>7 DEF TypeOK, WorkerType, PC, c0
    <2> QED BY <1>2, <1>25, <2>1 DEF Refetch
  <1>26. CASE updateResource
    <2>1. [w EXCEPT !.updating = TRUE] \in WorkerType
      BY <1>7 DEF WorkerType
    <2> QED BY <1>6, <1>9, <1>26, <2>1 DEF updateResource
  <1>27. CASE PersistKids
    BY <1>9, <1>10, <1>27, PatchPC DEF PersistKids
  <1>28. CASE \E id \in w.old : PruneKid(id)
    BY <1>7, <1>28 DEF PruneKid, At, WorkerType
  <1>29. CASE Pruned
    BY <1>2, <1>6, <1>7, <1>29 DEF Pruned
  <1>30. CASE MarkReady \/ ReportFailure \/ RemoveFinalizer
    BY <1>11, <1>30 DEF MarkReady, ReportFailure, RemoveFinalizer
  <1> HIDE DEF Free
  <1> QED BY <1>12, <1>13, <1>14, <1>15, <1>16, <1>17, <1>18, <1>19, <1>20, <1>21,
             <1>22, <1>23, <1>24, <1>25, <1>26, <1>27, <1>28, <1>29, <1>30
          DEF WorkerStep, Free

LEMMA CleanupInvInit == Init => CleanupInv
  <1> SUFFICES ASSUME Init PROVE CleanupInv
    OBVIOUS
  <1>1. TypeOK
    BY TypeOKInit
  <1>2. \A c \in CR : ~cr[c].fin
    BY DEF Init, Gone
  <1>3. w.pc = "idle"
    BY DEF Init, Idle
  <1> QED BY <1>1, <1>2, <1>3 DEF CleanupInv

\* The objects that a step leaves without the finalizer's protection: none but
\* the one whose finalizer is removed, with its resource gone.
LEMMA HeldStep ==
  ASSUME CleanupInv, [Next]_vars
  PROVE  \A c \in CR :
           /\ cr'[c].fin => cr'[c].exists
           /\ cr[c].fin /\ ~cr'[c].exists => cr[c].st.rid \notin live'
  <1>1. TypeOK /\ c0 \in CR /\ mem \in ObjectType
    BY DEF CleanupInv, TypeOK, WorkerType, c0, mem
  <1>2. ASSUME \A c \in CR : cr'[c].fin = cr[c].fin /\ cr'[c].exists = cr[c].exists
        PROVE  \A c \in CR : /\ cr'[c].fin => cr'[c].exists
                             /\ cr[c].fin /\ ~cr'[c].exists => cr[c].st.rid \notin live'
    BY <1>2 DEF CleanupInv
  <1>3. CASE AddFinalizer
    <2>1. cr' = cr \/ (Unmodified /\ cr' = [cr EXCEPT ![c0] = WithFinalizer])
      BY <1>3 DEF AddFinalizer
    <2>2. WithFinalizer.exists /\ WithFinalizer.fin
      BY <1>1, <1>3 DEF WithFinalizer, ObjectType, AddFinalizer, At, CleanupInv
    <2> QED BY <1>1, <2>1, <2>2 DEF CleanupInv, TypeOK
  <1>4. CASE RemoveFinalizer
    <2>1. cr' = cr \/ (Unmodified /\ cr' = [cr EXCEPT ![c0] = Gone(mem.gen)])
      BY <1>4 DEF RemoveFinalizer
    <2>2. ~Gone(mem.gen).fin
      BY DEF Gone
    <2>3. live' = live /\ mem.st.rid \notin live
      BY <1>4 DEF RemoveFinalizer, pangolin, live, At, CleanupInv
    <2> QED BY <1>1, <2>1, <2>2, <2>3 DEF Unmodified, CleanupInv, TypeOK
  <1>5. ASSUME NEW c \in CR, NEW s \in Specs, UserCreate(c, s)
        PROVE  \A d \in CR : /\ cr'[d].fin => cr'[d].exists
                             /\ cr[d].fin /\ ~cr'[d].exists => cr[d].st.rid \notin live'
    <2>1. NewObject(cr[c].gen + 1, s).exists
      BY DEF NewObject
    <2> QED BY <1>1, <1>5, <2>1 DEF UserCreate, CleanupInv, TypeOK
  <1>6. ASSUME NEW c \in CR, UserDelete(c)
        PROVE  \A d \in CR : /\ cr'[d].fin => cr'[d].exists
                             /\ cr[d].fin /\ ~cr'[d].exists => cr[d].st.rid \notin live'
    <2>1. /\ Deleted(cr[c]).fin => Deleted(cr[c]).exists
          /\ cr[c].fin => Deleted(cr[c]).exists
      BY <1>1, <1>6 DEF Deleted, Gone, UserDelete, CleanupInv, TypeOK, ObjectType
    <2> QED BY <1>1, <1>6, <2>1 DEF UserDelete, CleanupInv, TypeOK
  <1>7. ASSUME NEW c \in CR, NEW s \in Specs, UserEdit(c, s)
        PROVE  \A d \in CR : cr'[d].fin = cr[d].fin /\ cr'[d].exists = cr[d].exists
    BY <1>1, <1>7 DEF UserEdit, TypeOK, ObjectType
  <1>8. CASE MarkReady \/ ReportFailure \/ Adopt \/ MarkCreating \/ RecordResource
             \/ CreatedTargets \/ CreatedRules \/ PersistKids
    <2>1. \/ cr' = cr
          \/ \E st, ok, ko : patchStatus(st, ok, ko) \/ patchAndReturn(st)
      BY <1>8 DEF MarkReady, ReportFailure, Adopt, MarkCreating, RecordResource,
                  CreatedTargets, CreatedRules, PersistKids
    <2> QED BY <1>1, <1>2, <2>1, PatchKeeps
  <1>9. CASE UNCHANGED cr
    BY <1>2, <1>9
  <1>10. CASE WorkerStep
    <2>1. CASE ResolveSite \/ ensureExists \/ createResource \/ Rollback \/ Reget
               \/ Settings \/ (\E i \in Item : CreateKid(i)) \/ Refetch
               \/ updateResource \/ (\E id \in w.old : PruneKid(id)) \/ Pruned \/ Cleanup
      BY <1>9, <2>1 DEF ResolveSite, ensureExists, createResource, Rollback, Reget,
         Settings, CreateKid, Refetch, updateResource, PruneKid, Pruned, Cleanup
    <2> QED BY <1>3, <1>4, <1>8, <1>10, <2>1 DEF WorkerStep
  <1>11. CASE Environment
    BY <1>2, <1>5, <1>6, <1>7, <1>9, <1>11
       DEF Environment, Drift, SiteReady, SiteLost, Crash
  <1>12. CASE \E c \in CR : CacheSync(c) \/ Reconcile(c)
    BY <1>9, <1>12 DEF CacheSync, Reconcile
  <1>13. CASE UNCHANGED vars
    BY <1>9, <1>13 DEF vars
  <1> QED BY <1>10, <1>11, <1>12, <1>13 DEF Next

LEMMA CleanupInvNext == CleanupInv /\ [Next]_vars => CleanupInv'
  <1> SUFFICES ASSUME CleanupInv, [Next]_vars PROVE CleanupInv'
    OBVIOUS
  <1>1. TypeOK /\ TypeOK'
    BY TypeOKNext DEF CleanupInv
  <1>2. \A c \in CR : cr'[c].fin => cr'[c].exists
    BY HeldStep
  <1> DEFINE Rest == /\ w'.pc = "finalize" => w'.mem.exists
                     /\ w'.pc = "unfinalize" => w'.mem.st.rid \notin live'
  <1>3. ASSUME NEW c \in CR, Reconcile(c)
        PROVE  Rest
    <2>1. CASE ~cache[c].exists
      BY <1>3, <2>1 DEF Reconcile, Idle
    <2>2. CASE cache[c].exists
      <3>1. w'.mem = cache[c] /\ w'.pc # "unfinalize"
        BY <1>3, <2>2, IdleType DEF Reconcile, WorkerType
      <3> QED BY <2>2, <3>1
    <2> QED BY <2>1, <2>2
  <1>4. ASSUME Cleanup PROVE Rest
    <2>0. Requeue => w'.pc = "idle"
      <3>1. Idle.pc = "idle"
        BY DEF Idle
      <3> QED BY <3>1 DEF Requeue
    <2>1. CASE w'.pc = "unfinalize"
      <3>1. w' = Goto("unfinalize") /\ ((mem.st.rid = 0 /\ UNCHANGED pangolin)
                                        \/ DeleteResource(mem.st.rid))
        BY <1>4, <2>0, <2>1 DEF Cleanup
      <3>2. w'.mem = mem
        BY <1>1, <3>1 DEF Goto, mem, TypeOK, WorkerType
      <3>3. mem.st.rid \notin live'
        BY <1>1, <3>1 DEF DeleteResource, pangolin, live, TypeOK, ResourceType
      <3> QED BY <2>1, <3>2, <3>3
    <2>2. w'.pc # "finalize"
      <3>1. Goto("unfinalize").pc = "unfinalize"
        BY <1>1 DEF Goto, TypeOK, WorkerType
      <3> QED BY <1>4, <2>0, <3>1 DEF Cleanup
    <2> QED BY <2>1, <2>2
  <1>5. ASSUME WorkerStep, ~Cleanup PROVE Rest
    BY <1>1, <1>5, OtherStepsPC
  <1>6. ASSUME Environment PROVE Rest
    <2>1. CASE Crash
      BY <2>1 DEF Crash, Idle
    <2>2. ASSUME NEW id \in live, Drift(id)
          PROVE  Rest
      BY <2>2 DEF Drift, DeleteResource, live, mem, CleanupInv
    <2>3. CASE UNCHANGED <<w, resources>>
      BY <2>3 DEF mem, live, CleanupInv
    <2> HIDE DEF Rest
    <2> QED BY <1>6, <2>1, <2>2, <2>3 DEF Environment, UserCreate, UserEdit, UserDelete,
               SiteReady, SiteLost, pangolin
  <1>7. ASSUME (\E c \in CR : CacheSync(c)) \/ UNCHANGED vars PROVE Rest
    BY <1>7 DEF CacheSync, vars, pangolin, mem, live, CleanupInv
  <1>8. Rest
    <2> HIDE DEF Rest
    <2> QED BY <1>3, <1>4, <1>5, <1>6, <1>7 DEF Next
  <1> QED BY <1>1, <1>2, <1>8 DEF CleanupInv, mem

\* An object that carries the finalizer leaves the API server only when the
\* Pangolin resource that its status links no longer exists: for any number of
\* objects and failures, any specs, lost answers, restarts and stale reads.
THEOREM FinalizerIsHeld == Spec => FinalizerHeld
  <1>1. Spec => []CleanupInv
    BY CleanupInvInit, CleanupInvNext, PTL DEF Spec
  <1>2. CleanupInv /\ [Next]_vars =>
          [\A c \in CR : cr[c].fin /\ ~cr'[c].exists => cr[c].st.rid \notin live']_vars
    BY HeldStep
  <1> QED BY <1>1, <1>2, PTL DEF Spec, FinalizerHeld

-----------------------------------------------------------------------------
(* What links an object to its resource. *)

\* An object that the reconciler may work for.
Held(o) == o.fin /\ ~o.del

\* Where the worker is between the finalizer's addition and the end of reconcile.
Working == PC \ {"idle", "finalize", "cleanup", "unfinalize"}

\* Only an object with the finalizer is marked as deleted or has a status.
ObjectsInv ==
  \A c \in CR : /\ cr[c].del => cr[c].fin
                /\ ~cr[c].fin => cr[c].st.rid = 0
                /\ cache[c].del => cache[c].fin
                /\ cache[c].fin => cache[c].exists

\* However late the cache is, an object that it shows with the finalizer and not
\* deleted has the finalizer, and one that it shows as deleted was not given the
\* finalizer anew: both would take a reconcile that saw a later version.
CachedInv ==
  \A c \in CR : /\ Held(cache[c]) => cr[c].fin
                /\ cache[c].del => ~Held(cr[c])

WorkerInv ==
  /\ w.pc = "finalize" =>
       mem.exists /\ ~mem.del /\ ~mem.fin /\ (cache[c0].del => cr[c0].fin)
  /\ w.pc \in {"cleanup", "unfinalize"} =>
       mem.exists /\ mem.del /\ ~Held(cr[c0]) /\ ~Held(cache[c0])
  /\ w.pc \in Working => cr[c0].fin

\* An identifier that was handed out, and not to a target or a rule.
OldRid(i) == i < nextId /\ \A x \in kids : x.id # i

IdsInv ==
  /\ \A x \in kids : x.id < nextId
  /\ \A r \in resources : OldRid(r.id)
  /\ \A c \in CR : OldRid(cr[c].st.rid) /\ OldRid(cache[c].st.rid)
  /\ OldRid(mem.st.rid) /\ OldRid(w.rid)

LinkInv == CleanupInv /\ ObjectsInv /\ CachedInv /\ WorkerInv /\ IdsInv

-----------------------------------------------------------------------------
(* What a step of the worker does to the worker and to the object it has. *)

\* The identifiers the worker can have, and the specs.
KnownRid(i) ==
  \/ i \in {0, mem.st.rid, w.rid, cr[c0].st.rid, cache[c0].st.rid}
  \/ \E r \in findResource : i = r.id

KnownSpec(s) ==
  s \in {mem.spec, cache[c0].spec, DecodedSpec(mem.spec, cr[c0].spec)}

\* v goes on with the same object, and with what the worker can have.
Ongoing(v) ==
  /\ v.pc \in Working /\ v.c = c0
  /\ KnownSpec(v.mem.spec) /\ KnownRid(v.mem.st.rid) /\ KnownRid(v.rid)

\* The objects keep everything but the status of the worker's one, and the status
\* links what the worker can have.
StatusOnly ==
  \A c \in CR : /\ cr'[c].exists = cr[c].exists /\ cr'[c].del = cr[c].del
                /\ cr'[c].fin = cr[c].fin /\ cr'[c].gen = cr[c].gen
                /\ cr'[c].spec = cr[c].spec
                /\ c # c0 => cr'[c].st = cr[c].st
                /\ cr'[c].st.rid = cr[c].st.rid \/ (c = c0 /\ KnownRid(cr'[c].st.rid))

LEMMA PatchOngoing ==
  ASSUME TypeOK, NEW st \in StatusType, NEW ok \in WorkerType, NEW ko \in WorkerType,
         Ongoing(ok), Ongoing(ko), KnownRid(st.rid), patchStatus(st, ok, ko)
  PROVE  Ongoing(w') /\ StatusOnly
  <1> DEFINE new == [cr[c0] EXCEPT !.st = Merge(cr[c0].st, mem.st, st)]
  <1>1. c0 \in CR /\ cr[c0] \in ObjectType /\ cr \in [CR -> ObjectType]
    BY DEF TypeOK, WorkerType, c0
  <1>2. Merge(cr[c0].st, mem.st, st).rid \in {st.rid, cr[c0].st.rid}
    BY DEF Merge, Sent
  <1>3. /\ new.st = Merge(cr[c0].st, mem.st, st) /\ new.exists = cr[c0].exists
        /\ new.del = cr[c0].del /\ new.fin = cr[c0].fin /\ new.gen = cr[c0].gen
        /\ new.spec = cr[c0].spec
        /\ new \in [exists : BOOLEAN, del : BOOLEAN, fin : BOOLEAN, gen : Nat,
                    spec : SpecType, st : {Merge(cr[c0].st, mem.st, st)}]
    BY <1>1 DEF ObjectType
  <1>4. Decoded(new, st).st.rid \in {st.rid, cr[c0].st.rid}
    BY <1>2, <1>3 DEF Decoded, DecodedStatus, Kept
  <1>5. KnownRid(cr[c0].st.rid)
    BY DEF KnownRid
  <1>6. [ok EXCEPT !.mem = Decoded(new, st)].mem = Decoded(new, st)
        /\ [ko EXCEPT !.mem.st = st].mem.st = st
        /\ [ko EXCEPT !.mem.st = st].mem.spec = ko.mem.spec
    BY DEF WorkerType, ObjectType
  <1>7. /\ [ok EXCEPT !.mem = Decoded(new, st)].pc = ok.pc
        /\ [ok EXCEPT !.mem = Decoded(new, st)].c = ok.c
        /\ [ok EXCEPT !.mem = Decoded(new, st)].rid = ok.rid
        /\ [ko EXCEPT !.mem.st = st].pc = ko.pc
        /\ [ko EXCEPT !.mem.st = st].c = ko.c
        /\ [ko EXCEPT !.mem.st = st].rid = ko.rid
    BY DEF WorkerType
  <1>8. cr' = cr \/ cr' = [cr EXCEPT ![c0] = new]
    BY DEF patchStatus
  <1>9. \/ w' = [ok EXCEPT !.mem = Decoded(new, st)]
        \/ w' = [ko EXCEPT !.mem.st = st]
    BY DEF patchStatus
  <1> HIDE DEF new
  <1>10. Ongoing(w')
    <2>1. CASE w' = [ok EXCEPT !.mem = Decoded(new, st)]
      <3>1. KnownRid(w'.mem.st.rid)
        BY <1>4, <1>5, <1>6, <2>1 DEF KnownRid
      <3>2. Decoded(new, st).spec = DecodedSpec(mem.spec, cr[c0].spec)
        BY <1>3 DEF Decoded
      <3>3. KnownSpec(w'.mem.spec)
        BY <1>6, <2>1, <3>2 DEF KnownSpec
      <3> QED BY <1>7, <2>1, <3>1, <3>3 DEF Ongoing
    <2>2. CASE w' = [ko EXCEPT !.mem.st = st]
      BY <1>6, <1>7, <2>2 DEF Ongoing
    <2> QED BY <1>9, <2>1, <2>2
  <1>11. StatusOnly
    <2>1. KnownRid(new.st.rid)
      BY <1>2, <1>3, <1>5 DEF KnownRid
    <2> QED BY <1>1, <1>3, <1>8, <2>1 DEF StatusOnly
  <1> QED BY <1>10, <1>11

LEMMA ReturnStatusOnly ==
  ASSUME TypeOK, NEW st \in StatusType, KnownRid(st.rid), patchAndReturn(st)
  PROVE  StatusOnly
  <1>1. c0 \in CR /\ cr[c0] \in ObjectType /\ cr \in [CR -> ObjectType]
    BY DEF TypeOK, WorkerType, c0
  <1>2. Merge(cr[c0].st, mem.st, st).rid \in {st.rid, cr[c0].st.rid}
    BY DEF Merge, Sent
  <1>3. CASE UNCHANGED cr
    BY <1>3 DEF StatusOnly
  <1>4. CASE cr' = [cr EXCEPT ![c0].st = Merge(@, mem.st, st)]
    BY <1>1, <1>2, <1>4 DEF StatusOnly, KnownRid, ObjectType
  <1> QED BY <1>3, <1>4 DEF patchAndReturn

\* A reconcile under way goes on with the object it has, or ends.
LEMMA OngoingStep ==
  ASSUME TypeOK, WorkerStep,
         ~AddFinalizer, ~Cleanup, ~RemoveFinalizer, ~createResource
  PROVE  /\ w.pc \in Working
         /\ w' = Idle \/ Ongoing(w')
         /\ StatusOnly
  <1> DEFINE Goal == w.pc \in Working /\ (w' = Idle \/ Ongoing(w')) /\ StatusOnly
  <1>1. /\ w \in WorkerType /\ c0 \in CR /\ mem.st \in StatusType /\ mem.spec \in SpecType
        /\ w.kind \in Kind /\ w.got \in [Kind -> SUBSET Nat] /\ w.rid \in Nat
        /\ w.dom \in Seq(Char)
    BY DEF TypeOK, WorkerType, ObjectType, c0, mem
  <1>2. KnownRid(mem.st.rid) /\ KnownRid(w.rid) /\ KnownRid(0) /\ KnownRid(cache[c0].st.rid)
        /\ KnownSpec(mem.spec) /\ KnownSpec(cache[c0].spec)
        /\ \A r \in findResource : KnownRid(r.id)
    BY DEF KnownRid, KnownSpec
  <1>3. UNCHANGED cr => StatusOnly
    BY DEF StatusOnly
  <1>4. \A y \in Why : Fail(y) \in WorkerType /\ Ongoing(Fail(y))
    <2>1. \A y \in Why : Fail(y).pc = "fail" /\ Fail(y).c = c0 /\ Fail(y).mem = mem
                         /\ Fail(y).rid = 0
      BY IdleType DEF Fail, WorkerType, Idle
    <2> QED BY <1>2, <2>1, FailType DEF Ongoing, Working, PC, TypeOK
  <1>5. \A v \in WorkerType : Ongoing(v) => Ready(v) \in WorkerType /\ Ongoing(Ready(v))
    <2>1. \A v \in WorkerType : Ready(v).pc = "ready" /\ Ready(v).c = v.c
                                /\ Ready(v).mem = v.mem /\ Ready(v).rid = 0
      BY IdleType DEF Ready, WorkerType, Idle
    <2> QED BY <1>2, <2>1, ReadyType DEF Ongoing, Working, PC
  <1>6. \A pc \in Working : Goto(pc) \in WorkerType /\ Ongoing(Goto(pc))
    <2>1. \A pc \in Working : Goto(pc) \in WorkerType /\ Goto(pc).pc = pc /\ Goto(pc).c = c0
                              /\ Goto(pc).mem = mem /\ Goto(pc).rid = w.rid
      BY <1>1 DEF Goto, WorkerType, Working, c0, mem
    <2> QED BY <1>2, <2>1 DEF Ongoing
  <1>7. \A v \in WorkerType : \A k \in Kind : Ongoing(v) => Ongoing(StartKids(v, k))
    BY DEF StartKids, WorkerType, Ongoing, Working, PC
  <1>8. \A v \in WorkerType :
          Ongoing(v) => Ongoing(UpdateRules(v)) /\ Ongoing(UpdateTargets(v))
    BY <1>5, <1>7 DEF UpdateRules, UpdateTargets, Kind
  <1>9. w.pc \in Working => Ongoing(w)
    BY <1>2 DEF Ongoing, c0, mem
  <1>10. Fail(EnsureWhy) \in WorkerType /\ Ongoing(Fail(EnsureWhy))
         /\ Fail(UpdateWhy) \in WorkerType /\ Ongoing(Fail(UpdateWhy))
         /\ Fail("Error") \in WorkerType /\ Ongoing(Fail("Error"))
         /\ Ongoing(Fail("BadRequest")) /\ Ongoing(Fail("Conflict"))
         /\ Ongoing(Fail("Pending")) /\ Ongoing(Fail("Reset"))
    BY <1>4 DEF EnsureWhy, UpdateWhy, Why
  <1>11. Refused => Ongoing(w')
    BY <1>10 DEF Refused
  <1>12. Requeue \/ Forget => w' = Idle
    BY DEF Requeue, Forget
  <1>13. CASE ResolveSite
    <2>1. \A s, h : Ongoing([w EXCEPT !.pc = "list", !.site = s, !.had = h])
      BY <1>1, <1>2 DEF Ongoing, Working, PC, WorkerType, c0, mem
    <2> QED BY <1>3, <1>10, <1>13, <2>1 DEF ResolveSite, At, Working, PC
  <1>14. CASE ensureExists
    <2>1. \A r \in findResource :
            Ongoing([w EXCEPT !.pc = "adopt", !.rid = r.id, !.dom = r.dom])
      <3> HIDE DEF findResource
      <3> QED BY <1>1, <1>2 DEF Ongoing, Working, PC, WorkerType, c0, mem
    <2>2. Ongoing(Goto("refetch")) /\ Ongoing(Goto("creating"))
      BY <1>6 DEF Working, PC
    <2>3. \/ w' = Goto("refetch") \/ w' = Goto("creating") \/ Refused
          \/ \E r \in findResource :
               w' = [w EXCEPT !.pc = "adopt", !.rid = r.id, !.dom = r.dom]
      BY <1>14 DEF ensureExists
    <2>4. w.pc \in Working /\ UNCHANGED cr
      BY <1>14 DEF ensureExists, At, Working, PC
    <2> QED BY <1>3, <1>11, <2>1, <2>2, <2>3, <2>4
  <1>15. CASE Adopt
    <2> DEFINE st == [mem.st EXCEPT !.rid = w.rid, !.dom = w.dom, !.phase = "Creating",
                        !.ids = [k \in Kind |-> {}], !.hash = [k \in Kind |-> {}]]
               ok == [w EXCEPT !.pc = "update", !.adopted = TRUE]
    <2>1. st \in StatusType /\ st.rid = w.rid
      BY <1>1 DEF StatusType, Phase
    <2>0. "update" \in PC /\ "update" \in Working
      BY DEF PC, Working
    <2>2. ok \in WorkerType /\ Ongoing(ok)
      BY <1>1, <1>2, <2>0 DEF WorkerType, Ongoing, c0, mem
    <2>3. patchStatus(st, ok, Fail("Error")) /\ w.pc \in Working
      BY <1>15 DEF Adopt, At, Working, PC
    <2> HIDE DEF st, ok
    <2> QED BY <1>2, <1>10, <2>1, <2>2, <2>3, PatchOngoing
  <1>16. CASE MarkCreating
    <2> DEFINE st == [mem.st EXCEPT !.phase = "Creating"]
    <2>1. st \in StatusType /\ st.rid = mem.st.rid
      BY <1>1 DEF StatusType, Phase
    <2>2. Goto("create") \in WorkerType /\ Ongoing(Goto("create"))
      BY <1>6 DEF Working, PC
    <2>3. patchStatus(st, Goto("create"), Fail("Error")) /\ w.pc \in Working
      BY <1>16 DEF MarkCreating, At, Working, PC
    <2> HIDE DEF st
    <2> QED BY <1>2, <1>10, <2>1, <2>2, <2>3, PatchOngoing
  <1>17. CASE RecordResource
    <2> DEFINE st == [mem.st EXCEPT !.rid = w.rid, !.dom = w.dom, !.phase = "Creating"]
    <2>1. st \in StatusType /\ st.rid = w.rid
      BY <1>1 DEF StatusType, Phase
    <2>2. /\ Goto("reget") \in WorkerType /\ Ongoing(Goto("reget"))
          /\ Goto("rollback") \in WorkerType /\ Ongoing(Goto("rollback"))
      BY <1>6 DEF Working, PC
    <2>3. patchStatus(st, Goto("reget"), Goto("rollback")) /\ w.pc \in Working
      BY <1>17 DEF RecordResource, At, Working, PC
    <2> HIDE DEF st
    <2> QED BY <1>2, <2>1, <2>2, <2>3, PatchOngoing
  <1>18. CASE Rollback
    BY <1>3, <1>10, <1>18 DEF Rollback, At, Working, PC
  <1>19. CASE Reget
    <2>1. Ongoing([w EXCEPT !.pc = "settings", !.mem = cache[c0]])
      BY <1>1, <1>2 DEF Ongoing, Working, PC, WorkerType, c0
    <2> QED BY <1>3, <1>19, <2>1 DEF Reget, At, Working, PC
  <1>20. CASE Settings
    <2>1. w.pc \in Working /\ UNCHANGED cr
      BY <1>20 DEF Settings, At, Working, PC
    <2>2. Ongoing(StartKids(w, "target"))
      BY <1>1, <1>7, <1>9, <2>1 DEF Kind
    <2> QED BY <1>3, <1>10, <1>11, <1>20, <2>1, <2>2 DEF Settings
  <1>21. ASSUME NEW i \in Item, CreateKid(i)
         PROVE  Goal
    <2>1. w.pc \in Working /\ UNCHANGED cr
      BY <1>21 DEF CreateKid, At, Working, PC
    <2>2. w'.pc = w.pc /\ w'.c = w.c /\ w'.mem = w.mem /\ w'.rid = w.rid
      BY <1>1, <1>21 DEF CreateKid, KidFails, WorkerType
    <2> QED BY <1>3, <1>9, <2>1, <2>2 DEF Ongoing
  <1>22. CASE CreatedTargets
    <2> DEFINE st == [mem.st EXCEPT !.ids["target"] = w.got["target"]]
    <2>1. st \in StatusType /\ st.rid = mem.st.rid
      BY <1>1 DEF StatusType, Kind
    <2>2. w.pc \in Working
      BY <1>22 DEF CreatedTargets, AllTried, At, Working, PC
    <2>3. Ongoing(StartKids(w, "rule"))
      BY <1>1, <1>7, <1>9, <2>2 DEF Kind
    <2>4. \/ w' = StartKids(w, "rule") /\ UNCHANGED cr
          \/ w' = Fail(EnsureWhy) /\ UNCHANGED cr
          \/ patchStatus(st, Fail(EnsureWhy), Fail(EnsureWhy))
      BY <1>22 DEF CreatedTargets
    <2> HIDE DEF st
    <2> QED BY <1>2, <1>3, <1>10, <2>1, <2>2, <2>3, <2>4, PatchOngoing
  <1>23. CASE CreatedRules
    <2> DEFINE s1 == [mem.st EXCEPT !.ids = w.got]
               s2 == [mem.st EXCEPT !.ids = w.got,
                        !.hash = [k \in Kind |-> hashJSON(mem.spec.kids[k])]]
               ok == IF w.had THEN Goto("refetch") ELSE Ready(w)
    <2>1. s1 \in StatusType /\ s1.rid = mem.st.rid
      BY <1>1 DEF StatusType
    <2>2. s2 \in StatusType /\ s2.rid = mem.st.rid
      <3>1. [k \in Kind |-> hashJSON(mem.spec.kids[k])] \in [Kind -> SUBSET (SUBSET Item)]
        BY <1>1 DEF SpecType, hashJSON
      <3> QED BY <1>1, <3>1 DEF StatusType
    <2>3. w.pc \in Working
      BY <1>23 DEF CreatedRules, AllTried, At, Working, PC
    <2>4. ok \in WorkerType /\ Ongoing(ok)
      <3>1. Goto("refetch") \in WorkerType /\ Ongoing(Goto("refetch"))
        BY <1>6 DEF Working, PC
      <3> QED BY <1>1, <1>5, <1>9, <2>3, <3>1
    <2>5. \/ patchStatus(s1, Fail(EnsureWhy), Fail(EnsureWhy))
          \/ patchStatus(s2, ok, Fail("Error"))
      BY <1>23 DEF CreatedRules
    <2> HIDE DEF s1, s2, ok
    <2> QED BY <1>2, <1>10, <2>1, <2>2, <2>3, <2>4, <2>5, PatchOngoing
  <1>24. CASE Refetch
    <2> DEFINE v == [w EXCEPT !.mem = cache[c0], !.pc = "update"]
    <2>0. "update" \in PC /\ "update" \in Working
      BY DEF PC, Working
    <2>1. v \in WorkerType /\ Ongoing(v)
      BY <1>1, <1>2, <2>0 DEF TypeOK, WorkerType, Ongoing, c0
    <2>2. w.pc \in Working /\ UNCHANGED cr /\ (w' = v \/ w' = Ready(v))
      BY <1>24 DEF Refetch, At, Working, PC
    <2> HIDE DEF v
    <2> QED BY <1>3, <1>5, <2>1, <2>2
  <1>25. CASE updateResource
    <2> DEFINE v == [w EXCEPT !.updating = TRUE]
    <2>1. w.pc \in Working /\ UNCHANGED cr
      BY <1>25 DEF updateResource, At, Working, PC
    <2>2. v \in WorkerType /\ Ongoing(v)
      BY <1>1, <1>9, <2>1 DEF WorkerType, Ongoing
    <2>3. w' = UpdateTargets(v) \/ w' = Fail("Error") \/ w' = Fail("Reset")
      BY <1>25 DEF updateResource
    <2> HIDE DEF v
    <2> QED BY <1>3, <1>8, <1>10, <2>1, <2>2, <2>3
  <1>26. CASE PersistKids
    <2> DEFINE s1 == [mem.st EXCEPT !.ids[w.kind] = w.got[w.kind],
                        !.hash[w.kind] = hashJSON(mem.spec.kids[w.kind])]
               s2 == [mem.st EXCEPT !.ids[w.kind] = append(@, w.got[w.kind])]
    <2>1. s1 \in StatusType /\ s1.rid = mem.st.rid
      <3>1. hashJSON(mem.spec.kids[w.kind]) \in SUBSET (SUBSET Item)
        BY <1>1 DEF SpecType, hashJSON
      <3> QED BY <1>1, <3>1 DEF StatusType
    <2>2. s2 \in StatusType /\ s2.rid = mem.st.rid
      BY <1>1 DEF StatusType, append
    <2>3. w.pc \in Working
      BY <1>26 DEF PersistKids, AllTried, At, Working, PC
    <2>4. Goto("prune") \in WorkerType /\ Ongoing(Goto("prune"))
      BY <1>6 DEF Working, PC
    <2>5. \/ patchStatus(s1, Goto("prune"), Fail("Error"))
          \/ patchStatus(s2, Fail(UpdateWhy), Fail(UpdateWhy))
          \/ w' = Fail(UpdateWhy) /\ UNCHANGED cr
      BY <1>26 DEF PersistKids
    <2> HIDE DEF s1, s2
    <2> QED BY <1>2, <1>3, <1>10, <2>1, <2>2, <2>3, <2>4, <2>5, PatchOngoing
  <1>27. ASSUME NEW id \in w.old, PruneKid(id)
         PROVE  Goal
    <2>1. w.pc \in Working /\ UNCHANGED cr
      BY <1>27 DEF PruneKid, At, Working, PC
    <2>2. w'.pc = w.pc /\ w'.c = w.c /\ w'.mem = w.mem /\ w'.rid = w.rid
      BY <1>1, <1>27 DEF PruneKid, WorkerType
    <2> QED BY <1>3, <1>9, <2>1, <2>2 DEF Ongoing
  <1>28. CASE Pruned
    <2>1. w.pc \in Working /\ UNCHANGED cr /\ (w' = UpdateRules(w) \/ w' = Ready(w))
      BY <1>28 DEF Pruned, At, Working, PC
    <2> QED BY <1>1, <1>3, <1>5, <1>8, <1>9, <2>1
  <1>29. CASE MarkReady
    <2> DEFINE st == [mem.st EXCEPT !.phase = "Ready", !.obs = mem.gen,
                        !.cond = [reason |-> "Reconciled", gen |-> mem.gen]]
    <2>1. st \in StatusType /\ st.rid = mem.st.rid
      <3>1. mem.gen \in Nat
        BY <1>1 DEF WorkerType, ObjectType, mem
      <3> QED BY <1>1, <3>1 DEF StatusType, Phase, Reason
    <2>2. patchAndReturn(st) /\ w' = Idle /\ w.pc \in Working
      BY <1>29 DEF MarkReady, Requeue, At, Working, PC
    <2> HIDE DEF st
    <2> QED BY <1>2, <2>1, <2>2, ReturnStatusOnly
  <1>30. CASE ReportFailure
    <2>1. FailureStatus \in StatusType /\ FailureStatus.rid \in {0, mem.st.rid}
      <3>1. mem.gen \in Nat
        BY <1>1 DEF WorkerType, ObjectType, mem
      <3> QED BY <1>1, <3>1, NoDomType DEF FailureStatus, StatusType, Phase, Reason
    <2>2. patchAndReturn(FailureStatus) /\ w' = Idle /\ w.pc \in Working
      BY <1>30 DEF ReportFailure, Requeue, Forget, At, Working, PC
    <2> QED BY <1>2, <2>1, <2>2, ReturnStatusOnly
  <1> HIDE DEF Goal
  <1>31. Goal
    BY <1>13, <1>14, <1>15, <1>16, <1>17, <1>18, <1>19, <1>20, <1>21, <1>22, <1>23, <1>24,
       <1>25, <1>26, <1>27, <1>28, <1>29, <1>30 DEF WorkerStep, Goal
  <1> QED BY <1>31 DEF Goal

-----------------------------------------------------------------------------
(* What a step does in Pangolin: records go, or one is created. *)

Shrinks == live' \subseteq live /\ kids' \subseteq kids /\ nextId' = nextId

ResourceCreated ==
  /\ createResource
  /\ resources' = resources \cup {CreatedResource} /\ kids' = kids /\ nextId' = nextId + 1

KidCreated ==
  /\ w.pc = "kids" /\ UNCHANGED cr
  /\ \E i \in Item : kids' = kids \cup {Kid(i)}
  /\ resources' = resources /\ nextId' = nextId + 1

LEMMA PangolinStep ==
  ASSUME TypeOK, [Next]_vars
  PROVE  Shrinks \/ ResourceCreated \/ KidCreated
  <1>1. UNCHANGED pangolin => Shrinks
    BY DEF pangolin, Shrinks, live
  <1>2. ASSUME NEW id, DeleteResource(id)
        PROVE  Shrinks
    BY <1>2 DEF DeleteResource, Shrinks, live
  <1>3. ASSUME NEW id, NEW h, NEW b, UpdateResource(id, h, b)
        PROVE  Shrinks
    <2>1. \A r \in ResourceType : \A n : Configured(r, h, n).id = r.id
      BY DEF Configured, ResourceType
    <2>2. live' = live
      BY <1>3, <2>1 DEF UpdateResource, live, TypeOK
    <2> QED BY <1>3, <2>2 DEF UpdateResource, Shrinks
  <1>4. CASE WorkerStep
    <2>1. CASE AddFinalizer \/ ResolveSite \/ ensureExists \/ Adopt \/ MarkCreating
               \/ RecordResource \/ Reget \/ CreatedTargets \/ CreatedRules \/ Refetch
               \/ PersistKids \/ Pruned \/ MarkReady \/ ReportFailure \/ RemoveFinalizer
      BY <1>1, <2>1 DEF AddFinalizer, ResolveSite, ensureExists, Refused, Adopt,
         MarkCreating, RecordResource, Reget, CreatedTargets, CreatedRules, Refetch,
         PersistKids, Pruned, MarkReady, ReportFailure, RemoveFinalizer
    <2>2. CASE createResource
      BY <1>1, <2>2 DEF createResource, Refused, ResourceCreated
    <2>3. CASE Rollback \/ Cleanup
      BY <1>1, <1>2, <2>3 DEF Rollback, Cleanup
    <2>4. CASE Settings \/ updateResource
      BY <1>1, <1>3, <2>4 DEF Settings, updateResource, Refused
    <2>5. CASE \E i \in Item : CreateKid(i)
      BY <2>5 DEF CreateKid, At, KidCreated, Shrinks, live
    <2>6. CASE \E id \in w.old : PruneKid(id)
      BY <2>6 DEF PruneKid, Shrinks, live
    <2> QED BY <1>4, <2>1, <2>2, <2>3, <2>4, <2>5, <2>6 DEF WorkerStep
  <1>5. CASE Environment
    BY <1>1, <1>2, <1>5
       DEF Environment, UserCreate, UserEdit, UserDelete, Drift, SiteReady, SiteLost, Crash
  <1>6. CASE (\E c \in CR : CacheSync(c) \/ Reconcile(c)) \/ UNCHANGED vars
    BY <1>1, <1>6 DEF CacheSync, Reconcile, vars, pangolin
  <1> QED BY <1>4, <1>5, <1>6 DEF Next

\* Pangolin hands out every identifier once.
LEMMA OldRidStep ==
  ASSUME TypeOK, IdsInv, [Next]_vars
  PROVE  /\ \A i \in Nat : OldRid(i) => OldRid(i)'
         /\ \A x \in kids' : x.id < nextId'
         /\ \A i \in live' : OldRid(i)'
         /\ ResourceCreated => \A i : i = nextId => OldRid(i)'
  <1>1. nextId \in Nat /\ \A x \in kids : x.id \in Nat
    BY DEF TypeOK, KidType
  <1>2. \A i \in live : i \in Nat /\ OldRid(i)
    BY DEF IdsInv, live, TypeOK, ResourceType
  <1>4. CASE Shrinks
    <2>1. \A i \in Nat : OldRid(i) => OldRid(i)'
      BY <1>4 DEF Shrinks, OldRid
    <2>2. ~ResourceCreated
      BY <1>1, <1>4 DEF Shrinks, ResourceCreated
    <2> QED BY <1>2, <1>4, <2>1, <2>2 DEF Shrinks, IdsInv
  <1>5. CASE ResourceCreated
    <2>1. \A i \in Nat : OldRid(i) => OldRid(i)'
      BY <1>1, <1>5 DEF ResourceCreated, OldRid
    <2>2. \A i : i = nextId => OldRid(i)'
      BY <1>1, <1>5 DEF ResourceCreated, OldRid, IdsInv
    <2>3. live' = live \cup {nextId}
      <3>1. CreatedResource.id = nextId
        BY DEF CreatedResource
      <3> QED BY <1>5, <3>1 DEF ResourceCreated, live
    <2>4. \A x \in kids' : x.id < nextId'
      BY <1>1, <1>5 DEF ResourceCreated, IdsInv
    <2> QED BY <1>2, <2>1, <2>2, <2>3, <2>4
  <1>6. CASE KidCreated
    <2>1. PICK i \in Item : kids' = kids \cup {Kid(i)}
      BY <1>6 DEF KidCreated
    <2>2. Kid(i).id = nextId
      BY DEF Kid
    <2>3. \A j \in Nat : OldRid(j) => OldRid(j)'
      BY <1>1, <1>6, <2>1, <2>2 DEF KidCreated, OldRid
    <2>4. \A x \in kids' : x.id < nextId'
      BY <1>1, <1>6, <2>1, <2>2 DEF KidCreated, IdsInv
    <2>5. live' = live
      BY <1>6 DEF KidCreated, live
    <2>6. ~ResourceCreated
      BY <1>6 DEF KidCreated, ResourceCreated, createResource, At
    <2> QED BY <1>2, <2>3, <2>4, <2>5, <2>6
  <1> QED BY <1>4, <1>5, <1>6, PangolinStep

LEMMA IdsInvNext ==
  ASSUME TypeOK, IdsInv, [Next]_vars
  PROVE  IdsInv'
  <1> DEFINE Old(i) == OldRid(i) \/ (ResourceCreated /\ i = nextId)
             Goal == /\ \A c \in CR : Old(cr'[c].st.rid) /\ Old(cache'[c].st.rid)
                     /\ Old(w'.mem.st.rid) /\ Old(w'.rid)
  <1>1. TypeOK' /\ c0 \in CR /\ w \in WorkerType /\ mem \in ObjectType
    BY TypeOKNext DEF TypeOK, WorkerType, c0, mem
  <1>2. Old(0)
    <2>1. \A x \in kids : x.id # 0
      BY DEF TypeOK, KidType
    <2> QED BY <2>1 DEF OldRid, TypeOK
  <1>3. \A i : KnownRid(i) => Old(i)
    BY <1>1, <1>2 DEF KnownRid, findResource, Listed, IdsInv
  <1>4. \A n : Gone(n).st.rid = 0
    BY DEF Gone, ZeroStatus
  <1>5. Idle.mem.st.rid = 0 /\ Idle.rid = 0
    BY <1>4 DEF Idle
  <1>6. UNCHANGED cr => \A c \in CR : Old(cr'[c].st.rid)
    BY DEF IdsInv
  <1>7. UNCHANGED cache => \A c \in CR : Old(cache'[c].st.rid)
    BY DEF IdsInv
  <1>8. UNCHANGED w => Old(w'.mem.st.rid) /\ Old(w'.rid)
    BY DEF IdsInv, mem
  <1>9. w' = Idle => Old(w'.mem.st.rid) /\ Old(w'.rid)
    BY <1>2, <1>5
  <1>10. UNCHANGED <<cr, cache, w>> => Goal
    BY <1>6, <1>7, <1>8
  <1> HIDE DEF Old
  <1>11. ASSUME NEW c \in CR, CacheSync(c)
         PROVE  Goal
    <2>1. \A d \in CR : Old(cache'[d].st.rid)
      <3>1. \A d \in CR : cache'[d] \in {cache[d], cr[d]}
        BY <1>11 DEF CacheSync, TypeOK
      <3> QED BY <3>1 DEF Old, IdsInv
    <2> QED BY <1>6, <1>8, <1>11, <2>1 DEF CacheSync
  <1>12. ASSUME NEW c \in CR, Reconcile(c)
         PROVE  Goal
    <2>1. w' = Idle \/ (w'.mem = cache[c] /\ w'.rid = 0)
      BY <1>12, <1>5, IdleType DEF Reconcile, WorkerType
    <2>2. Old(cache[c].st.rid)
      BY DEF IdsInv, Old
    <2> QED BY <1>2, <1>6, <1>7, <1>9, <1>12, <2>1, <2>2 DEF Reconcile
  <1>13. ASSUME AddFinalizer PROVE Goal
    <2>1. WithFinalizer.st = mem.st
      BY <1>1 DEF WithFinalizer, ObjectType
    <2>2. Old(mem.st.rid) /\ Old(w.rid)
      BY DEF IdsInv, Old
    <2>3. \A c \in CR : Old(cr'[c].st.rid)
      <3>1. UNCHANGED cr \/ cr' = [cr EXCEPT ![c0] = WithFinalizer]
        BY <1>13 DEF AddFinalizer
      <3> QED BY <1>1, <1>6, <2>1, <2>2, <3>1 DEF TypeOK, IdsInv, Old
    <2>4. Old(w'.mem.st.rid) /\ Old(w'.rid)
      <3>1. w' = Idle \/ w' = [w EXCEPT !.pc = "site", !.mem = WithFinalizer]
        BY <1>13 DEF AddFinalizer, Requeue
      <3>2. /\ [w EXCEPT !.pc = "site", !.mem = WithFinalizer].mem = WithFinalizer
            /\ [w EXCEPT !.pc = "site", !.mem = WithFinalizer].rid = w.rid
        BY <1>1 DEF WorkerType
      <3> QED BY <1>9, <2>1, <2>2, <3>1, <3>2
    <2> QED BY <1>7, <1>13, <2>3, <2>4 DEF AddFinalizer
  <1>14. ASSUME RemoveFinalizer PROVE Goal
    <2>1. \A c \in CR : Old(cr'[c].st.rid)
      <3>1. UNCHANGED cr \/ cr' = [cr EXCEPT ![c0] = Gone(mem.gen)]
        BY <1>14 DEF RemoveFinalizer
      <3> QED BY <1>1, <1>2, <1>4, <1>6, <3>1 DEF TypeOK, IdsInv, Old
    <2> QED BY <1>7, <1>9, <1>14, <2>1 DEF RemoveFinalizer, Requeue, Forget
  <1>15. ASSUME Cleanup PROVE Goal
    <2>1. Goto("unfinalize").mem = mem /\ Goto("unfinalize").rid = w.rid
      BY <1>1 DEF Goto, WorkerType, mem
    <2>2. w' = Idle \/ w' = Goto("unfinalize")
      BY <1>15 DEF Cleanup, Requeue
    <2>3. Old(w'.mem.st.rid) /\ Old(w'.rid)
      BY <1>9, <2>1, <2>2 DEF IdsInv, Old
    <2> QED BY <1>6, <1>7, <1>15, <2>3 DEF Cleanup
  <1>16. ASSUME createResource PROVE Goal
    <2>1. \A y \in Why : Fail(y).mem = mem /\ Fail(y).rid = 0
      BY <1>5, IdleType DEF Fail, WorkerType
    <2>2. \/ \E y \in Why : w' = Fail(y)
          \/ w'.mem = mem /\ w'.rid = nextId /\ ResourceCreated
      BY <1>1, <1>16 DEF createResource, Refused, ResourceCreated, Why, WorkerType, mem
    <2>3. Old(mem.st.rid)
      BY DEF IdsInv, Old
    <2>4. Old(w'.mem.st.rid) /\ Old(w'.rid)
      BY <1>2, <2>1, <2>2, <2>3 DEF Old
    <2> QED BY <1>6, <1>7, <1>16, <2>4 DEF createResource
  <1>17. ASSUME WorkerStep, ~AddFinalizer, ~RemoveFinalizer, ~Cleanup, ~createResource
         PROVE  Goal
    <2>1. (w' = Idle \/ Ongoing(w')) /\ StatusOnly
      BY <1>17, OngoingStep
    <2>2. Old(w'.mem.st.rid) /\ Old(w'.rid)
      BY <1>3, <1>9, <2>1 DEF Ongoing
    <2>3. \A c \in CR : Old(cr'[c].st.rid)
      BY <1>3, <2>1 DEF StatusOnly, IdsInv, Old
    <2>4. UNCHANGED cache
      BY <1>17 DEF WorkerStep, ResolveSite, ensureExists, Adopt, MarkCreating,
         RecordResource, Rollback, Reget, Settings, CreateKid, CreatedTargets,
         CreatedRules, Refetch, updateResource, PersistKids, PruneKid, Pruned, MarkReady,
         ReportFailure
    <2> QED BY <1>7, <2>2, <2>3, <2>4
  <1>18. ASSUME Environment PROVE Goal
    <2>1. ASSUME NEW c \in CR, NEW s \in Specs, UserCreate(c, s) \/ UserEdit(c, s)
          PROVE  Goal
      <3>1. NewObject(cr[c].gen + 1, s).st.rid = 0
        BY DEF NewObject, ZeroStatus
      <3>2. \A d \in CR : cr'[d].st.rid \in {0, cr[d].st.rid}
        <4>1. CASE UserCreate(c, s)
          BY <3>1, <4>1 DEF UserCreate, TypeOK
        <4>2. CASE UserEdit(c, s)
          BY <4>2 DEF UserEdit, TypeOK, ObjectType
        <4> QED BY <2>1, <4>1, <4>2
      <3>3. \A d \in CR : Old(cr'[d].st.rid)
        BY <1>2, <3>2 DEF IdsInv, Old
      <3> QED BY <1>7, <1>8, <2>1, <3>3 DEF UserCreate, UserEdit
    <2>2. ASSUME NEW c \in CR, UserDelete(c)
          PROVE  Goal
      <3>1. Deleted(cr[c]).st.rid \in {0, cr[c].st.rid}
        BY <1>4 DEF Deleted, TypeOK, ObjectType
      <3>2. \A d \in CR : cr'[d].st.rid \in {0, cr[d].st.rid}
        BY <2>2, <3>1 DEF UserDelete, TypeOK
      <3>3. \A d \in CR : Old(cr'[d].st.rid)
        BY <1>2, <3>2 DEF IdsInv, Old
      <3> QED BY <1>7, <1>8, <2>2, <3>3 DEF UserDelete
    <2>3. ASSUME Crash PROVE Goal
      BY <1>6, <1>9, <2>3 DEF Crash, IdsInv, Old
    <2> QED BY <1>10, <1>18, <2>1, <2>2, <2>3 DEF Environment, Drift, SiteReady, SiteLost
  <1>19. ASSUME UNCHANGED vars PROVE Goal
    BY <1>10, <1>19 DEF vars
  <1>20. Goal
    <2> HIDE DEF Goal
    <2> QED BY <1>11, <1>12, <1>13, <1>14, <1>15, <1>16, <1>17, <1>18, <1>19
            DEF Next, WorkerStep
  <1>21. \A i \in Nat : Old(i) => OldRid(i)'
    BY OldRidStep DEF Old
  <1>22. /\ \A c \in CR : cr'[c].st.rid \in Nat /\ cache'[c].st.rid \in Nat
         /\ w'.mem.st.rid \in Nat /\ w'.rid \in Nat
    BY <1>1 DEF TypeOK, ObjectType, WorkerType, StatusType
  <1>23. /\ \A x \in kids' : x.id < nextId'
         /\ \A r \in resources' : OldRid(r.id)'
    BY OldRidStep DEF live
  <1> QED BY <1>20, <1>21, <1>22, <1>23 DEF IdsInv, OldRid, mem

-----------------------------------------------------------------------------
(* The finalizer of an object that the worker has, seen through the cache. *)

\* What the invariants say of the objects is kept by a step that adds and removes
\* no finalizer, marks no object and leaves the cache alone.
LEMMA FlagsKept ==
  ASSUME LinkInv, w.pc \in Working, StatusOnly, cache' = cache,
         w' = Idle \/ (w'.pc \in Working /\ w'.c = c0)
  PROVE  ObjectsInv' /\ CachedInv' /\ WorkerInv'
  <1>1. cr[c0].fin /\ c0 \in CR
    BY DEF LinkInv, WorkerInv, CleanupInv, TypeOK, WorkerType, c0
  <1>2. ObjectsInv'
    BY <1>1 DEF StatusOnly, LinkInv, ObjectsInv
  <1>3. CachedInv'
    BY DEF StatusOnly, LinkInv, CachedInv, Held
  <1>4. WorkerInv'
    <2>1. CASE w' = Idle
      <3>1. w'.pc = "idle"
        BY <2>1 DEF Idle
      <3> QED BY <3>1 DEF WorkerInv, Working
    <2>2. CASE w'.pc \in Working /\ w'.c = c0
      BY <1>1, <2>2 DEF WorkerInv, Working, StatusOnly, c0
    <2> QED BY <2>1, <2>2
  <1> QED BY <1>2, <1>3, <1>4

LEMMA FlagsNext ==
  ASSUME LinkInv, [Next]_vars
  PROVE  ObjectsInv' /\ CachedInv' /\ WorkerInv'
  <1> DEFINE Goal == ObjectsInv' /\ CachedInv' /\ WorkerInv'
  <1>1. /\ TypeOK /\ ObjectsInv /\ CachedInv /\ WorkerInv
        /\ \A c \in CR : cr[c].fin => cr[c].exists
    BY DEF LinkInv, CleanupInv
  <1>2. c0 \in CR /\ w \in WorkerType /\ mem \in ObjectType
    BY <1>1 DEF TypeOK, WorkerType, c0, mem
  <1>3. Idle.pc = "idle" /\ "idle" \notin Working
    BY DEF Idle, Working
  <1>4. ~Gone(mem.gen).fin /\ ~Gone(mem.gen).del /\ Gone(mem.gen).st.rid = 0
    BY DEF Gone, ZeroStatus
  <1>5. ASSUME w' = Idle
        PROVE  WorkerInv'
    BY <1>3, <1>5 DEF WorkerInv
  <1>6. ASSUME UNCHANGED <<cr, cache, w>>
        PROVE  Goal
    BY <1>1, <1>6 DEF ObjectsInv, CachedInv, WorkerInv, c0, mem
  <1>7. ASSUME NEW c \in CR, CacheSync(c)
        PROVE  Goal
    <2>1. cache' = [cache EXCEPT ![c] = cr[c]] /\ UNCHANGED <<cr, w>>
      BY <1>7 DEF CacheSync
    <2>2. \A d \in CR : cache'[d] = IF d = c THEN cr[c] ELSE cache[d]
      BY <1>1, <2>1 DEF TypeOK
    <2>3. ObjectsInv' /\ CachedInv'
      BY <1>1, <2>1, <2>2 DEF ObjectsInv, CachedInv, Held
    <2>4. WorkerInv'
      BY <1>1, <1>2, <2>1, <2>2 DEF WorkerInv, ObjectsInv, c0, mem
    <2> QED BY <2>3, <2>4
  <1>8. ASSUME NEW c \in CR, Reconcile(c)
        PROVE  Goal
    <2>1. UNCHANGED <<cr, cache>>
      BY <1>8 DEF Reconcile
    <2>2. ObjectsInv' /\ CachedInv'
      BY <1>1, <2>1 DEF ObjectsInv, CachedInv
    <2>3. CASE cache[c].exists
      <3> DEFINE pc == IF cache[c].del THEN "cleanup"
                       ELSE IF cache[c].fin THEN "site" ELSE "finalize"
      <3>1. w'.c = c /\ w'.mem = cache[c] /\ w'.pc = pc
        BY <1>8, <2>3, IdleType DEF Reconcile, WorkerType
      <3>2. ASSUME cache[c].del PROVE WorkerInv'
        BY <1>1, <2>1, <2>3, <3>1, <3>2 DEF WorkerInv, CachedInv, Held, Working, c0, mem
      <3>3. ASSUME ~cache[c].del /\ cache[c].fin PROVE WorkerInv'
        BY <1>1, <2>1, <2>3, <3>1, <3>3 DEF WorkerInv, CachedInv, Held, Working, c0, mem
      <3>4. ASSUME ~cache[c].del /\ ~cache[c].fin PROVE WorkerInv'
        BY <1>1, <2>1, <2>3, <3>1, <3>4 DEF WorkerInv, Working, c0, mem
      <3>5. WorkerInv'
        BY <3>2, <3>3, <3>4
      <3> QED BY <2>2, <3>5
    <2>4. CASE ~cache[c].exists
      BY <1>5, <1>8, <2>2, <2>4 DEF Reconcile
    <2> QED BY <2>3, <2>4
  <1>9. ASSUME AddFinalizer
        PROVE  Goal
    <2>1. w.pc = "finalize" /\ mem.exists /\ ~mem.del /\ ~mem.fin
          /\ (cache[c0].del => cr[c0].fin) /\ UNCHANGED cache
      BY <1>1, <1>9 DEF AddFinalizer, At, WorkerInv
    <2>2. CASE cr' = cr /\ w' = Idle
      BY <1>1, <1>5, <2>1, <2>2 DEF ObjectsInv, CachedInv
    <2>3. CASE cr' = [cr EXCEPT ![c0] = WithFinalizer] /\ cr[c0] = mem
      <3>1. WithFinalizer.fin /\ ~WithFinalizer.del
        BY <1>2, <2>1 DEF WithFinalizer, ObjectType
      <3>2. \A c \in CR : cr'[c] = IF c = c0 THEN WithFinalizer ELSE cr[c]
        BY <1>1, <1>2, <2>3 DEF TypeOK
      <3>3. ~cr[c0].fin /\ ~cache[c0].del
        BY <2>1, <2>3
      <3>4. ObjectsInv' /\ CachedInv'
        BY <1>1, <2>1, <3>1, <3>2, <3>3 DEF ObjectsInv, CachedInv, Held
      <3>5. CASE w' = Idle
        BY <1>5, <3>4, <3>5
      <3>6. CASE w' = [w EXCEPT !.pc = "site", !.mem = WithFinalizer]
        <4>1. w'.pc = "site" /\ w'.c = c0
          BY <1>2, <3>6 DEF WorkerType, c0
        <4> QED BY <1>2, <3>1, <3>2, <3>4, <4>1 DEF WorkerInv, c0
      <3> QED BY <1>9, <3>5, <3>6 DEF AddFinalizer, Requeue
    <2> QED BY <1>9, <2>2, <2>3 DEF AddFinalizer, Requeue, Unmodified
  <1>10. ASSUME Cleanup
         PROVE  Goal
    <2>1. w.pc = "cleanup" /\ UNCHANGED <<cr, cache>>
          /\ (w' = Idle \/ w' = Goto("unfinalize"))
      BY <1>10 DEF Cleanup, At, Requeue
    <2>2. ObjectsInv' /\ CachedInv'
      BY <1>1, <2>1 DEF ObjectsInv, CachedInv
    <2>3. ASSUME w' = Goto("unfinalize")
          PROVE  WorkerInv'
      <3>1. w'.pc = "unfinalize" /\ w'.c = w.c /\ w'.mem = w.mem
        BY <1>2, <2>3 DEF Goto, WorkerType
      <3> QED BY <1>1, <2>1, <3>1 DEF WorkerInv, Working, c0, mem
    <2> QED BY <1>5, <2>1, <2>2, <2>3
  <1>11. ASSUME RemoveFinalizer
         PROVE  Goal
    <2>1. w.pc = "unfinalize" /\ UNCHANGED cache /\ w' = Idle
      BY <1>11 DEF RemoveFinalizer, At, Requeue, Forget
    <2>2. ~Held(cache[c0])
      BY <1>1, <2>1 DEF WorkerInv
    <2>3. CASE cr' = cr
      BY <1>1, <1>5, <2>1, <2>3 DEF ObjectsInv, CachedInv
    <2>4. CASE cr' = [cr EXCEPT ![c0] = Gone(mem.gen)]
      <3>1. \A c \in CR : cr'[c] = IF c = c0 THEN Gone(mem.gen) ELSE cr[c]
        BY <1>1, <1>2, <2>4 DEF TypeOK
      <3>2. ObjectsInv' /\ CachedInv'
        BY <1>1, <1>4, <2>1, <2>2, <3>1 DEF ObjectsInv, CachedInv, Held
      <3> QED BY <1>5, <2>1, <3>2
    <2> QED BY <1>11, <2>3, <2>4 DEF RemoveFinalizer
  <1>12. ASSUME createResource
         PROVE  Goal
    <2>1. w.pc = "create" /\ UNCHANGED <<cr, cache>>
      BY <1>12 DEF createResource, At
    <2>2. w'.pc \in Working /\ w'.c = c0
      <3>1. \A y \in Why : Fail(y).pc = "fail" /\ Fail(y).c = c0
        BY IdleType DEF Fail, WorkerType
      <3>2. (\E y \in Why : w' = Fail(y)) \/ (w'.pc = "record" /\ w'.c = c0)
        BY <1>2, <1>12 DEF createResource, Refused, Why, WorkerType, c0
      <3> QED BY <3>1, <3>2 DEF Working, PC
    <2> QED BY <2>1, <2>2, FlagsKept DEF StatusOnly, Working, PC
  <1>13. ASSUME WorkerStep, ~AddFinalizer, ~RemoveFinalizer, ~Cleanup, ~createResource
         PROVE  Goal
    <2>1. w.pc \in Working /\ (w' = Idle \/ Ongoing(w')) /\ StatusOnly
      BY <1>1, <1>13, OngoingStep
    <2>2. UNCHANGED cache
      BY <1>13 DEF WorkerStep, ResolveSite, ensureExists, Adopt, MarkCreating,
         RecordResource, Rollback, Reget, Settings, CreateKid, CreatedTargets,
         CreatedRules, Refetch, updateResource, PersistKids, PruneKid, Pruned, MarkReady,
         ReportFailure
    <2> QED BY <2>1, <2>2, FlagsKept DEF Ongoing
  <1>14. ASSUME NEW c \in CR, NEW s \in Specs, UserCreate(c, s)
         PROVE  Goal
    <2> DEFINE new == NewObject(cr[c].gen + 1, s)
    <2>1. ~new.fin /\ ~new.del /\ new.st.rid = 0 /\ ~cr[c].fin /\ UNCHANGED <<cache, w>>
      BY <1>1, <1>14 DEF NewObject, ZeroStatus, UserCreate
    <2>2. \A d \in CR : cr'[d] = IF d = c THEN new ELSE cr[d]
      BY <1>1, <1>14 DEF UserCreate, TypeOK
    <2> HIDE DEF new
    <2>3. ObjectsInv' /\ CachedInv'
      BY <1>1, <2>1, <2>2 DEF ObjectsInv, CachedInv, Held
    <2>4. WorkerInv'
      BY <1>1, <1>2, <2>1, <2>2 DEF WorkerInv, Held, c0, mem
    <2> QED BY <2>3, <2>4
  <1>15. ASSUME NEW c \in CR, NEW s \in Specs, UserEdit(c, s)
         PROVE  Goal
    <2>1. /\ \A d \in CR : cr'[d].fin = cr[d].fin /\ cr'[d].del = cr[d].del
                           /\ cr'[d].st = cr[d].st
          /\ UNCHANGED <<cache, w>>
      BY <1>1, <1>15 DEF UserEdit, TypeOK, ObjectType
    <2>2. ObjectsInv' /\ CachedInv'
      BY <1>1, <2>1 DEF ObjectsInv, CachedInv, Held
    <2>3. WorkerInv'
      BY <1>1, <1>2, <2>1 DEF WorkerInv, Held, c0, mem
    <2> QED BY <2>2, <2>3
  <1>16. ASSUME NEW c \in CR, UserDelete(c)
         PROVE  Goal
    <2> DEFINE new == Deleted(cr[c])
    <2>1. /\ new.fin = cr[c].fin /\ new.del = cr[c].fin
          /\ ~cr[c].fin => new.st.rid = 0
          /\ UNCHANGED <<cache, w>>
      BY <1>1, <1>16 DEF Deleted, Gone, ZeroStatus, UserDelete, TypeOK, ObjectType
    <2>2. \A d \in CR : cr'[d] = IF d = c THEN new ELSE cr[d]
      BY <1>1, <1>16 DEF UserDelete, TypeOK
    <2> HIDE DEF new
    <2>3. ObjectsInv' /\ CachedInv'
      BY <1>1, <2>1, <2>2 DEF ObjectsInv, CachedInv, Held
    <2>4. WorkerInv'
      BY <1>1, <1>2, <2>1, <2>2 DEF WorkerInv, Held, c0, mem
    <2> QED BY <2>3, <2>4
  <1>17. ASSUME Crash
         PROVE  Goal
    <2>1. UNCHANGED cr /\ cache' = cr /\ w' = Idle
      BY <1>17 DEF Crash
    <2>2. ObjectsInv' /\ CachedInv'
      BY <1>1, <2>1 DEF ObjectsInv, CachedInv, Held
    <2> QED BY <1>5, <2>1, <2>2
  <1>18. ASSUME Environment
         PROVE  Goal
    <2> HIDE DEF Goal
    <2> QED BY <1>6, <1>14, <1>15, <1>16, <1>17, <1>18
            DEF Environment, Drift, SiteReady, SiteLost
  <1>19. ASSUME UNCHANGED vars
         PROVE  Goal
    BY <1>6, <1>19 DEF vars
  <1>20. Goal
    <2> HIDE DEF Goal
    <2> QED BY <1>7, <1>8, <1>9, <1>10, <1>11, <1>12, <1>13, <1>18, <1>19
            DEF Next, WorkerStep
  <1> QED BY <1>20

LEMMA LinkInvInit == Init => LinkInv
  <1> SUFFICES ASSUME Init PROVE LinkInv
    OBVIOUS
  <1>1. CleanupInv /\ TypeOK
    BY CleanupInvInit, TypeOKInit
  <1>2. /\ ~Gone(0).fin /\ ~Gone(0).del /\ Gone(0).st.rid = 0
    BY DEF Gone, ZeroStatus
  <1>3. /\ \A c \in CR : cr[c] = Gone(0) /\ cache[c] = Gone(0)
        /\ w = Idle /\ Idle.pc = "idle" /\ mem = Gone(0) /\ w.rid = 0
    BY DEF Init, Idle, mem
  <1>4. ObjectsInv /\ CachedInv
    BY <1>2, <1>3 DEF ObjectsInv, CachedInv, Held
  <1>5. WorkerInv
    BY <1>3 DEF WorkerInv, Working
  <1>6. nextId = FirstId /\ kids = {} /\ \A r \in resources : r.id < FirstId
    BY ConstantsAssumption DEF Init
  <1>7. IdsInv
    BY <1>2, <1>3, <1>6, ConstantsAssumption DEF IdsInv, OldRid
  <1> QED BY <1>1, <1>4, <1>5, <1>7 DEF LinkInv

LEMMA LinkInvNext == LinkInv /\ [Next]_vars => LinkInv'
  <1> SUFFICES ASSUME LinkInv, [Next]_vars PROVE LinkInv'
    OBVIOUS
  <1>1. CleanupInv' /\ TypeOK
    BY CleanupInvNext DEF LinkInv, CleanupInv
  <1>2. IdsInv'
    BY <1>1, IdsInvNext DEF LinkInv
  <1> QED BY <1>1, <1>2, FlagsNext DEF LinkInv

LEMMA LinkInvariant == Spec => []LinkInv
  BY LinkInvInit, LinkInvNext, PTL DEF Spec

-----------------------------------------------------------------------------
(* Every step is a step of Link or leaves what Link sees alone. *)

LEMMA LinkInit == Init => L!Init
  <1> SUFFICES ASSUME Init PROVE L!Init
    OBVIOUS
  <1>1. \A c \in CR : ~cr[c].exists /\ cr[c].st.rid = 0
    BY DEF Init, Gone, ZeroStatus
  <1>2. FirstId \in Nat /\ FirstId > 0 /\ nextId = FirstId /\ kids = {}
    BY ConstantsAssumption DEF Init
  <1>3. \A i \in live : i \in 1..(FirstId - 1)
    <2>1. \A r \in resources : r.id \in Nat \ {0} /\ r.id < FirstId
      BY ConstantsAssumption DEF Init, ResourceType
    <2> QED BY <1>2, <2>1 DEF live
  <1> QED BY <1>1, <1>2, <1>3 DEF L!Init

\* Phase and link are functions of the objects.
LEMMA PhaseLinkKept ==
  ASSUME \A c \in CR : cr'[c].exists = cr[c].exists /\ cr'[c].del = cr[c].del
                       /\ cr'[c].fin = cr[c].fin /\ cr'[c].st.rid = cr[c].st.rid,
         Shrinks
  PROVE  L!Lose
  <1>1. live' \cup {x.id : x \in kids'} \subseteq live \cup {x.id : x \in kids}
    BY DEF Shrinks
  <1> QED BY <1>1 DEF L!Lose, Shrinks

LEMMA Provisioned ==
  ASSUME LinkInv, UNCHANGED cr, ResourceCreated \/ KidCreated
  PROVE  L!Provision
  <1>1. c0 \in CR /\ cr[c0].exists /\ cr[c0].fin
    BY DEF LinkInv, CleanupInv, TypeOK, WorkerType, WorkerInv, Working, PC, c0,
           ResourceCreated, createResource, At, KidCreated
  <1>2. c0 \in L!Holding
    BY <1>1 DEF L!Holding
  <1>3. L!Create
    <2>1. CASE ResourceCreated
      <3>1. CreatedResource.id = nextId
        BY DEF CreatedResource
      <3> QED BY <2>1, <3>1 DEF ResourceCreated, live, L!Create
    <2>2. CASE KidCreated
      <3>1. \A i : Kid(i).id = nextId
        BY DEF Kid
      <3> QED BY <2>2, <3>1 DEF KidCreated, live, L!Create
    <2> QED BY <2>1, <2>2
  <1> QED BY <1>2, <1>3 DEF L!Provision

LEMMA LinkNext == LinkInv /\ [Next]_vars => [L!Next]_(L!vars)
  <1> SUFFICES ASSUME LinkInv, [Next]_vars PROVE [L!Next]_(L!vars)
    OBVIOUS
  <1>1. /\ TypeOK /\ TypeOK' /\ ObjectsInv /\ WorkerInv /\ IdsInv'
        /\ \A c \in CR : cr[c].fin => cr[c].exists
    BY TypeOKNext, IdsInvNext DEF LinkInv, CleanupInv
  <1>2. c0 \in CR /\ w \in WorkerType /\ mem \in ObjectType /\ nextId \in Nat
    BY <1>1 DEF TypeOK, WorkerType, c0, mem
  <1>3. ASSUME UNCHANGED cr
        PROVE  [L!Next]_(L!vars)
    <2>1. L!Lose \/ L!Provision
      BY <1>1, <1>3, PangolinStep, PhaseLinkKept, Provisioned
    <2> QED BY <2>1 DEF L!Next
  <1>4. UNCHANGED pangolin =>
          Shrinks /\ UNCHANGED <<live \cup {x.id : x \in kids}, nextId>>
    BY DEF pangolin, Shrinks, live
  <1>5. ASSUME NEW c \in CR, NEW o, UNCHANGED pangolin, cr' = [cr EXCEPT ![c] = o]
        PROVE  /\ \A d \in CR : cr'[d] = IF d = c THEN o ELSE cr[d]
               /\ UNCHANGED <<live \cup {x.id : x \in kids}, nextId, 0>>
    BY <1>1, <1>4, <1>5 DEF TypeOK
  <1>6. ASSUME NEW c \in CR, NEW o, UNCHANGED pangolin, cr' = [cr EXCEPT ![c] = o],
               ~cr[c].exists, o.exists, ~o.del, ~o.fin, o.st.rid = cr[c].st.rid
        PROVE  L!Appear(c)
    <2>1. \A d \in CR : cr'[d] = IF d = c THEN o ELSE cr[d]
      BY <1>5, <1>6
    <2>2. UNCHANGED <<live \cup {x.id : x \in kids}, nextId, 0>>
      BY <1>5, <1>6
    <2>3. L!Move(c, "absent", "free")
      <3>1. cr'[c] = o /\ \A d \in CR : d # c => cr'[d] = cr[d]
        BY <2>1
      <3> QED BY <1>6, <3>1 DEF L!Move
    <2>4. UNCHANGED [d \in CR |-> cr[d].st.rid]
      BY <1>6, <2>1
    <2> QED BY <2>2, <2>3, <2>4 DEF L!Appear
  <1>7. ASSUME NEW c \in CR, NEW o, UNCHANGED pangolin, cr' = [cr EXCEPT ![c] = o],
               cr[c].exists, ~cr[c].del, ~cr[c].fin, ~o.exists, o.st.rid = cr[c].st.rid
        PROVE  L!Vanish(c)
    <2>1. \A d \in CR : cr'[d] = IF d = c THEN o ELSE cr[d]
      BY <1>5, <1>7
    <2>2. UNCHANGED <<live \cup {x.id : x \in kids}, nextId, 0>>
      BY <1>5, <1>7
    <2>3. L!Move(c, "free", "absent")
      BY <1>7, <2>1 DEF L!Move
    <2>4. UNCHANGED [d \in CR |-> cr[d].st.rid]
      BY <1>7, <2>1
    <2> QED BY <2>2, <2>3, <2>4 DEF L!Vanish
  <1>8. ASSUME NEW c \in CR, NEW o, UNCHANGED pangolin, cr' = [cr EXCEPT ![c] = o],
               cr[c].exists, ~cr[c].del, ~cr[c].fin,
               o.exists, ~o.del, o.fin, o.st.rid = cr[c].st.rid
        PROVE  L!Hold(c)
    <2>1. \A d \in CR : cr'[d] = IF d = c THEN o ELSE cr[d]
      BY <1>5, <1>8
    <2>2. UNCHANGED <<live \cup {x.id : x \in kids}, nextId, 0>>
      BY <1>5, <1>8
    <2>3. L!Move(c, "free", "held")
      BY <1>8, <2>1 DEF L!Move
    <2>4. UNCHANGED [d \in CR |-> cr[d].st.rid]
      BY <1>8, <2>1
    <2> QED BY <2>2, <2>3, <2>4 DEF L!Hold
  <1>9. ASSUME NEW c \in CR, NEW o, UNCHANGED pangolin, cr' = [cr EXCEPT ![c] = o],
               cr[c].exists, ~cr[c].del, cr[c].fin,
               o.exists, o.del, o.st.rid = cr[c].st.rid
        PROVE  L!Doom(c)
    <2>1. \A d \in CR : cr'[d] = IF d = c THEN o ELSE cr[d]
      BY <1>5, <1>9
    <2>2. UNCHANGED <<live \cup {x.id : x \in kids}, nextId, 0>>
      BY <1>5, <1>9
    <2>3. L!Move(c, "held", "doomed")
      BY <1>9, <2>1 DEF L!Move
    <2>4. UNCHANGED [d \in CR |-> cr[d].st.rid]
      BY <1>9, <2>1
    <2> QED BY <2>2, <2>3, <2>4 DEF L!Doom
  <1>10. ASSUME AddFinalizer
         PROVE  [L!Next]_(L!vars)
    <2>1. CASE UNCHANGED cr
      BY <1>3, <2>1
    <2>2. CASE cr[c0] = mem /\ cr' = [cr EXCEPT ![c0] = WithFinalizer]
      <3>1. /\ WithFinalizer.fin /\ ~WithFinalizer.del /\ WithFinalizer.exists
            /\ WithFinalizer.st = mem.st
            /\ mem.exists /\ ~mem.del /\ ~mem.fin
        BY <1>1, <1>2, <1>10 DEF WithFinalizer, ObjectType, AddFinalizer, At, WorkerInv
      <3>2. /\ cr[c0].exists /\ ~cr[c0].del /\ ~cr[c0].fin
            /\ WithFinalizer.st.rid = cr[c0].st.rid /\ UNCHANGED pangolin
        BY <1>10, <2>2, <3>1 DEF AddFinalizer
      <3>3. PICK c \in CR : c = c0
        BY <1>2
      <3>4. L!Hold(c)
        BY <1>8, <2>2, <3>1, <3>2, <3>3
      <3> QED BY <3>4 DEF L!Next
    <2> QED BY <1>10, <2>1, <2>2 DEF AddFinalizer, Unmodified
  <1>11. ASSUME RemoveFinalizer
         PROVE  [L!Next]_(L!vars)
    <2>1. CASE UNCHANGED cr
      BY <1>3, <2>1
    <2>2. CASE cr[c0] = mem /\ cr' = [cr EXCEPT ![c0] = Gone(mem.gen)]
      <3>1. /\ mem.exists /\ mem.del /\ mem.st.rid \notin live
            /\ \A x \in kids : x.id # mem.st.rid
        BY <1>1, <1>11 DEF RemoveFinalizer, At, WorkerInv, LinkInv, CleanupInv, IdsInv,
                           OldRid
      <3>2. ~Gone(mem.gen).exists /\ Gone(mem.gen).st.rid = 0
        BY DEF Gone, ZeroStatus
      <3>3. PICK c \in CR : c = c0
        BY <1>2
      <3>4. /\ \A d \in CR : cr'[d] = IF d = c THEN Gone(mem.gen) ELSE cr[d]
            /\ UNCHANGED <<live \cup {x.id : x \in kids}, nextId, 0>>
        BY <1>5, <1>11, <2>2, <3>3 DEF RemoveFinalizer
      <3>5. L!Move(c, "doomed", "absent")
        <4>1. cr[c].exists /\ cr[c].del /\ ~cr'[c].exists
          BY <2>2, <3>1, <3>2, <3>3, <3>4
        <4>2. \A d \in CR : d # c => cr'[d] = cr[d]
          BY <3>4
        <4> QED BY <4>1, <4>2 DEF L!Move
      <3>6. [d \in CR |-> cr'[d].st.rid] = [[d \in CR |-> cr[d].st.rid] EXCEPT ![c] = 0]
        BY <3>2, <3>4
      <3>7. cr[c].st.rid \notin live \cup {x.id : x \in kids}
        BY <2>2, <3>1, <3>3
      <3>8. L!Release(c)
        BY <3>4, <3>5, <3>6, <3>7 DEF L!Release
      <3> QED BY <3>8 DEF L!Next
    <2> QED BY <1>11, <2>1, <2>2 DEF RemoveFinalizer, Unmodified
  <1>12. ASSUME WorkerStep, ~AddFinalizer, ~RemoveFinalizer, ~Cleanup, ~createResource
         PROVE  [L!Next]_(L!vars)
    <2>1. w.pc \in Working /\ StatusOnly
      BY <1>1, <1>12, OngoingStep
    <2>2. UNCHANGED cr \/ UNCHANGED pangolin
      BY <1>12 DEF WorkerStep, ResolveSite, ensureExists, Adopt, MarkCreating,
         RecordResource, Rollback, Reget, Settings, CreateKid, CreatedTargets,
         CreatedRules, Refetch, updateResource, PersistKids, PruneKid, Pruned, MarkReady,
         ReportFailure
    <2>3. CASE UNCHANGED cr
      BY <1>3, <2>3
    <2>4. CASE UNCHANGED pangolin
      <3>1. PICK c \in CR : c = c0
        BY <1>2
      <3>2. PICK id \in Nat : id = cr'[c].st.rid
        BY <1>1 DEF TypeOK, ObjectType, StatusType
      <3>3. id \in 0..(nextId - 1)
        BY <1>1, <1>2, <2>4, <3>2 DEF IdsInv, OldRid, pangolin
      <3>4. c \in L!Holding
        BY <1>1, <2>1, <3>1 DEF WorkerInv, L!Holding
      <3>5. UNCHANGED [d \in CR |-> IF ~cr[d].exists THEN "absent"
                                    ELSE IF cr[d].del THEN "doomed"
                                    ELSE IF cr[d].fin THEN "held" ELSE "free"]
        BY <2>1 DEF StatusOnly
      <3>6. [d \in CR |-> cr'[d].st.rid] = [[d \in CR |-> cr[d].st.rid] EXCEPT ![c] = id]
        BY <2>1, <3>1, <3>2 DEF StatusOnly
      <3>7. UNCHANGED <<live \cup {x.id : x \in kids}, nextId>>
        BY <1>4, <2>4
      <3>8. L!LinkTo(c, id)
        BY <1>2, <3>3, <3>4, <3>5, <3>6, <3>7 DEF L!LinkTo
      <3> QED BY <3>3, <3>8 DEF L!Next
    <2> QED BY <2>2, <2>3, <2>4
  <1>13. ASSUME NEW c \in CR, NEW s \in Specs, UserCreate(c, s)
         PROVE  [L!Next]_(L!vars)
    <2> DEFINE new == NewObject(cr[c].gen + 1, s)
    <2>1. new.exists /\ ~new.fin /\ ~new.del /\ new.st.rid = 0
      BY DEF NewObject, ZeroStatus
    <2>2. /\ ~cr[c].exists /\ cr[c].st.rid = 0
          /\ cr' = [cr EXCEPT ![c] = new] /\ UNCHANGED pangolin
      BY <1>1, <1>13 DEF UserCreate, ObjectsInv
    <2> HIDE DEF new
    <2>3. L!Appear(c)
      BY <1>6, <2>1, <2>2
    <2> QED BY <2>3 DEF L!Next
  <1>14. ASSUME NEW c \in CR, NEW s \in Specs, UserEdit(c, s)
         PROVE  [L!Next]_(L!vars)
    <2>1. \A d \in CR : cr'[d].exists = cr[d].exists /\ cr'[d].fin = cr[d].fin
                        /\ cr'[d].del = cr[d].del /\ cr'[d].st.rid = cr[d].st.rid
      BY <1>1, <1>14 DEF UserEdit, TypeOK, ObjectType
    <2>2. Shrinks
      BY <1>4, <1>14 DEF UserEdit
    <2>3. L!Lose
      BY <2>1, <2>2, PhaseLinkKept
    <2> QED BY <2>3 DEF L!Next
  <1>15. ASSUME NEW c \in CR, UserDelete(c)
         PROVE  [L!Next]_(L!vars)
    <2> DEFINE new == Deleted(cr[c])
    <2>1. /\ cr[c].exists /\ ~cr[c].del
          /\ cr' = [cr EXCEPT ![c] = new] /\ UNCHANGED pangolin
      BY <1>15 DEF UserDelete
    <2>2. CASE cr[c].fin
      <3>1. new.exists /\ new.del /\ new.st.rid = cr[c].st.rid
        BY <1>1, <2>1, <2>2 DEF Deleted, TypeOK, ObjectType
      <3> HIDE DEF new
      <3>2. L!Doom(c)
        BY <1>9, <2>1, <2>2, <3>1
      <3> QED BY <3>2 DEF L!Next
    <2>3. CASE ~cr[c].fin
      <3>1. ~new.exists /\ new.st.rid = cr[c].st.rid
        BY <1>1, <2>3 DEF Deleted, Gone, ZeroStatus, ObjectsInv
      <3> HIDE DEF new
      <3>2. L!Vanish(c)
        BY <1>7, <2>1, <2>3, <3>1
      <3> QED BY <3>2 DEF L!Next
    <2> QED BY <2>2, <2>3
  <1>16. ASSUME createResource \/ Cleanup
         PROVE  [L!Next]_(L!vars)
    BY <1>3, <1>16 DEF createResource, Cleanup
  <1>17. ASSUME Environment
         PROVE  [L!Next]_(L!vars)
    BY <1>3, <1>13, <1>14, <1>15, <1>17 DEF Environment, Drift, SiteReady, SiteLost, Crash
  <1>18. ASSUME (\E c \in CR : CacheSync(c) \/ Reconcile(c)) \/ UNCHANGED vars
         PROVE  [L!Next]_(L!vars)
    BY <1>3, <1>18 DEF CacheSync, Reconcile, vars
  <1> QED BY <1>10, <1>11, <1>12, <1>16, <1>17, <1>18 DEF Next

\* The reconciler keeps the promise of Link, for any number of objects and
\* failures: the finalizer is there before createResource, and goes after the
\* resource that status.resourceId links; that status never links an identifier
\* that Pangolin did not hand out, or gave to a target or a rule.
THEOREM LinkImplemented == Spec => ImplementsLink
  BY LinkInit, LinkNext, LinkInvariant, PTL DEF Spec, ImplementsLink, L!Spec
=============================================================================
