------------------------ MODULE PrivateResourceProofs ------------------------
(***************************************************************************)
(* PrivateResource keeps its types and implements Link: proofs for every   *)
(* value of the constants.                                                 *)
(***************************************************************************)
EXTENDS PrivateResource, DomainsProofs, FiniteSetTheorems

-----------------------------------------------------------------------------
(* Types. *)

\* Pangolin composes some full domain of what the operator sends, and the one that was
\* asked for unless ResolveDomain trims it twice.
LEMMA ComposedDomain ==
  ASSUME NEW d \in FullDomain, httpFieldsFor[d].ok
  PROVE  /\ Composed[d] \in Seq(Char)
         /\ ~TrimmedTwice(Domains, d) => Composed[d] = d
  <1>1. "." \in Char /\ Domains \in DomainListType(Char) /\ d \in NameType(Char)
    BY DomainsAssumption
  <1>2. httpFieldsFor[d] = ResolveDomain(Domains, d)
    BY DEF httpFieldsFor
  <1>3. Composed[d] = FullDomainOf(Domains, httpFieldsFor[d].id, httpFieldsFor[d].sub)
    BY DEF Composed
  <1>4. Composed[d] \in Seq(Char)
    BY <1>1, <1>2, <1>3, ComposedName
  <1>5. ASSUME ~TrimmedTwice(Domains, d) PROVE Composed[d] = d
    <2>1. Resolved(Domains, d)
      BY <1>1, <1>5, ResolvedExact DEF ResolvesExactly
    <2> QED BY <1>2, <1>3, <2>1 DEF Resolved
  <1> QED BY <1>4, <1>5

LEMMA NoDomType == NoDom \in Seq(Char)
  BY EmptySeq DEF NoDom

\* The full domain of a site resource is the one of the spec, unless it is damaged.
LEMMA SentIsAsked ==
  ASSUME mem \in ObjectType, Resolvable(mem.spec)
  PROVE  /\ SentDom \in Seq(Char)
         /\ ~Damaged(mem.spec) => SentDom = IF mem.spec.http THEN mem.spec.dom ELSE NoDom
         /\ mem.spec.http => mem.spec.dom # NoDom
  <1>1. mem.spec.dom \in FullDomain \cup {NoDom}
    BY DEF ObjectType, SpecType
  <1>2. mem.spec.http => mem.spec.dom \in FullDomain /\ httpFieldsFor[mem.spec.dom].ok
    BY <1>1 DEF Resolvable
  <1>3. mem.spec.http =>
          /\ Composed[mem.spec.dom] \in Seq(Char)
          /\ ~Damaged(mem.spec) => Composed[mem.spec.dom] = mem.spec.dom
    BY <1>2, ComposedDomain DEF Damaged
  <1> QED BY <1>3, NoDomType DEF SentDom, Resolvable

LEMMA ZeroStatusType == ZeroStatus \in StatusType
  BY NoDomType DEF ZeroStatus, StatusType, Phase, Reason

LEMMA GoneType == \A n \in Nat : Gone(n) \in ObjectType
  <1>1. PICK c \in CR : TRUE
    BY ConstantsAssumption
  <1>2. UNION {Specs[d] : d \in CR} \subseteq SpecType /\ Specs[c] # {}
    BY ConstantsAssumption
  <1>3. (CHOOSE s \in UNION {Specs[d] : d \in CR} : TRUE) \in SpecType
    BY <1>2
  <1> QED BY <1>3, ZeroStatusType DEF Gone, ObjectType

LEMMA IdleType == Idle \in WorkerType
  <1>1. (CHOOSE c \in CR : TRUE) \in CR
    BY ConstantsAssumption
  <1>2. Gone(0) \in ObjectType
    BY GoneType
  <1> QED BY <1>1, <1>2, NoDomType DEF Idle, WorkerType, PC, Why

LEMMA FailType ==
  ASSUME w \in WorkerType, NEW why \in Why
  PROVE  Fail(why) \in WorkerType
  BY IdleType DEF Fail, WorkerType, PC, c0, mem

LEMMA ReadyType ==
  ASSUME NEW v \in WorkerType
  PROVE  Ready(v) \in WorkerType
  BY IdleType DEF Ready, WorkerType, PC

LEMMA GotoType ==
  ASSUME w \in WorkerType, NEW pc \in PC
  PROVE  Goto(pc) \in WorkerType
  BY DEF Goto, WorkerType

LEMMA FaultType ==
  ASSUME faults \in [n : Nat, seen : SUBSET FaultKind], NEW k, Fault(k)
  PROVE  faults' \in [n : Nat, seen : SUBSET FaultKind]
  BY ConstantsAssumption DEF Fault

LEMMA MergeType ==
  ASSUME NEW s \in StatusType, NEW b \in StatusType, NEW a \in StatusType
  PROVE  Merge(s, b, a) \in StatusType
  BY DEF Merge, Sent, StatusType

LEMMA DecodedType ==
  ASSUME w \in WorkerType, NEW server \in ObjectType, NEW st \in StatusType
  PROVE  Decoded(server, st) \in ObjectType
  <1>1. mem.spec \in SpecType /\ server.spec \in SpecType /\ server.st \in StatusType
    BY DEF mem, WorkerType, ObjectType
  <1>2. ASSUME NEW old \in SpecType, NEW new \in SpecType
        PROVE  DecodedSpec(old, new) \in SpecType
    <2> DEFINE dom == Kept(old.dom, NoDom, new.dom)
               ports == Kept(old.ports, "", new.ports)
    <2>1. dom \in FullDomain \cup {NoDom}
      BY DEF Kept, SpecType
    <2>2. ports \in Port
      BY DEF Kept, SpecType
    <2>3. old.alias \in BOOLEAN /\ new.alias \in BOOLEAN
          /\ old.roles \in BOOLEAN /\ new.roles \in BOOLEAN
      BY DEF SpecType
    <2>4. DecodedSpec(old, new) = [new EXCEPT !.dom = dom, !.ports = ports,
                                    !.alias = old.alias \/ new.alias,
                                    !.roles = old.roles \/ new.roles]
      BY DEF DecodedSpec
    <2> HIDE DEF dom, ports
    <2> QED BY <2>1, <2>2, <2>3, <2>4 DEF SpecType
  <1>3. DecodedStatus(st, server.st) \in StatusType
    BY <1>1 DEF DecodedStatus, Kept, StatusType
  <1>4. DecodedSpec(mem.spec, server.spec) \in SpecType
    BY <1>1, <1>2
  <1> QED BY <1>3, <1>4 DEF Decoded, ObjectType

LEMMA PatchType ==
  ASSUME TypeOK, NEW st \in StatusType, NEW ok \in WorkerType, NEW ko \in WorkerType,
         patchStatus(st, ok, ko)
  PROVE  /\ cr' \in [CR -> ObjectType]
         /\ w' \in WorkerType
         /\ faults' \in [n : Nat, seen : SUBSET FaultKind]
  <1> DEFINE new == [cr[c0] EXCEPT !.st = Merge(cr[c0].st, mem.st, st)]
  <1>1. c0 \in CR /\ cr[c0] \in ObjectType /\ cr[c0].st \in StatusType
        /\ mem.st \in StatusType
    BY DEF TypeOK, WorkerType, ObjectType, c0, mem
  <1>2. new \in ObjectType
    BY <1>1, MergeType DEF ObjectType
  <1>3. Decoded(new, st) \in ObjectType
    BY <1>2, DecodedType DEF TypeOK
  <1>4. [ok EXCEPT !.mem = Decoded(new, st)] \in WorkerType
        /\ [ko EXCEPT !.mem.st = st] \in WorkerType
    BY <1>3 DEF WorkerType, ObjectType
  <1>5. [cr EXCEPT ![c0] = new] \in [CR -> ObjectType]
    BY <1>1, <1>2 DEF TypeOK
  <1>6. faults' \in [n : Nat, seen : SUBSET FaultKind]
    BY FaultType DEF patchStatus, TypeOK
  <1> HIDE DEF new
  <1>7. cr' \in {cr, [cr EXCEPT ![c0] = new]}
        /\ w' \in {[ok EXCEPT !.mem = Decoded(new, st)], [ko EXCEPT !.mem.st = st]}
    BY DEF patchStatus, new
  <1> QED BY <1>4, <1>5, <1>6, <1>7 DEF TypeOK

LEMMA ReturnType ==
  ASSUME TypeOK, NEW st \in StatusType, patchAndReturn(st)
  PROVE  /\ cr' \in [CR -> ObjectType]
         /\ faults' \in [n : Nat, seen : SUBSET FaultKind]
  <1>1. c0 \in CR /\ cr[c0] \in ObjectType /\ cr[c0].st \in StatusType
        /\ mem.st \in StatusType
    BY DEF TypeOK, WorkerType, ObjectType, c0, mem
  <1>2. Merge(cr[c0].st, mem.st, st) \in StatusType
    BY <1>1, MergeType
  <1>3. [cr EXCEPT ![c0].st = Merge(cr[c0].st, mem.st, st)] \in [CR -> ObjectType]
    BY <1>1, <1>2 DEF TypeOK, ObjectType
  <1> QED BY <1>3, FaultType DEF patchAndReturn, TypeOK

LEMMA CreatedType ==
  ASSUME TypeOK, Resolvable(mem.spec), NEW id \in Nat \ {0}
  PROVE  /\ CreatedResource(id) \in ResourceType
         /\ \A i : [CreatedResource(i) EXCEPT !.id = 1] \in ResourceType
         /\ \A i : CreatedResource(i).id = i
  <1>1. mem \in ObjectType /\ mem.spec \in SpecType /\ c0 \in CR /\ w.sid \in Nat
    BY DEF TypeOK, WorkerType, ObjectType, c0, mem
  <1>2. SentDom \in Seq(Char)
    BY <1>1, SentIsAsked DEF SpecType
  <1>3. SentPorts("*") \in Port
    BY <1>1 DEF SentPorts, Kept, Port, SpecType
  <1> QED BY <1>1, <1>2, <1>3 DEF CreatedResource, ResourceType, SpecType

LEMMA ConfiguredType ==
  ASSUME TypeOK, Resolvable(mem.spec), NEW r \in ResourceType
  PROVE  Configured(r) \in ResourceType
  <1>1. mem \in ObjectType /\ mem.spec \in SpecType /\ w.sid \in Nat
    BY DEF TypeOK, WorkerType, ObjectType, mem
  <1>2. SentDom \in Seq(Char)
    BY <1>1, SentIsAsked DEF SpecType
  <1>3. SentPorts(r.ports) \in Port
    BY <1>1 DEF SentPorts, Kept, ResourceType, SpecType
  <1>4. (r.alias \/ mem.spec.alias) \in BOOLEAN
    OBVIOUS
  <1> DEFINE d == IF mem.spec.http THEN SentDom ELSE r.dom
             p == SentPorts(r.ports)
             a == r.alias \/ mem.spec.alias
  <1>5. d \in Seq(Char) /\ p \in Port /\ a \in BOOLEAN
    BY <1>2, <1>3, <1>4 DEF ResourceType
  <1>6. Configured(r) =
          [r EXCEPT !.name = mem.spec.name, !.http = mem.spec.http, !.dest = mem.spec.dest,
                    !.dom = d, !.ports = p, !.alias = a, !.roles = mem.spec.roles,
                    !.sid = w.sid]
    BY DEF Configured, ResourceType
  <1> HIDE DEF d, p, a
  <1> QED BY <1>1, <1>5, <1>6 DEF ResourceType, SpecType

LEMMA TypeOKWorker == ASSUME TypeOK, WorkerStep PROVE TypeOK'
  <1> DEFINE FaultsType == [n : Nat, seen : SUBSET FaultKind]
             Objects == cr' \in [CR -> ObjectType] /\ cache' \in [CR -> ObjectType]
             Other == queue' \subseteq CR /\ siteId' \in [Site -> Nat]
                      /\ faults' \in FaultsType
             Remote == /\ resources' \subseteq ResourceType /\ nextId' \in Nat \ {0}
                       /\ \A r \in late' : [r EXCEPT !.id = 1] \in ResourceType
             Goal == w' \in WorkerType /\ Objects /\ Other /\ Remote
  <1>0. /\ w \in WorkerType /\ mem \in ObjectType /\ mem.st \in StatusType /\ mem.gen \in Nat
        /\ mem.spec \in SpecType /\ w.rid \in Nat /\ w.sid \in Nat /\ c0 \in CR
        /\ w.dom \in Seq(Char)
    BY DEF TypeOK, WorkerType, ObjectType, c0, mem
  <1>1. /\ UNCHANGED pangolin => Remote
        /\ UNCHANGED faults => faults' \in FaultsType
        /\ UNCHANGED cr => cr' \in [CR -> ObjectType]
        /\ UNCHANGED cache => cache' \in [CR -> ObjectType]
        /\ UNCHANGED siteId => siteId' \in [Site -> Nat]
        /\ UNCHANGED queue => queue' \subseteq CR
    BY DEF TypeOK, pangolin
  <1>2. \A k : Fault(k) => faults' \in FaultsType
    BY FaultType DEF TypeOK
  <1>3. \A id : DeleteSiteResource(id) => Remote
    BY DEF DeleteSiteResource, TypeOK
  <1>4. \A y \in Why : Fail(y) \in WorkerType
    BY <1>0, FailType
  <1>5. /\ Fail("Error") \in WorkerType /\ Fail("BadRequest") \in WorkerType
        /\ Fail("Reset") \in WorkerType /\ Fail("Pending") \in WorkerType
    BY <1>4 DEF Why
  <1>6. \A pc \in PC : Goto(pc) \in WorkerType
    BY <1>0, GotoType
  <1>7. Requeue \/ Forget => w' \in WorkerType /\ queue' \subseteq CR
    BY <1>0, IdleType DEF Requeue, Forget, TypeOK
  <1>8. Refused => w' \in WorkerType /\ faults' \in FaultsType /\ Remote
    BY <1>1, <1>2, <1>5 DEF Refused
  <1>9. Ready(w) \in WorkerType
    BY <1>0, ReadyType
  <1> HIDE DEF FaultsType, Remote
  <1>10. ASSUME AddFinalizer PROVE Goal
    <2>1. WithFinalizer \in ObjectType
      <3> DEFINE sp == [mem.spec EXCEPT !.ports = Kept("*", "", @)]
                 g == IF mem.spec.ports = "" THEN mem.gen + 1 ELSE mem.gen
      <3>1. sp \in SpecType
        BY <1>0 DEF SpecType, Kept, Port
      <3>2. g \in Nat
        <4>1. \A n \in Nat : n + 1 \in Nat
          OBVIOUS
        <4> QED BY <1>0, <4>1, Zenon
      <3>3. WithFinalizer = [mem EXCEPT !.fin = TRUE, !.spec = sp, !.gen = g]
        BY <1>0 DEF WithFinalizer, ObjectType, SpecType
      <3> HIDE DEF sp, g
      <3> QED BY <1>0, <3>1, <3>2, <3>3 DEF ObjectType
    <2>2. [w EXCEPT !.pc = "site", !.mem = WithFinalizer] \in WorkerType
          /\ [cr EXCEPT ![c0] = WithFinalizer] \in [CR -> ObjectType]
      BY <1>0, <2>1 DEF WorkerType, PC, TypeOK
    <2> QED BY <1>1, <1>2, <1>7, <1>10, <2>2 DEF AddFinalizer
  <1>11. ASSUME ResolveSite PROVE Goal
    <2>1. siteId[mem.spec.site] \in Nat
      BY <1>0 DEF TypeOK, SpecType
    <2>2. w' \in WorkerType
      BY <1>0, <1>5, <1>11, <2>1 DEF ResolveSite, WorkerType, PC
    <2> QED BY <1>1, <1>11, <2>2 DEF ResolveSite
  <1>12. ASSUME ensureExists PROVE Goal
    <2>1. \A r \in findSiteResource :
            [w EXCEPT !.pc = "adopt", !.rid = r.id, !.dom = r.dom] \in WorkerType
      BY <1>0 DEF findSiteResource, Listed, TypeOK, ResourceType, WorkerType, PC
    <2>2. Goto("refetch") \in WorkerType /\ Goto("creating") \in WorkerType
      BY <1>6 DEF PC
    <2> QED BY <1>1, <1>8, <1>12, <2>1, <2>2 DEF ensureExists
  <1>13. ASSUME Adopt PROVE Goal
    <2> DEFINE st == [mem.st EXCEPT !.rid = w.rid, !.dom = w.dom, !.phase = "Creating"]
    <2>1. st \in StatusType
      BY <1>0 DEF StatusType, Phase
    <2>2. Goto("update") \in WorkerType
      BY <1>6 DEF PC
    <2>3. patchStatus(st, Goto("update"), Fail("Error"))
          /\ UNCHANGED <<cache, queue, pangolin, siteId>>
      BY <1>13 DEF Adopt
    <2> HIDE DEF st
    <2>4. cr' \in [CR -> ObjectType] /\ w' \in WorkerType /\ faults' \in FaultsType
      BY <1>5, <2>1, <2>2, <2>3, PatchType DEF FaultsType
    <2> QED BY <1>1, <2>3, <2>4
  <1>14. ASSUME MarkCreating PROVE Goal
    <2> DEFINE st == [mem.st EXCEPT !.phase = "Creating"]
    <2>1. st \in StatusType
      BY <1>0 DEF StatusType, Phase
    <2>2. Goto("create") \in WorkerType
      BY <1>6 DEF PC
    <2>3. patchStatus(st, Goto("create"), Fail("Error"))
          /\ UNCHANGED <<cache, queue, pangolin, siteId>>
      BY <1>14 DEF MarkCreating
    <2> HIDE DEF st
    <2>4. cr' \in [CR -> ObjectType] /\ w' \in WorkerType /\ faults' \in FaultsType
      BY <1>5, <2>1, <2>2, <2>3, PatchType DEF FaultsType
    <2> QED BY <1>1, <2>3, <2>4
  <1>15. ASSUME createSiteResource PROVE Goal
    <2>1. CASE ~Resolvable(mem.spec) /\ w' = Fail("Error") /\ UNCHANGED <<pangolin, faults>>
      BY <1>1, <1>5, <1>15, <2>1 DEF createSiteResource
    <2>2. CASE /\ Resolvable(mem.spec)
               /\ resources' = resources \cup {CreatedResource(nextId)}
               /\ nextId' = nextId + 1 /\ UNCHANGED late
               /\ \/ /\ w' = [w EXCEPT !.pc = "record", !.rid = nextId, !.dom = SentDom]
                     /\ UNCHANGED faults
                  \/ Fault("apiLost") /\ w' = Fail("Error")
      <3>1. nextId \in Nat \ {0} /\ nextId + 1 \in Nat \ {0}
        BY DEF TypeOK
      <3>2. Remote
        BY <2>2, <3>1, CreatedType DEF Remote, TypeOK
      <3>3. SentDom \in Seq(Char)
        BY <1>0, <2>2, SentIsAsked DEF SpecType
      <3>4. [w EXCEPT !.pc = "record", !.rid = nextId, !.dom = SentDom] \in WorkerType
        BY <1>0, <3>1, <3>3 DEF WorkerType, PC
      <3> QED BY <1>1, <1>2, <1>5, <1>15, <2>2, <3>2, <3>4 DEF createSiteResource
    <2>3. CASE /\ Resolvable(mem.spec) /\ Fault("late")
               /\ late' = late \cup {CreatedResource(faults.n)}
               /\ w' = Fail("Error") /\ UNCHANGED <<resources, nextId>>
      <3>1. [CreatedResource(faults.n) EXCEPT !.id = 1] \in ResourceType
        BY <2>3, CreatedType
      <3>2. Remote
        BY <2>3, <3>1 DEF Remote, TypeOK
      <3> QED BY <1>1, <1>2, <1>5, <1>15, <2>3, <3>2 DEF createSiteResource
    <2>4. CASE Refused
      BY <1>1, <1>8, <1>15, <2>4 DEF createSiteResource
    <2> HIDE DEF Goal
    <2> QED BY <1>15, <2>1, <2>2, <2>3, <2>4 DEF createSiteResource
  <1>16. ASSUME RecordResource PROVE Goal
    <2> DEFINE st == [mem.st EXCEPT !.rid = w.rid, !.dom = w.dom, !.phase = "Creating"]
               ok == IF w.had THEN Goto("refetch") ELSE Ready(w)
    <2>1. st \in StatusType
      BY <1>0 DEF StatusType, Phase
    <2>2. Goto("refetch") \in WorkerType /\ Goto("rollback") \in WorkerType
      BY <1>6 DEF PC
    <2>3. ok \in WorkerType
      BY <1>9, <2>2
    <2>4. patchStatus(st, ok, Goto("rollback"))
          /\ UNCHANGED <<cache, queue, pangolin, siteId>>
      BY <1>16 DEF RecordResource
    <2> HIDE DEF st, ok
    <2>5. cr' \in [CR -> ObjectType] /\ w' \in WorkerType /\ faults' \in FaultsType
      BY <2>1, <2>2, <2>3, <2>4, PatchType DEF FaultsType
    <2> QED BY <1>1, <2>4, <2>5
  <1>17. ASSUME Rollback PROVE Goal
    BY <1>1, <1>2, <1>3, <1>5, <1>17 DEF Rollback
  <1>18. ASSUME Refetch PROVE Goal
    <2> DEFINE v == [w EXCEPT !.mem = cache[c0], !.pc = "update"]
    <2>1. v \in WorkerType
      BY <1>0 DEF TypeOK, WorkerType, PC
    <2>2. w' \in {v, Ready(v)}
      BY <1>18 DEF Refetch
    <2> HIDE DEF v
    <2>3. w' \in WorkerType
      BY <2>1, <2>2, ReadyType
    <2> QED BY <1>1, <1>2, <1>18, <2>3 DEF Refetch, Get
  <1>19. ASSUME updateSiteResource PROVE Goal
    <2>1. w' \in WorkerType /\ faults' \in FaultsType
      BY <1>1, <1>2, <1>5, <1>9, <1>19 DEF updateSiteResource
    <2>2. Remote
      <3>1. CASE UNCHANGED pangolin
        BY <1>1, <3>1
      <3>2. CASE /\ Resolvable(mem.spec) /\ UNCHANGED <<late, nextId>>
                 /\ resources' = {IF r.id = mem.st.rid THEN Configured(r) ELSE r :
                                  r \in resources}
        <4>1. \A r \in resources : r \in ResourceType /\ Configured(r) \in ResourceType
          BY <3>2, ConfiguredType DEF TypeOK
        <4>2. resources' \subseteq ResourceType
          BY <3>2, <4>1
        <4> QED BY <3>2, <4>2 DEF Remote, TypeOK
      <3> QED BY <1>19, <3>1, <3>2 DEF updateSiteResource
    <2> QED BY <1>1, <1>19, <2>1, <2>2 DEF updateSiteResource
  <1>20. ASSUME MarkReady PROVE Goal
    <2> DEFINE st == [mem.st EXCEPT !.phase = "Ready", !.obs = mem.gen,
                        !.cond = [reason |-> "Reconciled", gen |-> mem.gen]]
    <2>1. st \in StatusType
      BY <1>0 DEF StatusType, Phase, Reason
    <2>2. patchAndReturn(st) /\ Requeue /\ UNCHANGED <<cache, pangolin, siteId>>
      BY <1>20 DEF MarkReady
    <2> HIDE DEF st
    <2>3. cr' \in [CR -> ObjectType] /\ faults' \in FaultsType
      BY <2>1, <2>2, ReturnType DEF FaultsType
    <2> QED BY <1>1, <1>7, <2>2, <2>3
  <1>21. ASSUME ReportFailure PROVE Goal
    <2>1. FailureStatus \in StatusType
      BY <1>0 DEF FailureStatus, StatusType, Phase, Reason
    <2>2. patchAndReturn(FailureStatus) /\ (Requeue \/ Forget)
          /\ UNCHANGED <<cache, pangolin, siteId>>
      BY <1>21 DEF ReportFailure
    <2>3. cr' \in [CR -> ObjectType] /\ faults' \in FaultsType
      BY <2>1, <2>2, ReturnType DEF FaultsType
    <2> QED BY <1>1, <1>7, <2>2, <2>3
  <1>22. ASSUME Cleanup PROVE Goal
    <2>1. Goto("unfinalize") \in WorkerType
      BY <1>6 DEF PC
    <2> QED BY <1>1, <1>2, <1>3, <1>7, <1>22, <2>1 DEF Cleanup
  <1>23. ASSUME RemoveFinalizer PROVE Goal
    <2>1. [cr EXCEPT ![c0] = Gone(mem.gen)] \in [CR -> ObjectType]
      BY <1>0, GoneType DEF TypeOK
    <2> QED BY <1>1, <1>2, <1>7, <1>23, <2>1 DEF RemoveFinalizer
  <1> HIDE DEF Goal
  <1>24. Goal
    BY <1>10, <1>11, <1>12, <1>13, <1>14, <1>15, <1>16, <1>17, <1>18, <1>19, <1>20, <1>21,
       <1>22, <1>23 DEF WorkerStep
  <1> QED BY <1>24 DEF Goal, TypeOK, FaultsType, Remote

LEMMA TypeOKEnvironment ==
  ASSUME TypeOK,
         \/ \E c \in CR : CacheSync(c) \/ Reconcile(c)
         \/ \E r \in late : Land(r)
         \/ Environment
  PROVE  TypeOK'
  <1>1. \A k : Fault(k) => faults' \in [n : Nat, seen : SUBSET FaultKind]
    BY FaultType DEF TypeOK
  <1>2. ASSUME NEW c \in CR, CacheSync(c)
        PROVE  TypeOK'
    BY <1>2 DEF CacheSync, pangolin, TypeOK
  <1>3. ASSUME NEW c \in CR, Reconcile(c)
        PROVE  TypeOK'
    <2>1. cache[c] \in ObjectType /\ cache[c].del \in BOOLEAN /\ cache[c].fin \in BOOLEAN
      BY DEF TypeOK, ObjectType
    <2>2. \A pc \in PC : [Idle EXCEPT !.c = c, !.mem = cache[c], !.pc = pc] \in WorkerType
      BY <2>1, IdleType DEF WorkerType
    <2>3. w' \in WorkerType
      BY <1>3, <2>1, <2>2, IdleType DEF Reconcile, PC
    <2>4. faults' \in [n : Nat, seen : SUBSET FaultKind]
      BY <1>1, <1>3 DEF Reconcile, Get, TypeOK
    <2> QED BY <1>3, <2>3, <2>4 DEF Reconcile, pangolin, TypeOK
  <1>4. ASSUME NEW r \in late, Land(r)
        PROVE  TypeOK'
    <2>1. nextId \in Nat \ {0} /\ nextId + 1 \in Nat \ {0}
      BY DEF TypeOK
    <2>2. [r EXCEPT !.id = nextId] \in ResourceType
      BY <2>1 DEF TypeOK, ResourceType
    <2> QED BY <1>4, <2>1, <2>2 DEF Land, TypeOK
  <1>5. ASSUME NEW c \in CR, NEW s \in Specs[c], UserCreate(c, s)
        PROVE  TypeOK'
    <2>1. cr[c].gen + 1 \in Nat /\ s \in SpecType
      BY ConstantsAssumption DEF TypeOK, ObjectType
    <2>2. NewObject(cr[c].gen + 1, s) \in ObjectType
      BY <2>1, ZeroStatusType DEF NewObject, ObjectType
    <2>3. faults' \in [n : Nat, seen : SUBSET FaultKind]
      BY <1>5, ConstantsAssumption DEF UserCreate, Note, TypeOK
    <2> QED BY <1>5, <2>2, <2>3 DEF UserCreate, pangolin, TypeOK
  <1>6. ASSUME NEW c \in CR, NEW s \in Specs[c], UserEdit(c, s)
        PROVE  TypeOK'
    <2>1. cr[c] \in ObjectType /\ cr[c].gen + 1 \in Nat /\ s \in SpecType
      BY ConstantsAssumption DEF TypeOK, ObjectType
    <2>2. cr' \in [CR -> ObjectType]
      BY <1>6, <2>1 DEF UserEdit, TypeOK, ObjectType
    <2>3. faults' \in [n : Nat, seen : SUBSET FaultKind]
      BY <1>6, ConstantsAssumption DEF UserEdit, Note, TypeOK
    <2> QED BY <1>6, <2>2, <2>3 DEF UserEdit, pangolin, TypeOK
  <1>7. ASSUME NEW c \in CR, UserDelete(c)
        PROVE  TypeOK'
    <2>1. cr[c] \in ObjectType /\ cr[c].gen \in Nat /\ cr[c].gen + 1 \in Nat
      BY DEF TypeOK, ObjectType
    <2>2. Gone(cr[c].gen) \in ObjectType
      BY <2>1, GoneType
    <2>3. \A g \in Nat : [cr[c] EXCEPT !.del = TRUE, !.gen = g] \in ObjectType
      BY <2>1 DEF ObjectType
    <2>4. Deleted(cr[c]) \in ObjectType
      BY <2>1, <2>2, <2>3 DEF Deleted
    <2>5. cr' \in [CR -> ObjectType]
      BY <1>7, <2>4 DEF UserDelete, TypeOK
    <2> QED BY <1>7, <2>5 DEF UserDelete, pangolin, TypeOK
  <1>8. ASSUME NEW id, Drift(id)
        PROVE  TypeOK'
    BY <1>1, <1>8 DEF Drift, DeleteSiteResource, TypeOK
  <1>9. ASSUME NEW s \in Site, SiteReady(s) \/ SiteLost(s) \/ SiteReplaced(s)
        PROVE  TypeOK'
    <2>1. SiteId[s] \in Nat /\ Cardinality(Site) \in Nat
      BY ConstantsAssumption, FS_CardinalityType
    <2>2. siteId' \in [Site -> Nat]
      BY <1>9, <2>1 DEF SiteReady, SiteLost, SiteReplaced, TypeOK
    <2>3. faults' \in [n : Nat, seen : SUBSET FaultKind]
      BY <1>1, <1>9 DEF SiteReady, SiteLost, SiteReplaced, TypeOK
    <2> QED BY <1>9, <2>2, <2>3
        DEF SiteReady, SiteLost, SiteReplaced, pangolin, TypeOK
  <1>10. CASE Crash
    BY <1>1, <1>10, IdleType DEF Crash, pangolin, TypeOK
  <1> QED BY <1>2, <1>3, <1>4, <1>5, <1>6, <1>7, <1>8, <1>9, <1>10 DEF Environment

LEMMA TypeOKInit == Init => TypeOK
  <1> SUFFICES ASSUME Init PROVE TypeOK
    OBVIOUS
  <1>1. Gone(0) \in ObjectType
    BY GoneType
  <1>2. cr \in [CR -> ObjectType] /\ cache \in [CR -> ObjectType]
    BY <1>1 DEF Init
  <1> QED BY <1>2, IdleType, ConstantsAssumption DEF Init, TypeOK

LEMMA TypeOKNext == TypeOK /\ [Next]_vars => TypeOK'
  <1> SUFFICES ASSUME TypeOK, [Next]_vars PROVE TypeOK'
    OBVIOUS
  <1>1. CASE WorkerStep
    BY <1>1, TypeOKWorker
  <1>2. CASE UNCHANGED vars
    BY <1>2 DEF vars, TypeOK
  <1> QED BY <1>1, <1>2, TypeOKEnvironment DEF Next

\* Type correctness for every instance: no site resource of Pangolin ever gets the
\* identifier 0, so that 0 in status.siteResourceId means "none"; every reconcile ends
\* with a reason that FailureStatus knows; and every answer of ResolveDomain, a damaged
\* one too, names a domain of the list.
THEOREM TypeCorrect == Spec => []TypeOK
  BY TypeOKInit, TypeOKNext, PTL DEF Spec

-----------------------------------------------------------------------------
(* The invariant behind ImplementsLink. *)

\* An object that the reconciler may work for.
Held(o) == o.fin /\ ~o.del

\* Where the worker is between the finalizer's addition and the end of reconcile.
Working == PC \ {"idle", "finalize", "cleanup", "unfinalize"}

\* Only an object that exists has the finalizer, and only one with the finalizer is
\* marked as deleted or has a status.
ObjectsInv ==
  \A c \in CR : /\ cr[c].del => cr[c].fin
                /\ cr[c].fin => cr[c].exists
                /\ ~cr[c].fin => cr[c].st.rid = 0
                /\ cache[c].del => cache[c].fin
                /\ cache[c].fin => cache[c].exists

\* However late the cache is, an object that it shows with the finalizer and not
\* deleted has the finalizer, and one that it shows as deleted was not given the
\* finalizer anew: both would take a reconcile that saw a later version.
CachedInv ==
  \A c \in CR : /\ Held(cache[c]) => cr[c].fin
                /\ cache[c].del => ~Held(cr[c])

\* Cleanup goes on to remove the finalizer only when the site resource is gone, which
\* then does not come back, because identifiers are handed out once.
WorkerInv ==
  /\ w.pc = "finalize" =>
       mem.exists /\ ~mem.del /\ ~mem.fin /\ (cache[c0].del => cr[c0].fin)
  /\ w.pc \in {"cleanup", "unfinalize"} =>
       mem.exists /\ mem.del /\ ~Held(cr[c0]) /\ ~Held(cache[c0])
  /\ w.pc = "unfinalize" => mem.st.rid \notin live
  /\ w.pc \in Working => cr[c0].fin

\* Every identifier that anybody knows was handed out.
IdsInv ==
  /\ \A i \in live : i < nextId
  /\ \A c \in CR : cr[c].st.rid < nextId /\ cache[c].st.rid < nextId
  /\ mem.st.rid < nextId /\ w.rid < nextId

\* The creations under way are told apart by the failure that left them so.
LateInv == IsFiniteSet(late) /\ \A r \in late : r.id \in 0..(faults.n - 1)

LinkInv == TypeOK /\ ObjectsInv /\ CachedInv /\ WorkerInv /\ IdsInv /\ LateInv

-----------------------------------------------------------------------------
(* What a step of the worker does to the worker and to the object it has. *)

\* The identifiers the worker can have.
KnownRid(i) ==
  \/ i \in {0, mem.st.rid, w.rid, cr[c0].st.rid, cache[c0].st.rid}
  \/ w.pc = "list" /\ \E r \in findSiteResource : i = r.id

KnownSpec(s) ==
  s \in {mem.spec, cache[c0].spec, DecodedSpec(mem.spec, cr[c0].spec)}

\* Where the worker goes on with the siteId it read.
Sited == {"list", "adopt", "creating", "create", "record", "refetch", "update"}

KnownSid(v) ==
  v.pc \in Sited => \/ w.pc \in Sited /\ v.sid = w.sid
                    \/ v.sid = siteId[mem.spec.site] /\ v.sid # 0

\* v goes on with the same object, and with what the worker can have.
Ongoing(v) ==
  /\ v.pc \in Working /\ v.c = c0
  /\ KnownSpec(v.mem.spec) /\ KnownRid(v.mem.st.rid) /\ KnownRid(v.rid) /\ KnownSid(v)

\* The objects keep everything but the status of the worker's one, and the status
\* links what the worker can have.
StatusOnly ==
  \A c \in CR : /\ cr'[c].exists = cr[c].exists /\ cr'[c].del = cr[c].del
                /\ cr'[c].fin = cr[c].fin /\ cr'[c].gen = cr[c].gen
                /\ cr'[c].spec = cr[c].spec
                /\ c # c0 => cr'[c].st = cr[c].st
                /\ cr'[c].st.rid = cr[c].st.rid \/ (c = c0 /\ KnownRid(cr'[c].st.rid))

LEMMA PatchOngoing ==
  ASSUME TypeOK, NEW st \in StatusType, NEW ok \in WorkerType, NEW ko \in WorkerType,
         Ongoing(ok), Ongoing(ko), KnownRid(st.rid), patchStatus(st, ok, ko)
  PROVE  Ongoing(w') /\ StatusOnly
  <1> DEFINE new == [cr[c0] EXCEPT !.st = Merge(cr[c0].st, mem.st, st)]
  <1>1. c0 \in CR /\ cr[c0] \in ObjectType /\ cr \in [CR -> ObjectType]
    BY DEF TypeOK, WorkerType, c0
  <1>2. Merge(cr[c0].st, mem.st, st).rid \in {st.rid, cr[c0].st.rid}
    BY DEF Merge, Sent
  <1>3. /\ new.st = Merge(cr[c0].st, mem.st, st) /\ new.exists = cr[c0].exists
        /\ new.del = cr[c0].del /\ new.fin = cr[c0].fin /\ new.gen = cr[c0].gen
        /\ new.spec = cr[c0].spec
        /\ new \in [exists : BOOLEAN, del : BOOLEAN, fin : BOOLEAN, gen : Nat,
                    spec : SpecType, st : {Merge(cr[c0].st, mem.st, st)}]
    BY <1>1 DEF ObjectType
  <1>4. Decoded(new, st).st.rid \in {st.rid, cr[c0].st.rid}
    BY <1>2, <1>3 DEF Decoded, DecodedStatus, Kept
  <1>5. KnownRid(cr[c0].st.rid)
    BY DEF KnownRid
  <1>6. [ok EXCEPT !.mem = Decoded(new, st)].mem = Decoded(new, st)
        /\ [ko EXCEPT !.mem.st = st].mem.st = st
    BY DEF WorkerType, ObjectType
  <1>7. /\ [ok EXCEPT !.mem = Decoded(new, st)].pc = ok.pc
        /\ [ok EXCEPT !.mem = Decoded(new, st)].c = ok.c
        /\ [ok EXCEPT !.mem = Decoded(new, st)].rid = ok.rid
        /\ [ok EXCEPT !.mem = Decoded(new, st)].sid = ok.sid
        /\ [ko EXCEPT !.mem.st = st].pc = ko.pc
        /\ [ko EXCEPT !.mem.st = st].c = ko.c
        /\ [ko EXCEPT !.mem.st = st].rid = ko.rid
        /\ [ko EXCEPT !.mem.st = st].sid = ko.sid
        /\ [ko EXCEPT !.mem.st = st].mem.spec = ko.mem.spec
    BY DEF WorkerType, ObjectType
  <1>8. cr' = cr \/ cr' = [cr EXCEPT ![c0] = new]
    BY DEF patchStatus
  <1>9. \/ w' = [ok EXCEPT !.mem = Decoded(new, st)]
        \/ w' = [ko EXCEPT !.mem.st = st]
    BY DEF patchStatus
  <1> HIDE DEF new
  <1>10. Ongoing(w')
    <2>1. CASE w' = [ok EXCEPT !.mem = Decoded(new, st)]
      <3>1. KnownRid(w'.mem.st.rid)
        BY <1>4, <1>5, <1>6, <2>1 DEF KnownRid
      <3>2. Decoded(new, st).spec = DecodedSpec(mem.spec, cr[c0].spec)
        BY <1>3 DEF Decoded
      <3>3. KnownSpec(w'.mem.spec)
        BY <1>6, <2>1, <3>2 DEF KnownSpec
      <3>4. KnownSid(w')
        BY <1>7, <2>1 DEF Ongoing, KnownSid
      <3> QED BY <1>7, <2>1, <3>1, <3>3, <3>4 DEF Ongoing
    <2>2. CASE w' = [ko EXCEPT !.mem.st = st]
      <3>1. KnownSid(w')
        BY <1>7, <2>2 DEF Ongoing, KnownSid
      <3> QED BY <1>6, <1>7, <2>2, <3>1 DEF Ongoing
    <2> QED BY <1>9, <2>1, <2>2
  <1>11. StatusOnly
    <2>1. KnownRid(new.st.rid)
      BY <1>2, <1>3, <1>5 DEF KnownRid
    <2> QED BY <1>1, <1>3, <1>8, <2>1 DEF StatusOnly
  <1> QED BY <1>10, <1>11

LEMMA ReturnStatusOnly ==
  ASSUME TypeOK, NEW st \in StatusType, KnownRid(st.rid), patchAndReturn(st)
  PROVE  StatusOnly
  <1>1. c0 \in CR /\ cr[c0] \in ObjectType /\ cr \in [CR -> ObjectType]
    BY DEF TypeOK, WorkerType, c0
  <1>2. Merge(cr[c0].st, mem.st, st).rid \in {st.rid, cr[c0].st.rid}
    BY DEF Merge, Sent
  <1>3. CASE UNCHANGED cr
    BY <1>3 DEF StatusOnly
  <1>4. CASE cr' = [cr EXCEPT ![c0].st = Merge(@, mem.st, st)]
    BY <1>1, <1>2, <1>4 DEF StatusOnly, KnownRid, ObjectType
  <1> QED BY <1>3, <1>4 DEF patchAndReturn

\* A reconcile under way goes on with the object it has, or ends.
LEMMA OngoingStep ==
  ASSUME TypeOK, WorkerStep,
         ~AddFinalizer, ~Cleanup, ~RemoveFinalizer, ~createSiteResource
  PROVE  /\ w.pc \in Working
         /\ w' = Idle \/ Ongoing(w')
         /\ StatusOnly
  <1> DEFINE Goal == w.pc \in Working /\ (w' = Idle \/ Ongoing(w')) /\ StatusOnly
  <1>1. /\ w \in WorkerType /\ c0 \in CR /\ mem.st \in StatusType /\ w.rid \in Nat
        /\ w.dom \in Seq(Char)
    BY DEF TypeOK, WorkerType, ObjectType, c0, mem
  <1>2. KnownRid(mem.st.rid) /\ KnownRid(w.rid) /\ KnownRid(0) /\ KnownRid(cache[c0].st.rid)
        /\ KnownSpec(mem.spec) /\ KnownSpec(cache[c0].spec)
        /\ (w.pc = "list" => \A r \in findSiteResource : KnownRid(r.id))
    BY DEF KnownRid, KnownSpec
  <1>3. UNCHANGED cr => StatusOnly
    BY DEF StatusOnly
  <1>4. \A y \in Why : Fail(y) \in WorkerType /\ Ongoing(Fail(y))
    <2>1. \A y \in Why : Fail(y).pc = "fail" /\ Fail(y).c = c0 /\ Fail(y).mem = mem
                         /\ Fail(y).rid = 0
      BY IdleType DEF Fail, WorkerType, Idle
    <2> QED BY <1>2, <2>1, FailType DEF Ongoing, KnownSid, Sited, Working, PC, TypeOK
  <1>5. \A v \in WorkerType : Ongoing(v) => Ready(v) \in WorkerType /\ Ongoing(Ready(v))
    <2>1. \A v \in WorkerType : Ready(v).pc = "ready" /\ Ready(v).c = v.c
                                /\ Ready(v).mem = v.mem /\ Ready(v).rid = 0
      BY IdleType DEF Ready, WorkerType, Idle
    <2> QED BY <1>2, <2>1, ReadyType DEF Ongoing, KnownSid, Sited, Working, PC
  <1>6. \A pc \in Working : w.pc \in Sited => Goto(pc) \in WorkerType /\ Ongoing(Goto(pc))
    <2>1. \A pc \in Working : Goto(pc) \in WorkerType /\ Goto(pc).pc = pc /\ Goto(pc).c = c0
                              /\ Goto(pc).mem = mem /\ Goto(pc).rid = w.rid
                              /\ Goto(pc).sid = w.sid
      BY <1>1 DEF Goto, WorkerType, Working, c0, mem
    <2> QED BY <1>2, <2>1 DEF Ongoing, KnownSid
  <1>7. w.pc \in Working => Ongoing(w)
    BY <1>2 DEF Ongoing, KnownSid, c0, mem
  <1>8. Fail("Error") \in WorkerType /\ Ongoing(Fail("Error"))
        /\ Ongoing(Fail("BadRequest")) /\ Ongoing(Fail("Pending")) /\ Ongoing(Fail("Reset"))
    BY <1>4 DEF Why
  <1>9. Refused => Ongoing(w')
    BY <1>8 DEF Refused
  <1>10. ASSUME ResolveSite PROVE Goal
    <2>1. \A h : siteId[mem.spec.site] # 0 =>
            Ongoing([w EXCEPT !.pc = "list", !.sid = siteId[mem.spec.site], !.had = h])
      BY <1>1, <1>2 DEF Ongoing, KnownSid, Working, PC, WorkerType, c0, mem
    <2> QED BY <1>3, <1>8, <1>10, <2>1 DEF ResolveSite, At, Working, PC
  <1>11. ASSUME ensureExists PROVE Goal
    <2>0. w.pc = "list" /\ w.pc \in Sited
      BY <1>11 DEF ensureExists, At, Sited
    <2>1. \A r \in findSiteResource :
            Ongoing([w EXCEPT !.pc = "adopt", !.rid = r.id, !.dom = r.dom])
      <3> HIDE DEF findSiteResource
      <3> QED BY <1>1, <1>2, <2>0 DEF Ongoing, KnownSid, Working, PC, WorkerType, c0, mem
    <2>2. Ongoing(Goto("refetch")) /\ Ongoing(Goto("creating"))
      BY <1>6, <2>0 DEF Working, PC
    <2>3. \/ w' = Goto("refetch") \/ w' = Goto("creating") \/ Refused
          \/ \E r \in findSiteResource :
               w' = [w EXCEPT !.pc = "adopt", !.rid = r.id, !.dom = r.dom]
      BY <1>11 DEF ensureExists
    <2>4. w.pc \in Working /\ UNCHANGED cr
      BY <1>11 DEF ensureExists, At, Working, PC
    <2> QED BY <1>3, <1>9, <2>1, <2>2, <2>3, <2>4
  <1>12. ASSUME Adopt PROVE Goal
    <2> DEFINE st == [mem.st EXCEPT !.rid = w.rid, !.dom = w.dom, !.phase = "Creating"]
    <2>1. st \in StatusType /\ st.rid = w.rid
      BY <1>1 DEF StatusType, Phase
    <2>2. w.pc \in Sited
      BY <1>12 DEF Adopt, At, Sited
    <2>3. Goto("update") \in WorkerType /\ Ongoing(Goto("update"))
      BY <1>6, <2>2 DEF Working, PC
    <2>4. patchStatus(st, Goto("update"), Fail("Error")) /\ w.pc \in Working
      BY <1>12 DEF Adopt, At, Working, PC
    <2> HIDE DEF st
    <2> QED BY <1>2, <1>8, <2>1, <2>3, <2>4, PatchOngoing
  <1>13. ASSUME MarkCreating PROVE Goal
    <2> DEFINE st == [mem.st EXCEPT !.phase = "Creating"]
    <2>1. st \in StatusType /\ st.rid = mem.st.rid
      BY <1>1 DEF StatusType, Phase
    <2>2. w.pc \in Sited
      BY <1>13 DEF MarkCreating, At, Sited
    <2>3. Goto("create") \in WorkerType /\ Ongoing(Goto("create"))
      BY <1>6, <2>2 DEF Working, PC
    <2>4. patchStatus(st, Goto("create"), Fail("Error")) /\ w.pc \in Working
      BY <1>13 DEF MarkCreating, At, Working, PC
    <2> HIDE DEF st
    <2> QED BY <1>2, <1>8, <2>1, <2>3, <2>4, PatchOngoing
  <1>14. ASSUME RecordResource PROVE Goal
    <2> DEFINE st == [mem.st EXCEPT !.rid = w.rid, !.dom = w.dom, !.phase = "Creating"]
               ok == IF w.had THEN Goto("refetch") ELSE Ready(w)
    <2>1. st \in StatusType /\ st.rid = w.rid
      BY <1>1 DEF StatusType, Phase
    <2>2. w.pc \in Working /\ w.pc \in Sited
      BY <1>14 DEF RecordResource, At, Sited, Working, PC
    <2>3. /\ Goto("refetch") \in WorkerType /\ Ongoing(Goto("refetch"))
          /\ Goto("rollback") \in WorkerType /\ Ongoing(Goto("rollback"))
      BY <1>6, <2>2 DEF Working, PC
    <2>4. ok \in WorkerType /\ Ongoing(ok)
      BY <1>1, <1>5, <1>7, <2>2, <2>3
    <2>5. patchStatus(st, ok, Goto("rollback"))
      BY <1>14 DEF RecordResource
    <2> HIDE DEF st, ok
    <2> QED BY <1>2, <2>1, <2>2, <2>3, <2>4, <2>5, PatchOngoing
  <1>15. ASSUME Rollback PROVE Goal
    BY <1>3, <1>8, <1>15 DEF Rollback, At, Working, PC
  <1>16. ASSUME Refetch PROVE Goal
    <2> DEFINE v == [w EXCEPT !.mem = cache[c0], !.pc = "update"]
    <2>0. w.pc \in Sited
      BY <1>16 DEF Refetch, At, Sited
    <2>1. v \in WorkerType /\ Ongoing(v)
      BY <1>1, <1>2, <2>0 DEF TypeOK, WorkerType, Ongoing, KnownSid, Working, PC, c0
    <2>2. w.pc \in Working /\ UNCHANGED cr /\ (w' = v \/ w' = Ready(v))
      BY <1>16 DEF Refetch, At, Working, PC
    <2> HIDE DEF v
    <2> QED BY <1>3, <1>5, <2>1, <2>2
  <1>17. ASSUME updateSiteResource PROVE Goal
    <2>1. w.pc \in Working /\ UNCHANGED cr
      BY <1>17 DEF updateSiteResource, At, Working, PC
    <2>2. w' = Ready(w) \/ w' = Fail("Error") \/ w' = Fail("Reset")
      BY <1>17 DEF updateSiteResource
    <2>3. Ongoing(Ready(w))
      BY <1>1, <1>5, <1>7, <2>1
    <2> QED BY <1>3, <1>8, <2>1, <2>2, <2>3
  <1>18. ASSUME MarkReady PROVE Goal
    <2> DEFINE st == [mem.st EXCEPT !.phase = "Ready", !.obs = mem.gen,
                        !.cond = [reason |-> "Reconciled", gen |-> mem.gen]]
    <2>1. st \in StatusType /\ st.rid = mem.st.rid
      <3>1. mem.gen \in Nat
        BY <1>1 DEF WorkerType, ObjectType, mem
      <3> QED BY <1>1, <3>1 DEF StatusType, Phase, Reason
    <2>2. patchAndReturn(st) /\ w' = Idle /\ w.pc \in Working
      BY <1>18 DEF MarkReady, Requeue, At, Working, PC
    <2> HIDE DEF st
    <2> QED BY <1>2, <2>1, <2>2, ReturnStatusOnly
  <1>19. ASSUME ReportFailure PROVE Goal
    <2>1. FailureStatus \in StatusType /\ FailureStatus.rid \in {0, mem.st.rid}
      <3>1. mem.gen \in Nat
        BY <1>1 DEF WorkerType, ObjectType, mem
      <3> QED BY <1>1, <3>1 DEF FailureStatus, StatusType, Phase, Reason
    <2>2. patchAndReturn(FailureStatus) /\ w' = Idle /\ w.pc \in Working
      BY <1>19 DEF ReportFailure, Requeue, Forget, At, Working, PC
    <2> QED BY <1>2, <2>1, <2>2, ReturnStatusOnly
  <1> HIDE DEF Goal
  <1>20. Goal
    BY <1>10, <1>11, <1>12, <1>13, <1>14, <1>15, <1>16, <1>17, <1>18, <1>19
       DEF WorkerStep
  <1> QED BY <1>20 DEF Goal

-----------------------------------------------------------------------------
(* What a step does in Pangolin: site resources go, one is created, or a creation *)
(* is asked for or takes effect. *)

Shrinks == live' \subseteq live /\ UNCHANGED <<late, nextId>>

ResourceCreated ==
  /\ createSiteResource
  /\ live' = live \cup {nextId} /\ nextId' = nextId + 1 /\ UNCHANGED late

LateAsked ==
  /\ createSiteResource
  /\ Fault("late")
  /\ late' = late \cup {CreatedResource(faults.n)} /\ UNCHANGED <<live, nextId>>

Landed(r) ==
  /\ UNCHANGED <<cr, cache, w, faults>>
  /\ late' = late \ {r} /\ live' = live \cup {nextId} /\ nextId' = nextId + 1

LEMMA PangolinStep ==
  ASSUME TypeOK, [Next]_vars
  PROVE  Shrinks \/ ResourceCreated \/ LateAsked \/ \E r \in late : Landed(r)
  <1>1. UNCHANGED pangolin => Shrinks
    BY DEF pangolin, Shrinks, live
  <1>2. ASSUME NEW id, DeleteSiteResource(id)
        PROVE  Shrinks
    BY <1>2 DEF DeleteSiteResource, Shrinks, live
  <1>3. CASE WorkerStep
    <2>1. CASE AddFinalizer \/ ResolveSite \/ ensureExists \/ Adopt \/ MarkCreating
               \/ RecordResource \/ Refetch \/ MarkReady \/ ReportFailure
               \/ RemoveFinalizer
      BY <1>1, <2>1 DEF AddFinalizer, ResolveSite, ensureExists, Refused, Adopt,
         MarkCreating, RecordResource, Refetch, MarkReady, ReportFailure, RemoveFinalizer
    <2>2. CASE createSiteResource
      <3>1. CASE /\ resources' = resources \cup {CreatedResource(nextId)}
                 /\ nextId' = nextId + 1 /\ UNCHANGED late
        <4>1. CreatedResource(nextId).id = nextId
          BY DEF CreatedResource
        <4>2. live' = live \cup {nextId}
          BY <3>1, <4>1 DEF live
        <4> QED BY <2>2, <3>1, <4>2 DEF ResourceCreated
      <3>2. CASE /\ Fault("late") /\ late' = late \cup {CreatedResource(faults.n)}
                 /\ UNCHANGED <<resources, nextId>>
        BY <2>2, <3>2 DEF LateAsked, live
      <3>3. CASE UNCHANGED pangolin
        BY <1>1, <3>3
      <3> QED BY <2>2, <3>1, <3>2, <3>3 DEF createSiteResource, Refused, pangolin
    <2>3. CASE Rollback \/ Cleanup
      BY <1>1, <1>2, <2>3 DEF Rollback, Cleanup
    <2>4. CASE updateSiteResource
      <3>1. CASE UNCHANGED pangolin
        BY <1>1, <3>1
      <3>2. CASE /\ resources' = {IF r.id = mem.st.rid THEN Configured(r) ELSE r :
                                  r \in resources}
                 /\ UNCHANGED <<late, nextId>>
        <4>1. \A r \in ResourceType : Configured(r).id = r.id
          BY DEF Configured, ResourceType
        <4>2. live' = live
          BY <3>2, <4>1 DEF live, TypeOK
        <4> QED BY <3>2, <4>2 DEF Shrinks
      <3> QED BY <2>4, <3>1, <3>2 DEF updateSiteResource
    <2> QED BY <1>3, <2>1, <2>2, <2>3, <2>4 DEF WorkerStep
  <1>4. CASE Environment
    BY <1>1, <1>2, <1>4
       DEF Environment, UserCreate, UserEdit, UserDelete, Drift, SiteReady, SiteLost,
           SiteReplaced, Crash
  <1>5. CASE (\E c \in CR : CacheSync(c) \/ Reconcile(c)) \/ UNCHANGED vars
    BY <1>1, <1>5 DEF CacheSync, Reconcile, vars, pangolin
  <1>6. ASSUME NEW r \in late, Land(r)
        PROVE  Landed(r)
    <2>1. [r EXCEPT !.id = nextId].id = nextId
      BY DEF TypeOK, ResourceType
    <2>2. live' = live \cup {nextId}
      BY <1>6, <2>1 DEF Land, live
    <2> QED BY <1>6, <2>2 DEF Land, Landed
  <1> QED BY <1>3, <1>4, <1>5, <1>6 DEF Next

\* Pangolin hands out every identifier once.
LEMMA LiveIdsNext ==
  ASSUME TypeOK, IdsInv, [Next]_vars
  PROVE  /\ nextId' \in Nat /\ nextId <= nextId'
         /\ \A i \in live' : i < nextId'
         /\ \A i \in live' : i \in live \/ i = nextId
         /\ ResourceCreated => nextId' = nextId + 1
  <1>1. nextId \in Nat /\ \A i \in live : i \in Nat /\ i < nextId
    BY DEF TypeOK, IdsInv, live, ResourceType
  <1>2. \/ live' \subseteq live /\ nextId' = nextId
        \/ live' = live \cup {nextId} /\ nextId' = nextId + 1
    BY PangolinStep DEF Shrinks, ResourceCreated, LateAsked, Landed
  <1>3. ResourceCreated => nextId' = nextId + 1
    BY DEF ResourceCreated
  <1>4. CASE live' \subseteq live /\ nextId' = nextId
    BY <1>1, <1>3, <1>4
  <1>5. CASE live' = live \cup {nextId} /\ nextId' = nextId + 1
    BY <1>1, <1>3, <1>5
  <1> QED BY <1>2, <1>4, <1>5

LEMMA IdsInvNext ==
  ASSUME TypeOK, IdsInv, [Next]_vars
  PROVE  IdsInv'
  <1> DEFINE Old(i) == i < nextId \/ (ResourceCreated /\ i = nextId)
             Goal == /\ \A c \in CR : Old(cr'[c].st.rid) /\ Old(cache'[c].st.rid)
                     /\ Old(w'.mem.st.rid) /\ Old(w'.rid)
  <1>1. TypeOK' /\ c0 \in CR /\ w \in WorkerType /\ mem \in ObjectType
    BY TypeOKNext DEF TypeOK, WorkerType, c0, mem
  <1>2. Old(0)
    BY DEF TypeOK
  <1>3. \A i : KnownRid(i) => Old(i)
    <2>1. \A r \in findSiteResource : r.id < nextId
      BY DEF findSiteResource, Listed, IdsInv, live
    <2> HIDE DEF findSiteResource
    <2> QED BY <1>1, <1>2, <2>1 DEF KnownRid, IdsInv
  <1>4. \A n : Gone(n).st.rid = 0
    BY DEF Gone, ZeroStatus
  <1>5. Idle.mem.st.rid = 0 /\ Idle.rid = 0
    BY <1>4 DEF Idle
  <1>6. UNCHANGED cr => \A c \in CR : Old(cr'[c].st.rid)
    BY DEF IdsInv
  <1>7. UNCHANGED cache => \A c \in CR : Old(cache'[c].st.rid)
    BY DEF IdsInv
  <1>8. UNCHANGED w => Old(w'.mem.st.rid) /\ Old(w'.rid)
    BY DEF IdsInv, mem
  <1>9. w' = Idle => Old(w'.mem.st.rid) /\ Old(w'.rid)
    BY <1>2, <1>5
  <1>10. UNCHANGED <<cr, cache, w>> => Goal
    BY <1>6, <1>7, <1>8
  <1>11. /\ \A c \in CR : Old(cr[c].st.rid) /\ Old(cache[c].st.rid)
         /\ Old(mem.st.rid) /\ Old(w.rid)
    BY DEF IdsInv
  <1> HIDE DEF Old
  <1>12. ASSUME NEW c \in CR, CacheSync(c)
         PROVE  Goal
    <2>1. \A d \in CR : cache'[d] \in {cache[d], cr[d]}
      BY <1>12 DEF CacheSync, TypeOK
    <2> QED BY <1>6, <1>8, <1>11, <1>12, <2>1 DEF CacheSync
  <1>13. ASSUME NEW c \in CR, Reconcile(c)
         PROVE  Goal
    <2>1. w' = Idle \/ (w'.mem = cache[c] /\ w'.rid = 0)
      BY <1>13, <1>5, IdleType DEF Reconcile, WorkerType
    <2> QED BY <1>2, <1>6, <1>7, <1>9, <1>11, <1>13, <2>1 DEF Reconcile
  <1>14. ASSUME AddFinalizer PROVE Goal
    <2>1. WithFinalizer.st = mem.st
      BY <1>1 DEF WithFinalizer, ObjectType
    <2>2. \A c \in CR : Old(cr'[c].st.rid)
      <3>1. UNCHANGED cr \/ cr' = [cr EXCEPT ![c0] = WithFinalizer]
        BY <1>14 DEF AddFinalizer
      <3> QED BY <1>1, <1>6, <1>11, <2>1, <3>1 DEF TypeOK
    <2>3. Old(w'.mem.st.rid) /\ Old(w'.rid)
      <3>1. w' = Idle \/ w' = [w EXCEPT !.pc = "site", !.mem = WithFinalizer]
        BY <1>14 DEF AddFinalizer, Requeue
      <3>2. /\ [w EXCEPT !.pc = "site", !.mem = WithFinalizer].mem = WithFinalizer
            /\ [w EXCEPT !.pc = "site", !.mem = WithFinalizer].rid = w.rid
        BY <1>1 DEF WorkerType
      <3> QED BY <1>9, <1>11, <2>1, <3>1, <3>2
    <2> QED BY <1>7, <1>14, <2>2, <2>3 DEF AddFinalizer
  <1>15. ASSUME RemoveFinalizer PROVE Goal
    <2>1. \A c \in CR : Old(cr'[c].st.rid)
      <3>1. UNCHANGED cr \/ cr' = [cr EXCEPT ![c0] = Gone(mem.gen)]
        BY <1>15 DEF RemoveFinalizer
      <3> QED BY <1>1, <1>2, <1>4, <1>6, <1>11, <3>1 DEF TypeOK
    <2> QED BY <1>7, <1>9, <1>15, <2>1 DEF RemoveFinalizer, Requeue, Forget
  <1>16. ASSUME Cleanup PROVE Goal
    <2>1. Goto("unfinalize").mem = mem /\ Goto("unfinalize").rid = w.rid
      BY <1>1 DEF Goto, WorkerType, mem
    <2>2. w' = Idle \/ w' = Goto("unfinalize")
      BY <1>16 DEF Cleanup, Requeue
    <2>3. Old(w'.mem.st.rid) /\ Old(w'.rid)
      BY <1>9, <1>11, <2>1, <2>2
    <2> QED BY <1>6, <1>7, <1>16, <2>3 DEF Cleanup
  <1>17. ASSUME createSiteResource PROVE Goal
    <2>1. \A y \in Why : Fail(y).mem = mem /\ Fail(y).rid = 0
      BY <1>5, IdleType DEF Fail, WorkerType
    <2>2. CASE \E y \in Why : w' = Fail(y)
      BY <1>2, <1>6, <1>7, <1>11, <1>17, <2>1, <2>2 DEF createSiteResource
    <2>3. CASE /\ w' = [w EXCEPT !.pc = "record", !.rid = nextId, !.dom = SentDom]
               /\ nextId' = nextId + 1
      <3>1. w'.mem = mem /\ w'.rid = nextId
        BY <1>1, <2>3 DEF WorkerType, mem
      <3>2. ResourceCreated
        <4>1. nextId' # nextId /\ cr' = cr
          BY <1>17, <2>3 DEF createSiteResource, TypeOK
        <4>2. late' = late
          BY <1>17, <4>1 DEF createSiteResource, Refused, pangolin
        <4>3. ~Shrinks /\ ~LateAsked /\ \A r \in late : ~(Landed(r) /\ w' = w)
          <5>1. Idle.pc = "idle" /\ w.pc = "create" /\ w'.pc = "record"
            BY <1>1, <1>17, <2>3 DEF Idle, createSiteResource, At, WorkerType
          <5> QED BY <4>1, <5>1 DEF Shrinks, LateAsked
        <4> QED BY <4>3, PangolinStep DEF Landed
      <3>3. Old(nextId)
        BY <3>2 DEF Old
      <3> QED BY <1>6, <1>7, <1>11, <1>17, <3>1, <3>3 DEF createSiteResource
    <2>4. (\E y \in Why : w' = Fail(y))
          \/ (w' = [w EXCEPT !.pc = "record", !.rid = nextId, !.dom = SentDom]
              /\ nextId' = nextId + 1)
      BY <1>17 DEF createSiteResource, Refused, Why
    <2> QED BY <2>2, <2>3, <2>4
  <1>18. ASSUME WorkerStep, ~AddFinalizer, ~RemoveFinalizer, ~Cleanup, ~createSiteResource
         PROVE  Goal
    <2>1. (w' = Idle \/ Ongoing(w')) /\ StatusOnly
      BY <1>18, OngoingStep
    <2>2. Old(w'.mem.st.rid) /\ Old(w'.rid)
      BY <1>3, <1>9, <2>1 DEF Ongoing
    <2>3. \A c \in CR : Old(cr'[c].st.rid)
      BY <1>3, <1>11, <2>1 DEF StatusOnly
    <2>4. UNCHANGED cache
      BY <1>18 DEF WorkerStep, ResolveSite, ensureExists, Adopt, MarkCreating,
         RecordResource, Rollback, Refetch, updateSiteResource, MarkReady, ReportFailure
    <2> QED BY <1>7, <2>2, <2>3, <2>4
  <1>19. ASSUME Environment PROVE Goal
    <2>1. ASSUME NEW c \in CR, NEW s \in Specs[c], UserCreate(c, s) \/ UserEdit(c, s)
          PROVE  Goal
      <3>1. NewObject(cr[c].gen + 1, s).st.rid = 0
        BY DEF NewObject, ZeroStatus
      <3>2. \A d \in CR : cr'[d].st.rid \in {0, cr[d].st.rid}
        <4>1. CASE UserCreate(c, s)
          BY <3>1, <4>1 DEF UserCreate, TypeOK
        <4>2. CASE UserEdit(c, s)
          BY <4>2 DEF UserEdit, TypeOK, ObjectType
        <4> QED BY <2>1, <4>1, <4>2
      <3>3. \A d \in CR : Old(cr'[d].st.rid)
        BY <1>2, <1>11, <3>2
      <3> QED BY <1>7, <1>8, <2>1, <3>3 DEF UserCreate, UserEdit
    <2>2. ASSUME NEW c \in CR, UserDelete(c)
          PROVE  Goal
      <3>1. Deleted(cr[c]).st.rid \in {0, cr[c].st.rid}
        BY <1>4 DEF Deleted, TypeOK, ObjectType
      <3>2. \A d \in CR : cr'[d].st.rid \in {0, cr[d].st.rid}
        BY <2>2, <3>1 DEF UserDelete, TypeOK
      <3>3. \A d \in CR : Old(cr'[d].st.rid)
        BY <1>2, <1>11, <3>2
      <3> QED BY <1>7, <1>8, <2>2, <3>3 DEF UserDelete
    <2>3. ASSUME Crash PROVE Goal
      BY <1>6, <1>9, <1>11, <2>3 DEF Crash
    <2> QED BY <1>10, <1>19, <2>1, <2>2, <2>3
        DEF Environment, Drift, SiteReady, SiteLost, SiteReplaced
  <1>20. ASSUME (\E r \in late : Land(r)) \/ UNCHANGED vars PROVE Goal
    BY <1>10, <1>20 DEF Land, vars
  <1>21. Goal
    <2> HIDE DEF Goal
    <2> QED BY <1>12, <1>13, <1>14, <1>15, <1>16, <1>17, <1>18, <1>19, <1>20
            DEF Next, WorkerStep
  <1>22. \A i \in Nat : Old(i) => i < nextId'
    BY LiveIdsNext DEF Old, TypeOK
  <1>23. /\ \A c \in CR : cr'[c].st.rid \in Nat /\ cache'[c].st.rid \in Nat
         /\ w'.mem.st.rid \in Nat /\ w'.rid \in Nat
    BY <1>1 DEF TypeOK, ObjectType, WorkerType, StatusType
  <1>24. \A i \in live' : i < nextId'
    BY LiveIdsNext
  <1> QED BY <1>21, <1>22, <1>23, <1>24 DEF IdsInv, mem

\* A creation that times out is a failure of its own.
LEMMA LateInvNext ==
  ASSUME TypeOK, LateInv, [Next]_vars
  PROVE  LateInv' /\ (LateAsked => CreatedResource(faults.n) \notin late)
  <1>1. /\ faults.n \in Nat /\ IsFiniteSet(late)
        /\ \A r \in late : r.id \in Nat /\ r.id < faults.n
    BY DEF TypeOK, LateInv
  <1>2. faults'.n \in {faults.n, faults.n + 1} /\ \A k : Fault(k) => faults'.n = faults.n + 1
    <2>1. \A k : Fault(k) => faults'.n = faults.n + 1
      BY DEF Fault
    <2>2. \A S : Note(S) => faults'.n = faults.n
      BY DEF Note, TypeOK
    <2>3. ASSUME NEW k, Fault(k) PROVE faults'.n = faults.n + 1
      BY <2>1, <2>3
    <2>4. faults'.n = faults.n \/ faults'.n = faults.n + 1
      <3>1. CASE WorkerStep
        BY <2>1, <3>1 DEF WorkerStep, AddFinalizer, ResolveSite, ensureExists, Refused,
           Adopt, MarkCreating, patchStatus, createSiteResource, RecordResource, Rollback,
           Refetch, Get, updateSiteResource, MarkReady, ReportFailure, patchAndReturn,
           Cleanup, RemoveFinalizer
      <3>2. CASE Environment
        BY <2>1, <2>2, <3>2 DEF Environment, UserCreate, UserEdit, UserDelete, Drift,
           SiteReady, SiteLost, SiteReplaced, Crash
      <3>3. CASE \/ \E c \in CR : CacheSync(c) \/ Reconcile(c)
                 \/ \E r \in late : Land(r)
                 \/ UNCHANGED vars
        BY <2>1, <3>3 DEF CacheSync, Reconcile, Get, Land, vars
      <3> QED BY <3>1, <3>2, <3>3 DEF Next
    <2> QED BY <2>1, <2>4
  <1>3. CreatedResource(faults.n).id = faults.n
    BY DEF CreatedResource
  <1>4. LateAsked => CreatedResource(faults.n) \notin late
    BY <1>1, <1>3
  <1>5. CASE UNCHANGED late
    BY <1>1, <1>2, <1>4, <1>5 DEF LateInv
  <1>6. CASE LateAsked
    <2>1. late' = late \cup {CreatedResource(faults.n)} /\ faults'.n = faults.n + 1
      BY <1>2, <1>6 DEF LateAsked
    <2>2. IsFiniteSet(late')
      BY <1>1, <2>1, FS_AddElement
    <2>3. \A r \in late' : r.id \in 0..(faults'.n - 1)
      BY <1>1, <1>3, <2>1
    <2> QED BY <1>4, <2>2, <2>3 DEF LateInv
  <1>7. ASSUME NEW r \in late, Landed(r)
        PROVE  LateInv'
    <2>1. late' = late \ {r} /\ faults' = faults
      BY <1>7 DEF Landed
    <2>2. IsFiniteSet(late')
      BY <1>1, <2>1, FS_RemoveElement
    <2> QED BY <1>1, <2>1, <2>2 DEF LateInv
  <1> QED BY <1>4, <1>5, <1>6, <1>7, PangolinStep DEF Shrinks, ResourceCreated

-----------------------------------------------------------------------------
(* The finalizer of an object that the worker has, seen through the cache. *)

\* What the invariants say of the objects is kept by a step that adds and removes
\* no finalizer, marks no object and leaves the cache alone.
LEMMA FlagsKept ==
  ASSUME LinkInv, w.pc \in Working, StatusOnly, cache' = cache,
         w' = Idle \/ (w'.pc \in Working /\ w'.c = c0)
  PROVE  ObjectsInv' /\ CachedInv' /\ WorkerInv'
  <1>1. cr[c0].fin /\ c0 \in CR
    BY DEF LinkInv, WorkerInv, TypeOK, WorkerType, c0
  <1>2. ObjectsInv'
    BY <1>1 DEF StatusOnly, LinkInv, ObjectsInv
  <1>3. CachedInv'
    BY DEF StatusOnly, LinkInv, CachedInv, Held
  <1>4. WorkerInv'
    <2>1. CASE w' = Idle
      <3>1. w'.pc = "idle"
        BY <2>1 DEF Idle
      <3> QED BY <3>1 DEF WorkerInv, Working
    <2>2. CASE w'.pc \in Working /\ w'.c = c0
      BY <1>1, <2>2 DEF WorkerInv, Working, StatusOnly, c0
    <2> QED BY <2>1, <2>2
  <1> QED BY <1>2, <1>3, <1>4

\* A site resource that is gone does not come back.
LEMMA GoneStays ==
  ASSUME LinkInv, [Next]_vars, mem.st.rid \notin live
  PROVE  mem.st.rid \notin live'
  <1>1. mem.st.rid \in Nat /\ nextId \in Nat /\ mem.st.rid < nextId
    BY DEF LinkInv, TypeOK, WorkerType, ObjectType, StatusType, IdsInv, mem
  <1>2. \A i \in live' : i \in live \/ i = nextId
    BY LiveIdsNext DEF LinkInv
  <1> QED BY <1>1, <1>2

LEMMA FlagsNext ==
  ASSUME LinkInv, [Next]_vars
  PROVE  ObjectsInv' /\ CachedInv' /\ WorkerInv'
  <1> DEFINE Goal == ObjectsInv' /\ CachedInv' /\ WorkerInv'
  <1>1. /\ TypeOK /\ ObjectsInv /\ CachedInv /\ WorkerInv
        /\ mem.st.rid \notin live => mem.st.rid \notin live'
    BY GoneStays DEF LinkInv
  <1>2. c0 \in CR /\ w \in WorkerType /\ mem \in ObjectType
    BY <1>1 DEF TypeOK, WorkerType, c0, mem
  <1>3. Idle.pc = "idle" /\ "idle" \notin Working
    BY DEF Idle, Working
  <1>4. ~Gone(mem.gen).fin /\ ~Gone(mem.gen).del /\ Gone(mem.gen).st.rid = 0
    BY DEF Gone, ZeroStatus
  <1>5. ASSUME w' = Idle
        PROVE  WorkerInv'
    BY <1>3, <1>5 DEF WorkerInv
  <1>6. ASSUME UNCHANGED <<cr, cache, w>>
        PROVE  Goal
    BY <1>1, <1>6 DEF ObjectsInv, CachedInv, WorkerInv, c0, mem
  <1>7. ASSUME NEW c \in CR, CacheSync(c)
        PROVE  Goal
    <2>1. cache' = [cache EXCEPT ![c] = cr[c]] /\ UNCHANGED <<cr, w>>
      BY <1>7 DEF CacheSync
    <2>2. \A d \in CR : cache'[d] = IF d = c THEN cr[c] ELSE cache[d]
      BY <1>1, <2>1 DEF TypeOK
    <2>3. ObjectsInv' /\ CachedInv'
      BY <1>1, <2>1, <2>2 DEF ObjectsInv, CachedInv, Held
    <2>4. WorkerInv'
      BY <1>1, <1>2, <2>1, <2>2 DEF WorkerInv, ObjectsInv, c0, mem
    <2> QED BY <2>3, <2>4
  <1>8. ASSUME NEW c \in CR, Reconcile(c)
        PROVE  Goal
    <2>1. UNCHANGED <<cr, cache>>
      BY <1>8 DEF Reconcile
    <2>2. ObjectsInv' /\ CachedInv'
      BY <1>1, <2>1 DEF ObjectsInv, CachedInv
    <2>3. CASE cache[c].exists
      <3> DEFINE pc == IF cache[c].del THEN "cleanup"
                       ELSE IF cache[c].fin THEN "site" ELSE "finalize"
      <3>1. w'.c = c /\ w'.mem = cache[c] /\ w'.pc = pc
        BY <1>8, <2>3, IdleType DEF Reconcile, WorkerType
      <3>2. ASSUME cache[c].del PROVE WorkerInv'
        BY <1>1, <2>1, <2>3, <3>1, <3>2 DEF WorkerInv, CachedInv, Held, Working, c0, mem
      <3>3. ASSUME ~cache[c].del /\ cache[c].fin PROVE WorkerInv'
        BY <1>1, <2>1, <2>3, <3>1, <3>3 DEF WorkerInv, CachedInv, Held, Working, c0, mem
      <3>4. ASSUME ~cache[c].del /\ ~cache[c].fin PROVE WorkerInv'
        BY <1>1, <2>1, <2>3, <3>1, <3>4 DEF WorkerInv, Working, c0, mem
      <3>5. WorkerInv'
        BY <3>2, <3>3, <3>4
      <3> QED BY <2>2, <3>5
    <2>4. CASE ~cache[c].exists
      BY <1>5, <1>8, <2>2, <2>4 DEF Reconcile
    <2> QED BY <2>3, <2>4
  <1>9. ASSUME AddFinalizer
        PROVE  Goal
    <2>1. w.pc = "finalize" /\ mem.exists /\ ~mem.del /\ ~mem.fin
          /\ (cache[c0].del => cr[c0].fin) /\ UNCHANGED cache
      BY <1>1, <1>9 DEF AddFinalizer, At, WorkerInv
    <2>2. CASE cr' = cr /\ w' = Idle
      BY <1>1, <1>5, <2>1, <2>2 DEF ObjectsInv, CachedInv
    <2>3. CASE cr' = [cr EXCEPT ![c0] = WithFinalizer] /\ cr[c0] = mem
      <3>1. WithFinalizer.fin /\ ~WithFinalizer.del /\ WithFinalizer.exists
        BY <1>2, <2>1 DEF WithFinalizer, ObjectType
      <3>2. \A c \in CR : cr'[c] = IF c = c0 THEN WithFinalizer ELSE cr[c]
        BY <1>1, <1>2, <2>3 DEF TypeOK
      <3>3. ~cr[c0].fin /\ ~cache[c0].del
        BY <2>1, <2>3
      <3>4. ObjectsInv' /\ CachedInv'
        BY <1>1, <2>1, <3>1, <3>2, <3>3 DEF ObjectsInv, CachedInv, Held
      <3>5. CASE w' = Idle
        BY <1>5, <3>4, <3>5
      <3>6. CASE w' = [w EXCEPT !.pc = "site", !.mem = WithFinalizer]
        <4>1. w'.pc = "site" /\ w'.c = c0
          BY <1>2, <3>6 DEF WorkerType, c0
        <4> QED BY <1>2, <3>1, <3>2, <3>4, <4>1 DEF WorkerInv, c0
      <3> QED BY <1>9, <3>5, <3>6 DEF AddFinalizer, Requeue
    <2> QED BY <1>9, <2>2, <2>3 DEF AddFinalizer, Requeue, Unmodified
  <1>10. ASSUME Cleanup
         PROVE  Goal
    <2>1. w.pc = "cleanup" /\ UNCHANGED <<cr, cache>>
          /\ (w' = Idle \/ w' = Goto("unfinalize"))
      BY <1>10 DEF Cleanup, At, Requeue
    <2>2. ObjectsInv' /\ CachedInv'
      BY <1>1, <2>1 DEF ObjectsInv, CachedInv
    <2>3. ASSUME w' = Goto("unfinalize")
          PROVE  WorkerInv'
      <3>1. w'.pc = "unfinalize" /\ w'.c = w.c /\ w'.mem = w.mem
        BY <1>2, <2>3 DEF Goto, WorkerType
      <3>2. mem.st.rid \notin live'
        <4>1. CASE mem.st.rid = 0 /\ UNCHANGED pangolin
          BY <1>1, <4>1 DEF pangolin, live, TypeOK, ResourceType
        <4>2. CASE DeleteSiteResource(mem.st.rid)
          BY <4>2 DEF DeleteSiteResource, live
        <4> QED BY <1>3, <1>10, <3>1, <4>1, <4>2 DEF Cleanup, Requeue
      <3> QED BY <1>1, <2>1, <3>1, <3>2 DEF WorkerInv, Working, c0, mem
    <2> QED BY <1>5, <2>1, <2>2, <2>3
  <1>11. ASSUME RemoveFinalizer
         PROVE  Goal
    <2>1. w.pc = "unfinalize" /\ UNCHANGED cache /\ w' = Idle
      BY <1>11 DEF RemoveFinalizer, At, Requeue, Forget
    <2>2. ~Held(cache[c0])
      BY <1>1, <2>1 DEF WorkerInv
    <2>3. CASE cr' = cr
      BY <1>1, <1>5, <2>1, <2>3 DEF ObjectsInv, CachedInv
    <2>4. CASE cr' = [cr EXCEPT ![c0] = Gone(mem.gen)]
      <3>1. \A c \in CR : cr'[c] = IF c = c0 THEN Gone(mem.gen) ELSE cr[c]
        BY <1>1, <1>2, <2>4 DEF TypeOK
      <3>2. ObjectsInv' /\ CachedInv'
        BY <1>1, <1>4, <2>1, <2>2, <3>1 DEF ObjectsInv, CachedInv, Held
      <3> QED BY <1>5, <2>1, <3>2
    <2> QED BY <1>11, <2>3, <2>4 DEF RemoveFinalizer
  <1>12. ASSUME createSiteResource
         PROVE  Goal
    <2>1. w.pc = "create" /\ UNCHANGED <<cr, cache>>
      BY <1>12 DEF createSiteResource, At
    <2>2. w'.pc \in Working /\ w'.c = c0
      <3>1. \A y \in Why : Fail(y).pc = "fail" /\ Fail(y).c = c0
        BY IdleType DEF Fail, WorkerType
      <3>2. (\E y \in Why : w' = Fail(y)) \/ (w'.pc = "record" /\ w'.c = c0)
        BY <1>2, <1>12 DEF createSiteResource, Refused, Why, WorkerType, c0
      <3> QED BY <3>1, <3>2 DEF Working, PC
    <2> QED BY <2>1, <2>2, FlagsKept DEF StatusOnly, Working, PC
  <1>13. ASSUME WorkerStep, ~AddFinalizer, ~RemoveFinalizer, ~Cleanup, ~createSiteResource
         PROVE  Goal
    <2>1. w.pc \in Working /\ (w' = Idle \/ Ongoing(w')) /\ StatusOnly
      BY <1>1, <1>13, OngoingStep
    <2>2. UNCHANGED cache
      BY <1>13 DEF WorkerStep, ResolveSite, ensureExists, Adopt, MarkCreating,
         RecordResource, Rollback, Refetch, updateSiteResource, MarkReady, ReportFailure
    <2> QED BY <2>1, <2>2, FlagsKept DEF Ongoing
  <1>14. ASSUME NEW c \in CR, NEW s \in Specs[c], UserCreate(c, s)
         PROVE  Goal
    <2> DEFINE new == NewObject(cr[c].gen + 1, s)
    <2>1. ~new.fin /\ ~new.del /\ new.st.rid = 0 /\ ~cr[c].fin /\ UNCHANGED <<cache, w>>
      BY <1>1, <1>14 DEF NewObject, ZeroStatus, UserCreate, ObjectsInv
    <2>2. \A d \in CR : cr'[d] = IF d = c THEN new ELSE cr[d]
      BY <1>1, <1>14 DEF UserCreate, TypeOK
    <2> HIDE DEF new
    <2>3. ObjectsInv' /\ CachedInv'
      BY <1>1, <2>1, <2>2 DEF ObjectsInv, CachedInv, Held
    <2>4. WorkerInv'
      BY <1>1, <1>2, <2>1, <2>2 DEF WorkerInv, Held, c0, mem
    <2> QED BY <2>3, <2>4
  <1>15. ASSUME NEW c \in CR, NEW s \in Specs[c], UserEdit(c, s)
         PROVE  Goal
    <2>1. /\ \A d \in CR : cr'[d].fin = cr[d].fin /\ cr'[d].del = cr[d].del
                           /\ cr'[d].exists = cr[d].exists /\ cr'[d].st = cr[d].st
          /\ UNCHANGED <<cache, w>>
      BY <1>1, <1>15 DEF UserEdit, TypeOK, ObjectType
    <2>2. ObjectsInv' /\ CachedInv'
      BY <1>1, <2>1 DEF ObjectsInv, CachedInv, Held
    <2>3. WorkerInv'
      BY <1>1, <1>2, <2>1 DEF WorkerInv, Held, c0, mem
    <2> QED BY <2>2, <2>3
  <1>16. ASSUME NEW c \in CR, UserDelete(c)
         PROVE  Goal
    <2> DEFINE new == Deleted(cr[c])
    <2>1. /\ new.fin = cr[c].fin /\ new.del = cr[c].fin /\ (new.fin => new.exists)
          /\ ~cr[c].fin => new.st.rid = 0
          /\ UNCHANGED <<cache, w>>
      BY <1>1, <1>16 DEF Deleted, Gone, ZeroStatus, UserDelete, TypeOK, ObjectType
    <2>2. \A d \in CR : cr'[d] = IF d = c THEN new ELSE cr[d]
      BY <1>1, <1>16 DEF UserDelete, TypeOK
    <2> HIDE DEF new
    <2>3. ObjectsInv' /\ CachedInv'
      BY <1>1, <2>1, <2>2 DEF ObjectsInv, CachedInv, Held
    <2>4. WorkerInv'
      BY <1>1, <1>2, <2>1, <2>2 DEF WorkerInv, Held, c0, mem
    <2> QED BY <2>3, <2>4
  <1>17. ASSUME Crash
         PROVE  Goal
    <2>1. UNCHANGED cr /\ cache' = cr /\ w' = Idle
      BY <1>17 DEF Crash
    <2>2. ObjectsInv' /\ CachedInv'
      BY <1>1, <2>1 DEF ObjectsInv, CachedInv, Held
    <2> QED BY <1>5, <2>1, <2>2
  <1>18. ASSUME Environment
         PROVE  Goal
    <2> HIDE DEF Goal
    <2> QED BY <1>6, <1>14, <1>15, <1>16, <1>17, <1>18
            DEF Environment, Drift, SiteReady, SiteLost, SiteReplaced
  <1>19. ASSUME (\E r \in late : Land(r)) \/ UNCHANGED vars
         PROVE  Goal
    BY <1>6, <1>19 DEF Land, vars
  <1>20. Goal
    <2> HIDE DEF Goal
    <2> QED BY <1>7, <1>8, <1>9, <1>10, <1>11, <1>12, <1>13, <1>18, <1>19
            DEF Next, WorkerStep
  <1> QED BY <1>20

LEMMA LinkInvInit == Init => LinkInv
  <1> SUFFICES ASSUME Init PROVE LinkInv
    OBVIOUS
  <1>1. TypeOK
    BY TypeOKInit
  <1>2. ~Gone(0).fin /\ ~Gone(0).del /\ Gone(0).st.rid = 0
    BY DEF Gone, ZeroStatus
  <1>3. /\ \A c \in CR : cr[c] = Gone(0) /\ cache[c] = Gone(0)
        /\ w = Idle /\ Idle.pc = "idle" /\ mem = Gone(0) /\ w.rid = 0
    BY DEF Init, Idle, mem
  <1>4. ObjectsInv /\ CachedInv
    BY <1>2, <1>3 DEF ObjectsInv, CachedInv, Held
  <1>5. WorkerInv
    BY <1>3 DEF WorkerInv, Working
  <1>6. nextId = FirstId /\ late = {} /\ \A i \in live : i < FirstId
    BY ConstantsAssumption DEF Init, live
  <1>7. IdsInv /\ LateInv
    BY <1>2, <1>3, <1>6, ConstantsAssumption, FS_EmptySet DEF IdsInv, LateInv
  <1> QED BY <1>1, <1>4, <1>5, <1>7 DEF LinkInv

LEMMA LinkInvNext == LinkInv /\ [Next]_vars => LinkInv'
  <1> SUFFICES ASSUME LinkInv, [Next]_vars PROVE LinkInv'
    OBVIOUS
  <1>1. TypeOK' /\ IdsInv'
    BY TypeOKNext, IdsInvNext DEF LinkInv
  <1>2. LateInv'
    BY LateInvNext DEF LinkInv
  <1> QED BY <1>1, <1>2, FlagsNext DEF LinkInv

LEMMA LinkInvariant == Spec => []LinkInv
  BY LinkInvInit, LinkInvNext, PTL DEF Spec

-----------------------------------------------------------------------------
(* Every step is a step of Link or leaves what Link sees alone. *)

LEMMA LinkInit == Init => L!Init
  <1> SUFFICES ASSUME Init PROVE L!Init
    OBVIOUS
  <1>1. \A c \in CR : ~cr[c].exists /\ cr[c].st.rid = 0
    BY DEF Init, Gone, ZeroStatus
  <1>2. FirstId \in Nat /\ FirstId > 0 /\ nextId = FirstId /\ Cardinality(late) = 0
    BY ConstantsAssumption, FS_EmptySet DEF Init
  <1>3. \A i \in live : i \in 1..(FirstId - 1)
    <2>1. \A r \in resources : r.id \in Nat \ {0} /\ r.id < FirstId
      BY ConstantsAssumption DEF Init, ResourceType
    <2> QED BY <1>2, <2>1 DEF live
  <1> QED BY <1>1, <1>2, <1>3 DEF L!Init

\* Phase and link are functions of the objects.
LEMMA PhaseLinkKept ==
  ASSUME \A c \in CR : cr'[c].exists = cr[c].exists /\ cr'[c].del = cr[c].del
                       /\ cr'[c].fin = cr[c].fin /\ cr'[c].st.rid = cr[c].st.rid,
         Shrinks
  PROVE  L!Lose
  BY DEF L!Lose, Shrinks

LEMMA Provisioned ==
  ASSUME LinkInv, [Next]_vars, UNCHANGED cr, ResourceCreated \/ LateAsked
  PROVE  L!Provision \/ L!Ask
  <1>1. w.pc = "create" /\ c0 \in CR /\ cr[c0].exists /\ cr[c0].fin
    BY DEF LinkInv, TypeOK, WorkerType, ObjectsInv, WorkerInv, Working, PC, c0,
           ResourceCreated, LateAsked, createSiteResource, At
  <1>2. L!Holding # {}
    BY <1>1 DEF L!Holding
  <1>3. CASE ResourceCreated
    BY <1>2, <1>3 DEF ResourceCreated, L!Provision, L!Create
  <1>4. CASE LateAsked
    <2>1. /\ IsFiniteSet(late) /\ CreatedResource(faults.n) \notin late
          /\ late' = late \cup {CreatedResource(faults.n)}
      BY <1>4, LateInvNext DEF LinkInv, LateInv, LateAsked
    <2>2. Cardinality(late') = Cardinality(late) + 1
      BY <2>1, FS_AddElement
    <2> QED BY <1>2, <1>4, <2>2 DEF LateAsked, L!Ask
  <1> QED BY <1>3, <1>4

\* A creation that was asked for takes effect.
LEMMA TakesEffect ==
  ASSUME LinkInv, UNCHANGED cr, NEW r \in late, Landed(r)
  PROVE  L!Land
  <1>1. IsFiniteSet(late)
    BY DEF LinkInv, LateInv
  <1>2. Cardinality(late \ {r}) = Cardinality(late) - 1
    BY <1>1, FS_RemoveElement
  <1>3. Cardinality(late) \in Nat /\ Cardinality(late \ {r}) \in Nat
    BY <1>1, FS_RemoveElement, FS_CardinalityType
  <1>4. Cardinality(late) > 0 /\ Cardinality(late') = Cardinality(late) - 1
    BY <1>2, <1>3 DEF Landed
  <1> QED BY <1>4 DEF Landed, L!Land, L!Create

LEMMA LinkNext == LinkInv /\ [Next]_vars => [L!Next]_(L!vars)
  <1> SUFFICES ASSUME LinkInv, [Next]_vars PROVE [L!Next]_(L!vars)
    OBVIOUS
  <1>1. /\ TypeOK /\ TypeOK' /\ ObjectsInv /\ WorkerInv /\ IdsInv'
        /\ \A c \in CR : cr[c].fin => cr[c].exists
    BY TypeOKNext, IdsInvNext DEF LinkInv, ObjectsInv
  <1>2. c0 \in CR /\ w \in WorkerType /\ mem \in ObjectType /\ nextId \in Nat
    BY <1>1 DEF TypeOK, WorkerType, c0, mem
  <1>3. ASSUME UNCHANGED cr
        PROVE  [L!Next]_(L!vars)
    <2>1. L!Lose \/ L!Provision \/ L!Ask \/ L!Land
      BY <1>1, <1>3, PangolinStep, PhaseLinkKept, Provisioned, TakesEffect
    <2> QED BY <2>1 DEF L!Next
  <1>4. UNCHANGED pangolin =>
          Shrinks /\ UNCHANGED <<live, nextId, Cardinality(late)>>
    BY DEF pangolin, Shrinks, live
  <1>5. ASSUME NEW c \in CR, NEW o, UNCHANGED pangolin, cr' = [cr EXCEPT ![c] = o]
        PROVE  /\ \A d \in CR : cr'[d] = IF d = c THEN o ELSE cr[d]
               /\ UNCHANGED <<live, nextId, Cardinality(late)>>
    BY <1>1, <1>4, <1>5 DEF TypeOK
  <1>6. ASSUME NEW c \in CR, NEW o, UNCHANGED pangolin, cr' = [cr EXCEPT ![c] = o],
               ~cr[c].exists, o.exists, ~o.del, ~o.fin, o.st.rid = cr[c].st.rid
        PROVE  L!Appear(c)
    <2>1. \A d \in CR : cr'[d] = IF d = c THEN o ELSE cr[d]
      BY <1>5, <1>6
    <2>2. UNCHANGED <<live, nextId, Cardinality(late)>>
      BY <1>5, <1>6
    <2>3. L!Move(c, "absent", "free")
      <3>1. cr'[c] = o /\ \A d \in CR : d # c => cr'[d] = cr[d]
        BY <2>1
      <3> QED BY <1>6, <3>1 DEF L!Move
    <2>4. UNCHANGED [d \in CR |-> cr[d].st.rid]
      BY <1>6, <2>1
    <2> QED BY <2>2, <2>3, <2>4 DEF L!Appear
  <1>7. ASSUME NEW c \in CR, NEW o, UNCHANGED pangolin, cr' = [cr EXCEPT ![c] = o],
               cr[c].exists, ~cr[c].del, ~cr[c].fin, ~o.exists, o.st.rid = cr[c].st.rid
        PROVE  L!Vanish(c)
    <2>1. \A d \in CR : cr'[d] = IF d = c THEN o ELSE cr[d]
      BY <1>5, <1>7
    <2>2. UNCHANGED <<live, nextId, Cardinality(late)>>
      BY <1>5, <1>7
    <2>3. L!Move(c, "free", "absent")
      BY <1>7, <2>1 DEF L!Move
    <2>4. UNCHANGED [d \in CR |-> cr[d].st.rid]
      BY <1>7, <2>1
    <2> QED BY <2>2, <2>3, <2>4 DEF L!Vanish
  <1>8. ASSUME NEW c \in CR, NEW o, UNCHANGED pangolin, cr' = [cr EXCEPT ![c] = o],
               cr[c].exists, ~cr[c].del, ~cr[c].fin,
               o.exists, ~o.del, o.fin, o.st.rid = cr[c].st.rid
        PROVE  L!Hold(c)
    <2>1. \A d \in CR : cr'[d] = IF d = c THEN o ELSE cr[d]
      BY <1>5, <1>8
    <2>2. UNCHANGED <<live, nextId, Cardinality(late)>>
      BY <1>5, <1>8
    <2>3. L!Move(c, "free", "held")
      BY <1>8, <2>1 DEF L!Move
    <2>4. UNCHANGED [d \in CR |-> cr[d].st.rid]
      BY <1>8, <2>1
    <2> QED BY <2>2, <2>3, <2>4 DEF L!Hold
  <1>9. ASSUME NEW c \in CR, NEW o, UNCHANGED pangolin, cr' = [cr EXCEPT ![c] = o],
               cr[c].exists, ~cr[c].del, cr[c].fin,
               o.exists, o.del, o.st.rid = cr[c].st.rid
        PROVE  L!Doom(c)
    <2>1. \A d \in CR : cr'[d] = IF d = c THEN o ELSE cr[d]
      BY <1>5, <1>9
    <2>2. UNCHANGED <<live, nextId, Cardinality(late)>>
      BY <1>5, <1>9
    <2>3. L!Move(c, "held", "doomed")
      BY <1>9, <2>1 DEF L!Move
    <2>4. UNCHANGED [d \in CR |-> cr[d].st.rid]
      BY <1>9, <2>1
    <2> QED BY <2>2, <2>3, <2>4 DEF L!Doom
  <1>10. ASSUME AddFinalizer
         PROVE  [L!Next]_(L!vars)
    <2>1. CASE UNCHANGED cr
      BY <1>3, <2>1
    <2>2. CASE cr[c0] = mem /\ cr' = [cr EXCEPT ![c0] = WithFinalizer]
      <3>1. /\ WithFinalizer.fin /\ ~WithFinalizer.del /\ WithFinalizer.exists
            /\ WithFinalizer.st = mem.st
            /\ mem.exists /\ ~mem.del /\ ~mem.fin
        BY <1>1, <1>2, <1>10 DEF WithFinalizer, ObjectType, AddFinalizer, At, WorkerInv
      <3>2. /\ cr[c0].exists /\ ~cr[c0].del /\ ~cr[c0].fin
            /\ WithFinalizer.st.rid = cr[c0].st.rid /\ UNCHANGED pangolin
        BY <1>10, <2>2, <3>1 DEF AddFinalizer
      <3>3. PICK c \in CR : c = c0
        BY <1>2
      <3>4. L!Hold(c)
        BY <1>8, <2>2, <3>1, <3>2, <3>3
      <3> QED BY <3>4 DEF L!Next
    <2> QED BY <1>10, <2>1, <2>2 DEF AddFinalizer, Unmodified
  <1>11. ASSUME RemoveFinalizer
         PROVE  [L!Next]_(L!vars)
    <2>1. CASE UNCHANGED cr
      BY <1>3, <2>1
    <2>2. CASE cr[c0] = mem /\ cr' = [cr EXCEPT ![c0] = Gone(mem.gen)]
      <3>1. mem.exists /\ mem.del /\ mem.st.rid \notin live
        BY <1>1, <1>11 DEF RemoveFinalizer, At, WorkerInv
      <3>2. ~Gone(mem.gen).exists /\ Gone(mem.gen).st.rid = 0
        BY DEF Gone, ZeroStatus
      <3>3. PICK c \in CR : c = c0
        BY <1>2
      <3>4. /\ \A d \in CR : cr'[d] = IF d = c THEN Gone(mem.gen) ELSE cr[d]
            /\ UNCHANGED <<live, nextId, Cardinality(late)>>
        BY <1>5, <1>11, <2>2, <3>3 DEF RemoveFinalizer
      <3>5. L!Move(c, "doomed", "absent")
        BY <2>2, <3>1, <3>2, <3>3, <3>4 DEF L!Move
      <3>6. [d \in CR |-> cr'[d].st.rid] = [[d \in CR |-> cr[d].st.rid] EXCEPT ![c] = 0]
        BY <3>2, <3>4
      <3>7. cr[c].st.rid \notin live
        BY <2>2, <3>1, <3>3
      <3>8. L!Release(c)
        BY <3>4, <3>5, <3>6, <3>7 DEF L!Release
      <3> QED BY <3>8 DEF L!Next
    <2> QED BY <1>11, <2>1, <2>2 DEF RemoveFinalizer, Unmodified
  <1>12. ASSUME WorkerStep, ~AddFinalizer, ~RemoveFinalizer, ~Cleanup, ~createSiteResource
         PROVE  [L!Next]_(L!vars)
    <2>1. w.pc \in Working /\ StatusOnly
      BY <1>1, <1>12, OngoingStep
    <2>2. UNCHANGED cr \/ UNCHANGED pangolin
      BY <1>12 DEF WorkerStep, ResolveSite, ensureExists, Adopt, MarkCreating,
         RecordResource, Rollback, Refetch, updateSiteResource, MarkReady, ReportFailure
    <2>3. CASE UNCHANGED cr
      BY <1>3, <2>3
    <2>4. CASE UNCHANGED pangolin
      <3>1. PICK c \in CR : c = c0
        BY <1>2
      <3>2. PICK id \in Nat : id = cr'[c].st.rid
        BY <1>1 DEF TypeOK, ObjectType, StatusType
      <3>3. id \in 0..(nextId - 1)
        BY <1>1, <1>2, <2>4, <3>2 DEF IdsInv, pangolin
      <3>4. c \in L!Holding
        BY <1>1, <2>1, <3>1 DEF WorkerInv, L!Holding
      <3>5. UNCHANGED [d \in CR |-> IF ~cr[d].exists THEN "absent"
                                    ELSE IF cr[d].del THEN "doomed"
                                    ELSE IF cr[d].fin THEN "held" ELSE "free"]
        BY <2>1 DEF StatusOnly
      <3>6. [d \in CR |-> cr'[d].st.rid] = [[d \in CR |-> cr[d].st.rid] EXCEPT ![c] = id]
        BY <2>1, <3>1, <3>2 DEF StatusOnly
      <3>7. UNCHANGED <<live, nextId, Cardinality(late)>>
        BY <1>4, <2>4
      <3>8. L!LinkTo(c, id)
        BY <1>2, <3>3, <3>4, <3>5, <3>6, <3>7 DEF L!LinkTo
      <3> QED BY <3>3, <3>8 DEF L!Next
    <2> QED BY <2>2, <2>3, <2>4
  <1>13. ASSUME NEW c \in CR, NEW s \in Specs[c], UserCreate(c, s)
         PROVE  [L!Next]_(L!vars)
    <2> DEFINE new == NewObject(cr[c].gen + 1, s)
    <2>1. new.exists /\ ~new.fin /\ ~new.del /\ new.st.rid = 0
      BY DEF NewObject, ZeroStatus
    <2>2. /\ ~cr[c].exists /\ cr[c].st.rid = 0
          /\ cr' = [cr EXCEPT ![c] = new] /\ UNCHANGED pangolin
      BY <1>1, <1>13 DEF UserCreate, ObjectsInv
    <2> HIDE DEF new
    <2>3. L!Appear(c)
      BY <1>6, <2>1, <2>2
    <2> QED BY <2>3 DEF L!Next
  <1>14. ASSUME NEW c \in CR, NEW s \in Specs[c], UserEdit(c, s)
         PROVE  [L!Next]_(L!vars)
    <2>1. \A d \in CR : cr'[d].exists = cr[d].exists /\ cr'[d].fin = cr[d].fin
                        /\ cr'[d].del = cr[d].del /\ cr'[d].st.rid = cr[d].st.rid
      BY <1>1, <1>14 DEF UserEdit, TypeOK, ObjectType
    <2>2. Shrinks
      BY <1>4, <1>14 DEF UserEdit
    <2>3. L!Lose
      BY <2>1, <2>2, PhaseLinkKept
    <2> QED BY <2>3 DEF L!Next
  <1>15. ASSUME NEW c \in CR, UserDelete(c)
         PROVE  [L!Next]_(L!vars)
    <2> DEFINE new == Deleted(cr[c])
    <2>1. /\ cr[c].exists /\ ~cr[c].del
          /\ cr' = [cr EXCEPT ![c] = new] /\ UNCHANGED pangolin
      BY <1>15 DEF UserDelete
    <2>2. CASE cr[c].fin
      <3>1. new.exists /\ new.del /\ new.st.rid = cr[c].st.rid
        BY <1>1, <2>1, <2>2 DEF Deleted, TypeOK, ObjectType
      <3> HIDE DEF new
      <3>2. L!Doom(c)
        BY <1>9, <2>1, <2>2, <3>1
      <3> QED BY <3>2 DEF L!Next
    <2>3. CASE ~cr[c].fin
      <3>1. ~new.exists /\ new.st.rid = cr[c].st.rid
        BY <1>1, <2>3 DEF Deleted, Gone, ZeroStatus, ObjectsInv
      <3> HIDE DEF new
      <3>2. L!Vanish(c)
        BY <1>7, <2>1, <2>3, <3>1
      <3> QED BY <3>2 DEF L!Next
    <2> QED BY <2>2, <2>3
  <1>16. ASSUME createSiteResource \/ Cleanup
         PROVE  [L!Next]_(L!vars)
    BY <1>3, <1>16 DEF createSiteResource, Cleanup
  <1>17. ASSUME Environment
         PROVE  [L!Next]_(L!vars)
    BY <1>3, <1>13, <1>14, <1>15, <1>17 
       DEF Environment, Drift, SiteReady, SiteLost, SiteReplaced, Crash
  <1>18. ASSUME \/ \E c \in CR : CacheSync(c) \/ Reconcile(c)
                \/ \E r \in late : Land(r)
                \/ UNCHANGED vars
         PROVE  [L!Next]_(L!vars)
    BY <1>3, <1>18 DEF CacheSync, Reconcile, Land, vars
  <1> QED BY <1>10, <1>11, <1>12, <1>16, <1>17, <1>18 DEF Next

\* The reconciler keeps the promise of Link, for any number of objects, failures and
\* creations that take effect late: createSiteResource runs only for an object that
\* holds the finalizer, status.siteResourceId links what Pangolin handed out, and
\* RemoveFinalizer lets the object go only when the site resource it links is gone.
THEOREM LinkImplemented == Spec => ImplementsLink
  BY LinkInit, LinkNext, LinkInvariant, PTL DEF Spec, ImplementsLink, L!Spec
=============================================================================
