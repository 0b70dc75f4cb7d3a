--------------------------- MODULE NewtSiteProofs ---------------------------
(***************************************************************************)
(* NewtSite keeps its types and implements Link, it creates no site twice, *)
(* and a site that it created and reports as Ready has its credentials in  *)
(* the Secret: proofs for every value of the constants.                    *)
(***************************************************************************)
EXTENDS NewtSite, TLAPS

-----------------------------------------------------------------------------
(* Types. *)

LEMMA GoneType == \A n \in Nat : Gone(n) \in ObjectType
  <1>1. (CHOOSE s \in Specs : TRUE) \in SpecType
    BY ConstantsAssumption
  <1> QED BY <1>1 DEF Gone, ObjectType, ZeroStatus, StatusType, Phase, Reason

LEMMA IdleType == Idle \in WorkerType
  BY GoneType DEF Idle, WorkerType, PC, Why

LEMMA FailType ==
  ASSUME w \in WorkerType, NEW why \in Why
  PROVE  Fail(why) \in WorkerType
  BY IdleType DEF Fail, WorkerType, PC, mem

LEMMA GotoType ==
  ASSUME w \in WorkerType, NEW pc \in PC
  PROVE  Goto(pc) \in WorkerType
  BY DEF Goto, WorkerType

LEMMA DeployingType ==
  ASSUME NEW v \in WorkerType
  PROVE  Deploying(v) \in WorkerType
  BY DEF Deploying, WorkerType, PC

LEMMA FaultType ==
  ASSUME faults \in [n : Nat, seen : SUBSET FaultKind], NEW k, Fault(k)
  PROVE  faults' \in [n : Nat, seen : SUBSET FaultKind]
  BY ConstantsAssumption DEF Fault

LEMMA MergeType ==
  ASSUME NEW s \in StatusType, NEW b \in StatusType, NEW a \in StatusType
  PROVE  Merge(s, b, a) \in StatusType
  BY DEF Merge, Sent, StatusType

LEMMA DecodedType ==
  ASSUME NEW server \in ObjectType, NEW st \in StatusType
  PROVE  Decoded(server, st) \in ObjectType
  <1> DEFINE to == [server.st EXCEPT !.phase = Kept(st.phase, "", @),
                                     !.cond = Kept(st.cond, ZeroStatus.cond, @),
                                     !.sid = Kept(st.sid, 0, @),
                                     !.online = Kept(st.online, FALSE, @),
                                     !.obs = Kept(st.obs, 0, @)]
  <1>1. server.st \in StatusType
    BY DEF ObjectType
  <1>2. to \in StatusType
    BY <1>1 DEF Kept, StatusType
  <1>3. Decoded(server, st) = [server EXCEPT !.st = to]
    BY <1>1 DEF Decoded, ObjectType, StatusType
  <1> HIDE DEF to
  <1> QED BY <1>2, <1>3 DEF ObjectType

LEMMA PatchType ==
  ASSUME TypeOK, NEW st \in StatusType, NEW ok \in WorkerType, NEW ko \in WorkerType,
         patchStatus(st, ok, ko)
  PROVE  /\ ns' \in ObjectType
         /\ w' \in WorkerType
         /\ faults' \in [n : Nat, seen : SUBSET FaultKind]
  <1> DEFINE new == [ns EXCEPT !.st = Merge(ns.st, mem.st, st)]
  <1>1. mem.st \in StatusType /\ ns.st \in StatusType /\ ns \in ObjectType
    BY DEF TypeOK, WorkerType, ObjectType, mem
  <1>2. new \in ObjectType
    BY <1>1, MergeType DEF ObjectType
  <1>3. Decoded(new, st) \in ObjectType
    BY <1>2, DecodedType
  <1>4. [ok EXCEPT !.mem = Decoded(new, st)] \in WorkerType
        /\ [ko EXCEPT !.mem.st = st] \in WorkerType
    BY <1>3 DEF WorkerType, ObjectType
  <1>5. faults' \in [n : Nat, seen : SUBSET FaultKind]
    BY FaultType DEF patchStatus, TypeOK
  <1> HIDE DEF new
  <1>6. ns' \in {ns, new}
        /\ w' \in {[ok EXCEPT !.mem = Decoded(new, st)], [ko EXCEPT !.mem.st = st]}
    BY DEF patchStatus, new
  <1> QED BY <1>1, <1>2, <1>4, <1>5, <1>6

LEMMA ReturnType ==
  ASSUME TypeOK, NEW st \in StatusType, patchAndReturn(st)
  PROVE  /\ ns' \in ObjectType
         /\ faults' \in [n : Nat, seen : SUBSET FaultKind]
  <1>1. mem.st \in StatusType /\ ns.st \in StatusType /\ ns \in ObjectType
    BY DEF TypeOK, WorkerType, ObjectType, mem
  <1>2. Merge(ns.st, mem.st, st) \in StatusType
    BY <1>1, MergeType
  <1>3. ns' \in ObjectType
    BY <1>1, <1>2 DEF patchAndReturn, ObjectType
  <1> QED BY <1>3, FaultType DEF patchAndReturn, TypeOK

LEMMA TypeOKWorker == ASSUME TypeOK, WorkerStep PROVE TypeOK'
  <1> DEFINE FaultsType == [n : Nat, seen : SUBSET FaultKind]
             Kept3 == cache' \in ObjectType /\ queued' \in BOOLEAN
                      /\ faults' \in FaultsType
             Owned == /\ secret' \in [cred : Nat, uid : Nat]
                      /\ dep' \in [image : Image \cup {NoImage}, uid : Nat, pods : BOOLEAN]
             Remote == sites' \subseteq SiteType /\ nextId' \in Nat \ {0}
             Goal == ns' \in ObjectType /\ w' \in WorkerType /\ Kept3 /\ Owned /\ Remote
  <1>0. /\ w \in WorkerType /\ mem \in ObjectType /\ mem.st \in StatusType /\ mem.gen \in Nat
        /\ mem.uid \in Nat /\ mem.spec \in SpecType /\ w.sid \in Nat /\ w.online \in BOOLEAN
    BY DEF TypeOK, WorkerType, ObjectType, mem
  <1>1. /\ UNCHANGED pangolin => Remote
        /\ UNCHANGED owned => Owned
        /\ UNCHANGED faults => faults' \in FaultsType
        /\ UNCHANGED ns => ns' \in ObjectType
        /\ UNCHANGED cache => cache' \in ObjectType
    BY DEF TypeOK, pangolin, owned
  <1>2. \A k : Fault(k) => faults' \in FaultsType
    BY FaultType DEF TypeOK
  <1>3. \A id : DeleteSite(id) => Remote
    BY DEF DeleteSite, TypeOK
  <1>4. \A y \in Why : Fail(y) \in WorkerType
    BY <1>0, FailType
  <1>5. /\ Fail("Error") \in WorkerType /\ Fail("BadRequest") \in WorkerType
        /\ Fail("Reset") \in WorkerType
    BY <1>4 DEF Why
  <1>6. \A pc \in PC : Goto(pc) \in WorkerType
    BY <1>0, GotoType
  <1>7. Requeue \/ Forget => w' \in WorkerType /\ queued' \in BOOLEAN
    BY IdleType DEF Requeue, Forget, TypeOK
  <1>8. UNCHANGED queued => queued' \in BOOLEAN
    BY DEF TypeOK
  <1>9. Refused => w' \in WorkerType /\ faults' \in FaultsType /\ Remote
    BY <1>1, <1>2, <1>5 DEF Refused
  <1>10. Deploying(w) \in WorkerType
    BY <1>0, DeployingType
  <1> HIDE DEF FaultsType, Owned, Remote
  <1>11. ASSUME AddFinalizer PROVE Goal
    <2>1. [mem EXCEPT !.fin = TRUE] \in ObjectType
          /\ [w EXCEPT !.pc = "start", !.mem.fin = TRUE] \in WorkerType
      BY <1>0 DEF ObjectType, WorkerType, PC, mem
    <2> QED BY <1>1, <1>2, <1>7, <1>8, <1>11, <2>1 DEF AddFinalizer
  <1>12. ASSUME Start PROVE Goal
    <2>1. w' \in WorkerType
      BY <1>6, <1>12 DEF Start, PC
    <2> QED BY <1>1, <1>8, <1>12, <2>1 DEF Start
  <1>13. ASSUME findOrCreate PROVE Goal
    <2>1. \A s \in findSite : [w EXCEPT !.pc = "adopt", !.sid = s.id] \in WorkerType
      BY <1>0 DEF findSite, TypeOK, SiteType, WorkerType, PC
    <2>2. Goto("creating") \in WorkerType
      BY <1>6 DEF PC
    <2> QED BY <1>1, <1>8, <1>9, <1>13, <2>1, <2>2 DEF findOrCreate
  <1>14. ASSUME Adopt PROVE Goal
    <2> DEFINE st == [mem.st EXCEPT !.sid = w.sid, !.phase = "Creating"]
    <2>1. st \in StatusType
      BY <1>0 DEF StatusType, Phase
    <2>2. Goto("reget") \in WorkerType
      BY <1>6 DEF PC
    <2>3. patchStatus(st, Goto("reget"), Fail("Error"))
          /\ UNCHANGED <<cache, queued, pangolin, owned>>
      BY <1>14 DEF Adopt
    <2> HIDE DEF st
    <2>4. ns' \in ObjectType /\ w' \in WorkerType /\ faults' \in FaultsType
      BY <1>5, <2>1, <2>2, <2>3, PatchType DEF FaultsType
    <2> QED BY <1>1, <1>8, <2>3, <2>4
  <1>15. ASSUME MarkCreating PROVE Goal
    <2> DEFINE st == [mem.st EXCEPT !.phase = "Creating"]
    <2>1. st \in StatusType
      BY <1>0 DEF StatusType, Phase
    <2>2. Goto("create") \in WorkerType
      BY <1>6 DEF PC
    <2>3. patchStatus(st, Goto("create"), Fail("Error"))
          /\ UNCHANGED <<cache, queued, pangolin, owned>>
      BY <1>15 DEF MarkCreating
    <2> HIDE DEF st
    <2>4. ns' \in ObjectType /\ w' \in WorkerType /\ faults' \in FaultsType
      BY <1>5, <2>1, <2>2, <2>3, PatchType DEF FaultsType
    <2> QED BY <1>1, <1>8, <2>3, <2>4
  <1>16. ASSUME createSite PROVE Goal
    <2> DEFINE new == CreatedSite
               pc == IF mem.spec.local THEN "record" ELSE "secret"
    <2>1. new \in SiteType /\ sites \subseteq SiteType /\ nextId + 1 \in Nat \ {0}
      BY <1>0 DEF TypeOK, SiteType, SpecType, CreatedSite
    <2>2. [w EXCEPT !.sid = nextId, !.pc = pc] \in WorkerType
      BY <1>0 DEF TypeOK, WorkerType, PC
    <2> HIDE DEF new, pc
    <2>3. \/ sites' = sites \cup {new} /\ nextId' = nextId + 1
          \/ Refused
      BY <1>16 DEF createSite, new
    <2>4. Remote
      BY <1>9, <2>1, <2>3 DEF Remote
    <2>5. w' \in WorkerType /\ faults' \in FaultsType
      BY <1>1, <1>2, <1>5, <1>9, <1>16, <2>2 DEF createSite, pc
    <2> QED BY <1>1, <1>8, <1>16, <2>4, <2>5 DEF createSite
  <1>17. ASSUME CreateSecret PROVE Goal
    <2>1. [cred |-> w.sid, uid |-> IF secret = NoSecret THEN mem.uid ELSE secret.uid]
          \in [cred : Nat, uid : Nat]
      BY <1>0 DEF TypeOK
    <2>2. Owned
      BY <1>17, <2>1 DEF CreateSecret, TypeOK, Owned
    <2>3. Goto("record") \in WorkerType
      BY <1>6 DEF PC
    <2>4. w' \in WorkerType /\ faults' \in FaultsType
      BY <1>1, <1>2, <1>5, <1>17, <2>3 DEF CreateSecret
    <2> QED BY <1>1, <1>8, <1>17, <2>2, <2>4 DEF CreateSecret
  <1>18. ASSUME RecordSite PROVE Goal
    <2> DEFINE st == [mem.st EXCEPT !.sid = w.sid]
    <2>1. st \in StatusType
      BY <1>0 DEF StatusType
    <2>2. Goto("reget") \in WorkerType /\ Goto("rollback") \in WorkerType
      BY <1>6 DEF PC
    <2>3. patchStatus(st, Goto("reget"), Goto("rollback"))
          /\ UNCHANGED <<cache, queued, pangolin, owned>>
      BY <1>18 DEF RecordSite
    <2> HIDE DEF st
    <2>4. ns' \in ObjectType /\ w' \in WorkerType /\ faults' \in FaultsType
      BY <2>1, <2>2, <2>3, PatchType DEF FaultsType
    <2> QED BY <1>1, <1>8, <2>3, <2>4
  <1>19. ASSUME Rollback PROVE Goal
    BY <1>1, <1>2, <1>3, <1>5, <1>8, <1>19 DEF Rollback
  <1>20. ASSUME Reget PROVE Goal
    <2>1. Deploying([w EXCEPT !.mem = cache]) \in WorkerType
      <3>1. [w EXCEPT !.mem = cache] \in WorkerType
        BY <1>0 DEF TypeOK, WorkerType
      <3> QED BY <3>1, DeployingType
    <2> QED BY <1>1, <1>2, <1>8, <1>20, <2>1 DEF Reget, Get
  <1>21. ASSUME GetSite PROVE Goal
    <2>1. Goto("rename") \in WorkerType
      BY <1>6 DEF PC
    <2> QED BY <1>1, <1>2, <1>5, <1>8, <1>10, <1>21, <2>1 DEF GetSite
  <1>22. ASSUME UpdateSite PROVE Goal
    <2>1. Remote
      <3>1. \A s \in SiteType : [s EXCEPT !.name = mem.spec.name] \in SiteType
        BY <1>0 DEF SiteType, SpecType
      <3>2. sites' \subseteq SiteType
        BY <1>22, <3>1 DEF UpdateSite, TypeOK
      <3>3. nextId' \in Nat \ {0}
        BY <1>22 DEF UpdateSite, TypeOK
      <3> QED BY <3>2, <3>3 DEF Remote
    <2>2. w' \in WorkerType /\ faults' \in FaultsType
      BY <1>1, <1>2, <1>5, <1>10, <1>22 DEF UpdateSite
    <2> QED BY <1>1, <1>8, <1>22, <2>1, <2>2 DEF UpdateSite
  <1>23. ASSUME DriftCheck PROVE Goal
    BY <1>1, <1>2, <1>5, <1>7, <1>8, <1>10, <1>23 DEF DriftCheck
  <1>24. ASSUME ensureDeployment PROVE Goal
    <2>1. buildDeployment(mem) \in [image : Image \cup {NoImage}, uid : Nat, pods : BOOLEAN]
      BY <1>0 DEF buildDeployment, TypeOK, SpecType
    <2>2. Owned
      BY <1>24, <2>1 DEF ensureDeployment, TypeOK, Owned
    <2>3. Goto("online") \in WorkerType
      BY <1>6 DEF PC
    <2>4. w' \in WorkerType /\ faults' \in FaultsType
      BY <1>1, <1>2, <1>5, <1>24, <2>3 DEF ensureDeployment
    <2> QED BY <1>1, <1>8, <1>24, <2>2, <2>4 DEF ensureDeployment
  <1>25. ASSUME ReadOnline PROVE Goal
    <2>1. [w EXCEPT !.pc = "ready", !.online = dep.pods] \in WorkerType
      BY <1>0 DEF TypeOK, WorkerType, PC
    <2> QED BY <1>1, <1>8, <1>25, <2>1 DEF ReadOnline
  <1>26. ASSUME MarkReady PROVE Goal
    <2> DEFINE st == [mem.st EXCEPT !.phase = "Ready", !.obs = mem.gen, !.online = w.online,
                        !.cond = [reason |-> "Reconciled", gen |-> mem.gen]]
    <2>1. st \in StatusType
      BY <1>0 DEF StatusType, Phase, Reason
    <2>2. patchAndReturn(st) /\ Requeue /\ UNCHANGED <<cache, pangolin, owned>>
      BY <1>26 DEF MarkReady
    <2> HIDE DEF st
    <2>3. ns' \in ObjectType /\ faults' \in FaultsType
      BY <2>1, <2>2, ReturnType DEF FaultsType
    <2> QED BY <1>1, <1>7, <2>2, <2>3
  <1>27. ASSUME ReportFailure PROVE Goal
    <2>1. FailureStatus \in StatusType
      BY <1>0 DEF FailureStatus, StatusType, Phase, Reason
    <2>2. patchAndReturn(FailureStatus) /\ (Requeue \/ Forget)
          /\ UNCHANGED <<cache, pangolin, owned>>
      BY <1>27 DEF ReportFailure
    <2>3. ns' \in ObjectType /\ faults' \in FaultsType
      BY <2>1, <2>2, ReturnType DEF FaultsType
    <2> QED BY <1>1, <1>7, <2>2, <2>3
  <1>28. ASSUME Cleanup PROVE Goal
    <2>1. Goto("unfinalize") \in WorkerType
      BY <1>6 DEF PC
    <2> QED BY <1>1, <1>2, <1>3, <1>7, <1>8, <1>28, <2>1 DEF Cleanup
  <1>29. ASSUME RemoveFinalizer PROVE Goal
    <2>1. Gone(mem.gen) \in ObjectType
      BY <1>0, GoneType
    <2> QED BY <1>1, <1>2, <1>7, <1>29, <2>1 DEF RemoveFinalizer
  <1> HIDE DEF Goal
  <1>30. Goal
    BY <1>11, <1>12, <1>13, <1>14, <1>15, <1>16, <1>17, <1>18, <1>19, <1>20, <1>21, <1>22,
       <1>23, <1>24, <1>25, <1>26, <1>27, <1>28, <1>29 DEF WorkerStep
  <1> QED BY <1>30 DEF Goal, TypeOK, FaultsType, Owned, Remote

LEMMA TypeOKEnvironment ==
  ASSUME TypeOK, [Next]_vars, ~WorkerStep
  PROVE  TypeOK'
  <1>0. ns \in ObjectType /\ ns.gen \in Nat
    BY DEF TypeOK, ObjectType
  <1>1. \A k : Fault(k) => faults' \in [n : Nat, seen : SUBSET FaultKind]
    BY FaultType DEF TypeOK
  <1>2. \A S : Note(S) => faults' \in [n : Nat, seen : SUBSET FaultKind]
    BY ConstantsAssumption DEF Note, TypeOK
  <1>3. ASSUME CacheSync PROVE TypeOK'
    BY <1>3 DEF CacheSync, TypeOK, pangolin, owned
  <1>4. ASSUME Reconcile PROVE TypeOK'
    <2>1. \A pc \in PC : [Idle EXCEPT !.mem = cache, !.pc = pc] \in WorkerType
      BY IdleType DEF WorkerType, TypeOK
    <2>2. w' \in WorkerType
      BY <1>4, <2>1, IdleType DEF Reconcile, PC
    <2> QED BY <1>1, <1>4, <2>2 DEF Reconcile, Get, TypeOK, pangolin, owned
  <1>5. ASSUME Collect PROVE TypeOK'
    BY <1>5 DEF Collect, TypeOK, pangolin, NoSecret, NoDeployment
  <1>6. ASSUME PodsReady \/ PodsLost PROVE TypeOK'
    BY <1>1, <1>6 DEF PodsReady, PodsLost, TypeOK, pangolin
  <1>7. ASSUME UserDelete PROVE TypeOK'
    <2>1. [ns EXCEPT !.del = TRUE, !.gen = @ + 1] \in ObjectType
          /\ Gone(ns.gen) \in ObjectType
      <3>1. ns.gen + 1 \in Nat /\ Gone(ns.gen) \in ObjectType
        BY <1>0, GoneType
      <3> QED BY <1>0, <3>1 DEF ObjectType
    <2>2. ns' \in ObjectType
      BY <1>7, <2>1 DEF UserDelete
    <2> QED BY <1>7, <2>2 DEF UserDelete, TypeOK, pangolin, owned
  <1>8. ASSUME Crash PROVE TypeOK'
    BY <1>1, <1>8, IdleType DEF Crash, TypeOK, ObjectType, pangolin, owned
  <1>9. ASSUME NEW s \in Specs, UserCreate(s) PROVE TypeOK'
    <2>1. NewObject(ns.gen + 1, s) \in ObjectType
      <3>1. ns.gen + 1 \in Nat /\ s \in SpecType
        BY <1>0, ConstantsAssumption
      <3>2. ZeroStatus \in StatusType
        BY DEF ZeroStatus, StatusType, Phase, Reason
      <3> QED BY <3>1, <3>2 DEF NewObject, ObjectType
    <2>2. faults' \in [n : Nat, seen : SUBSET FaultKind]
      BY <1>2, <1>9 DEF UserCreate
    <2> QED BY <1>9, <2>1, <2>2 DEF UserCreate, TypeOK, pangolin, owned
  <1>10. ASSUME NEW s \in Specs, UserEdit(s) PROVE TypeOK'
    <2>1. [ns EXCEPT !.spec = s, !.gen = @ + 1] \in ObjectType
      <3>1. ns.gen + 1 \in Nat /\ s \in SpecType
        BY <1>0, ConstantsAssumption
      <3> QED BY <1>0, <3>1 DEF ObjectType
    <2>2. faults' \in [n : Nat, seen : SUBSET FaultKind]
      BY <1>2, <1>10 DEF UserEdit
    <2> QED BY <1>10, <2>1, <2>2 DEF UserEdit, TypeOK, pangolin, owned
  <1>11. ASSUME NEW id, Drift(id) PROVE TypeOK'
    BY <1>1, <1>11 DEF Drift, DeleteSite, TypeOK, owned
  <1>12. CASE UNCHANGED vars
    BY <1>12 DEF vars, TypeOK
  <1>13. CASE Environment
    BY <1>5, <1>6, <1>7, <1>8, <1>9, <1>10, <1>11, <1>13 DEF Environment
  <1> QED BY <1>3, <1>4, <1>12, <1>13 DEF Next

LEMMA TypeOKNext == TypeOK /\ [Next]_vars => TypeOK'
  BY TypeOKWorker, TypeOKEnvironment

LEMMA TypeOKInit == Init => TypeOK
  <1> SUFFICES ASSUME Init PROVE TypeOK
    OBVIOUS
  <1>1. Gone(0) \in ObjectType /\ Idle \in WorkerType
    BY IdleType, GoneType
  <1>2. secret \in [cred : Nat, uid : Nat]
        /\ dep \in [image : Image \cup {NoImage}, uid : Nat, pods : BOOLEAN]
    BY DEF Init, NoSecret, NoDeployment
  <1> QED BY <1>1, <1>2, ConstantsAssumption DEF Init, TypeOK

\* Every variable keeps its type, for any sets of specs, sites and faults; in particular
\* no identifier that Pangolin hands out is the zero that stands for "no site".
THEOREM TypeCorrect == Spec => []TypeOK
  BY TypeOKInit, TypeOKNext, PTL DEF Spec

-----------------------------------------------------------------------------
(* The refinement of Link. *)

\* An object that the reconciler may work for.
Held(o) == o.fin /\ ~o.del

\* Where the worker is between the finalizer's addition and the end of reconcile.
Working == PC \ {"idle", "finalize", "cleanup", "unfinalize"}

\* Only an object with the finalizer is marked as deleted or has a status; and however
\* late the cache is, an object that it shows with the finalizer and not deleted has the
\* finalizer, and one that it shows as deleted was not given the finalizer anew.
ObjectInv ==
  /\ ns.fin => ns.exists
  /\ ns.del => ns.fin
  /\ ~ns.fin => ns.st.sid = 0
  /\ cache.del => cache.fin
  /\ cache.fin => cache.exists
  /\ Held(cache) => ns.fin
  /\ cache.del => ~Held(ns)

WorkerInv ==
  /\ w.pc = "finalize" => mem.exists /\ ~mem.del /\ ~mem.fin /\ (cache.del => ns.fin)
  /\ w.pc \in {"cleanup", "unfinalize"} =>
       mem.exists /\ mem.del /\ ~Held(ns) /\ ~Held(cache)
  /\ w.pc = "unfinalize" => mem.st.sid \notin live
  /\ w.pc \in Working => ns.fin

\* Only identifiers that were handed out are in use.
IdsInv ==
  /\ \A i \in live : i < nextId
  /\ ns.st.sid < nextId /\ cache.st.sid < nextId
  /\ mem.st.sid < nextId /\ w.sid < nextId

LinkInv == TypeOK /\ ObjectInv /\ WorkerInv /\ IdsInv

-----------------------------------------------------------------------------
(* What a step of the worker does to the worker and to the object it has. *)

\* The identifiers the worker can have, and the versions of the object.
KnownSid(i) ==
  \/ i \in {0, mem.st.sid, w.sid, ns.st.sid, cache.st.sid}
  \/ \E s \in findSite : i = s.id

Version(o) == \E v \in {mem, cache, ns} : o.uid = v.uid /\ o.spec = v.spec

\* v goes on with a version of the object, and with what the worker can have.
Ongoing(v) ==
  /\ v.pc \in Working
  /\ Version(v.mem) /\ KnownSid(v.mem.st.sid) /\ KnownSid(v.sid)

\* The object keeps everything but its status, which links what the worker can have.
StatusOnly ==
  /\ ns'.exists = ns.exists /\ ns'.del = ns.del /\ ns'.fin = ns.fin
  /\ ns'.uid = ns.uid /\ ns'.gen = ns.gen /\ ns'.spec = ns.spec
  /\ KnownSid(ns'.st.sid)

LEMMA PatchOngoing ==
  ASSUME TypeOK, NEW st \in StatusType, NEW ok \in WorkerType, NEW ko \in WorkerType,
         Ongoing(ok), Ongoing(ko), KnownSid(st.sid), patchStatus(st, ok, ko)
  PROVE  Ongoing(w') /\ StatusOnly
  <1> DEFINE new == [ns EXCEPT !.st = Merge(ns.st, mem.st, st)]
  <1>1. ns \in ObjectType
    BY DEF TypeOK
  <1>2. Merge(ns.st, mem.st, st).sid \in {st.sid, ns.st.sid}
    BY DEF Merge, Sent
  <1>3. /\ new.st = Merge(ns.st, mem.st, st) /\ new.exists = ns.exists
        /\ new.del = ns.del /\ new.fin = ns.fin /\ new.gen = ns.gen
        /\ new.uid = ns.uid /\ new.spec = ns.spec
        /\ new \in [exists : BOOLEAN, del : BOOLEAN, fin : BOOLEAN, uid : Nat, gen : Nat,
                    spec : SpecType, st : StatusType]
    <2>1. Merge(ns.st, mem.st, st) \in StatusType
      BY MergeType DEF TypeOK, ObjectType, WorkerType, mem
    <2> QED BY <1>1, <2>1 DEF ObjectType
  <1>4. /\ Decoded(new, st).st.sid \in {st.sid, ns.st.sid}
        /\ Decoded(new, st).uid = ns.uid /\ Decoded(new, st).spec = ns.spec
    <2> HIDE DEF new
    <2>1. new.st.sid \in {st.sid, ns.st.sid}
      BY <1>2, <1>3
    <2> QED BY <1>3, <2>1 DEF Decoded, Kept, StatusType
  <1>5. KnownSid(ns.st.sid) /\ Version(ns)
    BY DEF KnownSid, Version
  <1>6. /\ [ok EXCEPT !.mem = Decoded(new, st)].mem = Decoded(new, st)
        /\ [ok EXCEPT !.mem = Decoded(new, st)].pc = ok.pc
        /\ [ok EXCEPT !.mem = Decoded(new, st)].sid = ok.sid
    BY DEF WorkerType
  <1>7. /\ [ko EXCEPT !.mem.st = st].mem.st = st
        /\ [ko EXCEPT !.mem.st = st].mem.spec = ko.mem.spec
        /\ [ko EXCEPT !.mem.st = st].mem.uid = ko.mem.uid
        /\ [ko EXCEPT !.mem.st = st].pc = ko.pc
        /\ [ko EXCEPT !.mem.st = st].sid = ko.sid
    BY DEF WorkerType, ObjectType
  <1>8. /\ ns' = ns \/ ns' = new
        /\ \/ w' = [ok EXCEPT !.mem = Decoded(new, st)]
           \/ w' = [ko EXCEPT !.mem.st = st]
    BY DEF patchStatus
  <1> HIDE DEF new
  <1>9. Ongoing(w')
    <2>1. CASE w' = [ok EXCEPT !.mem = Decoded(new, st)]
      <3>1. KnownSid(w'.mem.st.sid)
        BY <1>4, <1>5, <1>6, <2>1
      <3>2. Version(w'.mem)
        BY <1>4, <1>6, <2>1 DEF Version
      <3> QED BY <1>6, <2>1, <3>1, <3>2 DEF Ongoing
    <2>2. CASE w' = [ko EXCEPT !.mem.st = st]
      <3>1. Version(w'.mem)
        BY <1>7, <2>2 DEF Ongoing, Version
      <3> QED BY <1>7, <2>2, <3>1 DEF Ongoing
    <2> QED BY <1>8, <2>1, <2>2
  <1>10. StatusOnly
    <2>1. KnownSid(new.st.sid)
      BY <1>2, <1>3, <1>5
    <2> QED BY <1>3, <1>5, <1>8, <2>1 DEF StatusOnly
  <1> QED BY <1>9, <1>10

LEMMA ReturnStatusOnly ==
  ASSUME TypeOK, NEW st \in StatusType, KnownSid(st.sid), patchAndReturn(st)
  PROVE  StatusOnly
  <1>1. ns \in ObjectType
    BY DEF TypeOK
  <1>2. Merge(ns.st, mem.st, st).sid \in {st.sid, ns.st.sid} /\ KnownSid(ns.st.sid)
    BY DEF Merge, Sent, KnownSid
  <1>3. CASE UNCHANGED ns
    BY <1>2, <1>3 DEF StatusOnly
  <1>4. CASE ns' = [ns EXCEPT !.st = Merge(@, mem.st, st)]
    <2>1. KnownSid(Merge(ns.st, mem.st, st).sid)
      BY <1>2
    <2> QED BY <1>1, <1>4, <2>1 DEF StatusOnly, ObjectType
  <1> QED BY <1>3, <1>4 DEF patchAndReturn

\* A reconcile under way goes on with the object it has, or ends.
LEMMA OngoingStep ==
  ASSUME TypeOK, WorkerStep,
         ~AddFinalizer, ~Cleanup, ~RemoveFinalizer, ~createSite
  PROVE  /\ w.pc \in Working
         /\ w' = Idle \/ Ongoing(w')
         /\ StatusOnly
  <1> DEFINE Goal == w.pc \in Working /\ (w' = Idle \/ Ongoing(w')) /\ StatusOnly
  <1>1. /\ w \in WorkerType /\ mem.st \in StatusType /\ mem.gen \in Nat /\ w.sid \in Nat
        /\ w.online \in BOOLEAN /\ cache \in ObjectType
    BY DEF TypeOK, WorkerType, ObjectType, mem
  <1>2. KnownSid(mem.st.sid) /\ KnownSid(w.sid) /\ KnownSid(0) /\ KnownSid(cache.st.sid)
        /\ KnownSid(ns.st.sid) /\ Version(mem) /\ Version(cache)
        /\ \A s \in findSite : KnownSid(s.id)
    BY DEF KnownSid, Version
  <1>3. UNCHANGED ns => StatusOnly
    BY <1>2 DEF StatusOnly
  <1>4. \A y \in Why : Fail(y) \in WorkerType /\ Ongoing(Fail(y))
    <2>1. \A y \in Why : Fail(y).pc = "fail" /\ Fail(y).mem = mem /\ Fail(y).sid = 0
      BY IdleType DEF Fail, WorkerType, Idle
    <2> QED BY <1>1, <1>2, <2>1, FailType DEF Ongoing, Working, PC
  <1>5. \A v \in WorkerType : Ongoing(v) => Ongoing(Deploying(v))
    BY <1>2 DEF Deploying, WorkerType, Ongoing, Working, PC
  <1>6. \A pc \in Working : Goto(pc) \in WorkerType /\ Ongoing(Goto(pc))
    <2>1. \A pc \in Working : Goto(pc) \in WorkerType /\ Goto(pc).pc = pc
                              /\ Goto(pc).mem = mem /\ Goto(pc).sid = w.sid
      BY <1>1 DEF Goto, WorkerType, Working, mem
    <2> QED BY <1>2, <2>1 DEF Ongoing
  <1>7. /\ Fail("Error") \in WorkerType /\ Ongoing(Fail("Error"))
        /\ Ongoing(Fail("BadRequest")) /\ Ongoing(Fail("Reset"))
    BY <1>4 DEF Why
  <1>8. Refused => Ongoing(w')
    BY <1>7 DEF Refused
  <1>9. Requeue \/ Forget => w' = Idle
    BY DEF Requeue, Forget
  <1>10. w.pc \in Working => Ongoing(Deploying(w))
    <2>1. w.pc \in Working => Ongoing(w)
      BY <1>2 DEF Ongoing, mem
    <2> QED BY <1>1, <1>5, <2>1
  <1>11. CASE Start
    <2>1. \A pc \in {"list", "update", "check"} : Ongoing(Goto(pc))
      BY <1>6 DEF Working, PC
    <2> QED BY <1>3, <1>11, <2>1 DEF Start, At, Working, PC
  <1>12. CASE findOrCreate
    <2>1. \A s \in findSite : Ongoing([w EXCEPT !.pc = "adopt", !.sid = s.id])
      <3> HIDE DEF findSite
      <3> QED BY <1>1, <1>2 DEF Ongoing, Working, PC, WorkerType, mem
    <2>2. Ongoing(Goto("creating"))
      BY <1>6 DEF Working, PC
    <2>3. w.pc \in Working /\ UNCHANGED ns
      BY <1>12 DEF findOrCreate, At, Working, PC
    <2> QED BY <1>3, <1>8, <1>12, <2>1, <2>2, <2>3 DEF findOrCreate
  <1>13. CASE Adopt
    <2> DEFINE st == [mem.st EXCEPT !.sid = w.sid, !.phase = "Creating"]
    <2>1. st \in StatusType /\ st.sid = w.sid
      BY <1>1 DEF StatusType, Phase
    <2>2. Goto("reget") \in WorkerType /\ Ongoing(Goto("reget"))
      BY <1>6 DEF Working, PC
    <2>3. patchStatus(st, Goto("reget"), Fail("Error")) /\ w.pc \in Working
      BY <1>13 DEF Adopt, At, Working, PC
    <2> HIDE DEF st
    <2> QED BY <1>2, <1>7, <2>1, <2>2, <2>3, PatchOngoing
  <1>14. CASE MarkCreating
    <2> DEFINE st == [mem.st EXCEPT !.phase = "Creating"]
    <2>1. st \in StatusType /\ st.sid = mem.st.sid
      BY <1>1 DEF StatusType, Phase
    <2>2. Goto("create") \in WorkerType /\ Ongoing(Goto("create"))
      BY <1>6 DEF Working, PC
    <2>3. patchStatus(st, Goto("create"), Fail("Error")) /\ w.pc \in Working
      BY <1>14 DEF MarkCreating, At, Working, PC
    <2> HIDE DEF st
    <2> QED BY <1>2, <1>7, <2>1, <2>2, <2>3, PatchOngoing
  <1>15. CASE CreateSecret
    <2>1. Ongoing(Goto("record"))
      BY <1>6 DEF Working, PC
    <2> QED BY <1>3, <1>7, <1>15, <2>1 DEF CreateSecret, At, Working, PC
  <1>16. CASE RecordSite
    <2> DEFINE st == [mem.st EXCEPT !.sid = w.sid]
    <2>1. st \in StatusType /\ st.sid = w.sid
      BY <1>1 DEF StatusType
    <2>2. /\ Goto("reget") \in WorkerType /\ Ongoing(Goto("reget"))
          /\ Goto("rollback") \in WorkerType /\ Ongoing(Goto("rollback"))
      BY <1>6 DEF Working, PC
    <2>3. patchStatus(st, Goto("reget"), Goto("rollback")) /\ w.pc \in Working
      BY <1>16 DEF RecordSite, At, Working, PC
    <2> HIDE DEF st
    <2> QED BY <1>2, <2>1, <2>2, <2>3, PatchOngoing
  <1>17. CASE Rollback
    BY <1>3, <1>7, <1>17 DEF Rollback, At, Working, PC
  <1>18. CASE Reget
    <2> DEFINE v == [w EXCEPT !.mem = cache]
    <2>1. w.pc \in Working /\ UNCHANGED ns /\ w' = Deploying(v)
      BY <1>18 DEF Reget, At, Working, PC
    <2>2. v \in WorkerType /\ Ongoing(v)
      BY <1>1, <1>2, <2>1 DEF Ongoing, WorkerType
    <2> HIDE DEF v
    <2> QED BY <1>3, <1>5, <2>1, <2>2
  <1>19. CASE GetSite
    <2>1. Ongoing(Goto("rename"))
      BY <1>6 DEF Working, PC
    <2>2. w.pc \in Working /\ UNCHANGED ns
      BY <1>19 DEF GetSite, At, Working, PC
    <2> QED BY <1>3, <1>7, <1>10, <1>19, <2>1, <2>2 DEF GetSite
  <1>20. CASE UpdateSite
    <2>1. w.pc \in Working /\ UNCHANGED ns
      BY <1>20 DEF UpdateSite, At, Working, PC
    <2> QED BY <1>3, <1>7, <1>10, <1>20, <2>1 DEF UpdateSite
  <1>21. CASE DriftCheck
    <2>1. w.pc \in Working /\ UNCHANGED ns
      BY <1>21 DEF DriftCheck, At, Working, PC
    <2> QED BY <1>3, <1>7, <1>9, <1>10, <1>21, <2>1 DEF DriftCheck
  <1>22. CASE ensureDeployment
    <2>1. Ongoing(Goto("online"))
      BY <1>6 DEF Working, PC
    <2> QED BY <1>3, <1>7, <1>22, <2>1 DEF ensureDeployment, At, Working, PC
  <1>23. CASE ReadOnline
    <2>1. Ongoing([w EXCEPT !.pc = "ready", !.online = dep.pods])
      BY <1>1, <1>2 DEF Ongoing, WorkerType, Working, PC, mem
    <2> QED BY <1>3, <1>23, <2>1 DEF ReadOnline, At, Working, PC
  <1>24. CASE MarkReady
    <2> DEFINE st == [mem.st EXCEPT !.phase = "Ready", !.obs = mem.gen, !.online = w.online,
                        !.cond = [reason |-> "Reconciled", gen |-> mem.gen]]
    <2>1. st \in StatusType /\ st.sid = mem.st.sid
      BY <1>1 DEF StatusType, Phase, Reason
    <2>2. patchAndReturn(st) /\ w' = Idle /\ w.pc \in Working
      BY <1>24 DEF MarkReady, Requeue, At, Working, PC
    <2> HIDE DEF st
    <2> QED BY <1>2, <2>1, <2>2, ReturnStatusOnly
  <1>25. CASE ReportFailure
    <2>1. FailureStatus \in StatusType /\ FailureStatus.sid \in {0, mem.st.sid}
      BY <1>1 DEF FailureStatus, StatusType, Phase, Reason
    <2>2. patchAndReturn(FailureStatus) /\ w' = Idle /\ w.pc \in Working
      BY <1>25 DEF ReportFailure, Requeue, Forget, At, Working, PC
    <2> QED BY <1>2, <2>1, <2>2, ReturnStatusOnly
  <1> HIDE DEF Goal
  <1>26. Goal
    BY <1>11, <1>12, <1>13, <1>14, <1>15, <1>16, <1>17, <1>18, <1>19, <1>20, <1>21, <1>22,
       <1>23, <1>24, <1>25 DEF WorkerStep, Goal
  <1> QED BY <1>26 DEF Goal

-----------------------------------------------------------------------------
(* What a step does in Pangolin: sites go, keep what they are, or one is created. *)

Shrinks ==
  /\ nextId' = nextId
  /\ \A t \in sites' : \E s \in sites : s.id = t.id /\ s.for = t.for

SiteCreated ==
  /\ createSite
  /\ sites' = sites \cup {CreatedSite} /\ nextId' = nextId + 1

LEMMA PangolinStep ==
  ASSUME TypeOK, [Next]_vars
  PROVE  Shrinks \/ SiteCreated
  <1>1. UNCHANGED pangolin => Shrinks
    BY DEF pangolin, Shrinks
  <1>2. ASSUME NEW id, DeleteSite(id)
        PROVE  Shrinks
    BY <1>2 DEF DeleteSite, Shrinks
  <1>3. CASE WorkerStep
    <2>1. CASE AddFinalizer \/ Start \/ findOrCreate \/ Adopt \/ MarkCreating \/ CreateSecret
               \/ RecordSite \/ Reget \/ GetSite \/ DriftCheck \/ ensureDeployment
               \/ ReadOnline \/ MarkReady \/ ReportFailure \/ RemoveFinalizer
      BY <1>1, <2>1 DEF AddFinalizer, Start, findOrCreate, Refused, Adopt, MarkCreating,
         CreateSecret, RecordSite, Reget, GetSite, DriftCheck, ensureDeployment, ReadOnline,
         MarkReady, ReportFailure, RemoveFinalizer
    <2>2. CASE createSite
      BY <1>1, <2>2 DEF createSite, Refused, SiteCreated, CreatedSite
    <2>3. CASE Rollback \/ Cleanup
      BY <1>1, <1>2, <2>3 DEF Rollback, Cleanup
    <2>4. CASE UpdateSite
      <3>1. CASE UNCHANGED sites
        BY <2>4, <3>1 DEF UpdateSite, Shrinks
      <3>2. CASE sites' = {IF s.id = mem.st.sid THEN [s EXCEPT !.name = mem.spec.name] ELSE s :
                           s \in sites}
        <4>1. \A s \in sites : [s EXCEPT !.name = mem.spec.name].id = s.id
                               /\ [s EXCEPT !.name = mem.spec.name].for = s.for
          BY DEF TypeOK, SiteType
        <4>2. \A t \in sites' : \E s \in sites : s.id = t.id /\ s.for = t.for
          BY <3>2, <4>1
        <4> QED BY <2>4, <4>2 DEF UpdateSite, Shrinks
      <3> QED BY <2>4, <3>1, <3>2 DEF UpdateSite
    <2> QED BY <1>3, <2>1, <2>2, <2>3, <2>4 DEF WorkerStep
  <1>4. CASE Environment
    BY <1>1, <1>2, <1>4
       DEF Environment, Collect, PodsReady, PodsLost, UserCreate, UserEdit, UserDelete, Drift,
           Crash
  <1>5. CASE CacheSync \/ Reconcile \/ UNCHANGED vars
    BY <1>1, <1>5 DEF CacheSync, Reconcile, vars, pangolin
  <1> QED BY <1>3, <1>4, <1>5 DEF Next

\* Pangolin hands out every identifier once.
LEMMA LiveStep ==
  ASSUME TypeOK, \A i \in live : i < nextId, [Next]_vars
  PROVE  /\ nextId' \in Nat /\ nextId' >= nextId
         /\ \A i \in live' : i < nextId'
         /\ Shrinks => live' \subseteq live /\ nextId' = nextId
         /\ SiteCreated => nextId' = nextId + 1 /\ live' = live \cup {nextId}
  <1>0. \A i \in live : i < nextId
    OBVIOUS
  <1>1. nextId \in Nat /\ \A i \in live : i \in Nat
    BY DEF TypeOK, live, SiteType
  <1>2. ASSUME Shrinks
        PROVE  live' \subseteq live /\ nextId' = nextId
    BY <1>2 DEF Shrinks, live
  <1>3. ASSUME SiteCreated
        PROVE  nextId' = nextId + 1 /\ live' = live \cup {nextId}
    <2>1. CreatedSite.id = nextId
      BY DEF CreatedSite
    <2> QED BY <1>3, <2>1 DEF SiteCreated, live
  <1>4. CASE Shrinks
    <2>1. ~SiteCreated
      BY <1>1, <1>2, <1>4 DEF SiteCreated
    <2>2. \A i \in live' : i < nextId'
      BY <1>0, <1>2, <1>4
    <2> QED BY <1>1, <1>2, <1>4, <2>1, <2>2
  <1>5. CASE SiteCreated
    <2>1. ~Shrinks
      BY <1>1, <1>5 DEF SiteCreated, Shrinks
    <2>2. \A i \in live' : i < nextId'
      <3> SUFFICES ASSUME NEW i \in live'
                   PROVE  i < nextId'
        OBVIOUS
      <3>1. i \in live \/ i = nextId
        BY <1>3, <1>5
      <3>2. CASE i \in live
        <4>1. i \in Nat /\ i < nextId
          BY <1>0, <1>1, <3>2
        <4> QED BY <1>1, <1>3, <1>5, <4>1
      <3>3. CASE i = nextId
        BY <1>1, <1>3, <1>5, <3>3
      <3> QED BY <3>1, <3>2, <3>3
    <2> QED BY <1>1, <1>3, <1>5, <2>1, <2>2
  <1> QED BY <1>4, <1>5, PangolinStep

LEMMA IdsInvNext ==
  ASSUME TypeOK, IdsInv, [Next]_vars
  PROVE  IdsInv'
  <1> DEFINE Old(i) == i < nextId \/ (SiteCreated /\ i = nextId)
             Goal == /\ Old(ns'.st.sid) /\ Old(cache'.st.sid)
                     /\ Old(w'.mem.st.sid) /\ Old(w'.sid)
  <1>1. TypeOK' /\ w \in WorkerType /\ mem \in ObjectType /\ ns \in ObjectType
    BY TypeOKNext DEF TypeOK, WorkerType, mem
  <1>2. Old(0)
    BY DEF TypeOK
  <1>3. /\ Old(ns.st.sid) /\ Old(cache.st.sid) /\ Old(mem.st.sid) /\ Old(w.sid)
        /\ \A i : KnownSid(i) => Old(i)
    BY <1>2 DEF KnownSid, findSite, live, IdsInv
  <1>4. \A n : Gone(n).st.sid = 0
    BY DEF Gone, ZeroStatus
  <1>5. w' = Idle => Old(w'.mem.st.sid) /\ Old(w'.sid)
    <2>1. Idle.mem.st.sid = 0 /\ Idle.sid = 0
      BY <1>4 DEF Idle
    <2> QED BY <1>2, <2>1
  <1>6. UNCHANGED w => Old(w'.mem.st.sid) /\ Old(w'.sid)
    BY <1>3 DEF mem
  <1> HIDE DEF Old
  <1>7. ASSUME CacheSync PROVE Goal
    BY <1>3, <1>6, <1>7 DEF CacheSync
  <1>8. ASSUME Reconcile PROVE Goal
    <2>1. w' = Idle \/ (w'.mem = cache /\ w'.sid = 0)
      <3>1. \A pc : [Idle EXCEPT !.mem = cache, !.pc = pc].mem = cache
                    /\ [Idle EXCEPT !.mem = cache, !.pc = pc].sid = 0
        BY DEF Idle
      <3> QED BY <1>8, <3>1 DEF Reconcile
    <2> QED BY <1>2, <1>3, <1>5, <1>8, <2>1 DEF Reconcile
  <1>9. ASSUME AddFinalizer PROVE Goal
    <2>1. [mem EXCEPT !.fin = TRUE].st = mem.st
          /\ [w EXCEPT !.pc = "start", !.mem.fin = TRUE].mem.st = mem.st
          /\ [w EXCEPT !.pc = "start", !.mem.fin = TRUE].sid = w.sid
      BY <1>1 DEF ObjectType, WorkerType, mem
    <2>2. Old(ns'.st.sid)
      BY <1>3, <1>9, <2>1 DEF AddFinalizer
    <2>3. Old(w'.mem.st.sid) /\ Old(w'.sid)
      BY <1>3, <1>5, <1>9, <2>1 DEF AddFinalizer, Requeue
    <2> QED BY <1>3, <1>9, <2>2, <2>3 DEF AddFinalizer
  <1>10. ASSUME RemoveFinalizer PROVE Goal
    <2>1. Old(ns'.st.sid)
      BY <1>2, <1>3, <1>4, <1>10 DEF RemoveFinalizer
    <2> QED BY <1>3, <1>5, <1>10, <2>1 DEF RemoveFinalizer, Requeue, Forget
  <1>11. ASSUME Cleanup PROVE Goal
    <2>1. Goto("unfinalize").mem = mem /\ Goto("unfinalize").sid = w.sid
      BY <1>1 DEF Goto, WorkerType, mem
    <2>2. Old(w'.mem.st.sid) /\ Old(w'.sid)
      BY <1>3, <1>5, <1>11, <2>1 DEF Cleanup, Requeue
    <2> QED BY <1>3, <1>11, <2>2 DEF Cleanup
  <1>12. ASSUME createSite PROVE Goal
    <2>1. \A y \in Why : Fail(y).mem = mem /\ Fail(y).sid = 0
      BY IdleType DEF Fail, WorkerType, Idle
    <2>2. \/ \E y \in Why : w' = Fail(y)
          \/ w'.mem = mem /\ w'.sid = nextId /\ SiteCreated
      BY <1>1, <1>12 DEF createSite, Refused, SiteCreated, CreatedSite, Why, WorkerType, mem
    <2>3. Old(w'.mem.st.sid) /\ Old(w'.sid)
      BY <1>2, <1>3, <2>1, <2>2 DEF Old
    <2> QED BY <1>3, <1>12, <2>3 DEF createSite
  <1>13. ASSUME WorkerStep, ~AddFinalizer, ~RemoveFinalizer, ~Cleanup, ~createSite
         PROVE  Goal
    <2>1. (w' = Idle \/ Ongoing(w')) /\ StatusOnly
      BY <1>13, OngoingStep
    <2>2. Old(w'.mem.st.sid) /\ Old(w'.sid)
      BY <1>3, <1>5, <2>1 DEF Ongoing
    <2>3. UNCHANGED cache
      BY <1>13 DEF WorkerStep, Start, findOrCreate, Adopt, MarkCreating, CreateSecret,
         RecordSite, Rollback, Reget, GetSite, UpdateSite, DriftCheck, ensureDeployment,
         ReadOnline, MarkReady, ReportFailure
    <2> QED BY <1>3, <2>1, <2>2, <2>3 DEF StatusOnly
  <1>14. ASSUME Environment PROVE Goal
    <2>1. ASSUME NEW s \in Specs, UserCreate(s) \/ UserEdit(s)
          PROVE  ns'.st.sid \in {0, ns.st.sid} /\ UNCHANGED <<cache, w>>
      <3>1. NewObject(ns.gen + 1, s).st.sid = 0
            /\ [ns EXCEPT !.spec = s, !.gen = @ + 1].st = ns.st
        BY <1>1 DEF NewObject, ZeroStatus, ObjectType
      <3> QED BY <2>1, <3>1 DEF UserCreate, UserEdit
    <2>2. UserDelete => ns'.st.sid \in {0, ns.st.sid} /\ UNCHANGED <<cache, w>>
      <3>1. [ns EXCEPT !.del = TRUE, !.gen = @ + 1].st = ns.st
        BY <1>1 DEF ObjectType
      <3> QED BY <1>4, <3>1 DEF UserDelete
    <2>3. CASE Crash
      BY <1>3, <1>5, <2>3 DEF Crash
    <2>4. CASE ns'.st.sid \in {0, ns.st.sid} /\ UNCHANGED <<cache, w>>
      BY <1>2, <1>3, <1>6, <2>4
    <2> QED BY <1>14, <2>1, <2>2, <2>3, <2>4
            DEF Environment, Collect, PodsReady, PodsLost, Drift
  <1>15. ASSUME UNCHANGED vars PROVE Goal
    BY <1>3, <1>6, <1>15 DEF vars
  <1>16. Goal
    <2> HIDE DEF Goal
    <2> QED BY <1>7, <1>8, <1>9, <1>10, <1>11, <1>12, <1>13, <1>14, <1>15
            DEF Next, WorkerStep
  <1>17. \A i : i \in Nat /\ Old(i) => i < nextId'
    <2>1. nextId \in Nat
      BY DEF TypeOK
    <2> QED BY <2>1, LiveStep DEF Old, IdsInv
  <1>18. /\ ns'.st.sid \in Nat /\ cache'.st.sid \in Nat
         /\ w'.mem.st.sid \in Nat /\ w'.sid \in Nat
    BY <1>1 DEF TypeOK, ObjectType, WorkerType, StatusType
  <1> QED BY <1>16, <1>17, <1>18, LiveStep DEF IdsInv, mem

-----------------------------------------------------------------------------
(* The finalizer of the object that the worker has, seen through the cache. *)

\* What the invariants say of the object is kept by a step that adds and removes no
\* finalizer, does not mark the object and leaves the cache alone.
LEMMA FlagsKept ==
  ASSUME LinkInv, w.pc \in Working, StatusOnly, cache' = cache,
         w' = Idle \/ w'.pc \in Working
  PROVE  ObjectInv' /\ WorkerInv'
  <1>1. ns.fin /\ ns'.fin
    BY DEF LinkInv, WorkerInv, StatusOnly
  <1>2. ObjectInv'
    BY <1>1 DEF StatusOnly, LinkInv, ObjectInv, Held
  <1>3. w'.pc = "idle" \/ w'.pc \in Working
    <2>1. Idle.pc = "idle"
      BY DEF Idle
    <2> QED BY <2>1
  <1>4. WorkerInv'
    BY <1>1, <1>3 DEF WorkerInv, Working
  <1> QED BY <1>2, <1>4

LEMMA FlagsNext ==
  ASSUME LinkInv, [Next]_vars
  PROVE  ObjectInv' /\ WorkerInv'
  <1> DEFINE Goal == ObjectInv' /\ WorkerInv'
  <1>1. TypeOK /\ ObjectInv /\ WorkerInv
    BY DEF LinkInv
  <1>2. w \in WorkerType /\ mem \in ObjectType /\ ns \in ObjectType
    BY <1>1 DEF TypeOK, WorkerType, mem
  <1>3. Idle.pc = "idle" /\ "idle" \notin Working
    BY DEF Idle, Working
  <1>4. \A n : ~Gone(n).exists /\ ~Gone(n).fin /\ ~Gone(n).del /\ Gone(n).st.sid = 0
    BY DEF Gone, ZeroStatus
  <1>5. ASSUME w' = Idle
        PROVE  WorkerInv'
    BY <1>3, <1>5 DEF WorkerInv
  <1>6. ASSUME UNCHANGED <<ns, cache, w>>, Shrinks
        PROVE  Goal
    <2>1. live' \subseteq live
      BY <1>6 DEF Shrinks, live
    <2> QED BY <1>1, <1>6, <2>1 DEF ObjectInv, WorkerInv, Held, mem
  <1>7. ASSUME CacheSync
        PROVE  Goal
    <2>1. cache' = ns /\ UNCHANGED <<ns, w, live>>
      BY <1>7 DEF CacheSync, pangolin, live
    <2>2. ObjectInv'
      BY <1>1, <2>1 DEF ObjectInv, Held
    <2>3. WorkerInv'
      BY <1>1, <2>1 DEF WorkerInv, ObjectInv, Held, mem
    <2> QED BY <2>2, <2>3
  <1>8. ASSUME Reconcile
        PROVE  Goal
    <2>1. UNCHANGED <<ns, cache>>
      BY <1>8 DEF Reconcile
    <2>2. ObjectInv'
      BY <1>1, <2>1 DEF ObjectInv, Held
    <2>3. CASE cache.exists
      <3> DEFINE pc == IF cache.del THEN "cleanup"
                       ELSE IF cache.fin THEN "start" ELSE "finalize"
      <3>1. w'.mem = cache /\ w'.pc = pc
        <4>1. \A p : [Idle EXCEPT !.mem = cache, !.pc = p].mem = cache
                     /\ [Idle EXCEPT !.mem = cache, !.pc = p].pc = p
          BY DEF Idle
        <4> QED BY <1>8, <2>3, <4>1 DEF Reconcile
      <3>2. ASSUME cache.del PROVE WorkerInv'
        BY <1>1, <2>1, <2>3, <3>1, <3>2 DEF WorkerInv, ObjectInv, Held, Working, mem
      <3>3. ASSUME ~cache.del /\ cache.fin PROVE WorkerInv'
        BY <1>1, <2>1, <2>3, <3>1, <3>3 DEF WorkerInv, ObjectInv, Held, Working, mem
      <3>4. ASSUME ~cache.del /\ ~cache.fin PROVE WorkerInv'
        BY <1>1, <2>1, <2>3, <3>1, <3>4 DEF WorkerInv, ObjectInv, Working, mem
      <3>5. WorkerInv'
        BY <3>2, <3>3, <3>4
      <3> QED BY <2>2, <3>5
    <2>4. CASE ~cache.exists
      BY <1>5, <1>8, <2>2, <2>4 DEF Reconcile
    <2> QED BY <2>3, <2>4
  <1>9. ASSUME AddFinalizer
        PROVE  Goal
    <2>1. w.pc = "finalize" /\ mem.exists /\ ~mem.del /\ ~mem.fin
          /\ (cache.del => ns.fin) /\ UNCHANGED cache
      BY <1>1, <1>9 DEF AddFinalizer, At, WorkerInv
    <2>2. CASE ns' = ns /\ w' = Idle
      BY <1>1, <1>5, <2>1, <2>2 DEF ObjectInv, Held
    <2>3. CASE ns' = [mem EXCEPT !.fin = TRUE] /\ ns = mem
      <3>1. ns'.fin /\ ns'.exists /\ ~ns'.del
        BY <1>2, <2>1, <2>3 DEF ObjectType
      <3>2. ~ns.fin /\ ~cache.del
        BY <2>1, <2>3
      <3>3. ObjectInv'
        BY <1>1, <2>1, <3>1, <3>2 DEF ObjectInv, Held
      <3>4. CASE w' = Idle
        BY <1>5, <3>3, <3>4
      <3>5. CASE w' = [w EXCEPT !.pc = "start", !.mem.fin = TRUE]
        <4>1. w'.pc = "start"
          BY <1>2, <3>5 DEF WorkerType
        <4> QED BY <3>1, <3>3, <4>1 DEF WorkerInv
      <3> QED BY <1>9, <3>4, <3>5 DEF AddFinalizer, Requeue
    <2> QED BY <1>9, <2>2, <2>3 DEF AddFinalizer, Requeue, Unmodified
  <1>10. ASSUME Cleanup
         PROVE  Goal
    <2>1. w.pc = "cleanup" /\ UNCHANGED <<ns, cache>>
          /\ (w' = Idle \/ w' = Goto("unfinalize"))
      BY <1>10 DEF Cleanup, At, Requeue
    <2>2. ObjectInv'
      BY <1>1, <2>1 DEF ObjectInv, Held
    <2>3. ASSUME w' = Goto("unfinalize")
          PROVE  WorkerInv'
      <3>1. w'.pc = "unfinalize" /\ w'.mem = w.mem
        BY <1>2, <2>3 DEF Goto, WorkerType
      <3>2. w.mem.st.sid \notin live'
        <4>1. CASE mem.st.sid = 0
          <5>1. UNCHANGED sites
            BY <1>10, <4>1 DEF Cleanup, pangolin
          <5> QED BY <1>1, <4>1, <5>1 DEF TypeOK, SiteType, live, mem
        <4>2. CASE DeleteSite(mem.st.sid)
          BY <4>2 DEF DeleteSite, live, mem
        <4> QED BY <1>3, <1>10, <2>3, <3>1, <4>1, <4>2 DEF Cleanup, Requeue
      <3> QED BY <1>1, <2>1, <3>1, <3>2 DEF WorkerInv, Working, Held, mem
    <2> QED BY <1>5, <2>1, <2>2, <2>3
  <1>11. ASSUME RemoveFinalizer
         PROVE  Goal
    <2>1. w.pc = "unfinalize" /\ UNCHANGED cache /\ w' = Idle
      BY <1>11 DEF RemoveFinalizer, At, Requeue, Forget
    <2>2. ~Held(cache)
      BY <1>1, <2>1 DEF WorkerInv
    <2>3. CASE ns' = ns
      BY <1>1, <1>5, <2>1, <2>3 DEF ObjectInv, Held
    <2>4. CASE ns' = Gone(mem.gen)
      <3>1. ObjectInv'
        BY <1>1, <1>4, <2>1, <2>2, <2>4 DEF ObjectInv, Held
      <3> QED BY <1>5, <2>1, <3>1
    <2> QED BY <1>11, <2>3, <2>4 DEF RemoveFinalizer
  <1>12. ASSUME createSite
         PROVE  Goal
    <2>1. w.pc = "create" /\ UNCHANGED <<ns, cache>>
      BY <1>12 DEF createSite, At
    <2>2. w'.pc \in Working
      <3>1. \A y \in Why : Fail(y).pc = "fail"
        BY IdleType DEF Fail, WorkerType
      <3>2. (\E y \in Why : w' = Fail(y)) \/ w'.pc \in {"record", "secret"}
        BY <1>2, <1>12 DEF createSite, Refused, Why, WorkerType
      <3> QED BY <3>1, <3>2 DEF Working, PC
    <2> QED BY <2>1, <2>2, FlagsKept DEF StatusOnly, KnownSid, Working, PC
  <1>13. ASSUME WorkerStep, ~AddFinalizer, ~RemoveFinalizer, ~Cleanup, ~createSite
         PROVE  Goal
    <2>1. w.pc \in Working /\ (w' = Idle \/ Ongoing(w')) /\ StatusOnly
      BY <1>1, <1>13, OngoingStep
    <2>2. UNCHANGED cache
      BY <1>13 DEF WorkerStep, Start, findOrCreate, Adopt, MarkCreating, CreateSecret,
         RecordSite, Rollback, Reget, GetSite, UpdateSite, DriftCheck, ensureDeployment,
         ReadOnline, MarkReady, ReportFailure
    <2> QED BY <2>1, <2>2, FlagsKept DEF Ongoing
  <1>14. ASSUME NEW s \in Specs, UserCreate(s)
         PROVE  Goal
    <2>1. ~ns'.fin /\ ~ns'.del /\ ns'.st.sid = 0 /\ ~ns.fin /\ UNCHANGED <<cache, w, live>>
      BY <1>1, <1>14 DEF NewObject, ZeroStatus, UserCreate, ObjectInv, pangolin, live
    <2>2. ObjectInv'
      BY <1>1, <2>1 DEF ObjectInv, Held
    <2>3. WorkerInv'
      BY <1>1, <1>2, <2>1 DEF WorkerInv, Held, mem
    <2> QED BY <2>2, <2>3
  <1>15. ASSUME NEW s \in Specs, UserEdit(s)
         PROVE  Goal
    <2>1. /\ ns'.fin = ns.fin /\ ns'.del = ns.del /\ ns'.st = ns.st /\ ns'.exists = ns.exists
          /\ UNCHANGED <<cache, w, live>>
      BY <1>2, <1>15 DEF UserEdit, ObjectType, pangolin, live
    <2>2. ObjectInv'
      BY <1>1, <2>1 DEF ObjectInv, Held
    <2>3. WorkerInv'
      BY <1>1, <1>2, <2>1 DEF WorkerInv, Held, mem
    <2> QED BY <2>2, <2>3
  <1>16. ASSUME UserDelete
         PROVE  Goal
    <2>1. /\ ns'.fin = ns.fin /\ ns'.del = ns.fin /\ UNCHANGED <<cache, w, live>>
          /\ ns.fin => ns'.exists
          /\ ~ns.fin => ns'.st.sid = 0
      <3>1. UNCHANGED <<cache, w, live>> /\ ns.fin \in BOOLEAN
        BY <1>2, <1>16 DEF UserDelete, ObjectType, pangolin, live
      <3>2. CASE ns.fin
        <4>1. ns' = [ns EXCEPT !.del = TRUE, !.gen = @ + 1] /\ ns.exists
          BY <1>16, <3>2 DEF UserDelete
        <4> QED BY <1>2, <3>1, <3>2, <4>1 DEF ObjectType
      <3>3. CASE ~ns.fin
        <4>1. ns' = Gone(ns.gen)
          BY <1>16, <3>3 DEF UserDelete
        <4> QED BY <3>1, <3>3, <4>1 DEF Gone, ZeroStatus
      <3> QED BY <3>2, <3>3
    <2>2. ObjectInv'
      BY <1>1, <2>1 DEF ObjectInv, Held
    <2>3. WorkerInv'
      BY <1>1, <1>2, <2>1 DEF WorkerInv, Held, mem
    <2> QED BY <2>2, <2>3
  <1>17. ASSUME Crash
         PROVE  Goal
    <2>1. UNCHANGED ns /\ cache' = ns /\ w' = Idle
      BY <1>17 DEF Crash
    <2>2. ObjectInv'
      BY <1>1, <2>1 DEF ObjectInv, Held
    <2> QED BY <1>5, <2>1, <2>2
  <1>18. ASSUME Environment
         PROVE  Goal
    <2>1. CASE Collect \/ PodsReady \/ PodsLost \/ \E id \in live : Drift(id)
      <3>1. Shrinks /\ UNCHANGED <<ns, cache, w>>
        BY <2>1 DEF Collect, PodsReady, PodsLost, Drift, DeleteSite, pangolin, Shrinks
      <3> QED BY <1>6, <3>1
    <2> HIDE DEF Goal
    <2> QED BY <1>14, <1>15, <1>16, <1>17, <1>18, <2>1 DEF Environment
  <1>19. ASSUME UNCHANGED vars
         PROVE  Goal
    BY <1>6, <1>19 DEF vars, Shrinks
  <1>20. Goal
    <2> HIDE DEF Goal
    <2> QED BY <1>7, <1>8, <1>9, <1>10, <1>11, <1>12, <1>13, <1>18, <1>19
            DEF Next, WorkerStep
  <1> QED BY <1>20

LEMMA LinkInvInit == Init => LinkInv
  <1> SUFFICES ASSUME Init PROVE LinkInv
    OBVIOUS
  <1>1. TypeOK
    BY TypeOKInit
  <1>2. /\ ~Gone(0).fin /\ ~Gone(0).del /\ Gone(0).st.sid = 0
    BY DEF Gone, ZeroStatus
  <1>3. /\ ns = Gone(0) /\ cache = Gone(0)
        /\ w = Idle /\ Idle.pc = "idle" /\ mem = Gone(0) /\ w.sid = 0
    BY DEF Init, Idle, mem
  <1>4. ObjectInv /\ WorkerInv
    BY <1>2, <1>3 DEF ObjectInv, Held, WorkerInv, Working
  <1>5. nextId = FirstId /\ \A s \in sites : s.id < FirstId
    BY ConstantsAssumption DEF Init
  <1>6. IdsInv
    BY <1>2, <1>3, <1>5, ConstantsAssumption DEF IdsInv, live
  <1> QED BY <1>1, <1>4, <1>6 DEF LinkInv

LEMMA LinkInvNext == LinkInv /\ [Next]_vars => LinkInv'
  <1> SUFFICES ASSUME LinkInv, [Next]_vars PROVE LinkInv'
    OBVIOUS
  <1>1. TypeOK /\ TypeOK'
    BY TypeOKNext DEF LinkInv
  <1>2. IdsInv'
    BY <1>1, IdsInvNext DEF LinkInv
  <1> QED BY <1>1, <1>2, FlagsNext DEF LinkInv

LEMMA LinkInvariant == Spec => []LinkInv
  BY LinkInvInit, LinkInvNext, PTL DEF Spec

-----------------------------------------------------------------------------
(* Every step is a step of Link or leaves what Link sees alone. *)

LEMMA LinkInit == Init => L!Init
  <1> SUFFICES ASSUME Init PROVE L!Init
    OBVIOUS
  <1>1. ~ns.exists /\ ns.st.sid = 0
    BY DEF Init, Gone, ZeroStatus
  <1>2. FirstId \in Nat /\ FirstId > 0 /\ nextId = FirstId
    BY ConstantsAssumption DEF Init
  <1>3. \A i \in live : i \in 1..(FirstId - 1)
    <2>1. \A s \in sites : s.id \in Nat \ {0} /\ s.id < FirstId
      BY ConstantsAssumption DEF Init, SiteType
    <2> QED BY <1>2, <2>1 DEF live
  <1> QED BY <1>1, <1>2, <1>3 DEF L!Init

LEMMA LinkNext == LinkInv /\ [Next]_vars => [L!Next]_(L!vars)
  <1> SUFFICES ASSUME LinkInv, [Next]_vars PROVE [L!Next]_(L!vars)
    OBVIOUS
  <1>1. TypeOK /\ TypeOK' /\ ObjectInv /\ WorkerInv /\ IdsInv /\ IdsInv'
    BY TypeOKNext, IdsInvNext DEF LinkInv
  <1>2. /\ w \in WorkerType /\ mem \in ObjectType /\ ns \in ObjectType /\ nextId \in Nat
        /\ \A i \in live : i < nextId
    BY <1>1 DEF TypeOK, WorkerType, mem, IdsInv
  <1>3. UNCHANGED pangolin => UNCHANGED <<live, nextId, 0>>
    BY DEF pangolin, live
  <1>4. ASSUME UNCHANGED ns
        PROVE  [L!Next]_(L!vars)
    <2>1. CASE Shrinks
      <3>1. live' \subseteq live /\ nextId' = nextId
        BY <1>1, <1>2, <2>1, LiveStep
      <3>2. L!Lose
        BY <1>4, <3>1 DEF L!Lose
      <3> QED BY <3>2 DEF L!Next
    <2>2. CASE SiteCreated
      <3>1. ns.exists /\ ns.fin
        BY <1>1, <2>2 DEF ObjectInv, WorkerInv, Working, PC, SiteCreated, createSite, At
      <3>2. L!Holding # {}
        BY <3>1 DEF L!Holding
      <3>3. live' = live \cup {nextId} /\ nextId' = nextId + 1
        BY <1>1, <1>2, <2>2, LiveStep
      <3>4. L!Provision
        BY <1>4, <3>2, <3>3 DEF L!Provision, L!Create
      <3> QED BY <3>4 DEF L!Next
    <2> QED BY <1>1, <2>1, <2>2, PangolinStep
  <1>5. ASSUME AddFinalizer
        PROVE  [L!Next]_(L!vars)
    <2>1. CASE UNCHANGED ns
      BY <1>4, <2>1
    <2>2. CASE ns = mem /\ ns' = [mem EXCEPT !.fin = TRUE]
      <3>1. ns.exists /\ ~ns.del /\ ~ns.fin /\ UNCHANGED pangolin
        BY <1>1, <1>5, <2>2 DEF AddFinalizer, At, WorkerInv
      <3>2. ns'.exists /\ ~ns'.del /\ ns'.fin /\ ns'.st = ns.st
        BY <1>2, <2>2, <3>1 DEF ObjectType
      <3>3. L!Hold("site")
        BY <1>3, <3>1, <3>2 DEF L!Hold, L!Move
      <3> QED BY <3>3 DEF L!Next
    <2> QED BY <1>5, <2>1, <2>2 DEF AddFinalizer, Unmodified
  <1>6. ASSUME RemoveFinalizer
        PROVE  [L!Next]_(L!vars)
    <2>1. CASE UNCHANGED ns
      BY <1>4, <2>1
    <2>2. CASE ns = mem /\ ns' = Gone(mem.gen)
      <3>1. ns.exists /\ ns.del /\ ns.st.sid \notin live /\ UNCHANGED pangolin
        BY <1>1, <1>6, <2>2 DEF RemoveFinalizer, At, WorkerInv
      <3>2. ~ns'.exists /\ ns'.st.sid = 0
        BY <2>2 DEF Gone, ZeroStatus
      <3>3. L!Release("site")
        BY <1>3, <3>1, <3>2 DEF L!Release, L!Move
      <3> QED BY <3>3 DEF L!Next
    <2> QED BY <1>6, <2>1, <2>2 DEF RemoveFinalizer, Unmodified
  <1>7. ASSUME WorkerStep, ~AddFinalizer, ~RemoveFinalizer, ~Cleanup, ~createSite
        PROVE  [L!Next]_(L!vars)
    <2>1. w.pc \in Working /\ StatusOnly
      BY <1>1, <1>7, OngoingStep
    <2>2. UNCHANGED ns \/ UNCHANGED pangolin
      BY <1>7 DEF WorkerStep, Start, findOrCreate, Adopt, MarkCreating, CreateSecret,
         RecordSite, Rollback, Reget, GetSite, UpdateSite, DriftCheck, ensureDeployment,
         ReadOnline, MarkReady, ReportFailure
    <2>3. CASE UNCHANGED pangolin
      <3>1. PICK id \in Nat : id = ns'.st.sid
        BY <1>1 DEF TypeOK, ObjectType, StatusType
      <3>2. id \in 0..(nextId - 1)
        BY <1>1, <1>2, <2>3, <3>1 DEF IdsInv, pangolin
      <3>3. "site" \in L!Holding
        BY <1>1, <2>1 DEF WorkerInv, ObjectInv, L!Holding
      <3>4. ns'.exists = ns.exists /\ ns'.del = ns.del /\ ns'.fin = ns.fin
        BY <2>1 DEF StatusOnly
      <3>5. L!LinkTo("site", id)
        BY <1>2, <1>3, <2>3, <3>1, <3>2, <3>3, <3>4 DEF L!LinkTo
      <3> QED BY <3>2, <3>5 DEF L!Next
    <2> QED BY <1>4, <2>2, <2>3
  <1>8. ASSUME NEW s \in Specs, UserCreate(s)
        PROVE  [L!Next]_(L!vars)
    <2>1. /\ ~ns.exists /\ ns.st.sid = 0 /\ UNCHANGED pangolin
          /\ ns'.exists /\ ~ns'.fin /\ ~ns'.del /\ ns'.st.sid = 0
      BY <1>1, <1>8 DEF UserCreate, ObjectInv, NewObject, ZeroStatus
    <2>2. L!Appear("site")
      BY <1>3, <2>1 DEF L!Appear, L!Move
    <2> QED BY <2>2 DEF L!Next
  <1>9. ASSUME NEW s \in Specs, UserEdit(s)
        PROVE  [L!Next]_(L!vars)
    <2>1. /\ ns'.exists = ns.exists /\ ns'.fin = ns.fin /\ ns'.del = ns.del /\ ns'.st = ns.st
          /\ UNCHANGED pangolin
      BY <1>2, <1>9 DEF UserEdit, ObjectType
    <2>2. UNCHANGED L!vars
      BY <1>3, <2>1 DEF L!vars
    <2> QED BY <2>2
  <1>10. ASSUME UserDelete
         PROVE  [L!Next]_(L!vars)
    <2>1. ns.exists /\ ~ns.del /\ UNCHANGED pangolin
      BY <1>10 DEF UserDelete
    <2>2. CASE ns.fin
      <3>1. ns'.exists /\ ns'.del /\ ns'.st = ns.st
        BY <1>2, <1>10, <2>1, <2>2 DEF UserDelete, ObjectType
      <3>2. L!Doom("site")
        BY <1>3, <2>1, <2>2, <3>1 DEF L!Doom, L!Move
      <3> QED BY <3>2 DEF L!Next
    <2>3. CASE ~ns.fin
      <3>1. ~ns'.exists /\ ns'.st.sid = 0 /\ ns.st.sid = 0
        BY <1>1, <1>10, <2>3 DEF UserDelete, Gone, ZeroStatus, ObjectInv
      <3>2. L!Vanish("site")
        BY <1>3, <2>1, <2>3, <3>1 DEF L!Vanish, L!Move
      <3> QED BY <3>2 DEF L!Next
    <2> QED BY <2>2, <2>3
  <1>11. ASSUME createSite \/ Cleanup
         PROVE  [L!Next]_(L!vars)
    BY <1>4, <1>11 DEF createSite, Cleanup
  <1>12. ASSUME Environment
         PROVE  [L!Next]_(L!vars)
    BY <1>4, <1>8, <1>9, <1>10, <1>12 DEF Environment, Collect, PodsReady, PodsLost, Drift,
       Crash
  <1>13. ASSUME CacheSync \/ Reconcile \/ UNCHANGED vars
         PROVE  [L!Next]_(L!vars)
    BY <1>4, <1>13 DEF CacheSync, Reconcile, vars
  <1> QED BY <1>5, <1>6, <1>7, <1>11, <1>12, <1>13 DEF Next

\* The reconciler keeps the promise of Link through every failure and every re-creation
\* of the object: the finalizer is there before createSite, and goes after the site that
\* status.siteId links; that status never links an identifier that Pangolin did not
\* hand out.
THEOREM LinkImplemented == Spec => ImplementsLink
  BY LinkInit, LinkNext, LinkInvariant, PTL DEF Spec, ImplementsLink, L!Spec

-----------------------------------------------------------------------------
(* Versions of an object. *)

\* Two versions of one object: edits of its name or type are seen.
Same(a, b) ==
  /\ a.uid = b.uid
  /\ ~Seen({"rename"}) => a.spec.name = b.spec.name
  /\ ~Seen({"retype"}) => a.spec.local = b.spec.local

\* What the cache, the API server and the worker hold is of one object as long as the
\* finalizer is seen: none of them can be of an earlier object of that name.
VersionInv ==
  /\ cache.gen <= ns.gen
  /\ ns.exists => ns.uid \in 1..ns.gen
  /\ Held(cache) => Same(cache, ns)
  /\ w.pc = "finalize" => mem.gen <= ns.gen /\ (ns = mem => Same(cache, mem))
  /\ w.pc \in Working => Same(mem, ns) /\ Same(cache, ns)
  /\ \A s \in sites : s.for <= ns.gen

-----------------------------------------------------------------------------
(* Names, and NoDuplicateSite. *)

Names(id, n) == \A s \in sites : s.id = id => s.name = n

IdsUnique == \A s1, s2 \in sites : s1.id = s2.id => s1 = s2

\* The sites that were created for the object.
Own(s) == ns.exists /\ s.for = ns.uid

\* What a status links, what the worker has found or created, and what was created for
\* the object has the object's name.
NamesInv ==
  /\ Names(ns.st.sid, ns.spec.name) /\ Names(cache.st.sid, cache.spec.name)
  /\ w.pc = "finalize" => w.sid = 0
  /\ w.pc \in Working => Names(mem.st.sid, ns.spec.name) /\ Names(w.sid, ns.spec.name)
  /\ \A s \in sites : Own(s) => s.name = ns.spec.name

\* On the way to createSite there is no site of that name, and then only the new one.
VacantInv ==
  \A s \in sites : s.name = mem.spec.name =>
    /\ w.pc \notin {"creating", "create"}
    /\ w.pc = "secret" => s.id = w.sid

NameInv ==
  /\ LinkInv /\ VersionInv /\ IdsUnique
  /\ ~Seen({"rename"}) => NamesInv /\ VacantInv /\ NoDuplicateSite

-----------------------------------------------------------------------------
(* The Secret, and CredentialsKept. *)

\* The write of the Secret is reached and does not fail, and nothing is left of it.
Written == ~Seen({"apiLost", "crash", "k8s", "gc", "retype"})

\* The Secret is the object's own one.
OwnerInv == ns.exists => secret = NoSecret \/ secret.uid = ns.uid

\* A site of the object has its credentials in the Secret from the first write on.
KeptInv ==
  \A s \in sites : Own(s) /\ ~ns.spec.local =>
    \/ secret.cred = s.id
    \/ w.pc = "secret" /\ w.sid = s.id

\* Where no site is recorded yet.
UnlinkedPC == {"list", "adopt", "creating", "create", "secret", "record"}

\* While no status is read too early and every answer comes, the worker is in step with
\* the status, and gives up a link only when the site is gone; so that every site of the
\* object is linked or about to be.
InStep ==
  /\ w.pc \in Working => mem.st.sid = ns.st.sid
  /\ w.pc \in UnlinkedPC => mem.st.sid = 0
  /\ w.pc = "fail" /\ w.why = "Reset" => mem.st.sid \notin live

TrackedInv ==
  \A s \in sites : Own(s) =>
    \/ s.id = ns.st.sid
    \/ w.pc \in {"secret", "record"} /\ w.sid = s.id

CredInv ==
  /\ NameInv
  /\ Written => OwnerInv
  /\ Written /\ ~Seen({"rename"}) => KeptInv
  /\ Written /\ ~Seen({"lag", "k8sLost"}) => InStep /\ TrackedInv /\ KeptInv

-----------------------------------------------------------------------------
(* What was seen of faults and edits stays seen. *)

LEMMA FaultsGrow ==
  ASSUME TypeOK, [Next]_vars
  PROVE  faults.seen \subseteq faults'.seen
  <1>1. faults \in [n : Nat, seen : SUBSET FaultKind]
    BY DEF TypeOK
  <1>2. \A k : Fault(k) => faults.seen \subseteq faults'.seen
    BY DEF Fault
  <1>3. \A S : Note(S) => faults.seen \subseteq faults'.seen
    BY <1>1 DEF Note
  <1>4. \A st, ok, ko : patchStatus(st, ok, ko) => faults.seen \subseteq faults'.seen
    BY <1>2 DEF patchStatus
  <1>5. \A st : patchAndReturn(st) => faults.seen \subseteq faults'.seen
    BY <1>2 DEF patchAndReturn
  <1>6. Refused \/ Get => faults.seen \subseteq faults'.seen
    BY <1>2 DEF Refused, Get
  <1>7. CASE WorkerStep
    <2>1. CASE AddFinalizer \/ Start \/ findOrCreate \/ Adopt \/ MarkCreating \/ createSite
               \/ CreateSecret \/ RecordSite \/ Rollback \/ Reget
      BY <1>2, <1>4, <1>6, <2>1 DEF AddFinalizer, Start, findOrCreate, Adopt, MarkCreating,
         createSite, CreateSecret, RecordSite, Rollback, Reget
    <2>2. CASE GetSite \/ UpdateSite \/ DriftCheck \/ ensureDeployment \/ ReadOnline
               \/ MarkReady \/ ReportFailure \/ Cleanup \/ RemoveFinalizer
      BY <1>2, <1>5, <2>2 DEF GetSite, UpdateSite, DriftCheck, ensureDeployment, ReadOnline,
         MarkReady, ReportFailure, Cleanup, RemoveFinalizer
    <2> QED BY <1>7, <2>1, <2>2 DEF WorkerStep
  <1>8. CASE Environment
    BY <1>2, <1>3, <1>8 DEF Environment, Collect, PodsReady, PodsLost, UserCreate, UserEdit,
       UserDelete, Drift, Crash
  <1>9. CASE CacheSync \/ Reconcile \/ UNCHANGED vars
    BY <1>6, <1>9 DEF CacheSync, Reconcile, vars
  <1> QED BY <1>7, <1>8, <1>9 DEF Next

LEMMA SeenKept ==
  ASSUME TypeOK, [Next]_vars
  PROVE  /\ \A S : ~Seen(S)' => ~Seen(S)
         /\ \A S : \A k \in S : Fault(k) => Seen(S)'
         /\ \A a, b : Same(a, b) => Same(a, b)'
  <1>1. faults.seen \subseteq faults'.seen
    BY FaultsGrow
  <1>2. \A S : ~Seen(S)' => ~Seen(S)
    BY <1>1 DEF Seen
  <1>3. \A k : Fault(k) => k \in faults'.seen
    BY DEF Fault
  <1>4. \A a, b : Same(a, b) => Same(a, b)'
    BY <1>2 DEF Same
  <1> QED BY <1>2, <1>3, <1>4 DEF Seen

\* An edit of the name or of the type is seen.
LEMMA EditSeen ==
  ASSUME TypeOK, NEW s \in Specs, UserEdit(s)
  PROVE  /\ ns'.uid = ns.uid /\ ns'.gen = ns.gen + 1 /\ ns'.spec = s
         /\ ns'.exists = ns.exists /\ ns'.st = ns.st
         /\ ~Seen({"rename"})' => s.name = ns.spec.name
         /\ ~Seen({"retype"})' => s.local = ns.spec.local
  <1>1. ns \in ObjectType /\ faults \in [n : Nat, seen : SUBSET FaultKind]
    BY DEF TypeOK
  <1>2. /\ ns'.uid = ns.uid /\ ns'.gen = ns.gen + 1 /\ ns'.spec = s
        /\ ns'.exists = ns.exists /\ ns'.st = ns.st
    BY <1>1 DEF UserEdit, ObjectType
  <1> DEFINE K == {k \in {"race", "rename", "retype"} : EditIs(k, s)}
  <1>3. K \subseteq faults'.seen
    <2>1. Note(K)
      BY DEF UserEdit
    <2> HIDE DEF K
    <2> QED BY <1>1, <2>1 DEF Note
  <1>4. s.name # ns.spec.name => "rename" \in K
    BY DEF EditIs
  <1>5. s.local # ns.spec.local => "retype" \in K
    BY DEF EditIs
  <1> HIDE DEF K
  <1> QED BY <1>2, <1>3, <1>4, <1>5 DEF Seen

-----------------------------------------------------------------------------
(* Versions. *)

\* Where a site that is there after a step comes from.
LEMMA ForKept ==
  ASSUME TypeOK, [Next]_vars, NEW t \in sites'
  PROVE  \/ \E s \in sites : s.id = t.id /\ s.for = t.for
         \/ SiteCreated /\ t = CreatedSite
  BY PangolinStep DEF Shrinks, SiteCreated

LEMMA VersionWorker ==
  ASSUME NameInv, WorkerStep
  PROVE  VersionInv'
  <1>1. /\ TypeOK /\ LinkInv /\ ObjectInv /\ WorkerInv /\ VersionInv /\ [Next]_vars
        /\ TypeOK'
    BY TypeOKNext DEF NameInv, LinkInv, Next
  <1>2. \A a, b : Same(a, b) => Same(a, b)'
    BY <1>1, SeenKept
  <1>3. \A a, b, c : Same(a, b) /\ c.uid = a.uid /\ c.spec = a.spec => Same(c, b)
    BY DEF Same
  <1>4. \A a, b, c : Same(a, b) /\ c.uid = b.uid /\ c.spec = b.spec => Same(a, c)
    BY DEF Same
  <1>5. w \in WorkerType /\ mem \in ObjectType /\ ns \in ObjectType /\ cache \in ObjectType
    BY <1>1 DEF TypeOK, WorkerType, mem
  <1>6. Idle.pc = "idle" /\ "idle" \notin Working
    BY DEF Idle, Working
  <1>7. UNCHANGED cache
    BY DEF WorkerStep, AddFinalizer, Start, findOrCreate, Adopt, MarkCreating, createSite,
       CreateSecret, RecordSite, Rollback, Reget, GetSite, UpdateSite, DriftCheck,
       ensureDeployment, ReadOnline, MarkReady, ReportFailure, Cleanup, RemoveFinalizer
  <1>8. ASSUME ns'.gen = ns.gen
        PROVE  \A t \in sites' : t.for <= ns'.gen
    <2>1. \A s \in sites : s.for <= ns.gen
      BY <1>1 DEF VersionInv
    <2>2. SiteCreated => CreatedSite.for <= ns.gen
      <3> SUFFICES ASSUME SiteCreated PROVE CreatedSite.for <= ns.gen
        OBVIOUS
      <3>1. w.pc \in Working /\ ns.exists
        BY <1>1 DEF SiteCreated, createSite, At, Working, PC, WorkerInv, ObjectInv
      <3>2. mem.uid = ns.uid
        BY <1>1, <3>1 DEF VersionInv, Same
      <3>3. ns.uid <= ns.gen
        BY <1>1, <1>5, <3>1 DEF VersionInv, ObjectType
      <3> QED BY <3>2, <3>3 DEF CreatedSite
    <2> QED BY <1>1, <1>8, <2>1, <2>2, ForKept
  <1>9. ASSUME StatusOnly, w.pc \in Working, Version(w'.mem), w'.pc \in Working \/ w' = Idle
        PROVE  VersionInv'
    <2>1. ns'.gen = ns.gen /\ ns'.uid = ns.uid /\ ns'.spec = ns.spec /\ ns'.exists = ns.exists
      BY <1>9 DEF StatusOnly
    <2>2. Same(mem, ns) /\ Same(cache, ns) /\ Same(ns, ns)
      BY <1>1, <1>9 DEF VersionInv, Same
    <2>3. Same(w'.mem, ns)
      BY <1>3, <1>9, <2>2 DEF Version
    <2>4. Same(w'.mem, ns') /\ Same(cache, ns')
      BY <1>4, <2>1, <2>2, <2>3
    <2>5. /\ \A t \in sites' : t.for <= ns'.gen
          /\ cache'.gen <= ns'.gen
          /\ ns'.exists => ns'.uid \in 1..ns'.gen
      BY <1>1, <1>7, <1>8, <2>1 DEF VersionInv
    <2>6. \A a, b : a = w'.mem /\ b = ns' => Same(a, b)'
      BY <1>2, <2>4
    <2>7. \A a, b : a = cache' /\ b = ns' => Same(a, b)'
      BY <1>2, <1>7, <2>4
    <2>8. w'.pc # "finalize"
      BY <1>6, <1>9 DEF Working
    <2>9. Same(mem, ns)' /\ Same(cache, ns)'
      BY <2>6, <2>7 DEF Same, Seen, mem
    <2> QED BY <2>5, <2>8, <2>9 DEF VersionInv
  <1>10. CASE AddFinalizer
    <2>1. /\ w.pc = "finalize" /\ mem.exists
          /\ mem.gen <= ns.gen /\ (ns = mem => Same(cache, mem))
      BY <1>1, <1>10 DEF AddFinalizer, At, VersionInv, WorkerInv
    <2>2. CASE ns' = ns /\ w' = Idle
      <3>1. Held(cache) => Same(cache, ns)'
        <4>1. \A a, b : a = cache' /\ b = ns' /\ Held(cache) => Same(a, b)'
          BY <1>1, <1>2, <1>7, <2>2 DEF VersionInv
        <4> QED BY <4>1 DEF Same, Seen
      <3> QED BY <1>1, <1>6, <1>7, <1>8, <2>2, <3>1 DEF VersionInv, Held
    <2>3. CASE ns' = [mem EXCEPT !.fin = TRUE] /\ ns = mem
      <3>1. ns'.gen = ns.gen /\ ns'.uid = mem.uid /\ ns'.spec = mem.spec /\ ns'.exists
            /\ ns.exists /\ ns.uid = mem.uid
        BY <1>5, <2>1, <2>3 DEF ObjectType
      <3>2. Same(cache, ns') /\ Same(ns', ns')
        BY <1>4, <2>1, <2>3, <3>1 DEF Same
      <3>3. w' = Idle \/ (w'.pc = "start" /\ w'.mem.uid = ns'.uid /\ w'.mem.spec = ns'.spec)
        BY <1>5, <1>10, <3>1 DEF AddFinalizer, Requeue, WorkerType, ObjectType, mem
      <3>4. \A a, b : a = cache' /\ b = ns' => Same(a, b)'
        BY <1>2, <1>7, <3>2
      <3>5. Same(cache, ns)'
        BY <3>4 DEF Same, Seen
      <3>6. w'.pc \in Working => Same(mem, ns)'
        BY <1>6, <3>3 DEF Same, mem
      <3>7. w'.pc # "finalize"
        BY <1>6, <3>3
      <3>8. cache'.gen <= ns'.gen /\ ns'.uid \in 1..ns'.gen
        BY <1>1, <1>7, <3>1 DEF VersionInv
      <3> QED BY <1>8, <3>1, <3>5, <3>6, <3>7, <3>8 DEF VersionInv
    <2> QED BY <1>10, <2>2, <2>3 DEF AddFinalizer, Requeue, Unmodified
  <1>11. CASE Cleanup
    <2>1. ns' = ns /\ (w' = Idle \/ w'.pc = "unfinalize")
      BY <1>5, <1>11 DEF Cleanup, Requeue, Goto, WorkerType
    <2>2. w'.pc # "finalize" /\ w'.pc \notin Working
      BY <1>6, <2>1 DEF Working
    <2>3. Held(cache)' => Same(cache, ns)'
      <3>1. \A a, b : a = cache' /\ b = ns' /\ Held(cache) => Same(a, b)'
        BY <1>1, <1>2, <1>7, <2>1 DEF VersionInv
      <3> QED BY <1>7, <3>1 DEF Same, Seen, Held
    <2> QED BY <1>1, <1>7, <1>8, <2>1, <2>2, <2>3 DEF VersionInv
  <1>12. CASE RemoveFinalizer
    <2>1. w' = Idle /\ ~Held(cache)' /\ (ns' = ns \/ (ns = mem /\ ns' = Gone(mem.gen)))
      BY <1>1, <1>7, <1>12 DEF RemoveFinalizer, At, WorkerInv, Held, Unmodified, Requeue,
         Forget
    <2>2. ns'.gen = ns.gen /\ (ns'.exists => ns' = ns)
      BY <2>1 DEF Gone
    <2>3. w'.pc # "finalize" /\ w'.pc \notin Working
      BY <1>6, <2>1
    <2> QED BY <1>1, <1>7, <1>8, <2>1, <2>2, <2>3 DEF VersionInv
  <1>13. CASE createSite
    <2>1. w.pc \in Working /\ UNCHANGED ns
      BY <1>13 DEF createSite, At, Working, PC
    <2>2. w'.mem = mem /\ w'.pc \in {"fail", "record", "secret"}
      <3>1. \A y \in Why : Fail(y).pc = "fail" /\ Fail(y).mem = mem
        BY IdleType DEF Fail, WorkerType
      <3>2. (\E y \in Why : w' = Fail(y)) \/ (w'.pc \in {"record", "secret"} /\ w'.mem = mem)
        BY <1>5, <1>13 DEF createSite, Refused, Why, WorkerType, mem
      <3> QED BY <3>1, <3>2
    <2>3. StatusOnly /\ Version(w'.mem) /\ w'.pc \in Working
      BY <2>1, <2>2 DEF StatusOnly, KnownSid, Version, Working, PC
    <2> QED BY <1>9, <2>1, <2>3
  <1>14. CASE ~AddFinalizer /\ ~RemoveFinalizer /\ ~Cleanup /\ ~createSite
    <2>1. w.pc \in Working /\ (w' = Idle \/ Ongoing(w')) /\ StatusOnly
      BY <1>1, <1>14, OngoingStep
    <2>2. CASE w' = Idle
      <3>1. ns'.gen = ns.gen /\ ns'.uid = ns.uid /\ ns'.spec = ns.spec /\ ns'.exists = ns.exists
        BY <2>1 DEF StatusOnly
      <3>2. Same(cache, ns')
        BY <1>1, <1>4, <2>1, <3>1 DEF VersionInv
      <3>3. \A a, b : a = cache' /\ b = ns' => Same(a, b)'
        BY <1>2, <1>7, <3>2
      <3>4. Same(cache, ns)'
        BY <3>3 DEF Same, Seen
      <3> QED BY <1>1, <1>6, <1>7, <1>8, <2>2, <3>1, <3>4 DEF VersionInv
    <2>3. CASE Ongoing(w')
      BY <1>9, <2>1, <2>3 DEF Ongoing
    <2> QED BY <2>1, <2>2, <2>3
  <1> QED BY <1>10, <1>11, <1>12, <1>13, <1>14

LEMMA VersionEnvironment ==
  ASSUME NameInv, [Next]_vars, ~WorkerStep
  PROVE  VersionInv'
  <1>1. /\ TypeOK /\ LinkInv /\ ObjectInv /\ WorkerInv /\ VersionInv
        /\ ns \in ObjectType /\ cache \in ObjectType
    BY DEF NameInv, LinkInv, TypeOK
  <1>2. /\ \A a, b : Same(a, b) => Same(a, b)'
        /\ \A a, b, c : Same(a, b) /\ c.uid = b.uid /\ c.spec = b.spec => Same(a, c)
    BY <1>1, SeenKept DEF Same
  <1>3. Idle.pc = "idle" /\ "idle" \notin Working
    BY DEF Idle, Working
  <1>4. ASSUME ns'.gen \in Nat, ns'.gen >= ns.gen
        PROVE  \A t \in sites' : t.for <= ns'.gen
    <2>1. \A s \in sites : s.for <= ns.gen /\ s.for \in Nat
      BY <1>1 DEF VersionInv, TypeOK, SiteType
    <2>2. ~SiteCreated
      BY DEF SiteCreated, WorkerStep
    <2>3. ns.gen \in Nat
      BY <1>1 DEF ObjectType
    <2> SUFFICES ASSUME NEW t \in sites'
                 PROVE  t.for <= ns'.gen
      OBVIOUS
    <2>4. PICK s \in sites : s.for = t.for
      BY <1>1, <2>2, ForKept
    <2>5. s.for <= ns.gen /\ s.for \in Nat
      BY <2>1
    <2> QED BY <1>4, <2>3, <2>4, <2>5
  <1>5. ASSUME UNCHANGED <<ns, cache, w>>
        PROVE  VersionInv'
    <2>1. /\ Held(cache)' => Same(cache, ns)'
          /\ w'.pc = "finalize" => (ns' = mem' => Same(cache, mem)')
          /\ w'.pc \in Working => Same(mem, ns)' /\ Same(cache, ns)'
      <3>1. \A a, b : a = cache' /\ b = ns' /\ Same(cache, ns) => Same(a, b)'
        BY <1>2, <1>5
      <3>2. \A a, b : a = mem' /\ b = ns' /\ Same(mem, ns) => Same(a, b)'
        BY <1>2, <1>5 DEF mem
      <3>3. \A a, b : a = cache' /\ b = mem' /\ Same(cache, mem) => Same(a, b)'
        BY <1>2, <1>5 DEF mem
      <3>4. Same(cache, ns) => Same(cache, ns)'
        BY <3>1 DEF Same, Seen
      <3>5. Same(mem, ns) => Same(mem, ns)'
        BY <3>2 DEF Same, Seen, mem
      <3>6. Same(cache, mem) => Same(cache, mem)'
        BY <3>3 DEF Same, Seen, mem
      <3> QED BY <1>1, <1>5, <3>4, <3>5, <3>6 DEF VersionInv, Held, mem
    <2>2. ns'.gen \in Nat /\ ns'.gen >= ns.gen
      BY <1>1, <1>5 DEF ObjectType
    <2> QED BY <1>1, <1>4, <1>5, <2>1, <2>2 DEF VersionInv, mem
  <1>6. ASSUME ns' = ns, cache' = ns, w' = w \/ w' = Idle
        PROVE  VersionInv'
    <2>1. ns'.gen \in Nat /\ ns'.gen >= ns.gen /\ cache'.gen <= ns'.gen
      BY <1>1, <1>6 DEF ObjectType
    <2>2. Same(cache, ns)'
      BY <1>6 DEF Same
    <2>3. w'.pc \in Working => Same(mem, ns)'
      <3>1. \A a, b : a = mem' /\ b = ns' /\ w' = w /\ Same(mem, ns) => Same(a, b)'
        BY <1>2, <1>6 DEF mem
      <3>2. w' = w /\ Same(mem, ns) => Same(mem, ns)'
        BY <3>1 DEF Same, Seen, mem
      <3> QED BY <1>1, <1>3, <1>6, <3>2 DEF VersionInv
    <2>4. w'.pc = "finalize" => mem'.gen <= ns'.gen /\ (ns' = mem' => Same(cache, mem)')
      <3>1. ns' = mem' => Same(cache, mem)'
        BY <1>6 DEF Same
      <3> QED BY <1>1, <1>3, <1>6, <3>1 DEF VersionInv, mem
    <2> QED BY <1>1, <1>4, <1>6, <2>1, <2>2, <2>3, <2>4 DEF VersionInv
  <1>7. CASE CacheSync
    BY <1>6, <1>7 DEF CacheSync
  <1>8. CASE Reconcile
    <2>1. UNCHANGED <<ns, cache>>
      BY <1>8 DEF Reconcile
    <2>2. ns'.gen \in Nat /\ ns'.gen >= ns.gen
      BY <1>1, <2>1 DEF ObjectType
    <2>3. Same(cache, ns) => Same(cache, ns)'
      <3>1. \A a, b : a = cache' /\ b = ns' /\ Same(cache, ns) => Same(a, b)'
        BY <1>2, <2>1
      <3> QED BY <3>1 DEF Same, Seen
    <2>4. \/ w'.pc = "idle"
          \/ w'.mem = cache /\ w'.pc = "cleanup"
          \/ w'.mem = cache /\ w'.pc = "start" /\ Held(cache)
          \/ w'.mem = cache /\ w'.pc = "finalize"
      <3>1. \A pc : [Idle EXCEPT !.mem = cache, !.pc = pc].mem = cache
                    /\ [Idle EXCEPT !.mem = cache, !.pc = pc].pc = pc
        BY DEF Idle
      <3> QED BY <1>3, <1>8, <3>1 DEF Reconcile, Held
    <2>5. w'.pc \in Working => w'.mem = cache /\ Held(cache)
      BY <2>4 DEF Working
    <2>6. w'.mem = cache => Same(cache, mem)'
      BY <2>1 DEF Same, mem
    <2>7. w'.mem = cache /\ Same(cache, ns)' => Same(mem, ns)'
      BY <2>1 DEF Same, mem
    <2>8. w'.pc \in Working => Same(cache, ns)' /\ Same(mem, ns)'
      BY <1>1, <2>3, <2>5, <2>7 DEF VersionInv
    <2>9. w'.pc = "finalize" => w'.mem = cache
      BY <2>4
    <2>10. w'.pc = "finalize" => mem'.gen <= ns'.gen /\ (ns' = mem' => Same(cache, mem)')
      BY <1>1, <2>1, <2>6, <2>9 DEF VersionInv, mem
    <2> QED BY <1>1, <1>4, <2>1, <2>2, <2>3, <2>8, <2>10 DEF VersionInv, Held
  <1>9. ASSUME NEW s \in Specs, UserCreate(s)
        PROVE  VersionInv'
    <2>1. /\ ns'.gen = ns.gen + 1 /\ ns'.uid = ns'.gen /\ ns.gen \in Nat
          /\ ~ns.exists /\ ~ns.fin /\ UNCHANGED <<cache, w>>
      BY <1>1, <1>9 DEF UserCreate, NewObject, ObjectType, ObjectInv
    <2>2. ~Held(cache) /\ w.pc \notin Working
      BY <1>1, <2>1 DEF ObjectInv, WorkerInv
    <2>3. w.pc = "finalize" => mem.gen <= ns'.gen /\ ns' # mem
      BY <1>1, <2>1 DEF VersionInv, TypeOK, WorkerType, ObjectType, mem
    <2>4. cache'.gen <= ns'.gen /\ ns'.gen \in Nat /\ ns'.gen >= ns.gen
          /\ ns'.uid \in 1..ns'.gen
      BY <1>1, <2>1 DEF VersionInv, ObjectType
    <2> QED BY <1>4, <2>1, <2>2, <2>3, <2>4 DEF VersionInv, Held, mem
  <1>10. ASSUME NEW s \in Specs, UserEdit(s)
         PROVE  VersionInv'
    <2>1. /\ ns'.uid = ns.uid /\ ns'.gen = ns.gen + 1 /\ ns'.exists = ns.exists
          /\ UNCHANGED <<cache, w>> /\ ns.gen \in Nat
          /\ ~Seen({"rename"})' => ns'.spec.name = ns.spec.name
          /\ ~Seen({"retype"})' => ns'.spec.local = ns.spec.local
      BY <1>1, <1>10, EditSeen DEF UserEdit, ObjectType
    <2>2. \A a, b : b = ns' /\ Same(a, ns) => Same(a, b)'
      <3>1. \A a : Same(a, ns) => /\ a.uid = ns'.uid
                                  /\ ~Seen({"rename"})' => a.spec.name = ns'.spec.name
                                  /\ ~Seen({"retype"})' => a.spec.local = ns'.spec.local
        <4>1. \A S : ~Seen(S)' => ~Seen(S)
          BY <1>1, SeenKept
        <4> QED BY <2>1, <4>1 DEF Same
      <3> QED BY <3>1 DEF Same, Seen
    <2>3. Same(cache, ns) => Same(cache, ns)'
      <3>1. \A a, b : a = cache' /\ b = ns' /\ Same(cache, ns) => Same(a, b)'
        BY <2>1, <2>2
      <3> QED BY <3>1 DEF Same, Seen
    <2>4. Same(mem, ns) => Same(mem, ns)'
      <3>1. \A a, b : a = mem' /\ b = ns' /\ Same(mem, ns) => Same(a, b)'
        BY <2>1, <2>2 DEF mem
      <3> QED BY <3>1 DEF Same, Seen, mem
    <2>5. w.pc = "finalize" => mem.gen <= ns'.gen /\ ns' # mem
      BY <1>1, <2>1 DEF VersionInv, TypeOK, WorkerType, ObjectType, mem
    <2>6. cache'.gen <= ns'.gen /\ ns'.gen \in Nat /\ ns'.gen >= ns.gen
          /\ (ns'.exists => ns'.uid \in 1..ns'.gen)
      BY <1>1, <2>1 DEF VersionInv, ObjectType
    <2> QED BY <1>1, <1>4, <2>1, <2>3, <2>4, <2>5, <2>6 DEF VersionInv, Held, mem
  <1>11. CASE UserDelete
    <2>1. ns.exists /\ UNCHANGED <<cache, w>> /\ ns.gen \in Nat
      BY <1>1, <1>11 DEF UserDelete, ObjectType
    <2>2. CASE ns.fin
      <3>1. /\ ns'.uid = ns.uid /\ ns'.gen = ns.gen + 1 /\ ns'.exists = ns.exists
            /\ ns'.spec = ns.spec
        BY <1>1, <1>11, <2>2 DEF UserDelete, ObjectType
      <3>2. Same(cache, ns) => Same(cache, ns)'
        <4>1. \A a, b : a = cache' /\ b = ns' /\ Same(cache, ns) => Same(a, b)'
          BY <1>2, <2>1, <3>1
        <4> QED BY <4>1 DEF Same, Seen
      <3>3. Same(mem, ns) => Same(mem, ns)'
        <4>1. \A a, b : a = mem' /\ b = ns' /\ Same(mem, ns) => Same(a, b)'
          BY <1>2, <2>1, <3>1 DEF mem
        <4> QED BY <4>1 DEF Same, Seen, mem
      <3>4. w.pc = "finalize" => mem.gen <= ns'.gen /\ ns' # mem
        BY <1>1, <2>1, <3>1 DEF VersionInv, TypeOK, WorkerType, ObjectType, mem
      <3>5. cache'.gen <= ns'.gen /\ ns'.gen \in Nat /\ ns'.gen >= ns.gen
            /\ (ns'.exists => ns'.uid \in 1..ns'.gen)
        BY <1>1, <2>1, <3>1 DEF VersionInv, ObjectType
      <3> QED BY <1>1, <1>4, <2>1, <3>2, <3>3, <3>4, <3>5 DEF VersionInv, Held, mem
    <2>3. CASE ~ns.fin
      <3>1. ns' = Gone(ns.gen)
        BY <1>11, <2>3 DEF UserDelete
      <3>2. ~ns'.exists /\ ns'.gen = ns.gen
        BY <3>1 DEF Gone
      <3>3. ~Held(cache) /\ w.pc \notin Working
        BY <1>1, <2>3 DEF ObjectInv, WorkerInv
      <3>4. w.pc = "finalize" => mem.gen <= ns'.gen /\ ns' # mem
        BY <1>1, <3>2 DEF VersionInv, WorkerInv
      <3>5. cache'.gen <= ns'.gen /\ ns'.gen \in Nat /\ ns'.gen >= ns.gen
        BY <1>1, <2>1, <3>2 DEF VersionInv
      <3> QED BY <1>4, <2>1, <3>2, <3>3, <3>4, <3>5 DEF VersionInv, Held, mem
    <2> QED BY <2>2, <2>3
  <1>12. CASE Crash
    BY <1>6, <1>12 DEF Crash
  <1>13. CASE Environment
    BY <1>5, <1>9, <1>10, <1>11, <1>12, <1>13
       DEF Environment, Collect, PodsReady, PodsLost, Drift
  <1>14. CASE UNCHANGED vars
    BY <1>5, <1>14 DEF vars
  <1> QED BY <1>7, <1>8, <1>13, <1>14 DEF Next

LEMMA VersionInvNext == ASSUME NameInv, [Next]_vars PROVE VersionInv'
  BY VersionWorker, VersionEnvironment

-----------------------------------------------------------------------------
(* Where each step of the worker leads. *)

EndPC == {"fail", "deploy", "ready"}

LEMMA PatchPC ==
  ASSUME NEW st, NEW ok \in WorkerType, NEW ko \in WorkerType, patchStatus(st, ok, ko)
  PROVE  w'.pc \in {ok.pc, ko.pc}
  <1> DEFINE new == [ns EXCEPT !.st = Merge(ns.st, mem.st, st)]
  <1>1. \A o : [ok EXCEPT !.mem = o].pc = ok.pc
    BY DEF WorkerType
  <1>2. [ko EXCEPT !.mem.st = st].pc = ko.pc
    BY DEF WorkerType
  <1>3. \/ w' = [ok EXCEPT !.mem = Decoded(new, st)]
        \/ w' = [ko EXCEPT !.mem.st = st]
    BY DEF patchStatus
  <1> HIDE DEF new
  <1> QED BY <1>1, <1>2, <1>3

LEMMA NextPC ==
  ASSUME TypeOK
  PROVE  /\ AddFinalizer => w'.pc \in {"idle", "start"}
         /\ Start => w'.pc \in {"list", "update", "check"}
         /\ findOrCreate => w'.pc \in {"adopt", "creating", "fail"}
         /\ Adopt => w'.pc \in {"reget", "fail"}
         /\ MarkCreating => w'.pc \in {"create", "fail"}
         /\ createSite => w'.pc \in {"record", "secret", "fail"}
         /\ CreateSecret => w'.pc \in {"record", "fail"}
         /\ RecordSite => w'.pc \in {"reget", "rollback"}
         /\ Rollback => w'.pc = "fail"
         /\ Reget => w'.pc \in EndPC
         /\ GetSite => w'.pc \in EndPC \cup {"rename"}
         /\ UpdateSite => w'.pc \in EndPC
         /\ DriftCheck => w'.pc \in EndPC \cup {"idle"}
         /\ ensureDeployment => w'.pc \in {"online", "fail"}
         /\ ReadOnline => w'.pc = "ready"
         /\ MarkReady \/ ReportFailure \/ RemoveFinalizer => w'.pc = "idle"
         /\ Cleanup => w'.pc \in {"idle", "unfinalize"}
  <1>1. w \in WorkerType /\ cache \in ObjectType
    BY DEF TypeOK
  <1>2. \A y \in Why : Fail(y).pc = "fail" /\ Fail(y) \in WorkerType
    BY <1>1, IdleType, FailType DEF Fail, WorkerType
  <1>3. \A pc \in PC : Goto(pc).pc = pc /\ Goto(pc) \in WorkerType
    BY <1>1, GotoType DEF Goto, WorkerType
  <1>4. \A v \in WorkerType : Deploying(v).pc \in EndPC
    BY DEF Deploying, WorkerType, EndPC
  <1>5. Requeue \/ Forget => w'.pc = "idle"
    <2>1. Idle.pc = "idle"
      BY DEF Idle
    <2> QED BY <2>1 DEF Requeue, Forget
  <1>6. Refused => w'.pc = "fail"
    BY <1>2 DEF Refused, Why
  <1>7. /\ Fail("Error").pc = "fail" /\ Fail("Error") \in WorkerType
        /\ Fail("Reset").pc = "fail" /\ "fail" \in EndPC
    BY <1>2 DEF Why, EndPC
  <1>8. AddFinalizer => w'.pc \in {"idle", "start"}
    <2>1. [w EXCEPT !.pc = "start", !.mem.fin = TRUE].pc = "start"
      BY <1>1 DEF WorkerType
    <2> QED BY <1>5, <2>1 DEF AddFinalizer
  <1>9. Start => w'.pc \in {"list", "update", "check"}
    BY <1>3 DEF Start, PC
  <1>10. findOrCreate => w'.pc \in {"adopt", "creating", "fail"}
    <2>1. \A i : [w EXCEPT !.pc = "adopt", !.sid = i].pc = "adopt"
      BY <1>1 DEF WorkerType
    <2>2. Goto("creating").pc = "creating"
      BY <1>3 DEF PC
    <2> QED BY <1>6, <2>1, <2>2 DEF findOrCreate
  <1>11. Adopt => w'.pc \in {"reget", "fail"}
    <2>1. Goto("reget").pc = "reget" /\ Goto("reget") \in WorkerType
      BY <1>3 DEF PC
    <2> QED BY <1>7, <2>1, PatchPC DEF Adopt
  <1>12. MarkCreating => w'.pc \in {"create", "fail"}
    <2>1. Goto("create").pc = "create" /\ Goto("create") \in WorkerType
      BY <1>3 DEF PC
    <2> QED BY <1>7, <2>1, PatchPC DEF MarkCreating
  <1>13. createSite => w'.pc \in {"record", "secret", "fail"}
    BY <1>1, <1>6, <1>7 DEF createSite, WorkerType
  <1>14. CreateSecret => w'.pc \in {"record", "fail"}
    BY <1>3, <1>7 DEF CreateSecret, PC
  <1>15. RecordSite => w'.pc \in {"reget", "rollback"}
    <2>1. /\ Goto("reget").pc = "reget" /\ Goto("reget") \in WorkerType
          /\ Goto("rollback").pc = "rollback" /\ Goto("rollback") \in WorkerType
      BY <1>3 DEF PC
    <2> QED BY <2>1, PatchPC DEF RecordSite
  <1>16. Rollback => w'.pc = "fail"
    BY <1>7 DEF Rollback
  <1>17. Reget => w'.pc \in EndPC
    <2>1. [w EXCEPT !.mem = cache] \in WorkerType
      BY <1>1 DEF WorkerType
    <2> QED BY <1>4, <2>1 DEF Reget
  <1>18. GetSite => w'.pc \in EndPC \cup {"rename"}
    <2>1. Goto("rename").pc = "rename"
      BY <1>3 DEF PC
    <2> QED BY <1>1, <1>4, <1>7, <2>1 DEF GetSite
  <1>19. UpdateSite => w'.pc \in EndPC
    BY <1>1, <1>4, <1>7 DEF UpdateSite
  <1>20. DriftCheck => w'.pc \in EndPC \cup {"idle"}
    BY <1>1, <1>4, <1>5, <1>7 DEF DriftCheck
  <1>21. ensureDeployment => w'.pc \in {"online", "fail"}
    BY <1>3, <1>7 DEF ensureDeployment, PC
  <1>22. ReadOnline => w'.pc = "ready"
    BY <1>1 DEF ReadOnline, WorkerType
  <1>23. MarkReady \/ ReportFailure \/ RemoveFinalizer => w'.pc = "idle"
    BY <1>5 DEF MarkReady, ReportFailure, RemoveFinalizer
  <1>24. Cleanup => w'.pc \in {"idle", "unfinalize"}
    <2>1. Goto("unfinalize").pc = "unfinalize"
      BY <1>3 DEF PC
    <2> QED BY <1>5, <2>1 DEF Cleanup
  <1> QED BY <1>8, <1>9, <1>10, <1>11, <1>12, <1>13, <1>14, <1>15, <1>16, <1>17, <1>18,
             <1>19, <1>20, <1>21, <1>22, <1>23, <1>24

\* What a step that is not the worker's does to the worker.
LEMMA OthersPC ==
  ASSUME [Next]_vars, ~WorkerStep
  PROVE  w' = w \/ w' = Idle \/ Reconcile
  BY DEF Next, CacheSync, Environment, Collect, PodsReady, PodsLost, UserCreate, UserEdit,
         UserDelete, Drift, Crash, vars

LEMMA ReconcilePC ==
  ASSUME Reconcile
  PROVE  /\ w'.pc \in {"idle", "finalize", "start", "cleanup"} /\ w'.sid = 0
         /\ w'.pc # "idle" => w'.mem = cache
  <1>1. \A pc : /\ [Idle EXCEPT !.mem = cache, !.pc = pc].mem = cache
                /\ [Idle EXCEPT !.mem = cache, !.pc = pc].pc = pc
                /\ [Idle EXCEPT !.mem = cache, !.pc = pc].sid = 0
    BY DEF Idle
  <1>2. Idle.pc = "idle" /\ Idle.sid = 0
    BY DEF Idle
  <1> QED BY <1>1, <1>2 DEF Reconcile

-----------------------------------------------------------------------------
(* Names. *)

SiteRenamed ==
  /\ UpdateSite
  /\ sites' = {IF s.id = mem.st.sid THEN [s EXCEPT !.name = mem.spec.name] ELSE s : s \in sites}

LEMMA SitesStep ==
  ASSUME [Next]_vars
  PROVE  sites' \subseteq sites \/ SiteCreated \/ SiteRenamed
  <1>1. UNCHANGED pangolin \/ (\E id : DeleteSite(id)) => sites' \subseteq sites
    BY DEF pangolin, DeleteSite
  <1>2. CASE WorkerStep
    <2>1. CASE AddFinalizer \/ Start \/ findOrCreate \/ Adopt \/ MarkCreating \/ CreateSecret
               \/ RecordSite \/ Reget \/ GetSite \/ DriftCheck \/ ensureDeployment
               \/ ReadOnline \/ MarkReady \/ ReportFailure \/ RemoveFinalizer
      BY <1>1, <2>1 DEF AddFinalizer, Start, findOrCreate, Refused, Adopt, MarkCreating,
         CreateSecret, RecordSite, Reget, GetSite, DriftCheck, ensureDeployment, ReadOnline,
         MarkReady, ReportFailure, RemoveFinalizer
    <2>2. CASE createSite
      BY <1>1, <2>2 DEF createSite, Refused, SiteCreated, CreatedSite
    <2>3. CASE Rollback \/ Cleanup
      BY <1>1, <2>3 DEF Rollback, Cleanup
    <2>4. CASE UpdateSite
      BY <2>4 DEF UpdateSite, SiteRenamed
    <2> QED BY <1>2, <2>1, <2>2, <2>3, <2>4 DEF WorkerStep
  <1>3. CASE Environment
    BY <1>1, <1>3
       DEF Environment, Collect, PodsReady, PodsLost, UserCreate, UserEdit, UserDelete, Drift,
           Crash
  <1>4. CASE CacheSync \/ Reconcile \/ UNCHANGED vars
    BY <1>1, <1>4 DEF CacheSync, Reconcile, vars
  <1> QED BY <1>2, <1>3, <1>4 DEF Next

\* Without an edit of the name a site keeps its name.
LEMMA SitesRetained ==
  ASSUME NameInv, [Next]_vars, ~Seen({"rename"})
  PROVE  \A t \in sites' : t \in sites \/ (SiteCreated /\ t = CreatedSite)
  <1>1. TypeOK /\ VersionInv /\ NamesInv
    BY DEF NameInv, LinkInv
  <1>2. CASE SiteRenamed
    <2>1. w.pc \in Working
      BY <1>2 DEF SiteRenamed, UpdateSite, At, Working, PC
    <2>2. \A s \in sites : s.id = mem.st.sid => s.name = mem.spec.name
      BY <1>1, <2>1 DEF NamesInv, Names, VersionInv, Same
    <2>3. \A s \in sites : s.id = mem.st.sid => [s EXCEPT !.name = mem.spec.name] = s
      BY <1>1, <2>2 DEF TypeOK, SiteType
    <2> QED BY <1>2, <2>3 DEF SiteRenamed
  <1> QED BY <1>2, SitesStep DEF SiteCreated

LEMMA IdsUniqueNext ==
  ASSUME NameInv, [Next]_vars
  PROVE  IdsUnique'
  <1>1. TypeOK /\ IdsUnique /\ \A s \in sites : s.id < nextId /\ s.id \in Nat
    BY DEF NameInv, LinkInv, IdsInv, live, TypeOK, SiteType
  <1>2. nextId \in Nat
    BY <1>1 DEF TypeOK
  <1>3. CASE SiteRenamed
    <2> DEFINE Renamed(s) == IF s.id = mem.st.sid THEN [s EXCEPT !.name = mem.spec.name] ELSE s
    <2>1. \A s \in sites : Renamed(s).id = s.id
      BY <1>1 DEF TypeOK, SiteType
    <2>2. sites' = {Renamed(s) : s \in sites}
      BY <1>3 DEF SiteRenamed
    <2> HIDE DEF Renamed
    <2>3. \A t1, t2 \in sites' : t1.id = t2.id => t1 = t2
      <3> SUFFICES ASSUME NEW t1 \in sites', NEW t2 \in sites', t1.id = t2.id
                   PROVE  t1 = t2
        OBVIOUS
      <3>1. PICK s1 \in sites, s2 \in sites : t1 = Renamed(s1) /\ t2 = Renamed(s2)
        BY <2>2
      <3>2. s1 = s2
        BY <1>1, <2>1, <3>1 DEF IdsUnique
      <3> QED BY <3>1, <3>2
    <2> QED BY <2>3 DEF IdsUnique
  <1>4. CASE SiteCreated
    <2>1. \A s \in sites : s.id # CreatedSite.id
      BY <1>1, <1>2 DEF CreatedSite
    <2> QED BY <1>1, <1>4, <2>1 DEF SiteCreated, IdsUnique
  <1>5. CASE sites' \subseteq sites
    BY <1>1, <1>5 DEF IdsUnique
  <1> QED BY <1>3, <1>4, <1>5, SitesStep

\* What is known of the names of sites stays known.
LEMMA NamesKept ==
  ASSUME NameInv, [Next]_vars, ~Seen({"rename"})
  PROVE  \A i, n : i < nextId /\ i \in Nat /\ Names(i, n) => Names(i, n)'
  <1>1. nextId \in Nat
    BY DEF NameInv, LinkInv, TypeOK
  <1>2. SiteCreated => \A i : i < nextId /\ i \in Nat => CreatedSite.id # i
    BY <1>1 DEF CreatedSite
  <1> QED BY <1>2, SitesRetained DEF Names

\* A step keeps the object, or its name or type is edited, or there is a new object.
Recreated ==
  /\ ~ns.exists /\ ns'.uid = ns.gen + 1 /\ ns'.st.sid = 0
  /\ UNCHANGED <<cache, w, pangolin, owned>>
  /\ ~Seen({"gc"})' => secret = NoSecret

LEMMA ObjectStep ==
  ASSUME NameInv, [Next]_vars, ns'.exists
  PROVE  \/ /\ ns.exists /\ ns'.uid = ns.uid
            /\ ~Seen({"rename"})' => ns'.spec.name = ns.spec.name
            /\ ~Seen({"retype"})' => ns'.spec.local = ns.spec.local
         \/ Recreated
  <1>1. /\ TypeOK /\ LinkInv /\ WorkerInv /\ ns \in ObjectType /\ mem \in ObjectType
        /\ ObjectInv
    BY DEF NameInv, LinkInv, TypeOK, WorkerType, mem
  <1>2. CASE ns' = ns
    BY <1>2
  <1>3. CASE AddFinalizer
    <2>1. CASE ns = mem /\ ns' = [mem EXCEPT !.fin = TRUE]
      BY <1>1, <1>3, <2>1 DEF ObjectType
    <2> QED BY <1>2, <1>3, <2>1 DEF AddFinalizer, Unmodified
  <1>4. CASE RemoveFinalizer
    BY <1>2, <1>4 DEF RemoveFinalizer, Gone
  <1>5. CASE createSite \/ Cleanup
    BY <1>2, <1>5 DEF createSite, Cleanup
  <1>6. CASE WorkerStep /\ ~AddFinalizer /\ ~RemoveFinalizer /\ ~createSite /\ ~Cleanup
    BY <1>1, <1>6, OngoingStep DEF StatusOnly
  <1>7. ASSUME NEW s \in Specs, UserCreate(s)
        PROVE  Recreated
    <2>1. /\ ~ns.exists /\ ns'.uid = ns.gen + 1 /\ ns'.st.sid = 0
          /\ UNCHANGED <<cache, w, pangolin, owned>>
      BY <1>7 DEF UserCreate, NewObject, ZeroStatus
    <2>2. secret # NoSecret => Seen({"gc"})'
      <3>1. owned # <<NoSecret, NoDeployment>> => Note({"gc"})
        BY <1>7 DEF UserCreate
      <3>2. Note({"gc"}) => Seen({"gc"})'
        BY <1>1 DEF Note, Seen, TypeOK
      <3> QED BY <3>1, <3>2 DEF owned
    <2> QED BY <2>1, <2>2 DEF Recreated
  <1>8. ASSUME NEW s \in Specs, UserEdit(s)
        PROVE  /\ ns.exists /\ ns'.uid = ns.uid
               /\ ~Seen({"rename"})' => ns'.spec.name = ns.spec.name
               /\ ~Seen({"retype"})' => ns'.spec.local = ns.spec.local
    BY <1>1, <1>8, EditSeen DEF UserEdit
  <1>9. CASE UserDelete
    <2>1. CASE ns.fin
      BY <1>1, <1>9, <2>1 DEF UserDelete, ObjectType
    <2>2. CASE ~ns.fin
      BY <1>9, <2>2 DEF UserDelete, Gone
    <2> QED BY <2>1, <2>2
  <1>10. CASE Environment
    BY <1>2, <1>7, <1>8, <1>9, <1>10
       DEF Environment, Collect, PodsReady, PodsLost, Drift, Crash
  <1>11. CASE CacheSync \/ Reconcile \/ UNCHANGED vars
    BY <1>2, <1>11 DEF CacheSync, Reconcile, vars
  <1> QED BY <1>3, <1>4, <1>5, <1>6, <1>10, <1>11 DEF Next

LEMMA NamesInvNext ==
  ASSUME NameInv, [Next]_vars, ~Seen({"rename"})'
  PROVE  NamesInv'
  <1>1. /\ TypeOK /\ LinkInv /\ ObjectInv /\ WorkerInv /\ VersionInv /\ VersionInv'
        /\ IdsInv /\ IdsUnique /\ WorkerInv'
    BY VersionInvNext, LinkInvNext DEF NameInv, LinkInv
  <1>2. ~Seen({"rename"}) /\ NamesInv
    BY <1>1, SeenKept DEF NameInv
  <1>3. \A t \in sites' : t \in sites \/ (SiteCreated /\ t = CreatedSite)
    BY <1>2, SitesRetained
  <1>4. /\ w \in WorkerType /\ mem \in ObjectType /\ ns \in ObjectType /\ cache \in ObjectType
        /\ nextId \in Nat \ {0} /\ sites \subseteq SiteType
    BY <1>1 DEF TypeOK, WorkerType, mem
  <1>5. /\ mem.st.sid \in Nat /\ ns.st.sid \in Nat /\ cache.st.sid \in Nat /\ w.sid \in Nat
        /\ 0 < nextId /\ \A s \in sites : s.id \in Nat \ {0} /\ s.id < nextId
    BY <1>1, <1>4 DEF WorkerType, ObjectType, StatusType, SiteType, IdsInv, live
  <1> DEFINE N(i, n) == \A t \in sites' : t.id = i => t.name = n
             Links == N(ns'.st.sid, ns'.spec.name) /\ N(cache'.st.sid, cache'.spec.name)
             Worker == /\ w'.pc = "finalize" => w'.sid = 0
                       /\ w'.pc \in Working => /\ N(w'.mem.st.sid, ns'.spec.name)
                                               /\ N(w'.sid, ns'.spec.name)
             Goal == Links /\ Worker
  <1>6. \A i, n : i < nextId /\ i \in Nat /\ Names(i, n) => N(i, n)
    BY <1>2, NamesKept DEF Names
  <1>7. \A n : N(0, n)
    <2>1. SiteCreated => CreatedSite.id # 0
      BY <1>4 DEF CreatedSite
    <2> QED BY <1>3, <1>5, <2>1
  <1>8. N(ns.st.sid, ns.spec.name) /\ N(cache.st.sid, cache.spec.name)
    BY <1>1, <1>2, <1>5, <1>6 DEF IdsInv, NamesInv
  <1>9. ASSUME w.pc \in Working
        PROVE  \A i : KnownSid(i) => N(i, ns.spec.name)
    <2>1. mem.spec.name = ns.spec.name /\ cache.spec.name = ns.spec.name
      BY <1>1, <1>2, <1>9 DEF VersionInv, Same
    <2>2. N(mem.st.sid, ns.spec.name) /\ N(w.sid, ns.spec.name)
      BY <1>1, <1>2, <1>5, <1>6, <1>9 DEF IdsInv, NamesInv
    <2>3. ASSUME NEW s \in findSite PROVE N(s.id, ns.spec.name)
      <3>1. Names(s.id, ns.spec.name) /\ s.id < nextId /\ s.id \in Nat
        BY <1>1, <1>5, <2>1, <2>3 DEF findSite, Names, IdsUnique
      <3> QED BY <1>6, <3>1
    <2> HIDE DEF N
    <2> QED BY <1>7, <1>8, <2>1, <2>2, <2>3 DEF KnownSid
  <1>10. Idle.pc = "idle" /\ "idle" \notin Working
    BY DEF Idle, Working
  <1>11. ASSUME UNCHANGED w
         PROVE  w.pc \notin Working \/ ns'.spec.name = ns.spec.name => Worker
    BY <1>1, <1>2, <1>5, <1>6, <1>11 DEF IdsInv, NamesInv, mem
  <1> HIDE DEF N
  <1>12. ASSUME WorkerStep, ~AddFinalizer, ~RemoveFinalizer, ~Cleanup, ~createSite
         PROVE  Goal
    <2>1. w.pc \in Working /\ (w' = Idle \/ Ongoing(w')) /\ StatusOnly
      BY <1>1, <1>12, OngoingStep
    <2>2. UNCHANGED cache
      BY <1>12 DEF WorkerStep, Start, findOrCreate, Adopt, MarkCreating, CreateSecret,
         RecordSite, Rollback, Reget, GetSite, UpdateSite, DriftCheck, ensureDeployment,
         ReadOnline, MarkReady, ReportFailure
    <2>3. Links
      BY <1>8, <1>9, <2>1, <2>2 DEF StatusOnly
    <2>4. w'.pc # "finalize"
      BY <1>10, <2>1 DEF Ongoing, Working
    <2>5. Worker
      BY <1>9, <1>10, <2>1, <2>4 DEF StatusOnly, Ongoing
    <2> QED BY <2>3, <2>5
  <1>13. ASSUME createSite PROVE Goal
    <2>1. w.pc \in Working /\ UNCHANGED <<ns, cache>>
      BY <1>13 DEF createSite, At, Working, PC
    <2>2. Links
      BY <1>8, <2>1
    <2>3. \A y \in Why : Fail(y).mem = mem /\ Fail(y).sid = 0
      BY IdleType DEF Fail, WorkerType, Idle
    <2>4. \/ \E y \in Why : w' = Fail(y)
          \/ w'.mem = mem /\ w'.sid = nextId /\ SiteCreated
      BY <1>4, <1>13 DEF createSite, Refused, SiteCreated, CreatedSite, Why, WorkerType, mem
    <2>5. SiteCreated => N(nextId, ns.spec.name)
      <3>1. mem.spec.name = ns.spec.name
        BY <1>1, <1>2, <2>1 DEF VersionInv, Same
      <3>2. \A t \in sites : t.id # nextId
        BY <1>4, <1>5
      <3> QED BY <1>3, <3>1, <3>2 DEF N, CreatedSite
    <2>6. KnownSid(mem.st.sid)
      BY DEF KnownSid
    <2>7. w'.pc \in {"record", "secret", "fail"}
      BY <1>1, <1>13, NextPC
    <2> QED BY <1>7, <1>9, <2>1, <2>2, <2>3, <2>4, <2>5, <2>6, <2>7
  <1>14. ASSUME AddFinalizer PROVE Goal
    <2>1. w.pc = "finalize" /\ w.sid = 0 /\ UNCHANGED cache
      BY <1>1, <1>2, <1>14 DEF AddFinalizer, At, NamesInv
    <2>2. ns'.st.sid = ns.st.sid /\ ns'.spec = ns.spec
      <3>1. CASE ns' = [mem EXCEPT !.fin = TRUE] /\ ns = mem
        BY <1>4, <3>1 DEF ObjectType
      <3> QED BY <1>14, <3>1 DEF AddFinalizer, Unmodified
    <2>3. w' = Idle \/ (w'.mem.st.sid = ns.st.sid /\ w'.sid = 0 /\ w'.pc = "start")
      <3> DEFINE new == [w EXCEPT !.pc = "start", !.mem.fin = TRUE]
      <3>1. new.mem.st = mem.st /\ new.sid = w.sid /\ new.pc = "start"
        BY <1>4 DEF WorkerType, ObjectType, mem
      <3>2. w' = Idle \/ (w' = new /\ ns = mem)
        BY <1>14 DEF AddFinalizer, Unmodified, Requeue
      <3> HIDE DEF new
      <3> QED BY <2>1, <3>1, <3>2
    <2> QED BY <1>7, <1>8, <1>10, <2>1, <2>2, <2>3
  <1>15. ASSUME Cleanup \/ RemoveFinalizer PROVE Goal
    <2>1. w'.pc \in {"idle", "unfinalize"}
      BY <1>1, <1>15, NextPC
    <2>2. UNCHANGED cache /\ (ns' = ns \/ ns'.st.sid = 0)
      <3>1. \A n : Gone(n).st.sid = 0
        BY DEF Gone, ZeroStatus
      <3> QED BY <1>15, <3>1 DEF Cleanup, RemoveFinalizer
    <2> QED BY <1>7, <1>8, <2>1, <2>2 DEF Working
  <1>16. ASSUME Reconcile PROVE Goal
    <2>1. UNCHANGED <<ns, cache>>
      BY <1>16 DEF Reconcile
    <2>2. /\ w'.sid = 0 /\ (w'.pc \in Working => w'.mem = cache)
      BY <1>10, <1>16, ReconcilePC
    <2>3. w'.pc \in Working => w'.mem.spec.name = ns'.spec.name
      <3>1. w'.pc \in Working => Same(mem, ns)'
        BY <1>1 DEF VersionInv
      <3> QED BY <3>1 DEF Same, Seen, mem
    <2> QED BY <1>7, <1>8, <2>1, <2>2, <2>3
  <1>17. ASSUME CacheSync PROVE Goal
    <2>1. UNCHANGED <<ns, w>> /\ cache' = ns
      BY <1>17 DEF CacheSync
    <2> QED BY <1>8, <1>11, <2>1
  <1>18. ASSUME Environment PROVE Goal
    <2>1. ASSUME NEW s \in Specs, UserCreate(s) PROVE Goal
      <3>1. ns'.st.sid = 0 /\ ~ns.exists /\ UNCHANGED <<cache, w>>
        BY <2>1 DEF UserCreate, NewObject, ZeroStatus
      <3>2. w.pc \notin Working
        BY <1>1, <3>1 DEF WorkerInv, ObjectInv
      <3> QED BY <1>7, <1>8, <1>11, <3>1, <3>2
    <2>2. ASSUME NEW s \in Specs, UserEdit(s) PROVE Goal
      <3>1. ns'.st.sid = ns.st.sid /\ ns'.spec.name = ns.spec.name /\ UNCHANGED <<cache, w>>
        BY <1>1, <2>2, EditSeen DEF UserEdit
      <3> QED BY <1>8, <1>11, <3>1
    <2>3. ASSUME UserDelete PROVE Goal
      <3>1. UNCHANGED <<cache, w>>
        BY <2>3 DEF UserDelete
      <3>2. CASE ns.fin
        <4>1. ns'.st.sid = ns.st.sid /\ ns'.spec.name = ns.spec.name
          BY <1>4, <2>3, <3>2 DEF UserDelete, ObjectType
        <4> QED BY <1>8, <1>11, <3>1, <4>1
      <3>3. CASE ~ns.fin
        <4>1. ns'.st.sid = 0 /\ w.pc \notin Working
          BY <1>1, <2>3, <3>3 DEF UserDelete, Gone, ZeroStatus, WorkerInv
        <4> QED BY <1>7, <1>8, <1>11, <3>1, <4>1
      <3> QED BY <3>2, <3>3
    <2>4. ASSUME Crash PROVE Goal
      BY <1>8, <1>10, <2>4 DEF Crash
    <2>5. ASSUME UNCHANGED <<ns, cache, w>> PROVE Goal
      BY <1>8, <1>11, <2>5
    <2> HIDE DEF Goal
    <2> QED BY <1>18, <2>1, <2>2, <2>3, <2>4, <2>5
            DEF Environment, Collect, PodsReady, PodsLost, Drift
  <1>19. ASSUME UNCHANGED vars PROVE Goal
    BY <1>8, <1>11, <1>19 DEF vars
  <1>20. Goal
    <2> HIDE DEF Goal
    <2> QED BY <1>12, <1>13, <1>14, <1>15, <1>16, <1>17, <1>18, <1>19 DEF Next, WorkerStep
  <1>21. ASSUME NEW t \in sites', ns'.exists, t.for = ns'.uid
         PROVE  t.name = ns'.spec.name
    <2>1. CASE SiteCreated /\ t = CreatedSite
      <3>1. UNCHANGED ns /\ w.pc \in Working
        BY <2>1 DEF SiteCreated, createSite, At, Working, PC
      <3>2. mem.spec.name = ns.spec.name
        BY <1>1, <1>2, <3>1 DEF VersionInv, Same
      <3> QED BY <2>1, <3>1, <3>2 DEF CreatedSite
    <2>2. CASE t \in sites
      <3>1. ~Recreated
        BY <1>1, <1>4, <1>21, <2>2 DEF Recreated, VersionInv, ObjectType, SiteType
      <3>2. ns.exists /\ ns'.uid = ns.uid /\ ns'.spec.name = ns.spec.name
        BY <1>21, <3>1, ObjectStep
      <3> QED BY <1>2, <1>21, <2>2, <3>2 DEF NamesInv, Own
    <2> QED BY <1>3, <2>1, <2>2
  <1>22. Names(ns.st.sid, ns.spec.name)' /\ Names(cache.st.sid, cache.spec.name)'
    BY <1>20 DEF N, Names
  <1>23. w'.pc \in Working => Names(mem.st.sid, ns.spec.name)' /\ Names(w.sid, ns.spec.name)'
    BY <1>20 DEF N, Names, mem
  <1> QED BY <1>20, <1>21, <1>22, <1>23 DEF NamesInv, Own

\* Where the worker is when there is no site of that name.
VacantPC == {"creating", "create", "secret"}

LEMMA VacantInvNext ==
  ASSUME NameInv, [Next]_vars, ~Seen({"rename"})'
  PROVE  VacantInv'
  <1>1. /\ TypeOK /\ LinkInv /\ VersionInv /\ VersionInv' /\ w \in WorkerType
    BY VersionInvNext DEF NameInv, LinkInv, TypeOK
  <1>2. ~Seen({"rename"}) /\ VacantInv
    BY <1>1, SeenKept DEF NameInv
  <1>3. \A t \in sites' : t \in sites \/ (SiteCreated /\ t = CreatedSite)
    BY <1>2, SitesRetained
  <1> SUFFICES ASSUME NEW t \in sites', t.name = w'.mem.spec.name, w'.pc \in VacantPC
               PROVE  w'.pc = "secret" /\ t.id = w'.sid
    BY DEF VacantInv, VacantPC, mem
  <1>4. CASE w' = w
    <2>1. ~SiteCreated
      <3>1. createSite => w'.pc \in {"record", "secret", "fail"} /\ w.pc = "create"
        BY <1>1, NextPC DEF createSite, At
      <3> QED BY <1>4, <3>1 DEF SiteCreated
    <2> QED BY <1>2, <1>3, <1>4, <2>1 DEF VacantInv, VacantPC, mem
  <1>5. CASE findOrCreate /\ w' # w
    <2>1. UNCHANGED pangolin
      BY <1>5 DEF findOrCreate, Refused
    <2>2. \A s : [w EXCEPT !.pc = "adopt", !.sid = s.id].pc \notin VacantPC
      BY <1>1 DEF WorkerType, VacantPC
    <2>3. \A y \in Why : Fail(y).pc \notin VacantPC
      BY IdleType DEF Fail, WorkerType, VacantPC
    <2>4. w' = Goto("creating") /\ findSite = {}
      BY <1>5, <2>2, <2>3 DEF findOrCreate, Refused, Why
    <2>5. w'.mem = mem
      BY <1>1, <2>4 DEF Goto, WorkerType, mem
    <2> QED BY <2>1, <2>4, <2>5 DEF findSite, pangolin
  <1>6. CASE MarkCreating
    <2>1. w.pc = "creating" /\ w.pc \in Working /\ UNCHANGED pangolin
      BY <1>6 DEF MarkCreating, At, Working, PC
    <2>2. ns'.spec = ns.spec
      BY <1>1, <1>6, OngoingStep DEF StatusOnly, AddFinalizer, Cleanup, RemoveFinalizer,
         createSite, At, WorkerStep, MarkCreating
    <2>3. Same(mem, ns)'
      BY <1>1 DEF VersionInv, VacantPC, Working, PC
    <2>4. w'.mem.spec.name = mem.spec.name
      <3>1. w'.mem.spec.name = ns'.spec.name
        BY <2>3 DEF Same, Seen, mem
      <3>2. mem.spec.name = ns.spec.name
        BY <1>1, <1>2, <2>1 DEF VersionInv, Same
      <3> QED BY <2>2, <3>1, <3>2
    <2> QED BY <1>2, <2>1, <2>4 DEF VacantInv, pangolin
  <1>7. CASE createSite
    <2>1. \A y \in Why : Fail(y).pc \notin VacantPC
      BY IdleType DEF Fail, WorkerType, VacantPC
    <2>2. /\ w' = [w EXCEPT !.sid = nextId, !.pc = IF mem.spec.local THEN "record" ELSE "secret"]
          /\ w.pc = "create"
      BY <1>7, <2>1 DEF createSite, Refused, Why, At
    <2>3. w'.mem = mem /\ w'.sid = nextId /\ w'.pc \in {"record", "secret"}
      BY <1>1, <2>2 DEF WorkerType, mem
    <2>4. t \notin sites
      BY <1>2, <2>2, <2>3 DEF VacantInv
    <2>5. t.id = nextId
      BY <1>3, <2>4 DEF CreatedSite
    <2> QED BY <2>3, <2>5 DEF VacantPC
  <1>8. CASE WorkerStep /\ ~findOrCreate /\ ~MarkCreating /\ ~createSite
    <2>1. w'.pc \notin VacantPC
      BY <1>1, <1>8, NextPC DEF WorkerStep, VacantPC, EndPC
    <2> QED BY <2>1
  <1>9. CASE ~WorkerStep /\ w' # w
    <2>1. Idle.pc = "idle"
      BY DEF Idle
    <2> QED BY <1>9, <2>1, OthersPC, ReconcilePC DEF VacantPC
  <1> QED BY <1>4, <1>5, <1>6, <1>7, <1>8, <1>9

LEMMA NoDuplicateNext ==
  ASSUME NameInv, [Next]_vars, ~Seen({"rename"})'
  PROVE  NoDuplicateSite'
  <1>1. TypeOK /\ VersionInv
    BY DEF NameInv, LinkInv
  <1>2. ~Seen({"rename"}) /\ VacantInv /\ NoDuplicateSite
    BY <1>1, SeenKept DEF NameInv
  <1>3. \A t \in sites' : t \in sites \/ (SiteCreated /\ t = CreatedSite)
    BY <1>2, SitesRetained
  <1>4. SiteCreated => \A s \in sites : s.name # CreatedSite.name
    BY <1>2 DEF SiteCreated, createSite, At, VacantInv, CreatedSite
  <1> QED BY <1>2, <1>3, <1>4 DEF NoDuplicateSite

LEMMA NameInvInit == Init => NameInv
  <1> SUFFICES ASSUME Init PROVE NameInv
    OBVIOUS
  <1>1. LinkInv
    BY LinkInvInit
  <1>2. Gone(0).st.sid = 0 /\ ~Gone(0).exists /\ ~Gone(0).fin /\ Gone(0).gen = 0
    BY DEF Gone, ZeroStatus
  <1>3. Idle.pc = "idle" /\ Idle.sid = 0 /\ "idle" \notin Working
    BY DEF Idle, Working
  <1>4. sites \subseteq Foreign /\ ns = Gone(0) /\ cache = Gone(0) /\ w = Idle
    BY DEF Init
  <1>5. \A s \in sites : s.for = 0 /\ s.id \in Nat \ {0}
    BY <1>4, ConstantsAssumption DEF SiteType
  <1>6. VersionInv
    BY <1>2, <1>3, <1>4, <1>5 DEF VersionInv, Held
  <1>7. IdsUnique
    BY <1>4, ConstantsAssumption DEF IdsUnique
  <1>8. NamesInv /\ VacantInv
    BY <1>2, <1>3, <1>4, <1>5 DEF NamesInv, Names, Own, VacantInv
  <1>9. NoDuplicateSite
    BY <1>5 DEF NoDuplicateSite
  <1> QED BY <1>1, <1>6, <1>7, <1>8, <1>9 DEF NameInv

LEMMA NameInvNext == NameInv /\ [Next]_vars => NameInv'
  <1> SUFFICES ASSUME NameInv, [Next]_vars PROVE NameInv'
    OBVIOUS
  <1>1. LinkInv' /\ VersionInv' /\ IdsUnique'
    BY LinkInvNext, VersionInvNext, IdsUniqueNext DEF NameInv
  <1>2. ~Seen({"rename"})' => NamesInv' /\ VacantInv' /\ NoDuplicateSite'
    BY NamesInvNext, VacantInvNext, NoDuplicateNext
  <1> QED BY <1>1, <1>2 DEF NameInv

LEMMA NameInvariant == Spec => []NameInv
  BY NameInvInit, NameInvNext, PTL DEF Spec

\* The safety half of adoption by name: findOrCreate lists the sites before createSite
\* is called, and nothing between the list and the call can bring a site of that name.
\* No site that the operator created shares its name with another one, whatever fails,
\* however late the cache is, for any number of sites, re-creations and edits of other fields.
THEOREM CreatedOnce == Spec => []NoDuplicateSite
  <1>1. NameInv => NoDuplicateSite
    BY DEF NameInv, NoDuplicateSite
  <1> QED BY <1>1, NameInvariant, PTL

-----------------------------------------------------------------------------
(* The Secret. *)

\* What does not happen while the Secret is written, and while the worker is in step.
LEMMA NoFault ==
  ASSUME TypeOK, [Next]_vars
  PROVE  /\ Written' => Written /\ ~Fault("apiLost") /\ ~Fault("crash") /\ ~Fault("k8s")
         /\ ~Seen({"lag", "k8sLost"})' =>
              ~Seen({"lag", "k8sLost"}) /\ ~Fault("lag") /\ ~Fault("k8sLost")
  <1>1. /\ \A S : ~Seen(S)' => ~Seen(S)
        /\ \A S : \A k \in S : Fault(k) => Seen(S)'
    BY SeenKept
  <1>2. Written' => ~Fault("apiLost") /\ ~Fault("crash") /\ ~Fault("k8s")
    <2> DEFINE S == {"apiLost", "crash", "k8s", "gc", "retype"}
    <2>1. "apiLost" \in S /\ "crash" \in S /\ "k8s" \in S
      OBVIOUS
    <2>2. Written' => ~Seen(S)'
      BY DEF Written
    <2> HIDE DEF S
    <2> QED BY <1>1, <2>1, <2>2
  <1>3. ~Seen({"lag", "k8sLost"})' => ~Fault("lag") /\ ~Fault("k8sLost")
    <2> DEFINE S == {"lag", "k8sLost"}
    <2>1. "lag" \in S /\ "k8sLost" \in S
      OBVIOUS
    <2> HIDE DEF S
    <2>2. ~Seen(S)' => ~Fault("lag") /\ ~Fault("k8sLost")
      BY <1>1, <2>1
    <2> QED BY <2>2 DEF S
  <1> QED BY <1>1, <1>2, <1>3 DEF Written

LEMMA SecretStep ==
  ASSUME [Next]_vars
  PROVE  UNCHANGED secret \/ CreateSecret \/ Collect
  <1>1. CASE WorkerStep
    BY <1>1 DEF WorkerStep, AddFinalizer, Start, findOrCreate, Adopt, MarkCreating, createSite,
       RecordSite, Rollback, Reget, GetSite, UpdateSite, DriftCheck, ensureDeployment,
       ReadOnline, MarkReady, ReportFailure, Cleanup, RemoveFinalizer, owned
  <1>2. CASE Environment
    BY <1>2 DEF Environment, PodsReady, PodsLost, UserCreate, UserEdit, UserDelete, Drift,
       Crash, owned
  <1>3. CASE CacheSync \/ Reconcile \/ UNCHANGED vars
    BY <1>3 DEF CacheSync, Reconcile, vars, owned
  <1> QED BY <1>1, <1>2, <1>3 DEF Next

\* The garbage collector leaves the Secret of the object that is there alone.
LEMMA CollectKeeps ==
  ASSUME OwnerInv, ns.exists, Collect
  PROVE  UNCHANGED secret
  <1>1. NoSecret.uid = 0
    BY DEF NoSecret
  <1> QED BY <1>1 DEF OwnerInv, Collect, Orphaned

LEMMA OwnerInvNext ==
  ASSUME NameInv, OwnerInv, [Next]_vars, Written'
  PROVE  OwnerInv'
  <1>1. TypeOK /\ VersionInv
    BY DEF NameInv, LinkInv
  <1> SUFFICES ASSUME ns'.exists
               PROVE  secret' = NoSecret \/ secret'.uid = ns'.uid
    BY DEF OwnerInv, NoSecret
  <1>2. CASE Recreated
    <2>1. ~Seen({"gc"})'
      BY DEF Written, Seen
    <2> QED BY <1>2, <2>1 DEF Recreated, owned
  <1>3. CASE ns.exists /\ ns'.uid = ns.uid
    <2>1. CASE CreateSecret
      <3>1. mem.uid = ns.uid
        BY <1>1, <2>1 DEF CreateSecret, At, VersionInv, Same, Working, PC
      <3> DEFINE owner == IF secret = NoSecret THEN mem.uid ELSE secret.uid
      <3>2. owner = ns.uid
        BY <1>3, <3>1 DEF OwnerInv
      <3>3. secret' = [cred |-> w.sid, uid |-> owner] \/ UNCHANGED secret
        BY <2>1 DEF CreateSecret
      <3> HIDE DEF owner
      <3> QED BY <1>3, <3>2, <3>3 DEF OwnerInv
    <2>2. CASE UNCHANGED secret
      BY <1>3, <2>2 DEF OwnerInv
    <2> QED BY <1>3, <2>1, <2>2, SecretStep, CollectKeeps
  <1> QED BY <1>2, <1>3, ObjectStep

\* Every answer of the step that creates a site comes.
LEMMA CreatedOwn ==
  ASSUME TypeOK, SiteCreated, ~Fault("apiLost")
  PROVE  w'.sid = nextId /\ w'.pc = IF mem.spec.local THEN "record" ELSE "secret"
  <1>1. w \in WorkerType /\ nextId \in Nat
    BY DEF TypeOK
  <1>2. UNCHANGED pangolin => nextId' = nextId
    BY DEF pangolin
  <1>3. nextId' # nextId
    BY <1>1 DEF SiteCreated
  <1>4. w' = [w EXCEPT !.sid = nextId, !.pc = IF mem.spec.local THEN "record" ELSE "secret"]
    BY <1>2, <1>3 DEF SiteCreated, createSite, Refused
  <1> QED BY <1>1, <1>4 DEF WorkerType

\* What interrupts the worker.
LEMMA NotInterrupted ==
  ASSUME [Next]_vars, ~WorkerStep, ~Fault("crash"), w.pc # "idle"
  PROVE  w' = w
  BY DEF Next, CacheSync, Reconcile, At, Environment, Collect, PodsReady, PodsLost, UserCreate,
         UserEdit, UserDelete, Drift, Crash, vars

LEMMA KeptInvNext ==
  ASSUME NameInv, OwnerInv, KeptInv, [Next]_vars, Written',
         w.pc = "secret" => \A s \in sites : Own(s) => s.id = w.sid
  PROVE  KeptInv'
  <1>1. /\ TypeOK /\ LinkInv /\ VersionInv /\ ns \in ObjectType /\ w \in WorkerType
        /\ ~Fault("apiLost") /\ ~Fault("crash") /\ ~Fault("k8s") /\ ~Seen({"retype"})
        /\ ~Seen({"retype"})'
    BY NoFault DEF NameInv, LinkInv, TypeOK, Written, Seen
  <1> SUFFICES ASSUME NEW t \in sites', ns'.exists, t.for = ns'.uid, ~ns'.spec.local
               PROVE  secret'.cred = t.id \/ (w'.pc = "secret" /\ w'.sid = t.id)
    BY DEF KeptInv, Own
  <1>2. ~Recreated
    <2>1. Recreated => t \in sites /\ t.for = ns.gen + 1
      BY DEF Recreated, pangolin
    <2> QED BY <1>1, <2>1 DEF VersionInv, ObjectType, TypeOK, SiteType
  <1>3. ns.exists /\ ns'.uid = ns.uid /\ ns'.spec.local = ns.spec.local
    BY <1>1, <1>2, ObjectStep
  <1>4. CASE SiteCreated /\ t = CreatedSite
    <2>1. mem.spec.local = ns.spec.local
      BY <1>1, <1>4 DEF SiteCreated, createSite, At, VersionInv, Same, Working, PC
    <2> QED BY <1>1, <1>3, <1>4, <2>1, CreatedOwn DEF CreatedSite
  <1>5. ASSUME NEW s \in sites, s.id = t.id, s.for = t.for
        PROVE  secret'.cred = t.id \/ (w'.pc = "secret" /\ w'.sid = t.id)
    <2>1. Own(s) /\ (secret.cred = s.id \/ (w.pc = "secret" /\ w.sid = s.id))
      BY <1>3, <1>5 DEF Own, KeptInv
    <2>2. CASE CreateSecret
      <3>1. s.id = w.sid
        BY <2>1, <2>2 DEF CreateSecret, At
      <3>2. secret'.cred = w.sid
        BY <1>1, <2>2 DEF CreateSecret
      <3> QED BY <1>5, <3>1, <3>2
    <2>3. CASE ~CreateSecret
      <3>1. UNCHANGED secret
        BY <1>3, <2>3, SecretStep, CollectKeeps
      <3>2. w.pc = "secret" => ~WorkerStep
        BY <2>3 DEF WorkerStep, At, AddFinalizer, Start, findOrCreate, Adopt, MarkCreating,
           createSite, RecordSite, Rollback, Reget, GetSite, UpdateSite, DriftCheck,
           ensureDeployment, ReadOnline, MarkReady, ReportFailure, Cleanup, RemoveFinalizer
      <3>3. w.pc = "secret" => w' = w
        BY <1>1, <3>2, NotInterrupted
      <3> QED BY <1>5, <2>1, <3>1, <3>3
    <2> QED BY <2>2, <2>3
  <1> QED BY <1>1, <1>4, <1>5, ForKept

-----------------------------------------------------------------------------
(* The worker in step with the status. *)

\* A patch that takes effect and is answered records the status in memory too.
LEMMA PatchInStep ==
  ASSUME TypeOK, NEW st \in StatusType, NEW ok \in WorkerType, NEW ko,
         patchStatus(st, ok, ko), mem.st.sid = ns.st.sid, ~Fault("k8s"), ~Fault("k8sLost")
  PROVE  /\ ns'.st.sid = st.sid /\ w'.mem.st.sid = st.sid
         /\ w'.pc = ok.pc /\ w'.sid = ok.sid
  <1> DEFINE new == [ns EXCEPT !.st = Merge(ns.st, mem.st, st)]
  <1>1. ns \in ObjectType /\ mem.st \in StatusType /\ ns.st \in StatusType
    BY DEF TypeOK, WorkerType, ObjectType, mem
  <1>2. new.st = Merge(ns.st, mem.st, st) /\ new \in ObjectType
    <2>1. Merge(ns.st, mem.st, st) \in StatusType
      BY <1>1, MergeType
    <2> QED BY <1>1, <2>1 DEF ObjectType
  <1>3. Merge(ns.st, mem.st, st).sid = st.sid
    BY DEF Merge, Sent
  <1> HIDE DEF new
  <1>4. Decoded(new, st).st.sid = st.sid
    BY <1>2, <1>3 DEF Decoded, Kept, ObjectType, StatusType
  <1>5. ns' = new /\ w' = [ok EXCEPT !.mem = Decoded(new, st)]
    BY DEF patchStatus, new
  <1> QED BY <1>2, <1>3, <1>4, <1>5 DEF WorkerType

LEMMA ReturnInStep ==
  ASSUME TypeOK, NEW st, patchAndReturn(st), mem.st.sid = ns.st.sid, st.sid = mem.st.sid
  PROVE  ns'.st.sid = ns.st.sid
  <1>1. ns \in ObjectType
    BY DEF TypeOK
  <1>2. Merge(ns.st, mem.st, st).sid = ns.st.sid
    BY DEF Merge, Sent
  <1> QED BY <1>1, <1>2 DEF patchAndReturn, ObjectType

\* A step of the worker keeps it in step; and the link in the status changes only when
\* there was none, or when the site it linked is gone.
LEMMA InStepWorker ==
  ASSUME NameInv, InStep, WorkerStep, Written', ~Seen({"lag", "k8sLost"})'
  PROVE  /\ InStep'
         /\ ns'.exists => \/ ns'.st.sid = ns.st.sid
                          \/ ns.st.sid = 0 /\ (RecordSite => ns'.st.sid = w.sid)
                          \/ ns.st.sid \notin live
  <1> DEFINE Still == ns'.st.sid = ns.st.sid
             Step == /\ w'.pc \in Working => w'.mem.st.sid = ns'.st.sid
                     /\ w'.pc \in UnlinkedPC => w'.mem.st.sid = 0
                     /\ w'.pc = "fail" /\ w'.why = "Reset" => w'.mem.st.sid \notin live'
             Goal == /\ Step
                     /\ ns'.exists => \/ Still
                                      \/ ns.st.sid = 0 /\ (RecordSite => ns'.st.sid = w.sid)
                                      \/ ns.st.sid \notin live
  <1>1. /\ TypeOK /\ LinkInv /\ w \in WorkerType /\ mem \in ObjectType /\ ns \in ObjectType
        /\ cache \in ObjectType /\ mem.st \in StatusType /\ w.sid \in Nat /\ [Next]_vars
        /\ mem.st.sid \in Nat
    BY DEF NameInv, LinkInv, TypeOK, WorkerType, ObjectType, StatusType, Next, mem
  <1>2. /\ ~Fault("apiLost") /\ ~Fault("k8s") /\ ~Fault("lag") /\ ~Fault("k8sLost")
    BY <1>1, NoFault
  <1>3. /\ Idle.pc = "idle" /\ "idle" \notin Working /\ "idle" \notin UnlinkedPC
        /\ UnlinkedPC \subseteq Working
    BY DEF Idle, Working, UnlinkedPC, PC
  <1>4. \A y \in Why : /\ Fail(y).pc = "fail" /\ Fail(y).mem = mem /\ Fail(y).why = y
                       /\ "fail" \notin UnlinkedPC
    BY IdleType DEF Fail, WorkerType, UnlinkedPC
  <1>5. \A pc \in PC : Goto(pc).pc = pc /\ Goto(pc).mem = mem /\ Goto(pc) \in WorkerType
                       /\ Goto(pc).sid = w.sid
    BY <1>1, GotoType DEF Goto, WorkerType, mem
  <1>6. \A v \in WorkerType : Deploying(v).mem = v.mem /\ Deploying(v).pc \in {"deploy", "ready"}
    BY DEF Deploying, WorkerType, EndPC
  <1>7. w.pc \in Working => mem.st.sid = ns.st.sid
    BY DEF InStep
  <1>8. ASSUME w' = Idle PROVE Step
    BY <1>3, <1>8
  <1>9. ASSUME NEW y \in {"Error", "BadRequest"}, w' = Fail(y), UNCHANGED ns, w.pc \in Working
        PROVE  Goal
    BY <1>4, <1>7, <1>9 DEF Why
  <1>10. ASSUME w' = Fail("Reset"), UNCHANGED ns, w.pc \in Working, mem.st.sid \notin live'
         PROVE  Goal
    BY <1>4, <1>7, <1>10 DEF Why
  <1>11. ASSUME Refused, UNCHANGED ns, w.pc \in Working PROVE Goal
    BY <1>9, <1>11 DEF Refused
  <1>12. ASSUME NEW pc \in PC, w' = Goto(pc), UNCHANGED ns, w.pc \in Working, pc # "fail",
                pc \in UnlinkedPC => mem.st.sid = 0
         PROVE  Goal
    BY <1>5, <1>7, <1>12
  <1>13. ASSUME w' = Deploying(w), UNCHANGED ns, w.pc \in Working PROVE Goal
    BY <1>1, <1>6, <1>7, <1>13 DEF UnlinkedPC, mem
  <1>14. ASSUME NEW st \in StatusType, NEW pc \in PC, NEW ko, w.pc \in UnlinkedPC,
                patchStatus(st, Goto(pc), ko), pc # "fail", pc \in UnlinkedPC => st.sid = 0,
                RecordSite => st.sid = w.sid
         PROVE  Goal
    <2>1. w.pc \in Working /\ mem.st.sid = 0 /\ ns.st.sid = 0
      BY <1>3, <1>7, <1>14 DEF InStep
    <2>2. /\ ns'.st.sid = st.sid /\ w'.mem.st.sid = st.sid /\ w'.pc = Goto(pc).pc
      BY <1>1, <1>2, <1>5, <1>14, <2>1, PatchInStep
    <2> QED BY <1>5, <1>14, <2>1, <2>2
  <1> HIDE DEF Goal
  <1>15. ASSUME AddFinalizer PROVE Goal
    <2>1. CASE w' = Idle
      <3>1. ns' = ns \/ (ns = mem /\ ns' = [mem EXCEPT !.fin = TRUE])
        BY <1>15 DEF AddFinalizer, Unmodified
      <3>2. Still
        BY <1>1, <3>1 DEF ObjectType
      <3> QED BY <1>8, <2>1, <3>2 DEF Goal
    <2>2. CASE w' # Idle
      <3> DEFINE new == [w EXCEPT !.pc = "start", !.mem.fin = TRUE]
      <3>1. new.mem.st = mem.st /\ new.pc = "start"
        BY <1>1 DEF WorkerType, ObjectType, mem
      <3>2. w' = new /\ ns = mem /\ ns' = [mem EXCEPT !.fin = TRUE]
        BY <1>15, <2>2 DEF AddFinalizer, Unmodified, Requeue
      <3>3. ns'.st = mem.st
        BY <1>1, <3>2 DEF ObjectType
      <3> HIDE DEF new
      <3> QED BY <3>1, <3>2, <3>3 DEF Goal, UnlinkedPC
    <2> QED BY <2>1, <2>2
  <1>16. ASSUME Start PROVE Goal
    <2> DEFINE pc == IF mem.st.sid = 0 THEN "list"
                     ELSE IF mem.gen # mem.st.obs THEN "update" ELSE "check"
    <2>1. w' = Goto(pc) /\ UNCHANGED ns /\ w.pc \in Working
      BY <1>16 DEF Start, At, Working, PC
    <2>2. pc \in PC /\ pc # "fail" /\ (pc \in UnlinkedPC => mem.st.sid = 0)
      BY DEF PC, UnlinkedPC
    <2> HIDE DEF pc
    <2> QED BY <1>12, <2>1, <2>2
  <1>17. ASSUME findOrCreate PROVE Goal
    <2>1. w.pc = "list" /\ w.pc \in Working /\ UNCHANGED ns /\ mem.st.sid = 0
      BY <1>17 DEF findOrCreate, At, Working, PC, InStep, UnlinkedPC
    <2>2. ASSUME NEW s \in findSite, w' = [w EXCEPT !.pc = "adopt", !.sid = s.id]
          PROVE  Goal
      <3>1. w'.pc = "adopt" /\ w'.mem = mem
        BY <1>1, <2>2 DEF WorkerType, mem
      <3> QED BY <1>7, <2>1, <3>1 DEF Goal
    <2>3. w' = Goto("creating") => Goal
      BY <1>12, <2>1 DEF PC
    <2> QED BY <1>11, <1>17, <2>1, <2>2, <2>3 DEF findOrCreate
  <1>18. ASSUME Adopt PROVE Goal
    <2> DEFINE st == [mem.st EXCEPT !.sid = w.sid, !.phase = "Creating"]
    <2>1. st \in StatusType /\ w.pc \in UnlinkedPC
      BY <1>1, <1>18 DEF StatusType, Phase, Adopt, At, UnlinkedPC
    <2>2. patchStatus(st, Goto("reget"), Fail("Error")) /\ ~RecordSite
      BY <1>18 DEF Adopt, RecordSite, At
    <2> HIDE DEF st
    <2> QED BY <1>14, <2>1, <2>2 DEF PC, UnlinkedPC
  <1>19. ASSUME MarkCreating PROVE Goal
    <2> DEFINE st == [mem.st EXCEPT !.phase = "Creating"]
    <2>1. st \in StatusType /\ w.pc \in UnlinkedPC /\ st.sid = mem.st.sid
      BY <1>1, <1>19 DEF StatusType, Phase, MarkCreating, At, UnlinkedPC
    <2>2. patchStatus(st, Goto("create"), Fail("Error")) /\ ~RecordSite
      BY <1>19 DEF MarkCreating, RecordSite, At
    <2> HIDE DEF st
    <2> QED BY <1>14, <2>1, <2>2 DEF PC, InStep
  <1>20. ASSUME createSite PROVE Goal
    <2>1. w.pc \in Working /\ UNCHANGED ns /\ mem.st.sid = 0
      BY <1>20 DEF createSite, At, Working, PC, InStep, UnlinkedPC
    <2>2. CASE w' = [w EXCEPT !.sid = nextId, !.pc = IF mem.spec.local THEN "record" ELSE "secret"]
      <3>1. w'.mem = mem /\ w'.pc \in {"record", "secret"}
        BY <1>1, <2>2 DEF WorkerType, mem
      <3> QED BY <1>7, <2>1, <3>1 DEF Goal
    <2> QED BY <1>2, <1>11, <1>20, <2>1, <2>2 DEF createSite
  <1>21. ASSUME CreateSecret PROVE Goal
    <2>1. w.pc \in Working /\ UNCHANGED ns /\ mem.st.sid = 0 /\ w' = Goto("record")
      BY <1>2, <1>21 DEF CreateSecret, At, Working, PC, InStep, UnlinkedPC
    <2> QED BY <1>12, <2>1 DEF PC
  <1>22. ASSUME RecordSite PROVE Goal
    <2> DEFINE st == [mem.st EXCEPT !.sid = w.sid]
    <2>1. st \in StatusType /\ w.pc \in UnlinkedPC /\ st.sid = w.sid
      BY <1>1, <1>22 DEF StatusType, RecordSite, At, UnlinkedPC
    <2>2. patchStatus(st, Goto("reget"), Goto("rollback"))
      BY <1>22 DEF RecordSite
    <2> HIDE DEF st
    <2> QED BY <1>14, <2>1, <2>2 DEF PC, UnlinkedPC
  <1>23. ASSUME Rollback PROVE Goal
    <2>1. w.pc \in Working /\ UNCHANGED ns /\ w' = Fail("Error")
      BY <1>23 DEF Rollback, At, Working, PC
    <2> QED BY <1>9, <2>1
  <1>24. ASSUME Reget PROVE Goal
    <2>1. cache = ns /\ UNCHANGED ns /\ w' = Deploying([w EXCEPT !.mem = cache])
      BY <1>2, <1>24 DEF Reget, Get
    <2>2. [w EXCEPT !.mem = cache] \in WorkerType /\ [w EXCEPT !.mem = cache].mem = cache
      BY <1>1 DEF WorkerType
    <2>3. w'.mem = ns /\ w'.pc \in {"deploy", "ready"}
      BY <1>6, <2>1, <2>2
    <2> QED BY <2>1, <2>3 DEF Goal, UnlinkedPC
  <1>25. ASSUME GetSite PROVE Goal
    <2>1. w.pc \in Working /\ UNCHANGED <<ns, pangolin>>
      BY <1>25 DEF GetSite, At, Working, PC
    <2>2. w' = Goto("rename") => Goal
      BY <1>12, <2>1 DEF PC, UnlinkedPC
    <2>3. mem.st.sid \notin live /\ w' = Fail("Reset") => Goal
      BY <1>10, <2>1 DEF live, pangolin
    <2> QED BY <1>9, <1>13, <1>25, <2>1, <2>2, <2>3 DEF GetSite
  <1>26. ASSUME UpdateSite PROVE Goal
    <2>1. w.pc \in Working /\ UNCHANGED ns
      BY <1>26 DEF UpdateSite, At, Working, PC
    <2>2. mem.st.sid \notin live /\ UNCHANGED sites /\ w' = Fail("Reset") => Goal
      BY <1>10, <2>1 DEF live
    <2> QED BY <1>2, <1>9, <1>13, <1>26, <2>1, <2>2 DEF UpdateSite
  <1>27. ASSUME DriftCheck PROVE Goal
    <2>1. w.pc \in Working /\ UNCHANGED <<ns, pangolin>>
      BY <1>27 DEF DriftCheck, At, Working, PC
    <2>2. mem.st.sid \notin live /\ w' = Fail("Reset") => Goal
      BY <1>10, <2>1 DEF live, pangolin
    <2>3. w' = Idle => Goal
      BY <1>8, <2>1 DEF Goal
    <2> QED BY <1>13, <1>27, <2>1, <2>2, <2>3 DEF DriftCheck, Requeue
  <1>28. ASSUME ensureDeployment PROVE Goal
    <2>1. w.pc \in Working /\ UNCHANGED ns
      BY <1>28 DEF ensureDeployment, At, Working, PC
    <2>2. w' = Goto("online") => Goal
      BY <1>12, <2>1 DEF PC, UnlinkedPC
    <2> QED BY <1>9, <1>28, <2>1, <2>2 DEF ensureDeployment
  <1>29. ASSUME ReadOnline PROVE Goal
    <2>1. w.pc \in Working /\ UNCHANGED ns /\ w' = [w EXCEPT !.pc = "ready", !.online = dep.pods]
      BY <1>29 DEF ReadOnline, At, Working, PC
    <2>2. w'.mem = mem /\ w'.pc = "ready"
      BY <1>1, <2>1 DEF WorkerType, mem
    <2> QED BY <1>7, <2>1, <2>2 DEF Goal, UnlinkedPC
  <1>30. ASSUME MarkReady PROVE Goal
    <2> DEFINE st == [mem.st EXCEPT !.phase = "Ready", !.obs = mem.gen, !.online = w.online,
                        !.cond = [reason |-> "Reconciled", gen |-> mem.gen]]
    <2>1. w.pc \in Working /\ patchAndReturn(st) /\ w' = Idle
      BY <1>30 DEF MarkReady, At, Working, PC, Requeue
    <2>2. st.sid = mem.st.sid
      BY <1>1 DEF StatusType
    <2> HIDE DEF st
    <2>3. Still
      BY <1>1, <1>7, <2>1, <2>2, ReturnInStep
    <2> QED BY <1>8, <2>1, <2>3 DEF Goal
  <1>31. ASSUME ReportFailure PROVE Goal
    <2>1. w.pc = "fail" /\ w.pc \in Working /\ patchAndReturn(FailureStatus) /\ w' = Idle
      BY <1>31 DEF ReportFailure, At, Working, PC, Requeue, Forget
    <2>2. CASE w.why = "Reset"
      BY <1>7, <1>8, <2>1, <2>2 DEF Goal, InStep
    <2>3. CASE w.why # "Reset"
      <3>1. FailureStatus.sid = mem.st.sid
        BY <1>1, <2>3 DEF FailureStatus, StatusType
      <3>2. Still
        BY <1>1, <1>7, <2>1, <3>1, ReturnInStep
      <3> QED BY <1>8, <2>1, <3>2 DEF Goal
    <2> QED BY <2>2, <2>3
  <1>32. ASSUME Cleanup \/ RemoveFinalizer PROVE Goal
    <2>1. w'.pc \in {"idle", "unfinalize"}
      BY <1>1, <1>32, NextPC
    <2>2. ns'.exists => ns' = ns
      BY <1>32 DEF Cleanup, RemoveFinalizer, Gone
    <2> QED BY <2>1, <2>2 DEF Goal, Working, UnlinkedPC
  <1>33. Goal
    BY <1>15, <1>16, <1>17, <1>18, <1>19, <1>20, <1>21, <1>22, <1>23, <1>24, <1>25, <1>26,
       <1>27, <1>28, <1>29, <1>30, <1>31, <1>32 DEF WorkerStep
  <1> QED BY <1>33 DEF Goal, InStep, mem

LEMMA InStepEnvironment ==
  ASSUME NameInv, InStep, [Next]_vars, ~WorkerStep, ~Seen({"lag", "k8sLost"})'
  PROVE  /\ InStep'
         /\ ns.exists /\ ns'.exists => ns'.st.sid = ns.st.sid
  <1> DEFINE Still == ns'.st.sid = ns.st.sid
             Goal == InStep' /\ (ns.exists /\ ns'.exists => Still)
  <1>1. /\ TypeOK /\ LinkInv /\ ObjectInv /\ WorkerInv /\ ns \in ObjectType /\ ~Fault("lag")
        /\ \A i \in live : i < nextId
    BY NoFault DEF NameInv, LinkInv, IdsInv, TypeOK
  <1>2. Idle.pc = "idle" /\ "idle" \notin Working /\ UnlinkedPC \subseteq Working
    BY DEF Idle, Working, UnlinkedPC, PC
  <1>3. live' \subseteq live
    <2>1. ~SiteCreated
      BY DEF SiteCreated, WorkerStep
    <2> QED BY <1>1, <2>1, PangolinStep, LiveStep
  <1>4. ASSUME UNCHANGED w, w.pc \in Working => Still PROVE InStep'
    BY <1>3, <1>4 DEF InStep, mem
  <1>5. ASSUME w' = Idle PROVE InStep'
    BY <1>2, <1>5 DEF InStep
  <1>6. ASSUME UNCHANGED <<ns, w>> PROVE Goal
    BY <1>4, <1>6
  <1>7. ASSUME Reconcile PROVE Goal
    <2>1. UNCHANGED ns /\ cache = ns
      BY <1>1, <1>7 DEF Reconcile, Get
    <2> QED BY <1>7, <2>1, ReconcilePC DEF InStep, UnlinkedPC, Working, mem
  <1>8. ASSUME NEW s \in Specs, UserCreate(s) PROVE Goal
    <2>1. ~ns.exists /\ w.pc \notin Working /\ UNCHANGED w
      BY <1>1, <1>8 DEF UserCreate, ObjectInv, WorkerInv
    <2> QED BY <1>4, <2>1
  <1>9. ASSUME NEW s \in Specs, UserEdit(s) PROVE Goal
    <2>1. Still /\ UNCHANGED w
      BY <1>1, <1>9, EditSeen DEF UserEdit
    <2> QED BY <1>4, <2>1
  <1>10. ASSUME UserDelete PROVE Goal
    <2>1. UNCHANGED w
      BY <1>10 DEF UserDelete
    <2>2. CASE ns.fin
      <3>1. Still
        BY <1>1, <1>10, <2>2 DEF UserDelete, ObjectType
      <3> QED BY <1>4, <2>1, <3>1
    <2>3. CASE ~ns.fin
      <3>1. ~ns'.exists /\ w.pc \notin Working
        BY <1>1, <1>10, <2>3 DEF UserDelete, Gone, WorkerInv
      <3> QED BY <1>4, <2>1, <3>1
    <2> QED BY <2>2, <2>3
  <1>11. ASSUME Crash PROVE Goal
    BY <1>5, <1>11 DEF Crash
  <1> HIDE DEF Goal
  <1>12. ASSUME Environment PROVE Goal
    BY <1>6, <1>8, <1>9, <1>10, <1>11, <1>12
       DEF Environment, Collect, PodsReady, PodsLost, Drift
  <1>13. ASSUME CacheSync \/ UNCHANGED vars PROVE Goal
    BY <1>6, <1>13 DEF CacheSync, vars
  <1>14. Goal
    BY <1>7, <1>12, <1>13 DEF Next
  <1> QED BY <1>14 DEF Goal

LEMMA TrackedInvNext ==
  ASSUME NameInv, InStep, TrackedInv, [Next]_vars, Written', ~Seen({"lag", "k8sLost"})'
  PROVE  TrackedInv'
  <1>1. /\ TypeOK /\ LinkInv /\ VersionInv /\ ns \in ObjectType /\ w \in WorkerType
        /\ ~Fault("apiLost") /\ ~Fault("crash") /\ ~Fault("k8s") /\ ~Fault("k8sLost")
    BY NoFault DEF NameInv, LinkInv, TypeOK
  <1> SUFFICES ASSUME NEW t \in sites', ns'.exists, t.for = ns'.uid
               PROVE  t.id = ns'.st.sid \/ (w'.pc \in {"secret", "record"} /\ w'.sid = t.id)
    BY DEF TrackedInv, Own
  <1>2. ~Recreated
    <2>1. Recreated => t \in sites /\ t.for = ns.gen + 1
      BY DEF Recreated, pangolin
    <2> QED BY <1>1, <2>1 DEF VersionInv, ObjectType, TypeOK, SiteType
  <1>3. ns.exists /\ ns'.uid = ns.uid
    BY <1>1, <1>2, ObjectStep
  <1>4. CASE SiteCreated /\ t = CreatedSite
    BY <1>1, <1>4, CreatedOwn DEF CreatedSite
  <1>5. ASSUME NEW s \in sites, s.id = t.id, s.for = t.for
        PROVE  t.id = ns'.st.sid \/ (w'.pc \in {"secret", "record"} /\ w'.sid = t.id)
    <2>1. s.id = ns.st.sid \/ (w.pc \in {"secret", "record"} /\ w.sid = s.id)
      BY <1>3, <1>5 DEF Own, TrackedInv
    <2>2. s.id \in live /\ s.id # 0
      BY <1>1 DEF live, TypeOK, SiteType
    <2>3. CASE s.id = ns.st.sid
      <3>1. ns'.st.sid = ns.st.sid
        BY <1>3, <2>2, <2>3, InStepWorker, InStepEnvironment
      <3> QED BY <1>5, <2>3, <3>1
    <2>4. CASE w.pc \in {"secret", "record"} /\ w.sid = s.id
      <3>1. CASE RecordSite
        <4> DEFINE st == [mem.st EXCEPT !.sid = w.sid]
        <4>1. mem.st.sid = ns.st.sid
          BY <2>4 DEF InStep, Working, PC
        <4>2. patchStatus(st, Goto("reget"), Goto("rollback"))
          BY <3>1 DEF RecordSite
        <4>3. st \in StatusType /\ st.sid = w.sid /\ Goto("reget") \in WorkerType
          <5>1. mem.st \in StatusType /\ w.sid \in Nat /\ w \in WorkerType
            BY <1>1 DEF TypeOK, WorkerType, ObjectType, mem
          <5>2. st \in StatusType /\ st.sid = w.sid
            BY <5>1 DEF StatusType
          <5>3. "reget" \in PC
            BY DEF PC
          <5> QED BY <5>1, <5>2, <5>3, GotoType
        <4> HIDE DEF st
        <4>4. ns'.st.sid = w.sid
          BY <1>1, <4>1, <4>2, <4>3, PatchInStep
        <4> QED BY <1>5, <2>4, <4>4
      <3>2. CASE CreateSecret
        <4>1. w' = Goto("record")
          BY <1>1, <3>2 DEF CreateSecret
        <4> QED BY <1>1, <1>5, <2>4, <4>1 DEF Goto, WorkerType
      <3>3. CASE ~WorkerStep
        BY <1>1, <1>5, <2>4, <3>3, NotInterrupted
      <3> QED BY <2>4, <3>1, <3>2, <3>3
              DEF WorkerStep, At, AddFinalizer, Start, findOrCreate, Adopt, MarkCreating,
                  createSite, Rollback, Reget, GetSite, UpdateSite, DriftCheck,
                  ensureDeployment, ReadOnline, MarkReady, ReportFailure, Cleanup,
                  RemoveFinalizer
    <2> QED BY <2>1, <2>3, <2>4
  <1> QED BY <1>1, <1>4, <1>5, ForKept

-----------------------------------------------------------------------------
(* CredentialsKept. *)

\* At the write of the Secret the site it is for is the only one of the object: none else
\* has its name, or the worker is in step and none is linked yet.
LEMMA OneAtSecret ==
  ASSUME NameInv, w.pc = "secret",
         ~Seen({"rename"}) \/ (InStep /\ TrackedInv)
  PROVE  \A s \in sites : Own(s) => s.id = w.sid
  <1>1. TypeOK /\ VersionInv /\ w.pc \in Working
    BY DEF NameInv, LinkInv, Working, PC
  <1>2. ASSUME ~Seen({"rename"}), NEW s \in sites, Own(s)
        PROVE  s.id = w.sid
    <2>1. s.name = ns.spec.name /\ mem.spec.name = ns.spec.name
      BY <1>1, <1>2 DEF NameInv, NamesInv, VersionInv, Same
    <2> QED BY <1>2, <2>1 DEF NameInv, VacantInv
  <1>3. ASSUME InStep, TrackedInv, NEW s \in sites, Own(s)
        PROVE  s.id = w.sid
    <2>1. ns.st.sid = 0
      BY <1>1, <1>3 DEF InStep, UnlinkedPC
    <2>2. s.id # 0
      BY <1>1 DEF TypeOK, SiteType
    <2> QED BY <1>3, <2>1, <2>2 DEF TrackedInv
  <1> QED BY <1>2, <1>3

LEMMA CredInvInit == Init => CredInv
  <1> SUFFICES ASSUME Init PROVE CredInv
    OBVIOUS
  <1>1. NameInv
    BY NameInvInit
  <1>2. ~Gone(0).exists
    BY DEF Gone
  <1>3. ~ns.exists /\ w = Idle
    BY <1>2 DEF Init
  <1>4. Idle.pc = "idle" /\ "idle" \notin Working
    BY DEF Idle, Working
  <1>5. OwnerInv /\ KeptInv /\ InStep /\ TrackedInv
    BY <1>3, <1>4 DEF OwnerInv, KeptInv, InStep, TrackedInv, Own, UnlinkedPC
  <1> QED BY <1>1, <1>5 DEF CredInv

LEMMA CredInvNext == CredInv /\ [Next]_vars => CredInv'
  <1> SUFFICES ASSUME CredInv, [Next]_vars PROVE CredInv'
    OBVIOUS
  <1>1. NameInv /\ TypeOK /\ NameInv'
    BY NameInvNext DEF CredInv, NameInv, LinkInv
  <1>2. /\ Written' => Written /\ OwnerInv
        /\ ~Seen({"rename"})' => ~Seen({"rename"})
        /\ ~Seen({"lag", "k8sLost"})' => ~Seen({"lag", "k8sLost"})
    BY <1>1, NoFault, SeenKept DEF CredInv
  <1>3. Written' => OwnerInv'
    BY <1>1, <1>2, OwnerInvNext
  <1>4. ASSUME Written', ~Seen({"rename"})'
        PROVE  KeptInv'
    BY <1>1, <1>2, <1>4, OneAtSecret, KeptInvNext DEF CredInv
  <1>5. ASSUME Written', ~Seen({"lag", "k8sLost"})'
        PROVE  InStep' /\ TrackedInv' /\ KeptInv'
    <2>1. InStep /\ TrackedInv /\ KeptInv /\ OwnerInv
      BY <1>2, <1>5 DEF CredInv
    <2>2. InStep'
      BY <1>1, <1>5, <2>1, InStepWorker, InStepEnvironment
    <2>3. TrackedInv'
      BY <1>1, <1>5, <2>1, TrackedInvNext
    <2>4. KeptInv'
      BY <1>1, <1>5, <2>1, OneAtSecret, KeptInvNext
    <2> QED BY <2>2, <2>3, <2>4
  <1> QED BY <1>1, <1>3, <1>4, <1>5 DEF CredInv

LEMMA CredInvariant == Spec => []CredInv
  BY CredInvInit, CredInvNext, PTL DEF Spec

\* createSite writes the Secret before it records the site, so that a site of the object
\* has its credentials there from then on: whatever is deleted in Pangolin, whenever the
\* object is re-created or edited, and however late the cache is as long as the name stays.
\* A site of a name given up is forgotten by the reconciler only if an answer does not come
\* or its status is read too early, which is why a rename needs both.
THEOREM CredentialsFollow == Spec => []CredentialsKept
  <1>1. CredInv => CredentialsKept
    <2> SUFFICES ASSUME CredInv, Written, ~Seen({"rename"}) \/ ~Seen({"lag", "k8sLost"})
                 PROVE  CredentialsUsable
      BY DEF CredentialsKept, Written
    <2>1. KeptInv
      BY DEF CredInv
    <2> QED BY <2>1 DEF CredentialsUsable, Settled, KeptInv, Own
  <1> QED BY <1>1, CredInvariant, PTL
=============================================================================
