-------------------- MODULE PublicResourceChildrenProofs --------------------
(***************************************************************************)
(* The targets and rules that PublicResource creates, replaces and lists:  *)
(* proofs for every value of the constants.                                *)
(***************************************************************************)
EXTENDS PublicResourceCreateProofs

-----------------------------------------------------------------------------
(* What the statuses and the worker list. *)

\* An identifier that was handed out, and to no child of another kind than k.
OldKid(i, k) == i < nextId /\ \A x \in kids : x.id = i => x.kind = k

KidIds(k) == {i \in Nat : OldKid(i, k)}

Lists(st) == \A k \in Kind : st.ids[k] \subseteq KidIds(k)

\* Targets are listed as targets and rules as rules, and nothing is listed before it
\* is there.
ListInv ==
  /\ \A c \in CR : Lists(cr[c].st) /\ Lists(cache[c].st)
  /\ Lists(mem.st)
  /\ \A k \in Kind : w.got[k] \subseteq KidIds(k)
  /\ w.old \subseteq KidIds(w.kind)

\* The same with what this step creates.
StepIds(k) == KidIds(k) \cup {i \in {nextId} : KidCreated /\ k = w.kind}

StepLists(st) == \A k \in Kind : st.ids[k] \subseteq StepIds(k)

HasKids(v) ==
  /\ StepLists(v.mem.st)
  /\ \A k \in Kind : v.got[k] \subseteq StepIds(k)
  /\ v.old \subseteq StepIds(v.kind)

LEMMA KidIdsStep ==
  ASSUME TypeOK, IdsInv, [Next]_vars
  PROVE  \A k \in Kind : StepIds(k) \subseteq KidIds(k)'
  <1> SUFFICES ASSUME NEW k \in Kind, NEW i \in StepIds(k)
               PROVE  i \in Nat /\ OldKid(i, k)'
    BY DEF KidIds
  <1>1. nextId \in Nat /\ i \in Nat
    BY DEF StepIds, KidIds, TypeOK
  <1>2. CASE Shrinks
    <2>1. ~KidCreated
      BY <1>1, <1>2 DEF Shrinks, KidCreated
    <2> QED BY <1>1, <1>2, <2>1 DEF Shrinks, StepIds, KidIds, OldKid
  <1>3. CASE ResourceCreated
    <2>1. ~KidCreated
      BY <1>3 DEF KidCreated, ResourceCreated, createResource, At
    <2> QED BY <1>1, <1>3, <2>1 DEF ResourceCreated, StepIds, KidIds, OldKid
  <1>4. CASE KidCreated
    <2>1. PICK j \in Item : kids' = kids \cup {Kid(j)}
      BY <1>4 DEF KidCreated
    <2>2. Kid(j).id = nextId /\ Kid(j).kind = w.kind
      BY DEF Kid
    <2>3. \A x \in kids : x.id # nextId
      BY <1>1 DEF IdsInv, TypeOK, KidType
    <2>4. CASE i \in KidIds(k)
      BY <1>1, <1>4, <2>1, <2>2, <2>4 DEF KidCreated, KidIds, OldKid
    <2>5. CASE i = nextId /\ k = w.kind
      BY <1>1, <1>4, <2>1, <2>2, <2>3, <2>5 DEF KidCreated, OldKid
    <2> QED BY <1>1, <2>4, <2>5 DEF StepIds
  <1> QED BY <1>2, <1>3, <1>4, PangolinStep

LEMMA PatchLists ==
  ASSUME TypeOK, ListInv, NEW st \in StatusType, NEW ok \in WorkerType, NEW ko \in WorkerType,
         StepLists(st), HasKids(ok), HasKids(ko), patchStatus(st, ok, ko)
  PROVE  (\A c \in CR : StepLists(cr'[c].st)) /\ HasKids(w')
  <1> DEFINE new == [cr[c0] EXCEPT !.st = Merge(cr[c0].st, mem.st, st)]
  <1>1. c0 \in CR /\ cr[c0] \in ObjectType /\ cr \in [CR -> ObjectType]
    BY DEF TypeOK, WorkerType, c0
  <1>2. \A c \in CR : StepLists(cr[c].st)
    BY DEF ListInv, Lists, StepLists, StepIds
  <1>3. StepLists(Merge(cr[c0].st, mem.st, st))
    BY <1>1, <1>2 DEF StepLists, Merge, Sent
  <1>4. new.st = Merge(cr[c0].st, mem.st, st)
    BY <1>1 DEF ObjectType
  <1>5. new \in [exists : BOOLEAN, del : BOOLEAN, fin : BOOLEAN, gen : Nat,
                 spec : SpecType, st : {Merge(cr[c0].st, mem.st, st)}]
    BY <1>1 DEF ObjectType
  <1>6. Decoded(new, st).st = DecodedStatus(st, new.st)
    BY <1>5 DEF Decoded
  <1>7. StepLists(Decoded(new, st).st)
    <2> SUFFICES ASSUME NEW k \in Kind PROVE Decoded(new, st).st.ids[k] \subseteq StepIds(k)
      BY DEF StepLists
    <2>1. new.st.ids[k] \subseteq StepIds(k) /\ st.ids[k] \subseteq StepIds(k)
      BY <1>3, <1>4 DEF StepLists
    <2>2. Decoded(new, st).st.ids[k] \in {st.ids[k], new.st.ids[k]}
      <3>1. \A a, b : DecodedStatus(a, b).ids[k] \in {a.ids[k], b.ids[k]}
        BY DEF DecodedStatus, Kept
      <3> HIDE DEF new
      <3> QED BY <1>6, <3>1
    <2> QED BY <2>1, <2>2
  <1>8. LET v == [ok EXCEPT !.mem = Decoded(new, st)]
        IN  v.mem = Decoded(new, st) /\ v.got = ok.got /\ v.old = ok.old /\ v.kind = ok.kind
    BY DEF WorkerType
  <1>9. LET v == [ko EXCEPT !.mem.st = st]
        IN  v.mem.st = st /\ v.got = ko.got /\ v.old = ko.old /\ v.kind = ko.kind
    BY DEF WorkerType, ObjectType
  <1>10. cr' = cr \/ cr' = [cr EXCEPT ![c0] = new]
    BY DEF patchStatus
  <1>11. w' = [ok EXCEPT !.mem = Decoded(new, st)] \/ w' = [ko EXCEPT !.mem.st = st]
    BY DEF patchStatus
  <1> HIDE DEF new
  <1>12. \A c \in CR : StepLists(cr'[c].st)
    BY <1>1, <1>2, <1>3, <1>4, <1>10
  <1>13. HasKids(w')
    <2>1. CASE w' = [ok EXCEPT !.mem = Decoded(new, st)]
      BY <1>7, <1>8, <2>1 DEF HasKids
    <2>2. CASE w' = [ko EXCEPT !.mem.st = st]
      BY <1>9, <2>2 DEF HasKids
    <2> QED BY <1>11, <2>1, <2>2
  <1> QED BY <1>12, <1>13

LEMMA ReturnLists ==
  ASSUME TypeOK, ListInv, NEW st \in StatusType, StepLists(st), patchAndReturn(st)
  PROVE  \A c \in CR : StepLists(cr'[c].st)
  <1>1. c0 \in CR /\ cr[c0] \in ObjectType /\ cr \in [CR -> ObjectType]
    BY DEF TypeOK, WorkerType, c0
  <1>2. \A c \in CR : StepLists(cr[c].st)
    BY DEF ListInv, Lists, StepLists, StepIds
  <1>3. StepLists(Merge(cr[c0].st, mem.st, st))
    BY <1>1, <1>2 DEF StepLists, Merge, Sent
  <1>4. cr' = cr \/ cr' = [cr EXCEPT ![c0].st = Merge(@, mem.st, st)]
    BY DEF patchAndReturn
  <1>5. CASE cr' = [cr EXCEPT ![c0].st = Merge(@, mem.st, st)]
    BY <1>1, <1>2, <1>3, <1>5 DEF ObjectType
  <1> QED BY <1>2, <1>4, <1>5

LEMMA ListStep ==
  ASSUME TypeOK, IdsInv, ListInv, [Next]_vars
  PROVE  /\ \A c \in CR : StepLists(cr'[c].st) /\ StepLists(cache'[c].st)
         /\ HasKids(w')
  <1> DEFINE Goal == /\ \A c \in CR : StepLists(cr'[c].st) /\ StepLists(cache'[c].st)
                     /\ HasKids(w')
  <1>1. /\ w \in WorkerType /\ c0 \in CR /\ mem \in ObjectType /\ mem.st \in StatusType
        /\ mem.spec \in SpecType /\ cr \in [CR -> ObjectType] /\ cache[c0] \in ObjectType
        /\ w.kind \in Kind /\ w.got \in [Kind -> SUBSET Nat] /\ w.rid \in Nat
        /\ w.dom \in Seq(Char) /\ mem.gen \in Nat
    BY DEF TypeOK, WorkerType, ObjectType, c0, mem
  <1>2. /\ \A c \in CR : StepLists(cr[c].st) /\ StepLists(cache[c].st)
        /\ StepLists(mem.st) /\ HasKids(w)
        /\ \A k \in Kind : w.got[k] \subseteq StepIds(k)
    BY <1>1 DEF ListInv, Lists, StepLists, StepIds, HasKids, mem
  <1>3. StepLists(ZeroStatus) /\ \A n : Gone(n).st = ZeroStatus
    BY DEF StepLists, ZeroStatus, Gone
  <1>4. /\ Idle.mem.st = ZeroStatus /\ Idle.old = {} /\ \A k \in Kind : Idle.got[k] = {}
    BY <1>3 DEF Idle
  <1>5. HasKids(Idle)
    BY <1>3, <1>4 DEF HasKids
  <1>6. ASSUME NEW v, HasKids(v) PROVE HasKids(Ready(v))
    <2>1. /\ Ready(v).mem = v.mem /\ Ready(v).old = Idle.old /\ Ready(v).got = Idle.got
      BY IdleType DEF Ready, WorkerType
    <2> QED BY <1>4, <1>6, <2>1 DEF HasKids
  <1>7. \A y : HasKids(Fail(y))
    <2>1. \A y : Fail(y).mem = mem /\ Fail(y).old = Idle.old /\ Fail(y).got = Idle.got
      BY IdleType DEF Fail, WorkerType
    <2> QED BY <1>2, <1>4, <2>1 DEF HasKids
  <1>8. /\ \A pc : HasKids(Goto(pc))
        /\ \A pc \in PC : Goto(pc) \in WorkerType
    <2>1. \A pc : Goto(pc).mem = w.mem /\ Goto(pc).old = w.old /\ Goto(pc).got = w.got
                  /\ Goto(pc).kind = w.kind
      BY <1>1 DEF Goto, WorkerType
    <2> QED BY <1>1, <1>2, <2>1 DEF HasKids, Goto, WorkerType
  <1>9. ASSUME NEW v \in WorkerType, HasKids(v), NEW k \in Kind
        PROVE  HasKids(StartKids(v, k))
    <2>1. LET u == StartKids(v, k)
          IN  /\ u.mem = v.mem /\ u.kind = k /\ u.old = v.mem.st.ids[k]
              /\ \A j \in Kind : u.got[j] \in {{}, v.got[j]}
      BY DEF StartKids, WorkerType
    <2> HIDE DEF StartKids
    <2>2. \A j \in Kind : StartKids(v, k).got[j] \subseteq StepIds(j)
      BY <1>9, <2>1 DEF HasKids
    <2>3. StartKids(v, k).old \subseteq StepIds(StartKids(v, k).kind)
      BY <1>9, <2>1 DEF HasKids, StepLists
    <2> QED BY <1>9, <2>1, <2>2, <2>3 DEF HasKids
  <1>10. \A v \in WorkerType : HasKids(v) => HasKids(UpdateRules(v)) /\ HasKids(UpdateTargets(v))
    BY <1>6, <1>9 DEF UpdateRules, UpdateTargets, Kind
  <1>11. Refused => HasKids(w')
    BY <1>7 DEF Refused
  <1>12. Requeue \/ Forget => HasKids(w')
    BY <1>5 DEF Requeue, Forget
  <1>13. UNCHANGED cr => \A c \in CR : StepLists(cr'[c].st)
    BY <1>2
  <1>14. UNCHANGED cache => \A c \in CR : StepLists(cache'[c].st)
    BY <1>2
  <1>15. UNCHANGED w => HasKids(w')
    BY <1>2
  <1>16. /\ Fail("Error") \in WorkerType
         /\ Fail(EnsureWhy) \in WorkerType /\ Fail(UpdateWhy) \in WorkerType
    <2>1. EnsureWhy \in Why /\ UpdateWhy \in Why /\ "Error" \in Why
      BY DEF EnsureWhy, UpdateWhy, Why
    <2> QED BY <1>1, <2>1, FailType
  <1>17. ASSUME NEW st \in StatusType, StepLists(st), NEW ok \in WorkerType, HasKids(ok),
                NEW ko \in WorkerType, HasKids(ko), patchStatus(st, ok, ko), UNCHANGED cache
         PROVE  Goal
    BY <1>14, <1>17, PatchLists
  <1>18. ASSUME NEW st \in StatusType, StepLists(st), patchAndReturn(st), Requeue \/ Forget,
                UNCHANGED cache
         PROVE  Goal
    BY <1>12, <1>14, <1>18, ReturnLists
  <1>19. ASSUME UNCHANGED <<cr, cache>>, HasKids(w') PROVE Goal
    BY <1>13, <1>14, <1>19
  <1>20. ASSUME NEW c \in CR, CacheSync(c) PROVE Goal
    <2>1. \A d \in CR : cache'[d] \in {cache[d], cr[d]}
      BY <1>20 DEF CacheSync, TypeOK
    <2>2. \A d \in CR : StepLists(cache'[d].st)
      BY <1>2, <2>1
    <2> QED BY <1>13, <1>15, <1>20, <2>2 DEF CacheSync
  <1>21. ASSUME NEW c \in CR, Reconcile(c) PROVE Goal
    <2>1. \/ w' = Idle
          \/ w'.mem = cache[c] /\ w'.old = Idle.old /\ w'.got = Idle.got
      BY <1>21, IdleType DEF Reconcile, WorkerType
    <2>2. HasKids(w')
      <3>1. StepLists(cache[c].st)
        BY <1>2
      <3>2. CASE w' = Idle
        BY <1>5, <3>2
      <3>3. CASE w'.mem = cache[c] /\ w'.old = Idle.old /\ w'.got = Idle.got
        BY <1>4, <3>1, <3>3 DEF HasKids
      <3> QED BY <2>1, <3>2, <3>3
    <2> QED BY <1>19, <1>21, <2>2 DEF Reconcile
  <1> HIDE DEF Goal
  <1>22. ASSUME AddFinalizer PROVE Goal
    <2>1. WithFinalizer.st = mem.st
      BY <1>1 DEF WithFinalizer, ObjectType
    <2>2. LET v == [w EXCEPT !.pc = "site", !.mem = WithFinalizer]
          IN  v.mem = WithFinalizer /\ v.got = w.got /\ v.old = w.old /\ v.kind = w.kind
      BY <1>1 DEF WorkerType
    <2>3. HasKids([w EXCEPT !.pc = "site", !.mem = WithFinalizer])
      BY <1>2, <2>1, <2>2 DEF HasKids
    <2>4. HasKids(w')
      BY <1>12, <1>22, <2>3 DEF AddFinalizer
    <2>5. UNCHANGED cr \/ cr' = [cr EXCEPT ![c0] = WithFinalizer]
      BY <1>22 DEF AddFinalizer
    <2>6. \A c \in CR : StepLists(cr'[c].st)
      BY <1>1, <1>2, <2>1, <2>5
    <2> QED BY <1>14, <1>22, <2>4, <2>6 DEF AddFinalizer, Goal
  <1>23. ASSUME RemoveFinalizer PROVE Goal
    <2>1. UNCHANGED cr \/ cr' = [cr EXCEPT ![c0] = Gone(mem.gen)]
      BY <1>23 DEF RemoveFinalizer
    <2>2. \A c \in CR : StepLists(cr'[c].st)
      BY <1>1, <1>2, <1>3, <2>1
    <2> QED BY <1>12, <1>14, <1>23, <2>2 DEF RemoveFinalizer, Goal
  <1>24. ASSUME Cleanup PROVE Goal
    <2>1. HasKids(w')
      BY <1>8, <1>12, <1>24 DEF Cleanup
    <2> QED BY <1>19, <1>24, <2>1 DEF Cleanup
  <1>25. ASSUME ResolveSite PROVE Goal
    <2>1. \A s, h : LET v == [w EXCEPT !.pc = "list", !.site = s, !.had = h]
                    IN  v.mem = w.mem /\ v.got = w.got /\ v.old = w.old /\ v.kind = w.kind
      BY <1>1 DEF WorkerType
    <2>2. \A s, h : HasKids([w EXCEPT !.pc = "list", !.site = s, !.had = h])
      BY <1>2, <2>1 DEF HasKids
    <2>3. HasKids(w')
      BY <1>7, <1>25, <2>2 DEF ResolveSite
    <2> QED BY <1>19, <1>25, <2>3 DEF ResolveSite
  <1>26. ASSUME ensureExists PROVE Goal
    <2>1. \A i, d : LET v == [w EXCEPT !.pc = "adopt", !.rid = i, !.dom = d]
                    IN  v.mem = w.mem /\ v.got = w.got /\ v.old = w.old /\ v.kind = w.kind
      BY <1>1 DEF WorkerType
    <2>2. \A i, d : HasKids([w EXCEPT !.pc = "adopt", !.rid = i, !.dom = d])
      BY <1>2, <2>1 DEF HasKids
    <2>3. \/ w' = Goto("refetch") \/ w' = Goto("creating") \/ Refused
          \/ \E i, d : w' = [w EXCEPT !.pc = "adopt", !.rid = i, !.dom = d]
      BY <1>26 DEF ensureExists
    <2>4. HasKids(w')
      <3>1. ASSUME NEW i, NEW d, w' = [w EXCEPT !.pc = "adopt", !.rid = i, !.dom = d]
            PROVE  HasKids(w')
        <4>1. HasKids([w EXCEPT !.pc = "adopt", !.rid = i, !.dom = d])
          BY <2>2
        <4> QED BY <3>1, <4>1, Zenon
      <3> QED BY <1>8, <1>11, <2>3, <3>1
    <2> QED BY <1>19, <1>26, <2>4 DEF ensureExists
  <1>27. ASSUME Adopt PROVE Goal
    <2> DEFINE st == [mem.st EXCEPT !.rid = w.rid, !.dom = w.dom, !.phase = "Creating",
                        !.ids = [k \in Kind |-> {}], !.hash = [k \in Kind |-> {}]]
               ok == [w EXCEPT !.pc = "update", !.adopted = TRUE]
    <2>1. st \in StatusType
      BY <1>1 DEF StatusType, Phase
    <2>2. StepLists(st)
      BY <1>1 DEF StepLists, StatusType
    <2>3. ok \in WorkerType
      BY <1>1 DEF WorkerType, PC
    <2>4. ok.mem = w.mem /\ ok.got = w.got /\ ok.old = w.old /\ ok.kind = w.kind
      BY <1>1 DEF WorkerType
    <2>5. HasKids(ok)
      BY <1>2, <2>4 DEF HasKids
    <2>6. patchStatus(st, ok, Fail("Error")) /\ UNCHANGED cache
      BY <1>27 DEF Adopt
    <2> HIDE DEF st, ok
    <2> QED BY <1>7, <1>16, <1>17, <2>1, <2>2, <2>3, <2>5, <2>6
  <1>28. ASSUME MarkCreating PROVE Goal
    <2> DEFINE st == [mem.st EXCEPT !.phase = "Creating"]
    <2>1. st \in StatusType /\ st.ids = mem.st.ids
      BY <1>1 DEF StatusType, Phase
    <2>2. patchStatus(st, Goto("create"), Fail("Error")) /\ UNCHANGED cache
      BY <1>28 DEF MarkCreating
    <2> HIDE DEF st
    <2>3. StepLists(st) /\ Goto("create") \in WorkerType
      BY <1>2, <1>8, <2>1 DEF StepLists, PC
    <2> QED BY <1>7, <1>8, <1>16, <1>17, <2>1, <2>2, <2>3
  <1>29. ASSUME createResource PROVE Goal
    <2>1. LET v == [w EXCEPT !.pc = "record", !.http = mem.spec.http, !.rid = nextId,
                             !.dom = DomainOf(mem.spec)]
          IN  v.mem = w.mem /\ v.got = w.got /\ v.old = w.old /\ v.kind = w.kind
      BY <1>1 DEF WorkerType
    <2>2. HasKids([w EXCEPT !.pc = "record", !.http = mem.spec.http, !.rid = nextId,
                            !.dom = DomainOf(mem.spec)])
      BY <1>2, <2>1 DEF HasKids
    <2>3. HasKids(w')
      BY <1>7, <1>11, <1>29, <2>2 DEF createResource
    <2> QED BY <1>19, <1>29, <2>3 DEF createResource
  <1>30. ASSUME RecordResource PROVE Goal
    <2> DEFINE st == [mem.st EXCEPT !.rid = w.rid, !.dom = w.dom, !.phase = "Creating"]
    <2>1. st \in StatusType /\ st.ids = mem.st.ids
      BY <1>1 DEF StatusType, Phase
    <2>2. patchStatus(st, Goto("reget"), Goto("rollback")) /\ UNCHANGED cache
      BY <1>30 DEF RecordResource
    <2> HIDE DEF st
    <2>3. StepLists(st) /\ Goto("reget") \in WorkerType /\ Goto("rollback") \in WorkerType
      BY <1>2, <1>8, <2>1 DEF StepLists, PC
    <2> QED BY <1>8, <1>17, <2>1, <2>2, <2>3
  <1>31. ASSUME Rollback \/ Reget \/ Settings PROVE Goal
    <2>1. LET v == [w EXCEPT !.pc = "settings", !.mem = cache[c0]]
          IN  v.mem = cache[c0] /\ v.got = w.got /\ v.old = w.old /\ v.kind = w.kind
      BY <1>1 DEF WorkerType
    <2>2. HasKids([w EXCEPT !.pc = "settings", !.mem = cache[c0]])
      BY <1>1, <1>2, <2>1 DEF HasKids
    <2>3. HasKids(StartKids(w, "target"))
      BY <1>1, <1>2, <1>9 DEF Kind
    <2>4. HasKids(w')
      BY <1>7, <1>11, <1>31, <2>2, <2>3 DEF Rollback, Reget, Settings
    <2>5. UNCHANGED <<cr, cache>>
      BY <1>31 DEF Rollback, Reget, Settings
    <2> QED BY <1>19, <2>4, <2>5
  <1>32. ASSUME NEW i \in Item, CreateKid(i) PROVE Goal
    <2> DEFINE u == [w EXCEPT !.todo = @ \ {i}, !.got[w.kind] = @ \cup {nextId}]
    <2>1. /\ UNCHANGED <<cr, cache>>
          /\ (w' = u /\ KidCreated) \/ \E e : KidFails(i, e)
      BY <1>32 DEF CreateKid, At, KidCreated
    <2>2. ASSUME NEW e, KidFails(i, e) PROVE HasKids(w')
      <3>1. w'.mem = w.mem /\ w'.got = w.got /\ w'.old = w.old /\ w'.kind = w.kind
        BY <1>1, <2>2 DEF KidFails, WorkerType
      <3> QED BY <1>2, <3>1 DEF HasKids
    <2>3. ASSUME w' = u, KidCreated PROVE HasKids(w')
      <3>1. /\ w'.mem = w.mem /\ w'.old = w.old /\ w'.kind = w.kind
            /\ \A k \in Kind : w'.got[k] = IF k = w.kind THEN w.got[k] \cup {nextId}
                                           ELSE w.got[k]
        BY <1>1, <2>3 DEF WorkerType
      <3>2. nextId \in StepIds(w.kind)
        BY <2>3 DEF StepIds
      <3>3. \A k \in Kind : w'.got[k] \subseteq StepIds(k)
        BY <1>2, <3>1, <3>2
      <3> QED BY <1>2, <3>1, <3>3 DEF HasKids
    <2> HIDE DEF u
    <2> QED BY <1>19, <2>1, <2>2, <2>3
  <1>33. ASSUME CreatedTargets PROVE Goal
    <2> DEFINE st == [mem.st EXCEPT !.ids["target"] = w.got["target"]]
    <2>1. st \in StatusType
      BY <1>1 DEF StatusType, Kind
    <2>2. StepLists(st)
      <3>1. \A k \in Kind : st.ids[k] \in {mem.st.ids[k], w.got[k]}
        BY <1>1 DEF StatusType
      <3> HIDE DEF st
      <3> QED BY <1>2, <3>1 DEF StepLists
    <2>3. \/ w' = StartKids(w, "rule") /\ UNCHANGED cr
          \/ w' = Fail(EnsureWhy) /\ UNCHANGED cr
          \/ patchStatus(st, Fail(EnsureWhy), Fail(EnsureWhy))
      BY <1>33 DEF CreatedTargets
    <2>4. HasKids(StartKids(w, "rule")) /\ UNCHANGED cache
      BY <1>1, <1>2, <1>9, <1>33 DEF Kind, CreatedTargets
    <2> HIDE DEF st
    <2> QED BY <1>7, <1>16, <1>17, <1>19, <2>1, <2>2, <2>3, <2>4
  <1>34. ASSUME CreatedRules PROVE Goal
    <2> DEFINE s1 == [mem.st EXCEPT !.ids = w.got]
               s2 == [mem.st EXCEPT !.ids = w.got,
                        !.hash = [k \in Kind |-> hashJSON(mem.spec.kids[k])]]
               ok == IF w.had THEN Goto("refetch") ELSE Ready(w)
    <2>1. s1 \in StatusType /\ s1.ids = w.got
      BY <1>1 DEF StatusType
    <2>2. s2 \in StatusType /\ s2.ids = w.got
      <3>1. [k \in Kind |-> hashJSON(mem.spec.kids[k])] \in [Kind -> SUBSET (SUBSET Item)]
        BY <1>1 DEF SpecType, hashJSON
      <3> QED BY <1>1, <3>1 DEF StatusType
    <2>3. ok \in WorkerType /\ HasKids(ok)
      <3>1. Goto("refetch") \in WorkerType /\ Ready(w) \in WorkerType
        BY <1>1, <1>8, ReadyType DEF PC
      <3> QED BY <1>2, <1>6, <1>8, <3>1
    <2>4. \/ patchStatus(s1, Fail(EnsureWhy), Fail(EnsureWhy))
          \/ patchStatus(s2, ok, Fail("Error"))
      BY <1>34 DEF CreatedRules
    <2>5. UNCHANGED cache
      BY <1>34 DEF CreatedRules
    <2> HIDE DEF s1, s2, ok
    <2>6. StepLists(s1) /\ StepLists(s2)
      BY <1>2, <2>1, <2>2 DEF StepLists
    <2> QED BY <1>7, <1>16, <1>17, <2>1, <2>2, <2>3, <2>4, <2>5, <2>6
  <1>35. ASSUME Refetch PROVE Goal
    <2> DEFINE v == [w EXCEPT !.mem = cache[c0], !.pc = "update"]
    <2>1. v.mem = cache[c0] /\ v.got = w.got /\ v.old = w.old /\ v.kind = w.kind
      BY <1>1 DEF WorkerType
    <2>2. UNCHANGED <<cr, cache>> /\ (w' = v \/ w' = Ready(v))
      BY <1>35 DEF Refetch
    <2> HIDE DEF v
    <2>3. HasKids(v)
      BY <1>1, <1>2, <2>1 DEF HasKids
    <2>4. HasKids(w')
      BY <1>6, <2>2, <2>3
    <2> QED BY <1>19, <2>2, <2>4
  <1>36. ASSUME updateResource PROVE Goal
    <2> DEFINE v == [w EXCEPT !.updating = TRUE]
    <2>1. v \in WorkerType /\ v.mem = w.mem /\ v.got = w.got /\ v.old = w.old
          /\ v.kind = w.kind
      BY <1>1 DEF WorkerType
    <2>2. UNCHANGED <<cr, cache>> /\ (w' = UpdateTargets(v) \/ \E y : w' = Fail(y))
      BY <1>36 DEF updateResource
    <2> HIDE DEF v
    <2>3. HasKids(v)
      BY <1>2, <2>1 DEF HasKids
    <2>4. HasKids(w')
      BY <1>7, <1>10, <2>1, <2>2, <2>3
    <2> QED BY <1>19, <2>2, <2>4
  <1>37. ASSUME PersistKids PROVE Goal
    <2> DEFINE s1 == [mem.st EXCEPT !.ids[w.kind] = w.got[w.kind],
                        !.hash[w.kind] = hashJSON(mem.spec.kids[w.kind])]
               s2 == [mem.st EXCEPT !.ids[w.kind] = append(@, w.got[w.kind])]
    <2>1. s1 \in StatusType
      <3>1. hashJSON(mem.spec.kids[w.kind]) \in SUBSET (SUBSET Item)
        BY <1>1 DEF SpecType, hashJSON
      <3> QED BY <1>1, <3>1 DEF StatusType
    <2>2. s2 \in StatusType
      BY <1>1 DEF StatusType, append
    <2>3. StepLists(s1)
      <3>1. \A k \in Kind : s1.ids[k] \in {mem.st.ids[k], w.got[k]}
        BY <1>1 DEF StatusType
      <3> HIDE DEF s1
      <3> QED BY <1>2, <3>1 DEF StepLists
    <2>4. StepLists(s2)
      <3>1. \A k \in Kind : s2.ids[k] \subseteq mem.st.ids[k] \cup w.got[k]
        BY <1>1 DEF StatusType, append
      <3> HIDE DEF s2
      <3> QED BY <1>2, <3>1 DEF StepLists
    <2>5. Goto("prune") \in WorkerType
      BY <1>8 DEF PC
    <2>6. \/ patchStatus(s1, Goto("prune"), Fail("Error"))
          \/ patchStatus(s2, Fail(UpdateWhy), Fail(UpdateWhy))
          \/ w' = Fail(UpdateWhy) /\ UNCHANGED cr
      BY <1>37 DEF PersistKids
    <2>7. UNCHANGED cache
      BY <1>37 DEF PersistKids
    <2> HIDE DEF s1, s2
    <2> QED BY <1>7, <1>8, <1>16, <1>17, <1>19, <2>1, <2>2, <2>3, <2>4, <2>5, <2>6, <2>7
  <1>38. ASSUME NEW id \in w.old, PruneKid(id) PROVE Goal
    <2>1. w'.mem = w.mem /\ w'.got = w.got /\ w'.old = w.old \ {id} /\ w'.kind = w.kind
      BY <1>1, <1>38 DEF PruneKid, WorkerType
    <2>2. HasKids(w')
      BY <1>2, <2>1 DEF HasKids
    <2> QED BY <1>19, <1>38, <2>2 DEF PruneKid
  <1>39. ASSUME Pruned PROVE Goal
    <2>1. HasKids(w')
      BY <1>1, <1>2, <1>6, <1>10, <1>39 DEF Pruned
    <2> QED BY <1>19, <1>39, <2>1 DEF Pruned
  <1>40. ASSUME MarkReady PROVE Goal
    <2> DEFINE st == [mem.st EXCEPT !.phase = "Ready", !.obs = mem.gen,
                        !.cond = [reason |-> "Reconciled", gen |-> mem.gen]]
    <2>1. st \in StatusType /\ st.ids = mem.st.ids
      BY <1>1 DEF StatusType, Phase, Reason
    <2>2. patchAndReturn(st) /\ Requeue /\ UNCHANGED cache
      BY <1>40 DEF MarkReady
    <2> HIDE DEF st
    <2>3. StepLists(st)
      BY <1>2, <2>1 DEF StepLists
    <2> QED BY <1>18, <2>1, <2>2, <2>3
  <1>41. ASSUME ReportFailure PROVE Goal
    <2>1. /\ FailureStatus \in StatusType
          /\ FailureStatus.ids = mem.st.ids \/ FailureStatus.ids = [k \in Kind |-> {}]
      BY <1>1, NoDomType DEF FailureStatus, StatusType, Phase, Reason
    <2>2. patchAndReturn(FailureStatus) /\ (Requeue \/ Forget) /\ UNCHANGED cache
      BY <1>41 DEF ReportFailure
    <2>3. StepLists(FailureStatus)
      BY <1>2, <2>1 DEF StepLists
    <2> QED BY <1>18, <2>1, <2>2, <2>3
  <1>42. ASSUME NEW c \in CR, NEW s \in Specs, UserCreate(c, s) \/ UserEdit(c, s) PROVE Goal
    <2>1. NewObject(cr[c].gen + 1, s).st = ZeroStatus
      BY DEF NewObject
    <2>2. \A d \in CR : cr'[d].st \in {ZeroStatus, cr[d].st}
      <3>1. CASE UserCreate(c, s)
        BY <1>1, <2>1, <3>1 DEF UserCreate
      <3>2. CASE UserEdit(c, s)
        BY <1>1, <3>2 DEF UserEdit, ObjectType
      <3> QED BY <1>42, <3>1, <3>2
    <2>3. \A d \in CR : StepLists(cr'[d].st)
      BY <1>2, <1>3, <2>2
    <2> QED BY <1>14, <1>15, <1>42, <2>3 DEF UserCreate, UserEdit, Goal
  <1>43. ASSUME NEW c \in CR, UserDelete(c) PROVE Goal
    <2>1. Deleted(cr[c]).st \in {ZeroStatus, cr[c].st}
      BY <1>1, <1>3 DEF Deleted, ObjectType
    <2>2. \A d \in CR : cr'[d].st \in {ZeroStatus, cr[d].st}
      BY <1>1, <1>43, <2>1 DEF UserDelete
    <2>3. \A d \in CR : StepLists(cr'[d].st)
      BY <1>2, <1>3, <2>2
    <2> QED BY <1>14, <1>15, <1>43, <2>3 DEF UserDelete, Goal
  <1>44. ASSUME Crash PROVE Goal
    BY <1>2, <1>5, <1>13, <1>44 DEF Crash, Goal
  <1>45. ASSUME Environment PROVE Goal
    BY <1>15, <1>19, <1>42, <1>43, <1>44, <1>45 DEF Environment, Drift, SiteReady, SiteLost
  <1>46. ASSUME UNCHANGED vars PROVE Goal
    BY <1>15, <1>19, <1>46 DEF vars
  <1>47. ASSUME WorkerStep PROVE Goal
    BY <1>22, <1>23, <1>24, <1>25, <1>26, <1>27, <1>28, <1>29, <1>30, <1>31, <1>32, <1>33,
       <1>34, <1>35, <1>36, <1>37, <1>38, <1>39, <1>40, <1>41, <1>47 DEF WorkerStep
  <1>48. Goal
    BY <1>20, <1>21, <1>45, <1>46, <1>47 DEF Next
  <1> QED BY <1>48 DEF Goal

LEMMA ListInvNext ==
  ASSUME TypeOK, IdsInv, ListInv, [Next]_vars
  PROVE  ListInv'
  <1>1. /\ \A c \in CR : StepLists(cr'[c].st) /\ StepLists(cache'[c].st)
        /\ HasKids(w')
    BY ListStep
  <1>2. \A k \in Kind : StepIds(k) \subseteq KidIds(k)'
    BY KidIdsStep
  <1>3. w'.kind \in Kind
    BY TypeOKNext DEF TypeOK, WorkerType
  <1>4. \A st : StepLists(st) => Lists(st)'
    BY <1>2 DEF StepLists, Lists
  <1> QED BY <1>1, <1>2, <1>3, <1>4 DEF HasKids, ListInv, mem

-----------------------------------------------------------------------------
(* Patches, and the steps of others. *)

\* v is u but for the object in memory.
ButMem(v, u) ==
  /\ v.pc = u.pc /\ v.c = u.c /\ v.site = u.site /\ v.had = u.had
  /\ v.updating = u.updating /\ v.rid = u.rid /\ v.kind = u.kind /\ v.todo = u.todo
  /\ v.got = u.got /\ v.old = u.old /\ v.errs = u.errs /\ v.why = u.why

LEMMA PatchDone ==
  ASSUME TypeOK, NEW st \in StatusType, NEW ok \in WorkerType, NEW ko \in WorkerType,
         patchStatus(st, ok, ko)
  PROVE  /\ \A c \in CR : c # c0 => cr'[c] = cr[c]
         /\ cr'[c0].st \in {cr[c0].st, Merge(cr[c0].st, mem.st, st)}
         /\ \/ /\ ButMem(w', ok)
               /\ cr'[c0].st = Merge(cr[c0].st, mem.st, st)
               /\ w'.mem.st = DecodedStatus(st, cr'[c0].st)
            \/ /\ ButMem(w', ko)
               /\ w'.mem.st = st
               /\ Fault("k8s") \/ Fault("k8sLost")
  <1> DEFINE new == [cr[c0] EXCEPT !.st = Merge(cr[c0].st, mem.st, st)]
  <1>1. c0 \in CR /\ cr[c0] \in ObjectType /\ cr \in [CR -> ObjectType]
    BY DEF TypeOK, WorkerType, c0
  <1>2. /\ new.st = Merge(cr[c0].st, mem.st, st)
        /\ new \in [exists : BOOLEAN, del : BOOLEAN, fin : BOOLEAN, gen : Nat,
                    spec : SpecType, st : {Merge(cr[c0].st, mem.st, st)}]
    BY <1>1 DEF ObjectType
  <1>3. Decoded(new, st).st = DecodedStatus(st, new.st)
    BY <1>2 DEF Decoded
  <1>4. \A x : [ok EXCEPT !.mem = x].mem = x /\ ButMem([ok EXCEPT !.mem = x], ok)
    BY DEF WorkerType, ButMem
  <1>5. [ko EXCEPT !.mem.st = st].mem.st = st /\ ButMem([ko EXCEPT !.mem.st = st], ko)
    BY DEF WorkerType, ObjectType, ButMem
  <1>6. \/ cr' = [cr EXCEPT ![c0] = new] /\ w' = [ok EXCEPT !.mem = Decoded(new, st)]
        \/ /\ cr' = cr \/ cr' = [cr EXCEPT ![c0] = new]
           /\ w' = [ko EXCEPT !.mem.st = st]
           /\ Fault("k8s") \/ Fault("k8sLost")
    BY DEF patchStatus
  <1> HIDE DEF new
  <1>7. CASE cr' = [cr EXCEPT ![c0] = new] /\ w' = [ok EXCEPT !.mem = Decoded(new, st)]
    <2>1. cr'[c0] = new /\ \A c \in CR : c # c0 => cr'[c] = cr[c]
      BY <1>1, <1>7
    <2>2. w'.mem = Decoded(new, st) /\ ButMem(w', ok)
      BY <1>4, <1>7
    <2> QED BY <1>2, <1>3, <2>1, <2>2
  <1>8. CASE /\ cr' = cr \/ cr' = [cr EXCEPT ![c0] = new]
             /\ w' = [ko EXCEPT !.mem.st = st]
             /\ Fault("k8s") \/ Fault("k8sLost")
    <2>1. cr'[c0] \in {cr[c0], new} /\ \A c \in CR : c # c0 => cr'[c] = cr[c]
      BY <1>1, <1>8
    <2>2. w'.mem.st = st /\ ButMem(w', ko)
      BY <1>5, <1>8
    <2> QED BY <1>2, <1>8, <2>1, <2>2
  <1> QED BY <1>6, <1>7, <1>8

\* What others do to Pangolin and to the statuses of objects with the finalizer.
LEMMA OthersChildren ==
  ASSUME LinkInv, [Next]_vars, ~WorkerStep
  PROVE  /\ \A c \in CR : cr[c].fin => cr'[c].st = cr[c].st
         /\ (UNCHANGED pangolin \/ \E id \in live : Drift(id))
  <1> DEFINE Goal == /\ \A c \in CR : cr[c].fin => cr'[c].st = cr[c].st
                     /\ (UNCHANGED pangolin \/ \E id \in live : Drift(id))
  <1>1. /\ TypeOK /\ \A c \in CR : (cr[c].fin => cr[c].exists) /\ cr[c] \in ObjectType
    BY DEF LinkInv, CleanupInv, TypeOK
  <1>2. ASSUME NEW c \in CR, CacheSync(c) \/ Reconcile(c) PROVE Goal
    BY <1>2 DEF CacheSync, Reconcile
  <1>3. ASSUME NEW c \in CR, NEW s \in Specs, UserCreate(c, s) PROVE Goal
    <2>1. \A d \in CR : cr[d].fin => cr'[d] = cr[d]
      BY <1>1, <1>3 DEF UserCreate, TypeOK
    <2> QED BY <1>3, <2>1 DEF UserCreate
  <1>4. ASSUME NEW c \in CR, NEW s \in Specs, UserEdit(c, s) PROVE Goal
    <2>1. \A d \in CR : cr'[d].st = cr[d].st
      BY <1>1, <1>4 DEF UserEdit, TypeOK, ObjectType
    <2> QED BY <1>4, <2>1 DEF UserEdit
  <1>5. ASSUME NEW c \in CR, UserDelete(c) PROVE Goal
    <2>1. cr[c].fin => Deleted(cr[c]).st = cr[c].st
      BY <1>1 DEF Deleted, ObjectType
    <2>2. \A d \in CR : cr'[d] = IF d = c THEN Deleted(cr[c]) ELSE cr[d]
      BY <1>1, <1>5 DEF UserDelete, TypeOK
    <2> QED BY <1>5, <2>1, <2>2 DEF UserDelete
  <1>6. ASSUME NEW id \in live, Drift(id) PROVE Goal
    BY <1>6 DEF Drift
  <1>7. ASSUME NEW s, SiteReady(s) \/ SiteLost(s) PROVE Goal
    BY <1>7 DEF SiteReady, SiteLost
  <1>8. ASSUME Crash PROVE Goal
    BY <1>8 DEF Crash
  <1>9. ASSUME UNCHANGED vars PROVE Goal
    BY <1>9 DEF vars, pangolin
  <1> HIDE DEF Goal
  <1>10. ASSUME Environment PROVE Goal
    BY <1>3, <1>4, <1>5, <1>6, <1>7, <1>8, <1>10 DEF Environment
  <1>11. Goal
    BY <1>2, <1>9, <1>10 DEF Next
  <1> QED BY <1>11 DEF Goal

-----------------------------------------------------------------------------
(* Replacing the children of a resource, and NoTrafficGap. *)

\* Where updateResource is at work, or comes next.
Updating(v) == v.pc \in {"update", "prune"} \/ v.updating

\* The worker updates the resource that the status links, and adopts another one only
\* where that is not to be found.
AtHandInv ==
  /\ w.updating => w.pc \in {"kids", "prune"}
  /\ w.pc = "adopt" => w.rid # mem.st.rid
  /\ Updating(w) /\ ~Seen({"lag"}) => mem.st.rid = cr[c0].st.rid

\* Somebody deleted the resource in Pangolin.
Lost(id) == Seen({"drift"}) /\ id \notin live

\* The children created so far are none of the old ones, and serve the items that
\* were tried.
ReplaceInv ==
  w.pc = "kids" /\ w.updating =>
    /\ w.old = mem.st.ids[w.kind] /\ Stale(w, w.kind)
    /\ w.got[w.kind] \cap w.old = {}
    /\ w.errs = {} =>
         \A i \in mem.spec.kids[w.kind] \ w.todo :
           \/ \E y \in kids : y.id \in w.got[w.kind] /\ y.item = i /\ y.rid = mem.st.rid
           \/ Lost(mem.st.rid)

\* The listed children serve the items whose hash the status st holds.
ServedBy(K, drift, lag, ids, st, k) ==
  \A i \in UNION st.hash[k] :
    \/ \E y \in K : /\ y.id \in st.ids[k] /\ y.item = i
                    /\ ~lag => y.rid = st.rid
    \/ drift /\ (lag \/ st.rid \notin ids)

Served(st, k) == ServedBy(kids, Seen({"drift"}), Seen({"lag"}), live, st, k)

\* While old children are deleted the status lists the new ones.
PruneInv ==
  w.pc = "prune" /\ w.old # {} =>
    cr[c0].st.ids[w.kind] \cap w.old = {} /\ Served(cr[c0].st, w.kind)

ChildInv == LinkInv /\ ListInv /\ AtHandInv /\ ReplaceInv /\ PruneInv

\* Steps that lead neither to updateResource nor on within it.
LEMMA OutsideUpdate ==
  ASSUME TypeOK, w.updating => w.pc \in {"kids", "prune"}, WorkerStep,
         ~Adopt, ~Refetch, ~updateResource, ~PersistKids, ~Pruned,
         ~ \E i \in Item : CreateKid(i), ~ \E id \in w.old : PruneKid(id)
  PROVE  ~Updating(w')
  <1> DEFINE Free(v) == ~Updating(v)
  <1>1. /\ w \in WorkerType /\ c0 \in CR /\ mem.st \in StatusType /\ mem.spec \in SpecType
        /\ w.kind \in Kind /\ w.got \in [Kind -> SUBSET Nat] /\ w.rid \in Nat
        /\ w.dom \in Seq(Char) /\ mem.gen \in Nat
    BY DEF TypeOK, WorkerType, ObjectType, c0, mem
  <1>2. ~Idle.updating /\ Idle.pc = "idle"
    BY DEF Idle
  <1>3. Free(Idle)
    BY <1>2 DEF Updating
  <1>4. \A y : Free(Fail(y))
    <2>1. \A y : Fail(y).pc = "fail" /\ Fail(y).updating = Idle.updating
      BY IdleType DEF Fail, WorkerType
    <2> QED BY <1>2, <2>1 DEF Updating
  <1>5. \A v : Free(Ready(v))
    <2>1. \A v : Ready(v).pc = "ready" /\ Ready(v).updating = Idle.updating
      BY IdleType DEF Ready, WorkerType
    <2> QED BY <1>2, <2>1 DEF Updating
  <1>6. /\ \A pc : ~w.updating /\ pc \notin {"update", "prune"} => Free(Goto(pc))
        /\ \A pc \in PC : Goto(pc) \in WorkerType
    <2>1. \A pc : Goto(pc).pc = pc /\ Goto(pc).updating = w.updating
      BY <1>1 DEF Goto, WorkerType
    <2> QED BY <1>1, <2>1 DEF Updating, Goto, WorkerType
  <1>7. \A k \in Kind : ~w.updating => Free(StartKids(w, k))
    <2>1. \A k \in Kind : StartKids(w, k).pc = "kids" /\ StartKids(w, k).updating = w.updating
      BY <1>1 DEF StartKids, WorkerType
    <2> QED BY <2>1 DEF Updating
  <1>8. Refused => Free(w')
    BY <1>4 DEF Refused
  <1>9. Requeue \/ Forget => Free(w')
    BY <1>3 DEF Requeue, Forget
  <1>10. /\ Fail("Error") \in WorkerType
         /\ Fail(EnsureWhy) \in WorkerType /\ Fail(UpdateWhy) \in WorkerType
    <2>1. EnsureWhy \in Why /\ UpdateWhy \in Why /\ "Error" \in Why
      BY DEF EnsureWhy, UpdateWhy, Why
    <2> QED BY <1>1, <2>1, FailType
  <1>11. ASSUME NEW st \in StatusType, NEW ok \in WorkerType, NEW ko \in WorkerType,
                Free(ok), Free(ko), patchStatus(st, ok, ko)
         PROVE  Free(w')
    <2>1. ButMem(w', ok) \/ ButMem(w', ko)
      BY <1>11, PatchDone
    <2> QED BY <1>11, <2>1 DEF ButMem, Updating
  <1>12. w.pc \notin {"kids", "prune"} => ~w.updating
    OBVIOUS
  <1>13. ASSUME AddFinalizer \/ ResolveSite \/ ensureExists \/ createResource PROVE Free(w')
    <2>1. ~w.updating
      BY <1>12, <1>13 DEF AddFinalizer, ResolveSite, ensureExists, createResource, At
    <2>2. /\ Free([w EXCEPT !.pc = "site", !.mem = WithFinalizer])
          /\ \A s, h : Free([w EXCEPT !.pc = "list", !.site = s, !.had = h])
          /\ \A i, d : Free([w EXCEPT !.pc = "adopt", !.rid = i, !.dom = d])
          /\ Free([w EXCEPT !.pc = "record", !.http = mem.spec.http, !.rid = nextId,
                            !.dom = DomainOf(mem.spec)])
      BY <1>1, <2>1 DEF WorkerType, Updating
    <2>3. Free(Goto("refetch")) /\ Free(Goto("creating"))
      BY <1>6, <2>1
    <2> HIDE DEF Free
    <2>4. CASE AddFinalizer
      BY <1>9, <2>2, <2>4 DEF AddFinalizer
    <2>5. CASE ResolveSite
      <3>1. w' = Fail("Pending") \/ \E s, h : w' = [w EXCEPT !.pc = "list", !.site = s, !.had = h]
        BY <2>5 DEF ResolveSite
      <3>2. ASSUME NEW s, NEW h, w' = [w EXCEPT !.pc = "list", !.site = s, !.had = h]
            PROVE  Free(w')
        <4>1. Free([w EXCEPT !.pc = "list", !.site = s, !.had = h])
          BY <2>2
        <4> QED BY <3>2, <4>1, Zenon
      <3> QED BY <1>4, <3>1, <3>2
    <2>6. CASE ensureExists
      <3>1. \/ w' = Goto("refetch") \/ w' = Goto("creating") \/ Refused
            \/ \E i, d : w' = [w EXCEPT !.pc = "adopt", !.rid = i, !.dom = d]
        BY <2>6 DEF ensureExists
      <3>2. ASSUME NEW i, NEW d, w' = [w EXCEPT !.pc = "adopt", !.rid = i, !.dom = d]
            PROVE  Free(w')
        <4>1. Free([w EXCEPT !.pc = "adopt", !.rid = i, !.dom = d])
          BY <2>2
        <4> QED BY <3>2, <4>1, Zenon
      <3> QED BY <1>8, <2>3, <3>1, <3>2
    <2>7. CASE createResource
      BY <1>4, <1>8, <2>2, <2>7 DEF createResource
    <2> QED BY <1>13, <2>4, <2>5, <2>6, <2>7
  <1>14. ASSUME MarkCreating PROVE Free(w')
    <2> DEFINE st == [mem.st EXCEPT !.phase = "Creating"]
    <2>1. st \in StatusType
      BY <1>1 DEF StatusType, Phase
    <2>2. patchStatus(st, Goto("create"), Fail("Error")) /\ ~w.updating
      BY <1>12, <1>14 DEF MarkCreating, At
    <2>3. Free(Goto("create")) /\ Goto("create") \in WorkerType
      BY <1>6, <2>2 DEF PC
    <2> HIDE DEF st, Free
    <2> QED BY <1>4, <1>10, <1>11, <2>1, <2>2, <2>3
  <1>15. ASSUME RecordResource PROVE Free(w')
    <2> DEFINE st == [mem.st EXCEPT !.rid = w.rid, !.dom = w.dom, !.phase = "Creating"]
    <2>1. st \in StatusType
      BY <1>1 DEF StatusType, Phase
    <2>2. patchStatus(st, Goto("reget"), Goto("rollback")) /\ ~w.updating
      BY <1>12, <1>15 DEF RecordResource, At
    <2>3. /\ Free(Goto("reget")) /\ Goto("reget") \in WorkerType
          /\ Free(Goto("rollback")) /\ Goto("rollback") \in WorkerType
      BY <1>6, <2>2 DEF PC
    <2> HIDE DEF st, Free
    <2> QED BY <1>11, <2>1, <2>2, <2>3
  <1>16. ASSUME Rollback \/ Reget \/ Settings PROVE Free(w')
    <2>1. ~w.updating
      BY <1>12, <1>16 DEF Rollback, Reget, Settings, At
    <2>2. Free([w EXCEPT !.pc = "settings", !.mem = cache[c0]])
      BY <1>1, <2>1 DEF WorkerType, Updating
    <2>3. Free(StartKids(w, "target"))
      BY <1>7, <2>1 DEF Kind
    <2> HIDE DEF Free
    <2> QED BY <1>4, <1>8, <1>16, <2>2, <2>3 DEF Rollback, Reget, Settings
  <1>17. ASSUME CreatedTargets PROVE Free(w')
    <2> DEFINE st == [mem.st EXCEPT !.ids["target"] = w.got["target"]]
    <2>1. st \in StatusType
      BY <1>1 DEF StatusType, Kind
    <2>2. Free(StartKids(w, "rule"))
      BY <1>7, <1>17 DEF CreatedTargets, Kind
    <2>3. \/ w' = StartKids(w, "rule") \/ w' = Fail(EnsureWhy)
          \/ patchStatus(st, Fail(EnsureWhy), Fail(EnsureWhy))
      BY <1>17 DEF CreatedTargets
    <2> HIDE DEF st, Free
    <2> QED BY <1>4, <1>10, <1>11, <2>1, <2>2, <2>3
  <1>18. ASSUME CreatedRules PROVE Free(w')
    <2> DEFINE s1 == [mem.st EXCEPT !.ids = w.got]
               s2 == [mem.st EXCEPT !.ids = w.got,
                        !.hash = [k \in Kind |-> hashJSON(mem.spec.kids[k])]]
               ok == IF w.had THEN Goto("refetch") ELSE Ready(w)
    <2>1. s1 \in StatusType
      BY <1>1 DEF StatusType
    <2>2. s2 \in StatusType
      <3>1. [k \in Kind |-> hashJSON(mem.spec.kids[k])] \in [Kind -> SUBSET (SUBSET Item)]
        BY <1>1 DEF SpecType, hashJSON
      <3> QED BY <1>1, <3>1 DEF StatusType
    <2>3. ~w.updating
      BY <1>18 DEF CreatedRules
    <2>4. ok \in WorkerType /\ Free(ok)
      <3>1. Goto("refetch") \in WorkerType /\ Ready(w) \in WorkerType /\ Free(Goto("refetch"))
        BY <1>1, <1>6, <2>3, ReadyType DEF PC
      <3> QED BY <1>5, <3>1
    <2>5. \/ patchStatus(s1, Fail(EnsureWhy), Fail(EnsureWhy))
          \/ patchStatus(s2, ok, Fail("Error"))
      BY <1>18 DEF CreatedRules
    <2> HIDE DEF s1, s2, ok, Free
    <2> QED BY <1>4, <1>10, <1>11, <2>1, <2>2, <2>4, <2>5
  <1>19. ASSUME MarkReady \/ ReportFailure \/ Cleanup \/ RemoveFinalizer PROVE Free(w')
    <2>1. w.pc = "cleanup" => Free(Goto("unfinalize"))
      BY <1>6, <1>12
    <2> QED BY <1>9, <1>19, <2>1 DEF MarkReady, ReportFailure, Cleanup, RemoveFinalizer, At
  <1> HIDE DEF Free
  <1>20. Free(w')
    BY <1>13, <1>14, <1>15, <1>16, <1>17, <1>18, <1>19 DEF WorkerStep
  <1> QED BY <1>20 DEF Free

\* updateResource starts on a kind of which the hash says that it changed.
LEMMA StartReplaces ==
  ASSUME NEW v \in WorkerType, NEW u \in {UpdateTargets(v), UpdateRules(v)}
  PROVE  \/ u.pc = "ready" /\ ~u.updating
         \/ /\ u.pc = "kids" /\ u.mem = v.mem /\ u.c = v.c /\ u.updating = v.updating
            /\ u.kind \in Kind /\ u.old = v.mem.st.ids[u.kind] /\ Stale(u, u.kind)
            /\ u.got[u.kind] = {} /\ u.errs = {} /\ u.todo = v.mem.spec.kids[u.kind]
  <1>1. Ready(v).pc = "ready" /\ ~Ready(v).updating
    BY IdleType DEF Ready, WorkerType, Idle
  <1>2. \A k \in Kind :
          LET s == StartKids(v, k)
          IN  /\ s.pc = "kids" /\ s.mem = v.mem /\ s.c = v.c /\ s.updating = v.updating
              /\ s.kind = k /\ s.old = v.mem.st.ids[k]
              /\ s.got[k] = {} /\ s.errs = {} /\ s.todo = v.mem.spec.kids[k]
    BY DEF StartKids, WorkerType
  <1>3. u = Ready(v) \/ \E k \in Kind : Stale(v, k) /\ u = StartKids(v, k)
    BY DEF UpdateTargets, UpdateRules, Kind
  <1>4. ASSUME NEW k \in Kind, Stale(v, k), u = StartKids(v, k)
        PROVE  Stale(u, k) /\ u.kind = k
    BY <1>2, <1>4 DEF Stale
  <1> QED BY <1>1, <1>2, <1>3, <1>4

\* Steps of updateResource and the steps that lead to it.
UpdateStep ==
  \/ Adopt \/ Refetch \/ updateResource \/ PersistKids \/ Pruned
  \/ (\E i \in Item : CreateKid(i)) \/ \E id \in w.old : PruneKid(id)

LEMMA AtHandWorker ==
  ASSUME LinkInv, AtHandInv, WorkerStep
  PROVE  AtHandInv'
  <1> DEFINE S(v) == /\ v.updating => v.pc \in {"kids", "prune"}
                     /\ v.pc # "adopt"
                     /\ Updating(v) /\ ~Seen({"lag"})' => v.mem.st.rid = cr'[v.c].st.rid
  <1>1. S(w') => AtHandInv'
    BY DEF AtHandInv, Updating, mem, c0
  <1>2. /\ TypeOK /\ w \in WorkerType /\ c0 \in CR /\ mem.st \in StatusType
        /\ mem.spec \in SpecType /\ w.kind \in Kind /\ w.got \in [Kind -> SUBSET Nat]
        /\ w.rid \in Nat /\ w.dom \in Seq(Char) /\ cache[c0] \in ObjectType
    BY DEF LinkInv, CleanupInv, TypeOK, WorkerType, ObjectType, c0, mem
  <1>3. FaultsGrow
    BY <1>2, FaultsGrowNext DEF Next
  <1>4. ~Seen({"lag"})' => ~Seen({"lag"})
    BY <1>3 DEF FaultsGrow, Seen
  <1>5. Updating(w) /\ ~Seen({"lag"})' => mem.st.rid = cr[c0].st.rid
    BY <1>4 DEF AtHandInv
  <1>6. \A y : S(Fail(y))
    <2>1. \A y : Fail(y).pc = "fail" /\ ~Fail(y).updating
      BY IdleType DEF Fail, WorkerType, Idle
    <2> QED BY <2>1 DEF Updating
  <1>7. /\ Fail("Error") \in WorkerType /\ Fail(UpdateWhy) \in WorkerType
    <2>1. UpdateWhy \in Why /\ "Error" \in Why
      BY DEF UpdateWhy, Why
    <2> QED BY <1>2, <2>1, FailType
  <1>8. \A v, u : ButMem(v, u) /\ ~Updating(u) /\ u.pc # "adopt" => S(v)
    BY DEF ButMem, Updating
  <1>9. \A y : ~Updating(Fail(y)) /\ Fail(y).pc # "adopt"
    <2>1. \A y : Fail(y).pc = "fail" /\ ~Fail(y).updating
      BY IdleType DEF Fail, WorkerType, Idle
    <2> QED BY <2>1 DEF Updating
  <1>19. \A a, b : DecodedStatus(a, b).rid \in {a.rid, b.rid}
    BY DEF DecodedStatus, Kept
  <1>10. CASE ~UpdateStep
    <2>1. ~Updating(w')
      BY <1>2, <1>10, OutsideUpdate DEF UpdateStep, AtHandInv
    <2>2. w'.pc = "adopt" => w'.rid # w'.mem.st.rid
      <3> SUFFICES ASSUME w'.pc = "adopt" PROVE w'.rid # w'.mem.st.rid
        OBVIOUS
      <3>1. ensureExists
        BY <1>2, CreatePC
      <3>2. \A y : Fail(y).pc # "adopt"
        BY <1>9
      <3>3. Goto("refetch").pc # "adopt" /\ Goto("creating").pc # "adopt"
        BY <1>2 DEF Goto, WorkerType
      <3>4. PICK r \in findResource :
              /\ w' = [w EXCEPT !.pc = "adopt", !.rid = r.id, !.dom = r.dom]
              /\ mem.st.rid \notin {q.id : q \in Listed}
        <4> HIDE DEF findResource, Listed
        <4> QED BY <3>1, <3>2, <3>3 DEF ensureExists, Refused
      <3>5. r.id # mem.st.rid
        BY <3>4 DEF findResource
      <3>6. w'.rid = r.id /\ w'.mem = mem
        BY <1>2, <3>4 DEF WorkerType, mem
      <3> QED BY <3>5, <3>6
    <2> QED BY <2>1, <2>2 DEF AtHandInv, Updating, mem
  <1>11. ASSUME Adopt PROVE S(w')
    <2> DEFINE st == [mem.st EXCEPT !.rid = w.rid, !.dom = w.dom, !.phase = "Creating",
                        !.ids = [k \in Kind |-> {}], !.hash = [k \in Kind |-> {}]]
               ok == [w EXCEPT !.pc = "update", !.adopted = TRUE]
    <2>1. st \in StatusType /\ st.rid = w.rid
      BY <1>2 DEF StatusType, Phase
    <2>2. ok \in WorkerType /\ ok.pc = "update" /\ ok.c = c0 /\ ok.updating = w.updating
      BY <1>2 DEF WorkerType, PC, c0
    <2>3. patchStatus(st, ok, Fail("Error")) /\ w.pc = "adopt"
      BY <1>11 DEF Adopt, At
    <2> HIDE DEF st, ok
    <2>4. w.rid # mem.st.rid /\ ~w.updating
      BY <2>3 DEF AtHandInv
    <2>5. CASE ButMem(w', Fail("Error"))
      BY <1>8, <1>9, <2>5
    <2>6. CASE /\ ButMem(w', ok)
               /\ cr'[c0].st = Merge(cr[c0].st, mem.st, st)
               /\ w'.mem.st = DecodedStatus(st, cr'[c0].st)
      <3>1. cr'[c0].st.rid = w.rid
        BY <2>1, <2>4, <2>6 DEF Merge, Sent
      <3>2. w'.mem.st.rid = w.rid
        BY <1>19, <2>1, <2>6, <3>1
      <3> QED BY <2>2, <2>4, <2>6, <3>1, <3>2 DEF ButMem
    <2> QED BY <1>2, <1>7, <2>1, <2>2, <2>3, <2>5, <2>6, PatchDone
  <1>12. ASSUME Refetch PROVE S(w')
    <2> DEFINE v == [w EXCEPT !.mem = cache[c0], !.pc = "update"]
    <2>1. UNCHANGED cr /\ Get(c0) /\ w.pc = "refetch" /\ (w' = v \/ w' = Ready(v))
      BY <1>12 DEF Refetch, At
    <2>2. v.mem = cache[c0] /\ v.c = c0 /\ v.pc = "update" /\ v.updating = w.updating
      BY <1>2 DEF WorkerType, c0
    <2>3. ~Seen({"lag"})' => cache[c0] = cr[c0]
      BY <1>2, <2>1 DEF Get, Fault, Seen, TypeOK
    <2> HIDE DEF v
    <2>4. CASE w' = v
      BY <2>1, <2>2, <2>3, <2>4 DEF AtHandInv
    <2>5. CASE w' = Ready(v)
      <3>1. Ready(v).pc = "ready" /\ ~Ready(v).updating
        BY IdleType DEF Ready, WorkerType, Idle
      <3> QED BY <2>5, <3>1 DEF Updating
    <2> QED BY <2>1, <2>4, <2>5
  <1>13. ASSUME NEW v \in WorkerType, v.c = c0, v.mem = mem, Updating(w), UNCHANGED cr,
                w' \in {UpdateTargets(v), UpdateRules(v)}
         PROVE  S(w')
    <2>1. \/ w'.pc = "ready" /\ ~w'.updating
          \/ w'.pc = "kids" /\ w'.mem = mem /\ w'.c = c0
      BY <1>13, StartReplaces
    <2> QED BY <1>5, <1>13, <2>1 DEF Updating
  <1>14. ASSUME updateResource PROVE S(w')
    <2> DEFINE v == [w EXCEPT !.updating = TRUE]
    <2>1. v \in WorkerType /\ v.c = c0 /\ v.mem = mem
      BY <1>2 DEF WorkerType, c0, mem
    <2>2. /\ UNCHANGED cr /\ Updating(w)
          /\ w' = UpdateTargets(v) \/ \E y : w' = Fail(y)
      BY <1>14 DEF updateResource, At, Updating
    <2> HIDE DEF v, S
    <2> QED BY <1>6, <1>13, <2>1, <2>2
  <1>15. ASSUME Pruned PROVE S(w')
    <2>1. UNCHANGED cr /\ Updating(w) /\ (w' = UpdateRules(w) \/ w' = Ready(w))
      BY <1>15 DEF Pruned, At, Updating
    <2>2. S(Ready(w))
      <3>1. Ready(w).pc = "ready" /\ ~Ready(w).updating
        BY IdleType DEF Ready, WorkerType, Idle
      <3> QED BY <3>1 DEF Updating
    <2> HIDE DEF S
    <2> QED BY <1>2, <1>13, <2>1, <2>2 DEF c0, mem
  <1>16. ASSUME NEW i \in Item, CreateKid(i) PROVE S(w')
    <2>1. UNCHANGED cr /\ w'.pc = "kids" /\ w'.c = c0 /\ w'.mem = mem
          /\ w'.updating = w.updating
      BY <1>2, <1>16 DEF CreateKid, KidFails, At, WorkerType, c0, mem
    <2> QED BY <1>5, <2>1 DEF Updating
  <1>17. ASSUME NEW id \in w.old, PruneKid(id) PROVE S(w')
    <2>1. UNCHANGED cr /\ w.pc = "prune" /\ w'.pc = "prune" /\ w'.c = c0 /\ w'.mem = mem
          /\ w'.updating = w.updating
      BY <1>2, <1>17 DEF PruneKid, At, WorkerType, c0, mem
    <2> QED BY <1>5, <2>1 DEF Updating
  <1>18. ASSUME PersistKids PROVE S(w')
    <2> DEFINE s1 == [mem.st EXCEPT !.ids[w.kind] = w.got[w.kind],
                        !.hash[w.kind] = hashJSON(mem.spec.kids[w.kind])]
               s2 == [mem.st EXCEPT !.ids[w.kind] = append(@, w.got[w.kind])]
    <2>1. s1 \in StatusType /\ s1.rid = mem.st.rid
      <3>1. hashJSON(mem.spec.kids[w.kind]) \in SUBSET (SUBSET Item)
        BY <1>2 DEF SpecType, hashJSON
      <3> QED BY <1>2, <3>1 DEF StatusType
    <2>2. s2 \in StatusType /\ s2.rid = mem.st.rid
      BY <1>2 DEF StatusType, append
    <2>3. Updating(w)
      BY <1>18 DEF PersistKids, Updating
    <2>4. Goto("prune") \in WorkerType /\ Goto("prune").pc = "prune"
          /\ Goto("prune").c = c0
      BY <1>2 DEF Goto, WorkerType, PC, c0
    <2>5. \/ patchStatus(s1, Goto("prune"), Fail("Error"))
          \/ patchStatus(s2, Fail(UpdateWhy), Fail(UpdateWhy))
          \/ w' = Fail(UpdateWhy)
      BY <1>18 DEF PersistKids
    <2> HIDE DEF s1, s2
    <2>6. \/ /\ ButMem(w', Goto("prune"))
             /\ cr'[c0].st = Merge(cr[c0].st, mem.st, s1)
             /\ w'.mem.st = DecodedStatus(s1, cr'[c0].st)
          \/ ButMem(w', Fail("Error")) \/ ButMem(w', Fail(UpdateWhy)) \/ w' = Fail(UpdateWhy)
      <3>1. CASE patchStatus(s1, Goto("prune"), Fail("Error"))
        BY <1>2, <1>7, <2>1, <2>4, <3>1, PatchDone
      <3>2. CASE patchStatus(s2, Fail(UpdateWhy), Fail(UpdateWhy))
        BY <1>2, <1>7, <2>2, <3>2, PatchDone
      <3> QED BY <2>5, <3>1, <3>2
    <2>7. CASE /\ ButMem(w', Goto("prune"))
               /\ cr'[c0].st = Merge(cr[c0].st, mem.st, s1)
               /\ w'.mem.st = DecodedStatus(s1, cr'[c0].st)
      <3>1. cr'[c0].st.rid = cr[c0].st.rid
        BY <2>1, <2>7 DEF Merge, Sent
      <3>2. w'.mem.st.rid \in {mem.st.rid, cr[c0].st.rid}
        BY <1>19, <2>1, <2>7, <3>1
      <3>3. w'.pc = "prune" /\ w'.c = c0
        BY <2>4, <2>7 DEF ButMem
      <3> QED BY <1>5, <2>3, <3>1, <3>2, <3>3
    <2> QED BY <1>6, <1>8, <1>9, <2>6, <2>7
  <1> HIDE DEF S
  <1> QED BY <1>1, <1>10, <1>11, <1>12, <1>14, <1>15, <1>16, <1>17, <1>18 DEF UpdateStep

\* What a successful PersistKids leaves at the API server: the identifiers and the hash
\* were both sent, for they differ from what memory held.
LEMMA PersistStep ==
  ASSUME TypeOK, ReplaceInv, PersistKids, w'.pc = "prune"
  PROVE  LET k == w.kind
         IN  /\ w'.kind = k /\ w'.old = w.old /\ w'.c = c0 /\ w.errs = {} /\ w.todo = {}
             /\ w.pc = "kids" /\ w.updating
             /\ cr'[c0].st.rid = cr[c0].st.rid
             /\ cr'[c0].st.hash[k] = {mem.spec.kids[k]}
             /\ w.old # {} => cr'[c0].st.ids[k] = w.got[k]
  <1> DEFINE k == w.kind
             s1 == [mem.st EXCEPT !.ids[k] = w.got[k],
                      !.hash[k] = hashJSON(mem.spec.kids[k])]
             s2 == [mem.st EXCEPT !.ids[k] = append(@, w.got[k])]
  <1>1. /\ w \in WorkerType /\ c0 \in CR /\ mem.st \in StatusType /\ mem.spec \in SpecType
        /\ k \in Kind /\ w.got \in [Kind -> SUBSET Nat]
    BY DEF TypeOK, WorkerType, ObjectType, c0, mem
  <1>2. /\ s1 \in StatusType /\ s1.rid = mem.st.rid /\ s1.ids[k] = w.got[k]
        /\ s1.hash[k] = {mem.spec.kids[k]}
    <2>1. hashJSON(mem.spec.kids[k]) \in SUBSET (SUBSET Item)
      BY <1>1 DEF SpecType, hashJSON
    <2> QED BY <1>1, <2>1 DEF StatusType, hashJSON
  <1>3. s2 \in StatusType
    BY <1>1 DEF StatusType, append
  <1>4. w.pc = "kids" /\ w.updating /\ w.todo = {}
    BY DEF PersistKids, AllTried, At
  <1>5. w.old = mem.st.ids[k] /\ {mem.spec.kids[k]} # mem.st.hash[k] /\ w.got[k] \cap w.old = {}
    BY <1>4 DEF ReplaceInv, Stale, hashJSON, mem
  <1>6. /\ Fail("Error") \in WorkerType /\ Fail(UpdateWhy) \in WorkerType
        /\ \A y : Fail(y).pc = "fail"
    <2>1. UpdateWhy \in Why /\ "Error" \in Why
      BY DEF UpdateWhy, Why
    <2> QED BY <1>1, <2>1, FailType, IdleType DEF Fail, WorkerType
  <1>7. /\ Goto("prune") \in WorkerType /\ Goto("prune").kind = k
        /\ Goto("prune").old = w.old /\ Goto("prune").c = c0
    BY <1>1 DEF Goto, WorkerType, PC, c0
  <1>8. \/ w.errs = {} /\ patchStatus(s1, Goto("prune"), Fail("Error"))
        \/ patchStatus(s2, Fail(UpdateWhy), Fail(UpdateWhy))
        \/ w' = Fail(UpdateWhy)
    BY DEF PersistKids
  <1> HIDE DEF s1, s2
  <1>9. CASE w.errs = {} /\ patchStatus(s1, Goto("prune"), Fail("Error"))
    <2>1. /\ ButMem(w', Goto("prune"))
          /\ cr'[c0].st = Merge(cr[c0].st, mem.st, s1)
      <3>1. \/ /\ ButMem(w', Goto("prune"))
               /\ cr'[c0].st = Merge(cr[c0].st, mem.st, s1)
            \/ ButMem(w', Fail("Error"))
        BY <1>2, <1>6, <1>7, <1>9, PatchDone
      <3>2. ~ButMem(w', Fail("Error"))
        BY <1>6 DEF ButMem
      <3> QED BY <3>1, <3>2
    <2>2. /\ w'.kind = k /\ w'.old = w.old /\ w'.c = c0
      BY <1>7, <2>1 DEF ButMem
    <2>3. cr'[c0].st.rid = cr[c0].st.rid
      BY <1>2, <2>1 DEF Merge, Sent
    <2>4. cr'[c0].st.hash[k] = {mem.spec.kids[k]}
      BY <1>1, <1>2, <1>5, <2>1 DEF Merge, Sent
    <2>5. w.old # {} => cr'[c0].st.ids[k] = w.got[k]
      <3>1. w.old # {} => w.got[k] # mem.st.ids[k]
        BY <1>5
      <3> QED BY <1>1, <1>2, <2>1, <3>1 DEF Merge, Sent
    <2> QED BY <1>4, <1>9, <2>2, <2>3, <2>4, <2>5
  <1>10. CASE patchStatus(s2, Fail(UpdateWhy), Fail(UpdateWhy))
    <2>1. ButMem(w', Fail(UpdateWhy))
      BY <1>3, <1>6, <1>10, PatchDone
    <2> QED BY <1>6, <2>1 DEF ButMem
  <1>11. CASE w' = Fail(UpdateWhy)
    BY <1>6, <1>11
  <1> QED BY <1>8, <1>9, <1>10, <1>11

\* Only these steps lead to the creation or to the deletion of children in
\* updateResource.
LEMMA ReplaceSteps ==
  ASSUME LinkInv, AtHandInv, WorkerStep
  PROVE  /\ w'.pc = "kids" /\ w'.updating =>
              updateResource \/ Pruned \/ \E i \in Item : CreateKid(i)
         /\ w'.pc = "prune" => PersistKids \/ \E id \in w.old : PruneKid(id)
  <1>1. /\ TypeOK /\ w \in WorkerType /\ c0 \in CR /\ mem.st \in StatusType
        /\ mem.spec \in SpecType /\ w.kind \in Kind /\ w.got \in [Kind -> SUBSET Nat]
        /\ w.rid \in Nat /\ w.dom \in Seq(Char) /\ cache[c0] \in ObjectType
    BY DEF LinkInv, CleanupInv, TypeOK, WorkerType, ObjectType, c0, mem
  <1>2. \A y \in Why : Fail(y) \in WorkerType /\ Fail(y).pc = "fail"
    BY <1>1, FailType, IdleType DEF Fail, WorkerType
  <1>3. "Error" \in Why /\ UpdateWhy \in Why /\ "Reset" \in Why
    BY DEF Why, UpdateWhy
  <1>4. \A v : Ready(v).pc = "ready"
    BY IdleType DEF Ready, WorkerType
  <1>5. CASE ~UpdateStep
    BY <1>1, <1>5, OutsideUpdate DEF UpdateStep, AtHandInv, Updating
  <1>6. CASE Adopt
    <2> DEFINE ok == [w EXCEPT !.pc = "update", !.adopted = TRUE]
    <2>1. "update" \in PC
      BY DEF PC
    <2>2. ok \in WorkerType /\ ok.pc = "update"
      BY <1>1, <2>1 DEF WorkerType
    <2> DEFINE st == [mem.st EXCEPT !.rid = w.rid, !.dom = w.dom, !.phase = "Creating",
                        !.ids = [k \in Kind |-> {}], !.hash = [k \in Kind |-> {}]]
    <2>3. patchStatus(st, ok, Fail("Error"))
      BY <1>6 DEF Adopt
    <2> HIDE DEF ok, st
    <2>4. Fail("Error") \in WorkerType /\ Fail("Error").pc = "fail"
      BY <1>2, <1>3
    <2>5. w'.pc \in {ok.pc, Fail("Error").pc}
      BY <2>2, <2>3, <2>4, PatchPC
    <2> QED BY <2>2, <2>4, <2>5
  <1>7. CASE Refetch
    <2>1. [w EXCEPT !.mem = cache[c0], !.pc = "update"].pc = "update"
      BY <1>1 DEF WorkerType
    <2>2. w'.pc \in {"update", "ready"}
      BY <1>4, <1>7, <2>1 DEF Refetch
    <2> QED BY <2>2
  <1>8. CASE PersistKids
    <2>1. Goto("prune") \in WorkerType /\ Goto("prune").pc = "prune"
      BY <1>1 DEF Goto, WorkerType, PC
    <2>2. w'.pc \in {"prune", "fail"}
      BY <1>2, <1>3, <1>8, <2>1, PatchPC DEF PersistKids
    <2> QED BY <1>8, <2>2
  <1>9. CASE \E i \in Item : CreateKid(i)
    <2>1. w'.pc = "kids"
      BY <1>1, <1>9 DEF CreateKid, KidFails, At, WorkerType
    <2> QED BY <1>9, <2>1
  <1>10. CASE \E id \in w.old : PruneKid(id)
    <2>1. w'.pc = "prune"
      BY <1>1, <1>10 DEF PruneKid, At, WorkerType
    <2> QED BY <1>10, <2>1
  <1>11. CASE updateResource \/ Pruned
    <2>1. w'.pc # "prune"
      <3> DEFINE v == [w EXCEPT !.updating = TRUE]
      <3>1. v \in WorkerType
        BY <1>1 DEF WorkerType
      <3>2. w' = UpdateTargets(v) \/ w' = UpdateRules(w) \/ w' = Ready(w)
            \/ w' = Fail("Error") \/ w' = Fail("Reset")
        BY <1>11 DEF updateResource, Pruned
      <3> HIDE DEF v
      <3>3. \A u \in {UpdateTargets(v), UpdateRules(v)} : u.pc # "prune"
        BY <3>1, StartReplaces
      <3>4. \A u \in {UpdateTargets(w), UpdateRules(w)} : u.pc # "prune"
        BY <1>1, StartReplaces
      <3> QED BY <1>2, <1>3, <1>4, <3>2, <3>3, <3>4
    <2> QED BY <1>11, <2>1
  <1> QED BY <1>5, <1>6, <1>7, <1>8, <1>9, <1>10, <1>11 DEF UpdateStep

LEMMA ReplaceInvWorker ==
  ASSUME LinkInv, ListInv, AtHandInv, ReplaceInv, WorkerStep
  PROVE  ReplaceInv'
  <1> SUFFICES ASSUME w'.pc = "kids", w'.updating
               PROVE  /\ w'.old = w'.mem.st.ids[w'.kind] /\ Stale(w', w'.kind)
                      /\ w'.got[w'.kind] \cap w'.old = {}
                      /\ w'.errs = {} =>
                           \A i \in w'.mem.spec.kids[w'.kind] \ w'.todo :
                             \/ \E y \in kids' : /\ y.id \in w'.got[w'.kind] /\ y.item = i
                                                 /\ y.rid = w'.mem.st.rid
                             \/ Seen({"drift"})' /\ w'.mem.st.rid \notin live'
    BY DEF ReplaceInv, mem, Lost, Stale
  <1>1. /\ TypeOK /\ w \in WorkerType /\ c0 \in CR /\ w.kind \in Kind
        /\ w.got \in [Kind -> SUBSET Nat] /\ nextId \in Nat
    BY DEF LinkInv, CleanupInv, TypeOK, WorkerType, ObjectType, c0, mem
  <1>2. ASSUME NEW v \in WorkerType, w' \in {UpdateTargets(v), UpdateRules(v)}
        PROVE  /\ w'.old = w'.mem.st.ids[w'.kind] /\ Stale(w', w'.kind)
               /\ w'.got[w'.kind] = {} /\ w'.todo = w'.mem.spec.kids[w'.kind]
    <2>1. /\ w'.old = v.mem.st.ids[w'.kind] /\ Stale(w', w'.kind) /\ w'.mem = v.mem
          /\ w'.got[w'.kind] = {} /\ w'.todo = v.mem.spec.kids[w'.kind]
      BY <1>2, StartReplaces
    <2> QED BY <2>1
  <1>3. CASE updateResource \/ Pruned
    <2> DEFINE v == [w EXCEPT !.updating = TRUE]
    <2>1. v \in WorkerType
      BY <1>1 DEF WorkerType
    <2>2. (\A y : Fail(y).pc = "fail") /\ Ready(w).pc = "ready"
      BY IdleType DEF Fail, Ready, WorkerType
    <2>3. w' = UpdateTargets(v) \/ w' = UpdateRules(w)
      BY <1>3, <2>2 DEF updateResource, Pruned
    <2> HIDE DEF v
    <2>4. /\ w'.old = w'.mem.st.ids[w'.kind] /\ Stale(w', w'.kind)
          /\ w'.got[w'.kind] = {} /\ w'.todo = w'.mem.spec.kids[w'.kind]
      BY <1>1, <1>2, <2>1, <2>3
    <2> QED BY <2>4
  <1>4. ASSUME NEW i \in Item, CreateKid(i)
        PROVE  /\ w'.old = w'.mem.st.ids[w'.kind] /\ Stale(w', w'.kind)
               /\ w'.got[w'.kind] \cap w'.old = {}
               /\ w'.errs = {} =>
                    \A j \in w'.mem.spec.kids[w'.kind] \ w'.todo :
                      \/ \E y \in kids' : /\ y.id \in w'.got[w'.kind] /\ y.item = j
                                          /\ y.rid = w'.mem.st.rid
                      \/ Seen({"drift"})' /\ w'.mem.st.rid \notin live'
    <2>1. /\ w.pc = "kids" /\ w'.mem = w.mem /\ w'.kind = w.kind /\ w'.old = w.old
          /\ w'.todo = w.todo \ {i} /\ w'.updating = w.updating /\ resources' = resources
          /\ \/ /\ w'.got[w.kind] = w.got[w.kind] \cup {nextId}
                /\ w'.errs = w.errs /\ kids' = kids \cup {Kid(i)}
             \/ /\ w'.got = w.got /\ w'.errs # {}
      <3>1. /\ w.pc = "kids" /\ w'.mem = w.mem /\ w'.kind = w.kind /\ w'.old = w.old
            /\ w'.todo = w.todo \ {i} /\ w'.updating = w.updating /\ resources' = resources
        BY <1>1, <1>4 DEF CreateKid, KidFails, At, WorkerType
      <3>2. \/ /\ w' = [w EXCEPT !.todo = @ \ {i}, !.got[w.kind] = @ \cup {nextId}]
               /\ kids' = kids \cup {Kid(i)}
            \/ \E e : KidFails(i, e)
        BY <1>4 DEF CreateKid
      <3>3. ASSUME NEW e, KidFails(i, e) PROVE w'.got = w.got /\ w'.errs # {}
        <4>1. e \in w'.errs /\ w'.got = w.got
          BY <1>1, <3>3 DEF KidFails, WorkerType
        <4> QED BY <4>1
      <3>4. CASE w' = [w EXCEPT !.todo = @ \ {i}, !.got[w.kind] = @ \cup {nextId}]
        <4>1. w'.got[w.kind] = w.got[w.kind] \cup {nextId} /\ w'.errs = w.errs
          BY <1>1, <3>4 DEF WorkerType
        <4>2. \A e : KidFails(i, e) => w'.got = w.got /\ w'.errs # {}
          BY <3>3
        <4> QED BY <3>1, <3>2, <4>1, <4>2
      <3> QED BY <3>1, <3>2, <3>3, <3>4
    <2>2. /\ w.old = w.mem.st.ids[w.kind] /\ Stale(w, w.kind)
          /\ w.got[w.kind] \cap w.old = {}
          /\ w.errs = {} =>
               \A j \in w.mem.spec.kids[w.kind] \ w.todo :
                 \/ \E y \in kids : /\ y.id \in w.got[w.kind] /\ y.item = j
                                    /\ y.rid = w.mem.st.rid
                 \/ Lost(w.mem.st.rid)
      BY <2>1 DEF ReplaceInv, mem
    <2>3. w'.old = w'.mem.st.ids[w'.kind] /\ Stale(w', w'.kind)
      BY <2>1, <2>2 DEF Stale
    <2>4. nextId \notin w.old
      BY <1>1 DEF ListInv, KidIds, OldKid
    <2>5. w'.got[w'.kind] \cap w'.old = {}
      BY <2>1, <2>2, <2>4
    <2>6. \A id : Lost(id) => Seen({"drift"})' /\ id \notin live'
      <3>1. FaultsGrow
        BY <1>1, FaultsGrowNext DEF Next
      <3> QED BY <2>1, <3>1 DEF Lost, FaultsGrow, Seen, live
    <2>7. ASSUME w'.errs = {}, NEW j \in w'.mem.spec.kids[w'.kind] \ w'.todo
          PROVE  \/ \E y \in kids' : /\ y.id \in w'.got[w'.kind] /\ y.item = j
                                     /\ y.rid = w'.mem.st.rid
                 \/ Seen({"drift"})' /\ w'.mem.st.rid \notin live'
      <3>1. /\ w'.got[w.kind] = w.got[w.kind] \cup {nextId}
            /\ w.errs = {} /\ kids' = kids \cup {Kid(i)}
        BY <2>1, <2>7
      <3>2. CASE j = i
        <4>1. Kid(i).id = nextId /\ Kid(i).item = i /\ Kid(i).rid = w.mem.st.rid
          BY <2>1 DEF Kid, KidsOf, mem
        <4> QED BY <2>1, <3>1, <3>2, <4>1
      <3>3. CASE j # i
        <4>1. \/ \E y \in kids : /\ y.id \in w.got[w.kind] /\ y.item = j
                                 /\ y.rid = w.mem.st.rid
              \/ Lost(w.mem.st.rid)
          BY <2>1, <2>2, <2>7, <3>1, <3>3
        <4>2. CASE Lost(w.mem.st.rid)
          BY <2>1, <2>6, <4>2
        <4> QED BY <2>1, <3>1, <4>1, <4>2
      <3> QED BY <3>2, <3>3
    <2> QED BY <2>3, <2>5, <2>7
  <1>5. updateResource \/ Pruned \/ \E i \in Item : CreateKid(i)
    BY ReplaceSteps
  <1> QED BY <1>3, <1>4, <1>5

LEMMA PruneInvWorker ==
  ASSUME LinkInv, ListInv, AtHandInv, ReplaceInv, PruneInv, WorkerStep
  PROVE  PruneInv'
  <1> DEFINE Now(st, k) == ServedBy(kids', Seen({"drift"})', Seen({"lag"})', live', st, k)
  <1> SUFFICES ASSUME w'.pc = "prune", w'.old # {}
               PROVE  /\ cr'[w'.c].st.ids[w'.kind] \cap w'.old = {}
                      /\ Now(cr'[w'.c].st, w'.kind)
    BY DEF PruneInv, c0, Served
  <1>1. /\ TypeOK /\ w \in WorkerType /\ c0 \in CR /\ w.kind \in Kind
        /\ mem.st \in StatusType
    BY DEF LinkInv, CleanupInv, TypeOK, WorkerType, ObjectType, c0, mem
  <1>2. FaultsGrow
    BY <1>1, FaultsGrowNext DEF Next
  <1>3. ASSUME PersistKids
        PROVE  /\ cr'[w'.c].st.ids[w'.kind] \cap w'.old = {}
               /\ Now(cr'[w'.c].st, w'.kind)
    <2> DEFINE k == w.kind
    <2>1. /\ w'.kind = k /\ w'.old = w.old /\ w'.c = c0 /\ w.errs = {} /\ w.todo = {}
          /\ w.pc = "kids" /\ w.updating
          /\ cr'[c0].st.rid = cr[c0].st.rid
          /\ cr'[c0].st.hash[k] = {mem.spec.kids[k]}
          /\ cr'[c0].st.ids[k] = w.got[k]
      BY <1>1, <1>3, PersistStep
    <2>2. UNCHANGED <<resources, kids>>
      BY <1>3 DEF PersistKids, pangolin
    <2>3. /\ w.got[k] \cap w.old = {}
          /\ \A i \in mem.spec.kids[k] :
               \/ \E y \in kids : y.id \in w.got[k] /\ y.item = i /\ y.rid = mem.st.rid
               \/ Lost(mem.st.rid)
      BY <2>1 DEF ReplaceInv
    <2>4. ~Seen({"lag"})' => mem.st.rid = cr'[c0].st.rid
      BY <1>2, <2>1 DEF AtHandInv, Updating, FaultsGrow, Seen
    <2>5. ASSUME NEW i \in UNION cr'[c0].st.hash[k]
          PROVE  \/ \E y \in kids' : /\ y.id \in cr'[c0].st.ids[k] /\ y.item = i
                                     /\ ~Seen({"lag"})' => y.rid = cr'[c0].st.rid
                 \/ Seen({"drift"})' /\ (Seen({"lag"})' \/ cr'[c0].st.rid \notin live')
      <3>1. i \in mem.spec.kids[k]
        BY <2>1, <2>5
      <3>2. \/ \E y \in kids : y.id \in w.got[k] /\ y.item = i /\ y.rid = mem.st.rid
            \/ Lost(mem.st.rid)
        BY <2>3, <3>1
      <3>3. Lost(mem.st.rid) => Seen({"drift"})' /\ mem.st.rid \notin live'
        BY <1>2, <2>2 DEF Lost, live, FaultsGrow, Seen
      <3> QED BY <2>1, <2>2, <2>4, <3>2, <3>3
    <2>6. Now(cr'[w'.c].st, w'.kind)
      BY <2>1, <2>5 DEF ServedBy
    <2> QED BY <2>1, <2>3, <2>6
  <1>4. ASSUME NEW id \in w.old, PruneKid(id)
        PROVE  /\ cr'[w'.c].st.ids[w'.kind] \cap w'.old = {}
               /\ Now(cr'[w'.c].st, w'.kind)
    <2>1. /\ w.pc = "prune" /\ w'.c = c0 /\ w'.kind = w.kind /\ w'.old = w.old \ {id}
          /\ UNCHANGED <<cr, resources>> /\ {x \in kids : x.id # id} \subseteq kids'
      BY <1>1, <1>4 DEF PruneKid, At, WorkerType, c0
    <2>2. cr[c0].st.ids[w.kind] \cap w.old = {} /\ Served(cr[c0].st, w.kind)
      BY <1>4, <2>1 DEF PruneInv
    <2>3. ASSUME NEW i \in UNION cr[c0].st.hash[w.kind]
          PROVE  \/ \E y \in kids' : /\ y.id \in cr[c0].st.ids[w.kind] /\ y.item = i
                                     /\ ~Seen({"lag"})' => y.rid = cr[c0].st.rid
                 \/ Seen({"drift"})' /\ (Seen({"lag"})' \/ cr[c0].st.rid \notin live')
      <3>1. \/ \E y \in kids : /\ y.id \in cr[c0].st.ids[w.kind] /\ y.item = i
                               /\ ~Seen({"lag"}) => y.rid = cr[c0].st.rid
            \/ Seen({"drift"}) /\ (Seen({"lag"}) \/ cr[c0].st.rid \notin live)
        BY <2>2 DEF Served, ServedBy
      <3>2. live' = live
        BY <2>1 DEF live
      <3>3. \A y \in kids : y.id \in cr[c0].st.ids[w.kind] => y \in kids'
        BY <1>4, <2>1, <2>2
      <3>4. (Seen({"drift"}) => Seen({"drift"})') /\ (Seen({"lag"}) => Seen({"lag"})')
        BY <1>2 DEF FaultsGrow, Seen
      <3> QED BY <3>1, <3>2, <3>3, <3>4
    <2>4. Now(cr[c0].st, w.kind)
      BY <2>3 DEF ServedBy
    <2>5. Now(cr'[w'.c].st, w'.kind)
      BY <2>1, <2>4
    <2> QED BY <2>1, <2>2, <2>5
  <1>5. PersistKids \/ \E id \in w.old : PruneKid(id)
    BY ReplaceSteps
  <1> QED BY <1>3, <1>4, <1>5

LEMMA ChildInvInit == Init => ChildInv
  <1> SUFFICES ASSUME Init PROVE ChildInv
    OBVIOUS
  <1>1. LinkInv
    BY LinkInvInit
  <1>2. \A k \in Kind : ZeroStatus.ids[k] = {}
    BY DEF ZeroStatus
  <1>3. Gone(0).st = ZeroStatus
    BY DEF Gone
  <1>4. Lists(Gone(0).st)
    BY <1>2, <1>3 DEF Lists
  <1>5. /\ w.pc = "idle" /\ ~w.updating /\ mem = Gone(0) /\ w.old = {}
        /\ \A k \in Kind : w.got[k] = {}
    BY DEF Init, Idle, mem
  <1>6. ListInv
    BY <1>4, <1>5 DEF ListInv, Init
  <1> QED BY <1>1, <1>5, <1>6 DEF ChildInv, AtHandInv, ReplaceInv, PruneInv, Updating

LEMMA ChildInvNext == ChildInv /\ [Next]_vars => ChildInv'
  <1> SUFFICES ASSUME ChildInv, [Next]_vars PROVE ChildInv'
    OBVIOUS
  <1>1. LinkInv /\ ListInv /\ AtHandInv /\ ReplaceInv /\ PruneInv
    BY DEF ChildInv
  <1>2. TypeOK /\ WorkerInv /\ IdsInv
    BY <1>1 DEF LinkInv, CleanupInv
  <1>3. LinkInv'
    BY <1>1, LinkInvNext
  <1>4. ListInv'
    BY <1>1, <1>2, ListInvNext
  <1>5. CASE WorkerStep
    <2>1. AtHandInv'
      BY <1>1, <1>5, AtHandWorker
    <2>2. ReplaceInv'
      BY <1>1, <1>5, ReplaceInvWorker
    <2>3. PruneInv'
      BY <1>1, <1>5, PruneInvWorker
    <2> QED BY <1>3, <1>4, <2>1, <2>2, <2>3 DEF ChildInv
  <1>6. CASE ~WorkerStep
    <2>1. FaultsGrow
      BY <1>2, FaultsGrowNext
    <2>2. /\ Seen({"drift"}) => Seen({"drift"})'
          /\ Seen({"lag"}) => Seen({"lag"})'
      BY <2>1 DEF FaultsGrow, Seen
    <2>3. /\ \A c \in CR : cr'[c].st.rid = cr[c].st.rid
          /\ w' = w \/ Crash \/ \E c \in CR : Reconcile(c)
          /\ live' \subseteq live
      BY <1>1, <1>6, OthersKeep DEF live
    <2>4. /\ \A c \in CR : cr[c].fin => cr'[c].st = cr[c].st
          /\ UNCHANGED pangolin \/ \E id \in live : Drift(id)
      BY <1>1, <1>6, OthersChildren
    <2>5. \A y \in kids \ kids' : Seen({"drift"})' /\ y.rid \notin live'
      <3>1. ASSUME NEW id \in live, Drift(id), NEW y \in kids \ kids'
            PROVE  Seen({"drift"})' /\ y.rid \notin live'
        BY <1>2, <3>1 DEF Drift, DeleteResource, Fault, Seen, live, TypeOK
      <3> QED BY <2>4, <3>1 DEF pangolin
    <2>6. CASE w' = w
      <3>1. c0 \in CR /\ c0' = c0 /\ mem' = mem
        BY <1>2, <2>6 DEF TypeOK, WorkerType, c0, mem
      <3>2. AtHandInv'
        BY <1>1, <2>2, <2>3, <2>6, <3>1 DEF AtHandInv, Updating
      <3>3. ReplaceInv'
        <4> SUFFICES ASSUME w.pc = "kids", w.updating, w.errs = {},
                            NEW i \in mem.spec.kids[w.kind] \ w.todo
                     PROVE  \/ \E y \in kids' : /\ y.id \in w.got[w.kind] /\ y.item = i
                                                /\ y.rid = mem.st.rid
                            \/ Seen({"drift"})' /\ mem.st.rid \notin live'
          BY <1>1, <2>6, <3>1 DEF ReplaceInv, Lost, Stale, Seen, live
        <4>1. \/ \E y \in kids : y.id \in w.got[w.kind] /\ y.item = i /\ y.rid = mem.st.rid
              \/ Seen({"drift"}) /\ mem.st.rid \notin live
          BY <1>1 DEF ReplaceInv, Lost
        <4> QED BY <2>2, <2>3, <2>5, <4>1
      <3>4. PruneInv'
        <4> DEFINE Now(st, k) ==
                     ServedBy(kids', Seen({"drift"})', Seen({"lag"})', live', st, k)
        <4> SUFFICES ASSUME w.pc = "prune", w.old # {}
                     PROVE  /\ cr'[c0].st.ids[w.kind] \cap w.old = {}
                            /\ Now(cr'[c0].st, w.kind)
          BY <2>6, <3>1 DEF PruneInv, Served
        <4>1. cr'[c0].st = cr[c0].st
          <5>1. w.pc \in Working
            BY DEF Working, PC
          <5>2. cr[c0].fin
            BY <1>2, <5>1 DEF WorkerInv
          <5> QED BY <2>4, <3>1, <5>2
        <4>2. cr[c0].st.ids[w.kind] \cap w.old = {} /\ Served(cr[c0].st, w.kind)
          BY <1>1 DEF PruneInv
        <4>3. ASSUME NEW i \in UNION cr[c0].st.hash[w.kind]
              PROVE  \/ \E y \in kids' : /\ y.id \in cr[c0].st.ids[w.kind] /\ y.item = i
                                         /\ ~Seen({"lag"})' => y.rid = cr[c0].st.rid
                     \/ Seen({"drift"})' /\ (Seen({"lag"})' \/ cr[c0].st.rid \notin live')
          <5>1. \/ \E y \in kids : /\ y.id \in cr[c0].st.ids[w.kind] /\ y.item = i
                                   /\ ~Seen({"lag"}) => y.rid = cr[c0].st.rid
                \/ Seen({"drift"}) /\ (Seen({"lag"}) \/ cr[c0].st.rid \notin live)
            BY <4>2 DEF Served, ServedBy
          <5> QED BY <2>2, <2>3, <2>5, <5>1
        <4>4. Now(cr[c0].st, w.kind)
          BY <4>3 DEF ServedBy
        <4> QED BY <4>1, <4>2, <4>4
      <3> QED BY <1>3, <1>4, <3>2, <3>3, <3>4 DEF ChildInv
    <2>7. CASE Crash \/ \E c \in CR : Reconcile(c)
      <3>1. /\ Idle.pc = "idle" /\ ~Idle.updating
        BY DEF Idle
      <3>2. w'.pc \notin {"update", "adopt", "prune", "kids"} /\ ~w'.updating
        <4>1. CASE Crash
          BY <3>1, <4>1 DEF Crash
        <4>2. CASE \E c \in CR : Reconcile(c)
          BY <3>1, <4>2, IdleType DEF Reconcile, WorkerType
        <4> QED BY <2>7, <4>1, <4>2
      <3> QED BY <1>3, <1>4, <3>2 DEF ChildInv, AtHandInv, ReplaceInv, PruneInv, Updating
    <2> QED BY <2>3, <2>6, <2>7
  <1> QED BY <1>5, <1>6

LEMMA ChildInvariant == Spec => []ChildInv
  <1>1. Init => ChildInv
    BY ChildInvInit
  <1>2. ChildInv /\ [Next]_vars => ChildInv'
    BY ChildInvNext
  <1> QED BY <1>1, <1>2, PTL DEF Spec

\* A child goes with its resource, or PruneKid deletes it.
LEMMA KidGoes ==
  ASSUME TypeOK, [Next]_vars, NEW x \in kids \ kids', x.rid \in live'
  PROVE  \E id \in w.old : PruneKid(id)
  <1>1. UNCHANGED pangolin => kids' = kids
    BY DEF pangolin
  <1>2. \A id : DeleteResource(id) => FALSE
    BY DEF DeleteResource, live
  <1>3. \A id, h, b : UpdateResource(id, h, b) => kids' = kids
    BY DEF UpdateResource
  <1>4. CASE WorkerStep
    <2>1. CASE AddFinalizer \/ ResolveSite \/ ensureExists \/ Adopt \/ MarkCreating
               \/ RecordResource \/ Reget \/ CreatedTargets \/ CreatedRules \/ Refetch
               \/ PersistKids \/ Pruned \/ MarkReady \/ ReportFailure \/ RemoveFinalizer
      BY <1>1, <2>1 DEF AddFinalizer, ResolveSite, ensureExists, Refused, Adopt,
         MarkCreating, RecordResource, Reget, CreatedTargets, CreatedRules, Refetch,
         PersistKids, Pruned, MarkReady, ReportFailure, RemoveFinalizer
    <2>2. CASE createResource \/ \E i \in Item : CreateKid(i)
      BY <1>1, <2>2 DEF createResource, Refused, CreateKid
    <2>3. CASE Rollback \/ Cleanup
      BY <1>1, <1>2, <2>3 DEF Rollback, Cleanup
    <2>4. CASE Settings \/ updateResource
      BY <1>1, <1>3, <2>4 DEF Settings, updateResource, Refused
    <2> QED BY <1>4, <2>1, <2>2, <2>3, <2>4 DEF WorkerStep
  <1>5. CASE Environment
    BY <1>1, <1>2, <1>5
       DEF Environment, UserCreate, UserEdit, UserDelete, Drift, SiteReady, SiteLost, Crash
  <1>6. CASE (\E c \in CR : CacheSync(c) \/ Reconcile(c)) \/ UNCHANGED vars
    BY <1>1, <1>6 DEF CacheSync, Reconcile, vars, pangolin
  <1> QED BY <1>4, <1>5, <1>6 DEF Next

\* updateResource, "Create new before deleting old to avoid dropping traffic": whatever
\* fails, restarts or is edited in between, an old target or rule of a living resource
\* is deleted only when the status lists the new ones and these serve every item of the
\* spec that the status says is applied.
THEOREM NoTrafficIsLost == Spec => NoTrafficGap
  <1> DEFINE Step ==
        \A x \in kids \ kids' :
          x.rid \in live' /\ (Seen({"drift"}) => x.rid = cr[c0].st.rid /\ ~Seen({"lag"})) =>
            LET st == cr[c0].st
            IN  /\ x.id \notin st.ids[x.kind]
                /\ \A i \in UNION st.hash[x.kind] :
                     \E y \in kids' : y.id \in st.ids[x.kind] /\ y.item = i
  <1>1. ChildInv /\ [Next]_vars => [Step]_vars
    <2> SUFFICES ASSUME ChildInv, [Next]_vars, NEW x \in kids \ kids', x.rid \in live',
                        Seen({"drift"}) => x.rid = cr[c0].st.rid /\ ~Seen({"lag"})
                 PROVE  /\ x.id \notin cr[c0].st.ids[x.kind]
                        /\ \A i \in UNION cr[c0].st.hash[x.kind] :
                             \E y \in kids' : y.id \in cr[c0].st.ids[x.kind] /\ y.item = i
      OBVIOUS
    <2>1. LinkInv /\ TypeOK /\ ListInv /\ PruneInv
      BY DEF ChildInv, LinkInv, CleanupInv
    <2>2. PICK id \in w.old : PruneKid(id)
      BY <2>1, KidGoes
    <2>3. x.id = id /\ resources' = resources /\ kids' = {y \in kids : y.id # id}
      BY <2>2 DEF PruneKid
    <2>4. x.kind = w.kind
      BY <2>1, <2>3 DEF ListInv, KidIds, OldKid
    <2>5. cr[c0].st.ids[w.kind] \cap w.old = {} /\ Served(cr[c0].st, w.kind)
      BY <2>1, <2>2 DEF PruneInv, PruneKid, At
    <2>6. ASSUME NEW i \in UNION cr[c0].st.hash[w.kind]
          PROVE  \E y \in kids' : y.id \in cr[c0].st.ids[w.kind] /\ y.item = i
      <3>1. \/ \E y \in kids : y.id \in cr[c0].st.ids[w.kind] /\ y.item = i
            \/ Seen({"drift"}) /\ (Seen({"lag"}) \/ cr[c0].st.rid \notin live)
        BY <2>5 DEF Served, ServedBy
      <3>2. ~(Seen({"drift"}) /\ (Seen({"lag"}) \/ cr[c0].st.rid \notin live))
        BY <2>3 DEF live
      <3> QED BY <2>3, <2>5, <3>1, <3>2
    <2> QED BY <2>3, <2>4, <2>5, <2>6
  <1>2. Spec => []ChildInv
    BY ChildInvariant
  <1> QED BY <1>1, <1>2, PTL DEF Spec, NoTrafficGap

-----------------------------------------------------------------------------
(* Where the children are listed, and ChildrenAccounted. *)

\* Nothing happened that ChildrenAccounted makes an exception for.
Clean == ~Seen({"apiLost", "del", "k8s", "k8sLost", "crash", "lag", "rename"})

\* A child goes with its resource.
HomeInv == \A x \in kids : x.rid \in live

\* Children that the worker is to record, or to delete.
InHand(x) ==
  \/ /\ w.pc = "kids" /\ x.id \in w.got[x.kind]
     /\ w.updating => x.kind = w.kind
  \/ w.pc = "prune" /\ x.id \in w.old /\ x.kind = w.kind

\* The worker v knows the status at the API server; where it creates a resource, or
\* adopts one, the object links none that lives; and the children of a resource that
\* it created are those it created.
Informed(v) ==
  /\ v.pc \in Working => v.mem.st = cr[v.c].st
  /\ v.pc \in {"adopt", "creating", "create", "record"} => v.mem.st.rid \notin live
  /\ v.pc = "prune" => v.updating
  /\ v.pc \in {"record", "reget", "settings"} => \A x \in kids : x.rid # v.rid
  /\ v.pc \in {"reget", "settings"} => v.rid = v.mem.st.rid
  /\ v.pc = "kids" /\ ~v.updating =>
       /\ v.rid = v.mem.st.rid
       /\ \A x \in kids : x.rid = v.rid =>
            x.id \in v.got[x.kind] /\ (v.kind = "target" => x.kind = "target")

\* Every child is listed by an object that links its resource, or in hand.
OwnedInv ==
  \A x \in kids : \E c \in CR :
    /\ cr[c].st.rid = x.rid
    /\ x.id \in cr[c].st.ids[x.kind] \/ (c = c0 /\ InHand(x))

AccountInv ==
  /\ OrphanInv /\ ChildInv /\ HomeInv
  /\ Clean => Informed(w) /\ OwnedInv

LEMMA HomeInvNext ==
  ASSUME TypeOK, HomeInv, [Next]_vars
  PROVE  HomeInv'
  <1>1. UNCHANGED pangolin => HomeInv'
    BY DEF pangolin, HomeInv, live
  <1>2. ASSUME NEW id, DeleteResource(id)
        PROVE  HomeInv'
    BY <1>2 DEF DeleteResource, HomeInv, live
  <1>3. ASSUME NEW id, NEW h, NEW b, UpdateResource(id, h, b)
        PROVE  HomeInv'
    <2>1. \A r \in ResourceType : \A n : Configured(r, h, n).id = r.id
      BY DEF Configured, ResourceType
    <2>2. live' = live
      BY <1>3, <2>1 DEF UpdateResource, live, TypeOK
    <2>3. kids' = kids
      BY <1>3 DEF UpdateResource
    <2> QED BY <2>2, <2>3 DEF HomeInv
  <1>4. CASE WorkerStep
    <2>1. CASE AddFinalizer \/ ResolveSite \/ ensureExists \/ Adopt \/ MarkCreating
               \/ RecordResource \/ Reget \/ CreatedTargets \/ CreatedRules \/ Refetch
               \/ PersistKids \/ Pruned \/ MarkReady \/ ReportFailure \/ RemoveFinalizer
      BY <1>1, <2>1 DEF AddFinalizer, ResolveSite, ensureExists, Refused, Adopt,
         MarkCreating, RecordResource, Reget, CreatedTargets, CreatedRules, Refetch,
         PersistKids, Pruned, MarkReady, ReportFailure, RemoveFinalizer
    <2>2. CASE createResource
      BY <1>1, <2>2 DEF createResource, Refused, HomeInv, live
    <2>3. CASE Rollback \/ Cleanup
      BY <1>1, <1>2, <2>3 DEF Rollback, Cleanup
    <2>4. CASE Settings \/ updateResource
      BY <1>1, <1>3, <2>4 DEF Settings, updateResource, Refused
    <2>5. CASE \E i \in Item : CreateKid(i)
      <3>1. PICK i \in Item : CreateKid(i)
        BY <2>5
      <3>2. Kid(i).rid = KidsOf
        BY DEF Kid
      <3> QED BY <3>1, <3>2 DEF CreateKid, HomeInv, live
    <2>6. CASE \E id \in w.old : PruneKid(id)
      BY <2>6 DEF PruneKid, HomeInv, live
    <2> QED BY <1>4, <2>1, <2>2, <2>3, <2>4, <2>5, <2>6 DEF WorkerStep
  <1>5. CASE Environment
    BY <1>1, <1>2, <1>5
       DEF Environment, UserCreate, UserEdit, UserDelete, Drift, SiteReady, SiteLost, Crash
  <1>6. CASE (\E c \in CR : CacheSync(c) \/ Reconcile(c)) \/ UNCHANGED vars
    BY <1>1, <1>6 DEF CacheSync, Reconcile, vars, pangolin
  <1> QED BY <1>4, <1>5, <1>6 DEF Next

\* A patch that succeeds on the status in memory sends what mutate made of it.
LEMMA MergeSame ==
  ASSUME NEW s \in StatusType, NEW t \in StatusType
  PROVE  Merge(s, s, t) = t /\ DecodedStatus(t, t) = t
  <1>1. Merge(s, s, t) = t
    <2>1. /\ [k \in Kind |-> Sent(s.ids[k], t.ids[k], s.ids[k])] = t.ids
          /\ [k \in Kind |-> Sent(s.hash[k], t.hash[k], s.hash[k])] = t.hash
      BY DEF StatusType, Sent
    <2> QED BY <2>1 DEF StatusType, Merge, Sent
  <1>2. DecodedStatus(t, t) = t
    <2>1. /\ [k \in Kind |-> Kept(t.ids[k], {}, t.ids[k])] = t.ids
          /\ [k \in Kind |-> Kept(t.hash[k], {}, t.hash[k])] = t.hash
      BY DEF StatusType, Kept
    <2> QED BY <2>1 DEF StatusType, DecodedStatus, Kept
  <1> QED BY <1>1, <1>2

LEMMA CleanPatch ==
  ASSUME TypeOK, mem.st = cr[c0].st, ~Seen({"k8s", "k8sLost"})',
         NEW st \in StatusType, NEW ok \in WorkerType, NEW ko \in WorkerType,
         patchStatus(st, ok, ko)
  PROVE  /\ \A c \in CR : c # c0 => cr'[c] = cr[c]
         /\ ButMem(w', ok) /\ w'.mem.st = st /\ cr'[c0].st = st
  <1>1. mem.st \in StatusType
    BY DEF TypeOK, WorkerType, ObjectType, mem
  <1>2. ~Fault("k8s") /\ ~Fault("k8sLost")
    BY DEF Fault, Seen, TypeOK
  <1>3. /\ \A c \in CR : c # c0 => cr'[c] = cr[c]
        /\ ButMem(w', ok)
        /\ cr'[c0].st = Merge(cr[c0].st, mem.st, st)
        /\ w'.mem.st = DecodedStatus(st, cr'[c0].st)
    BY <1>2, PatchDone
  <1>4. cr'[c0].st = st
    BY <1>1, <1>3, MergeSame
  <1> QED BY <1>3, <1>4, MergeSame

LEMMA CleanReturn ==
  ASSUME TypeOK, mem.st = cr[c0].st, NEW st \in StatusType, patchAndReturn(st)
  PROVE  /\ \A c \in CR : c # c0 => cr'[c] = cr[c]
         /\ cr'[c0].st \in {cr[c0].st, st}
  <1>1. c0 \in CR /\ cr[c0] \in ObjectType /\ cr \in [CR -> ObjectType] /\ mem.st \in StatusType
    BY DEF TypeOK, WorkerType, ObjectType, c0, mem
  <1>2. CASE UNCHANGED cr
    BY <1>2
  <1>3. CASE cr' = [cr EXCEPT ![c0].st = Merge(@, mem.st, st)]
    <2>1. cr'[c0].st = Merge(cr[c0].st, mem.st, st) /\ \A c \in CR : c # c0 => cr'[c] = cr[c]
      BY <1>1, <1>3 DEF ObjectType
    <2> QED BY <1>1, <2>1, MergeSame
  <1> QED BY <1>2, <1>3 DEF patchAndReturn

LEMMA InformedWorker ==
  ASSUME AccountInv, Clean, Clean', WorkerStep
  PROVE  Informed(w)'
  <1> DEFINE M(v) == v.pc \in Working => v.mem.st = cr'[v.c].st
             Early(v) == \/ v.pc \in {"adopt", "creating", "create", "record", "reget",
                                      "settings", "prune"}
                         \/ v.pc = "kids" /\ ~v.updating
             S(v) == /\ M(v)
                     /\ v.pc \in {"adopt", "creating", "create", "record"} =>
                          v.mem.st.rid \notin live'
                     /\ v.pc = "prune" => v.updating
                     /\ v.pc \in {"record", "reget", "settings"} =>
                          \A x \in kids' : x.rid # v.rid
                     /\ v.pc \in {"reget", "settings"} => v.rid = v.mem.st.rid
                     /\ v.pc = "kids" /\ ~v.updating =>
                          /\ v.rid = v.mem.st.rid
                          /\ \A x \in kids' : x.rid = v.rid =>
                               /\ x.id \in v.got[x.kind]
                               /\ v.kind = "target" => x.kind = "target"
  <1>1. S(w') => Informed(w)'
    BY DEF Informed
  <1>2. /\ TypeOK /\ w \in WorkerType /\ c0 \in CR /\ mem.st \in StatusType
        /\ mem.spec \in SpecType /\ w.kind \in Kind /\ w.got \in [Kind -> SUBSET Nat]
        /\ w.rid \in Nat /\ w.dom \in Seq(Char) /\ cache[c0] \in ObjectType
        /\ nextId \in Nat /\ mem \in ObjectType /\ cr \in [CR -> ObjectType]
    BY DEF AccountInv, ChildInv, LinkInv, CleanupInv, TypeOK, WorkerType, ObjectType, c0, mem
  <1>3. /\ Informed(w) /\ HomeInv /\ LinkInv /\ UseInv
        /\ w.updating => w.pc \in {"kids", "prune"}
    BY DEF AccountInv, ChildInv, AtHandInv, OrphanInv, NameInv, Clean, Seen
  <1>4. w.pc \in Working => mem.st = cr[c0].st
    BY <1>3 DEF Informed, c0, mem
  <1>5. /\ ~Fault("apiLost") /\ ~Fault("del") /\ ~Fault("k8s") /\ ~Fault("k8sLost")
        /\ ~Fault("lag") /\ ~Seen({"k8s", "k8sLost"})'
    <2>1. \A f : Fault(f) => f \in faults'.seen
      BY DEF Fault
    <2> QED BY <2>1 DEF Clean, Seen
  <1>6. \A v : M(v) /\ ~Early(v) => S(v)
    OBVIOUS
  <1>7. /\ \A y : Fail(y).pc = "fail" /\ Fail(y).mem = mem /\ Fail(y).c = c0
        /\ \A v : Ready(v).pc = "ready" /\ Ready(v).mem = v.mem /\ Ready(v).c = v.c
        /\ Idle.pc = "idle"
    BY IdleType DEF Fail, Ready, WorkerType, Idle
  <1>8. /\ \A pc : /\ Goto(pc).mem = mem /\ Goto(pc).c = c0 /\ Goto(pc).pc = pc
                   /\ Goto(pc).updating = w.updating /\ Goto(pc).rid = w.rid
        /\ \A pc \in PC : Goto(pc) \in WorkerType
    BY <1>2 DEF Goto, WorkerType, mem, c0
  <1>9. /\ Fail("Error") \in WorkerType
        /\ Fail(EnsureWhy) \in WorkerType /\ Fail(UpdateWhy) \in WorkerType
    <2>1. EnsureWhy \in Why /\ UpdateWhy \in Why /\ "Error" \in Why
      BY DEF EnsureWhy, UpdateWhy, Why
    <2> QED BY <1>2, <2>1, FailType
  <1>10. "idle" \notin Working /\ "unfinalize" \notin Working /\ "cleanup" \notin Working
    BY DEF Working
  <1>11. Requeue \/ Forget => S(w')
    BY <1>7, <1>10 DEF Requeue, Forget
  <1>12. w.pc \in Working /\ UNCHANGED cr => \A y : S(Fail(y))
    BY <1>4, <1>7
  <1>13. ASSUME w.pc \in Working, NEW st \in StatusType, NEW ok \in WorkerType,
                NEW ko \in WorkerType, ok.c = c0, patchStatus(st, ok, ko)
         PROVE  ButMem(w', ok) /\ w'.mem.st = st /\ M(w')
    <2>1. ButMem(w', ok) /\ w'.mem.st = st /\ cr'[c0].st = st
      BY <1>2, <1>4, <1>5, <1>13, CleanPatch
    <2> QED BY <1>13, <2>1 DEF ButMem
  <1>14. \A v, u : ButMem(v, u) /\ ~Early(u) => ~Early(v)
    BY DEF ButMem
  <1>15. \A y : ~Early(Fail(y))
    BY <1>7
  <1>16. \A v : ~Early(Ready(v))
    BY <1>7
  <1>17. \A k \in Kind :
           LET u == StartKids(w, k)
           IN  /\ u.pc = "kids" /\ u.mem = mem /\ u.c = c0 /\ u.updating = w.updating
               /\ u.rid = w.rid /\ u.kind = k /\ \A j \in Kind : j # k => u.got[j] = w.got[j]
    BY <1>2 DEF StartKids, WorkerType, mem, c0
  <1>20. ASSUME AddFinalizer PROVE S(w')
    <2> DEFINE v == [w EXCEPT !.pc = "site", !.mem = WithFinalizer]
    <2>1. v.pc = "site" /\ v.mem = WithFinalizer /\ v.c = c0
      BY <1>2 DEF WorkerType, c0
    <2>2. Requeue \/ (cr' = [cr EXCEPT ![c0] = WithFinalizer] /\ w' = v)
      BY <1>20 DEF AddFinalizer
    <2> HIDE DEF v
    <2>3. CASE cr' = [cr EXCEPT ![c0] = WithFinalizer] /\ w' = v
      BY <1>2, <2>1, <2>3
    <2> HIDE DEF S
    <2> QED BY <1>11, <2>2, <2>3
  <1>21. ASSUME ResolveSite PROVE S(w')
    <2>1. w.pc \in Working /\ UNCHANGED cr
      BY <1>21 DEF ResolveSite, At, Working, PC
    <2>2. \A s, h : LET v == [w EXCEPT !.pc = "list", !.site = s, !.had = h]
                    IN  v.pc = "list" /\ v.mem = mem /\ v.c = c0
      BY <1>2 DEF WorkerType, mem, c0
    <2>3. \A s, h : S([w EXCEPT !.pc = "list", !.site = s, !.had = h])
      BY <1>4, <2>1, <2>2
    <2>4. w' = Fail("Pending")
          \/ w' = [w EXCEPT !.pc = "list", !.site = mem.spec.site, !.had = mem.st.rid # 0]
      BY <1>21 DEF ResolveSite
    <2> HIDE DEF S
    <2>5. S([w EXCEPT !.pc = "list", !.site = mem.spec.site, !.had = mem.st.rid # 0])
      BY <2>3
    <2> QED BY <1>12, <2>1, <2>4, <2>5
  <1>22. ASSUME ensureExists PROVE S(w')
    <2>1. w.pc = "list" /\ w.pc \in Working /\ UNCHANGED cr /\ mem.st = cr[c0].st
      BY <1>4, <1>22 DEF ensureExists, At, Working, PC
    <2>2. CASE Refused
      <3> HIDE DEF S
      <3> QED BY <1>12, <2>1, <2>2 DEF Refused
    <2>3. CASE w' = Goto("refetch")
      BY <1>8, <2>1, <2>3
    <2>4. CASE mem.st.rid \notin {r.id : r \in Listed} /\ UNCHANGED pangolin
      <3>1. mem.st.rid \notin live'
        <4> SUFFICES ASSUME NEW r \in resources, r.id = mem.st.rid PROVE FALSE
          BY <2>4 DEF pangolin, live
        <4>1. r.name = mem.spec.name
          BY <1>3, <2>1 DEF UseInv, SameUse, Names
        <4>2. r \in Listed
          BY <1>2, <4>1, SearchFindsName DEF Listed, SpecType
        <4> QED BY <2>4, <4>2
      <3>2. CASE w' = Goto("creating")
        BY <1>8, <2>1, <3>1, <3>2
      <3>3. CASE \E i, d : w' = [w EXCEPT !.pc = "adopt", !.rid = i, !.dom = d]
        <4>1. w'.pc = "adopt" /\ w'.mem = mem /\ w'.c = c0
          BY <1>2, <3>3 DEF WorkerType, mem, c0
        <4> QED BY <2>1, <3>1, <4>1
      <3> HIDE DEF S
      <3>4. w' = Goto("creating") \/ w' = Goto("refetch") \/ Refused
            \/ \E i, d : w' = [w EXCEPT !.pc = "adopt", !.rid = i, !.dom = d]
        BY <1>22 DEF ensureExists
      <3> QED BY <2>2, <2>3, <3>2, <3>3, <3>4
    <2> HIDE DEF S, Listed, findResource
    <2>5. Refused \/ w' = Goto("refetch")
          \/ (mem.st.rid \notin {r.id : r \in Listed} /\ UNCHANGED pangolin)
      BY <1>22 DEF ensureExists
    <2> QED BY <2>2, <2>3, <2>4, <2>5
  <1>23. ASSUME Adopt PROVE S(w')
    <2> DEFINE st == [mem.st EXCEPT !.rid = w.rid, !.dom = w.dom, !.phase = "Creating",
                        !.ids = [k \in Kind |-> {}], !.hash = [k \in Kind |-> {}]]
               ok == [w EXCEPT !.pc = "update", !.adopted = TRUE]
    <2>1. st \in StatusType
      BY <1>2 DEF StatusType, Phase
    <2>2. ok \in WorkerType /\ ok.pc = "update" /\ ok.c = c0
      BY <1>2 DEF WorkerType, PC, c0
    <2>3. patchStatus(st, ok, Fail("Error")) /\ w.pc \in Working
      BY <1>23 DEF Adopt, At, Working, PC
    <2> HIDE DEF st, ok, M
    <2>4. ButMem(w', ok) /\ M(w')
      BY <1>9, <1>13, <2>1, <2>2, <2>3
    <2> QED BY <2>2, <2>4 DEF ButMem
  <1>24. ASSUME MarkCreating PROVE S(w')
    <2> DEFINE st == [mem.st EXCEPT !.phase = "Creating"]
    <2>1. st \in StatusType /\ st.rid = mem.st.rid
      BY <1>2 DEF StatusType, Phase
    <2>2. /\ patchStatus(st, Goto("create"), Fail("Error")) /\ w.pc \in Working
          /\ w.pc = "creating" /\ live' = live
      BY <1>24 DEF MarkCreating, At, Working, PC, pangolin, live
    <2>3. Goto("create") \in WorkerType
      BY <1>8 DEF PC
    <2> HIDE DEF st, M
    <2>4. ButMem(w', Goto("create")) /\ w'.mem.st = st /\ M(w')
      BY <1>8, <1>9, <1>13, <2>1, <2>2, <2>3
    <2>5. mem.st.rid \notin live
      BY <1>3, <2>2 DEF Informed, mem
    <2>6. w'.pc = "create"
      BY <1>8, <2>4 DEF ButMem
    <2> QED BY <2>1, <2>2, <2>4, <2>5, <2>6
  <1>25. ASSUME createResource PROVE S(w')
    <2> DEFINE v == [w EXCEPT !.pc = "record", !.http = mem.spec.http, !.rid = nextId,
                             !.dom = DomainOf(mem.spec)]
    <2>1. v.pc = "record" /\ v.mem = mem /\ v.c = c0 /\ v.rid = nextId
      BY <1>2 DEF WorkerType, mem, c0
    <2>2. w.pc = "create" /\ w.pc \in Working /\ UNCHANGED cr /\ mem.st = cr[c0].st
      BY <1>4, <1>25 DEF createResource, At, Working, PC
    <2> HIDE DEF v
    <2>3. \/ \E y \in {"Error", "Conflict"} : w' = Fail(y) /\ UNCHANGED pangolin
          \/ Refused
          \/ w' = v /\ resources' = resources \cup {CreatedResource} /\ kids' = kids
      BY <1>5, <1>25 DEF createResource, v
    <2>4. CASE w' = v /\ resources' = resources \cup {CreatedResource} /\ kids' = kids
      <3>1. CreatedResource.id = nextId
        BY DEF CreatedResource
      <3>2. mem.st.rid \notin live /\ mem.st.rid < nextId /\ mem.st.rid \in Nat
        BY <1>2, <1>3, <2>2 DEF Informed, mem, LinkInv, IdsInv, OldRid, StatusType
      <3>3. mem.st.rid \notin live'
        <4>1. live' = live \cup {nextId}
          BY <2>4, <3>1 DEF live
        <4> QED BY <1>2, <3>2, <4>1
      <3>4. \A x \in kids : x.rid # nextId
        <4>1. \A r \in resources : r.id < nextId /\ r.id \in Nat
          BY <1>2, <1>3 DEF LinkInv, IdsInv, OldRid, TypeOK, ResourceType
        <4> QED BY <1>2, <1>3, <4>1 DEF HomeInv, live
      <3> QED BY <2>1, <2>2, <2>4, <3>3, <3>4
    <2> HIDE DEF S
    <2> QED BY <1>12, <2>2, <2>3, <2>4 DEF Refused
  <1>26. ASSUME RecordResource PROVE S(w')
    <2> DEFINE st == [mem.st EXCEPT !.rid = w.rid, !.dom = w.dom, !.phase = "Creating"]
    <2>1. st \in StatusType /\ st.rid = w.rid
      BY <1>2 DEF StatusType, Phase
    <2>2. /\ patchStatus(st, Goto("reget"), Goto("rollback")) /\ w.pc \in Working
          /\ w.pc = "record" /\ kids' = kids
      BY <1>26 DEF RecordResource, At, Working, PC, pangolin
    <2>3. Goto("reget") \in WorkerType /\ Goto("rollback") \in WorkerType
      BY <1>8 DEF PC
    <2> HIDE DEF st, M
    <2>4. ButMem(w', Goto("reget")) /\ w'.mem.st = st /\ M(w')
      BY <1>8, <1>13, <2>1, <2>2, <2>3
    <2>5. w'.pc = "reget" /\ w'.rid = w.rid
      BY <1>8, <2>4 DEF ButMem
    <2>6. \A x \in kids : x.rid # w.rid
      BY <1>3, <2>2 DEF Informed
    <2> QED BY <2>1, <2>2, <2>4, <2>5, <2>6
  <1>27. ASSUME Rollback PROVE S(w')
    <2>1. w.pc \in Working /\ UNCHANGED cr /\ w' = Fail("Error")
      BY <1>27 DEF Rollback, At, Working, PC
    <2> HIDE DEF S
    <2> QED BY <1>12, <2>1
  <1>28. ASSUME Reget PROVE S(w')
    <2> DEFINE v == [w EXCEPT !.pc = "settings", !.mem = cache[c0]]
    <2>1. v.pc = "settings" /\ v.mem = cache[c0] /\ v.c = c0 /\ v.rid = w.rid
      BY <1>2 DEF WorkerType, c0
    <2>2. /\ w.pc = "reget" /\ w.pc \in Working /\ UNCHANGED <<cr, kids>> /\ w' = v
          /\ cache[c0] = cr[c0] /\ mem.st = cr[c0].st
      BY <1>4, <1>5, <1>28 DEF Reget, At, Working, PC, Get, pangolin
    <2> HIDE DEF v
    <2>3. w.rid = mem.st.rid /\ \A x \in kids : x.rid # w.rid
      BY <1>3, <2>2 DEF Informed, mem
    <2> QED BY <2>1, <2>2, <2>3
  <1>29. ASSUME Settings PROVE S(w')
    <2>1. /\ w.pc = "settings" /\ w.pc \in Working /\ UNCHANGED <<cr, kids>>
          /\ mem.st = cr[c0].st /\ ~w.updating
      BY <1>3, <1>4, <1>29 DEF Settings, At, Working, PC, UpdateResource, Refused, pangolin
    <2>2. w.rid = mem.st.rid /\ \A x \in kids : x.rid # w.rid
      BY <1>3, <2>1 DEF Informed, mem
    <2>3. CASE w' = StartKids(w, "target")
      BY <1>17, <2>1, <2>2, <2>3 DEF Kind
    <2> HIDE DEF S
    <2> QED BY <1>12, <1>29, <2>1, <2>3 DEF Settings, Refused
  <1>30. ASSUME NEW i \in Item, CreateKid(i) PROVE S(w')
    <2>1. /\ w.pc = "kids" /\ w.pc \in Working /\ UNCHANGED cr /\ mem.st = cr[c0].st
      BY <1>4, <1>30 DEF CreateKid, At, Working, PC
    <2>2. /\ w'.pc = "kids" /\ w'.mem = mem /\ w'.c = c0 /\ w'.updating = w.updating
          /\ w'.rid = w.rid /\ w'.kind = w.kind
          /\ \/ kids' = kids /\ w'.got = w.got
             \/ /\ kids' = kids \cup {Kid(i)}
                /\ w' = [w EXCEPT !.todo = @ \ {i}, !.got[w.kind] = @ \cup {nextId}]
      BY <1>2, <1>5, <1>30 DEF CreateKid, KidFails, At, WorkerType, mem, c0
    <2>3. ASSUME ~w.updating
          PROVE  /\ w'.rid = w'.mem.st.rid
                 /\ \A x \in kids' : x.rid = w'.rid =>
                      x.id \in w'.got[x.kind] /\ (w'.kind = "target" => x.kind = "target")
      <3>1. /\ w.rid = mem.st.rid
            /\ \A x \in kids : x.rid = w.rid =>
                 x.id \in w.got[x.kind] /\ (w.kind = "target" => x.kind = "target")
        BY <1>3, <2>1, <2>3 DEF Informed, mem
      <3>2. CASE kids' = kids /\ w'.got = w.got
        BY <2>2, <3>1, <3>2
      <3>3. CASE /\ kids' = kids \cup {Kid(i)}
                 /\ w' = [w EXCEPT !.todo = @ \ {i}, !.got[w.kind] = @ \cup {nextId}]
        <4>1. /\ \A k \in Kind : w.got[k] \subseteq w'.got[k]
              /\ nextId \in w'.got[w.kind]
          BY <1>2, <3>3 DEF WorkerType
        <4>2. Kid(i).id = nextId /\ Kid(i).kind = w.kind
          BY DEF Kid
        <4>3. \A x \in kids : x.kind \in Kind
          BY <1>2 DEF TypeOK, KidType
        <4> QED BY <2>2, <3>1, <3>3, <4>1, <4>2, <4>3
      <3> QED BY <2>2, <3>1, <3>2, <3>3
    <2> QED BY <2>1, <2>2, <2>3
  <1>31. ASSUME CreatedTargets PROVE S(w')
    <2> DEFINE st == [mem.st EXCEPT !.ids["target"] = w.got["target"]]
    <2>1. st \in StatusType
      BY <1>2 DEF StatusType, Kind
    <2>2. /\ w.pc = "kids" /\ w.kind = "target" /\ ~w.updating /\ w.pc \in Working
          /\ kids' = kids /\ mem.st = cr[c0].st
      BY <1>4, <1>31 DEF CreatedTargets, AllTried, At, Working, PC, pangolin
    <2>3. \/ w' = StartKids(w, "rule") /\ UNCHANGED cr
          \/ w' = Fail(EnsureWhy) /\ UNCHANGED cr
          \/ patchStatus(st, Fail(EnsureWhy), Fail(EnsureWhy))
      BY <1>31 DEF CreatedTargets
    <2>4. /\ w.rid = mem.st.rid
          /\ \A x \in kids : x.rid = w.rid => x.id \in w.got[x.kind] /\ x.kind = "target"
      BY <1>3, <2>2 DEF Informed, mem
    <2>5. CASE w' = StartKids(w, "rule") /\ UNCHANGED cr
      BY <1>17, <2>2, <2>4, <2>5 DEF Kind
    <2>6. CASE patchStatus(st, Fail(EnsureWhy), Fail(EnsureWhy))
      <3> HIDE DEF st, M
      <3>1. ButMem(w', Fail(EnsureWhy)) /\ M(w')
        BY <1>7, <1>9, <1>13, <2>1, <2>2, <2>6
      <3> HIDE DEF Early
      <3>2. ~Early(w')
        BY <1>14, <1>15, <3>1
      <3> HIDE DEF S
      <3> QED BY <1>6, <3>1, <3>2
    <2> HIDE DEF S, st
    <2> QED BY <1>12, <2>2, <2>3, <2>5, <2>6
  <1>32. ASSUME CreatedRules PROVE S(w')
    <2> DEFINE s1 == [mem.st EXCEPT !.ids = w.got]
               s2 == [mem.st EXCEPT !.ids = w.got,
                        !.hash = [k \in Kind |-> hashJSON(mem.spec.kids[k])]]
               ok == IF w.had THEN Goto("refetch") ELSE Ready(w)
    <2>1. s1 \in StatusType
      BY <1>2 DEF StatusType
    <2>2. s2 \in StatusType
      <3>1. [k \in Kind |-> hashJSON(mem.spec.kids[k])] \in [Kind -> SUBSET (SUBSET Item)]
        BY <1>2 DEF SpecType, hashJSON
      <3> QED BY <1>2, <3>1 DEF StatusType
    <2>3. w.pc \in Working
      BY <1>32 DEF CreatedRules, AllTried, At, Working, PC
    <2>4. ok \in WorkerType /\ ok.c = c0 /\ ~Early(ok)
      <3>1. Goto("refetch") \in WorkerType /\ Ready(w) \in WorkerType /\ w.c = c0
        BY <1>2, <1>8, ReadyType DEF PC, c0
      <3>2. ~Early(Goto("refetch"))
        BY <1>8
      <3> HIDE DEF Early
      <3> QED BY <1>7, <1>8, <1>16, <3>1, <3>2
    <2>5. \/ patchStatus(s1, Fail(EnsureWhy), Fail(EnsureWhy))
          \/ patchStatus(s2, ok, Fail("Error"))
      BY <1>32 DEF CreatedRules
    <2> HIDE DEF s1, s2, ok, M, Early
    <2>6. \/ ButMem(w', Fail(EnsureWhy)) /\ M(w')
          \/ ButMem(w', ok) /\ M(w')
      BY <1>7, <1>9, <1>13, <2>1, <2>2, <2>3, <2>4, <2>5
    <2>7. ~Early(w')
      BY <1>14, <1>15, <2>4, <2>6
    <2> HIDE DEF S
    <2> QED BY <1>6, <2>6, <2>7
  <1>33. ASSUME Refetch PROVE S(w')
    <2> DEFINE v == [w EXCEPT !.mem = cache[c0], !.pc = "update"]
    <2>1. v.pc = "update" /\ v.mem = cache[c0] /\ v.c = c0
      BY <1>2 DEF WorkerType, c0
    <2>2. UNCHANGED cr /\ cache[c0] = cr[c0] /\ (w' = v \/ w' = Ready(v))
      BY <1>5, <1>33 DEF Refetch, Get
    <2> HIDE DEF v
    <2> QED BY <1>7, <2>1, <2>2
  <1>34. ASSUME NEW v \in WorkerType, v.c = c0, v.mem = mem, v.updating, UNCHANGED cr,
                w.pc \in Working, w' \in {UpdateTargets(v), UpdateRules(v), Ready(v)}
         PROVE  S(w')
    <2>1. w' \in {UpdateTargets(v), UpdateRules(v)} =>
            \/ w' = Ready(v)
            \/ w'.pc = "kids" /\ w'.mem = mem /\ w'.c = c0 /\ w'.updating
      <3>1. \A k \in Kind :
              LET s == StartKids(v, k)
              IN  /\ s.pc = "kids" /\ s.mem = v.mem /\ s.c = v.c /\ s.updating = v.updating
        BY <1>34 DEF StartKids, WorkerType
      <3> QED BY <1>34, <3>1 DEF UpdateTargets, UpdateRules, Kind
    <2> QED BY <1>4, <1>7, <1>34, <2>1
  <1>35. ASSUME updateResource PROVE S(w')
    <2> DEFINE v == [w EXCEPT !.updating = TRUE]
    <2>1. v \in WorkerType /\ v.c = c0 /\ v.mem = mem /\ v.updating
      BY <1>2 DEF WorkerType, c0, mem
    <2>2. /\ UNCHANGED cr /\ w.pc \in Working
          /\ w' = UpdateTargets(v) \/ \E y : w' = Fail(y)
      BY <1>35 DEF updateResource, At, Working, PC
    <2> HIDE DEF v, S
    <2> QED BY <1>12, <1>34, <2>1, <2>2
  <1>36. ASSUME Pruned PROVE S(w')
    <2>1. /\ UNCHANGED cr /\ w.pc = "prune" /\ w.pc \in Working
          /\ w' = UpdateRules(w) \/ w' = Ready(w)
      BY <1>36 DEF Pruned, At, Working, PC
    <2>2. w.updating
      BY <1>3, <2>1 DEF Informed
    <2> HIDE DEF S
    <2> QED BY <1>2, <1>34, <2>1, <2>2 DEF c0, mem
  <1>37. ASSUME NEW id \in w.old, PruneKid(id) PROVE S(w')
    <2>1. /\ UNCHANGED cr /\ w.pc = "prune" /\ w.pc \in Working /\ w'.pc = "prune"
          /\ w'.c = c0 /\ w'.mem = mem /\ w'.updating = w.updating
      BY <1>2, <1>37 DEF PruneKid, At, WorkerType, c0, mem, Working, PC
    <2>2. w.updating
      BY <1>3, <2>1 DEF Informed
    <2> QED BY <1>4, <2>1, <2>2
  <1>38. ASSUME PersistKids PROVE S(w')
    <2> DEFINE s1 == [mem.st EXCEPT !.ids[w.kind] = w.got[w.kind],
                        !.hash[w.kind] = hashJSON(mem.spec.kids[w.kind])]
               s2 == [mem.st EXCEPT !.ids[w.kind] = append(@, w.got[w.kind])]
    <2>1. s1 \in StatusType
      <3>1. hashJSON(mem.spec.kids[w.kind]) \in SUBSET (SUBSET Item)
        BY <1>2 DEF SpecType, hashJSON
      <3> QED BY <1>2, <3>1 DEF StatusType
    <2>2. s2 \in StatusType
      BY <1>2 DEF StatusType, append
    <2>3. w.updating /\ w.pc \in Working
      BY <1>38 DEF PersistKids, AllTried, At, Working, PC
    <2>4. Goto("prune") \in WorkerType
      BY <1>8 DEF PC
    <2>5. \/ patchStatus(s1, Goto("prune"), Fail("Error"))
          \/ patchStatus(s2, Fail(UpdateWhy), Fail(UpdateWhy))
          \/ w' = Fail(UpdateWhy) /\ UNCHANGED cr
      BY <1>38 DEF PersistKids
    <2> HIDE DEF s1, s2
    <2>6. CASE patchStatus(s1, Goto("prune"), Fail("Error"))
      <3> HIDE DEF M
      <3>1. ButMem(w', Goto("prune")) /\ M(w')
        BY <1>8, <1>9, <1>13, <2>1, <2>3, <2>4, <2>6
      <3>2. w'.pc = "prune" /\ w'.updating
        BY <1>8, <2>3, <3>1 DEF ButMem
      <3> QED BY <3>1, <3>2
    <2>7. CASE patchStatus(s2, Fail(UpdateWhy), Fail(UpdateWhy))
      <3> HIDE DEF M, Early
      <3>1. ButMem(w', Fail(UpdateWhy)) /\ M(w')
        BY <1>7, <1>9, <1>13, <2>2, <2>3, <2>7
      <3>2. ~Early(w')
        BY <1>14, <1>15, <3>1
      <3> HIDE DEF S
      <3> QED BY <1>6, <3>1, <3>2
    <2> HIDE DEF S
    <2> QED BY <1>12, <2>3, <2>5, <2>6, <2>7
  <1>39. ASSUME MarkReady \/ ReportFailure \/ Cleanup \/ RemoveFinalizer PROVE S(w')
    <2>1. S(Goto("unfinalize"))
      BY <1>8, <1>10
    <2> HIDE DEF S
    <2> QED BY <1>11, <1>39, <2>1 DEF MarkReady, ReportFailure, Cleanup, RemoveFinalizer
  <1> HIDE DEF S
  <1>40. S(w')
    BY <1>20, <1>21, <1>22, <1>23, <1>24, <1>25, <1>26, <1>27, <1>28, <1>29, <1>30, <1>31,
       <1>32, <1>33, <1>35, <1>36, <1>37, <1>38, <1>39 DEF WorkerStep
  <1> QED BY <1>1, <1>40

\* A step keeps the children of its object accounted for.
LEMMA OwnedWorker ==
  ASSUME AccountInv, Clean, Clean', WorkerStep
  PROVE  OwnedInv'
  <1>1. /\ TypeOK /\ w \in WorkerType /\ c0 \in CR /\ mem.st \in StatusType
        /\ mem.spec \in SpecType /\ w.kind \in Kind /\ w.got \in [Kind -> SUBSET Nat]
        /\ w.rid \in Nat /\ w.dom \in Seq(Char) /\ cache[c0] \in ObjectType
        /\ mem \in ObjectType /\ cr \in [CR -> ObjectType] /\ cr[c0].st \in StatusType
        /\ kids \subseteq KidType /\ mem.gen \in Nat
    BY DEF AccountInv, ChildInv, LinkInv, CleanupInv, TypeOK, WorkerType, ObjectType, c0, mem
  <1>2. /\ Informed(w) /\ OwnedInv /\ HomeInv /\ LinkInv /\ CleanupInv /\ Sync(w) /\ ReplaceInv
    BY DEF AccountInv, ChildInv, OrphanInv, LinkInv, Clean, Undisturbed, Seen
  <1>3. w.pc \in Working => mem.st = cr[c0].st
    BY <1>2 DEF Informed, c0, mem
  <1>4. /\ ~Fault("apiLost") /\ ~Fault("del") /\ ~Fault("k8s") /\ ~Fault("k8sLost")
        /\ ~Seen({"k8s", "k8sLost"})'
    <2>1. \A f : Fault(f) => f \in faults'.seen
      BY DEF Fault
    <2> QED BY <2>1 DEF Clean, Seen
  <1>5. ASSUME NEW st \in StatusType, NEW ok \in WorkerType, NEW ko \in WorkerType,
               w.pc \in Working, patchStatus(st, ok, ko)
        PROVE  /\ \A c \in CR : c # c0 => cr'[c] = cr[c]
               /\ ButMem(w', ok) /\ cr'[c0].st = st
    BY <1>1, <1>3, <1>4, <1>5, CleanPatch
  <1>6. /\ Fail("Error") \in WorkerType
        /\ Fail(EnsureWhy) \in WorkerType /\ Fail(UpdateWhy) \in WorkerType
    <2>1. EnsureWhy \in Why /\ UpdateWhy \in Why /\ "Error" \in Why
      BY DEF EnsureWhy, UpdateWhy, Why
    <2> QED BY <1>1, <2>1, FailType
  <1>7. \A pc \in PC : Goto(pc) \in WorkerType
    BY <1>1 DEF Goto, WorkerType
  \* What has to be shown of a child of the object at hand.
  <1> DEFINE Listed0(x) == cr'[c0].st.rid = x.rid /\ x.id \in cr'[c0].st.ids[x.kind]
             Held0(x) == cr'[c0].st.rid = x.rid /\ w'.c = c0 /\ InHand(x)'
             Mine(x) == /\ cr[c0].st.rid = x.rid
                        /\ x.id \in cr[c0].st.ids[x.kind] \/ InHand(x)
             Kept0 == /\ \A c \in CR : c # c0 => cr'[c].st = cr[c].st
                      /\ \A x \in kids' : x \notin kids \/ Mine(x) => Listed0(x) \/ Held0(x)
  <1>8. Kept0 => OwnedInv'
    <2> SUFFICES ASSUME Kept0, NEW x \in kids'
                 PROVE  \E c \in CR : /\ cr'[c].st.rid = x.rid
                                      /\ \/ x.id \in cr'[c].st.ids[x.kind]
                                         \/ c = w'.c /\ InHand(x)'
      BY DEF OwnedInv, c0
    <2>1. CASE x \notin kids \/ Mine(x)
      BY <1>1, <2>1
    <2>2. CASE x \in kids /\ ~Mine(x)
      <3>1. PICK c \in CR : /\ cr[c].st.rid = x.rid
                            /\ x.id \in cr[c].st.ids[x.kind] \/ (c = c0 /\ InHand(x))
        BY <1>2, <2>2 DEF OwnedInv
      <3>2. c # c0
        BY <2>2, <3>1
      <3> QED BY <3>1, <3>2
    <2> QED BY <2>1, <2>2
  <1>9. w.pc \notin {"kids", "prune"} => \A x : ~InHand(x)
    BY DEF InHand
  <1>10. ASSUME w.pc \notin {"kids", "prune"}, kids' \subseteq kids,
                \A c \in CR : cr'[c].st = cr[c].st
         PROVE  Kept0
    BY <1>1, <1>9, <1>10
  \* The object links no living resource, so it has no children.
  <1>11. ASSUME w.pc \notin {"kids", "prune"}, kids' \subseteq kids, cr[c0].st.rid \notin live,
                \A c \in CR : c # c0 => cr'[c] = cr[c]
         PROVE  Kept0
    BY <1>2, <1>11 DEF HomeInv
  <1> HIDE DEF Kept0
  <1>12. ASSUME ResolveSite \/ ensureExists \/ createResource \/ Rollback \/ Reget \/ Settings
                \/ Refetch \/ updateResource \/ Cleanup
         PROVE  Kept0
    <2>1. /\ UNCHANGED cr /\ w.pc \notin {"kids", "prune"}
          /\ kids' \subseteq kids
      BY <1>12 DEF ResolveSite, ensureExists, createResource, Rollback, Reget, Settings,
         Refetch, updateResource, Cleanup, At, Refused, pangolin, UpdateResource,
         DeleteResource
    <2> QED BY <1>10, <2>1
  <1>13. ASSUME AddFinalizer PROVE Kept0
    <2>1. WithFinalizer.st = mem.st
      BY <1>1 DEF WithFinalizer, ObjectType
    <2>2. /\ UNCHANGED kids /\ w.pc = "finalize"
          /\ UNCHANGED cr \/ (Unmodified /\ cr' = [cr EXCEPT ![c0] = WithFinalizer])
      BY <1>13 DEF AddFinalizer, At, pangolin
    <2>3. \A c \in CR : cr'[c].st = cr[c].st
      BY <1>1, <2>1, <2>2 DEF Unmodified
    <2> QED BY <1>10, <2>2, <2>3
  <1>14. ASSUME Adopt PROVE Kept0
    <2> DEFINE st == [mem.st EXCEPT !.rid = w.rid, !.dom = w.dom, !.phase = "Creating",
                        !.ids = [k \in Kind |-> {}], !.hash = [k \in Kind |-> {}]]
               ok == [w EXCEPT !.pc = "update", !.adopted = TRUE]
    <2>1. st \in StatusType
      BY <1>1 DEF StatusType, Phase
    <2>2. ok \in WorkerType
      BY <1>1 DEF WorkerType, PC
    <2>3. /\ patchStatus(st, ok, Fail("Error")) /\ w.pc = "adopt" /\ w.pc \in Working
          /\ UNCHANGED kids
      BY <1>14 DEF Adopt, At, Working, PC, pangolin
    <2> HIDE DEF st, ok
    <2>4. \A c \in CR : c # c0 => cr'[c] = cr[c]
      BY <1>5, <1>6, <2>1, <2>2, <2>3
    <2>5. cr[c0].st.rid \notin live
      BY <1>2, <1>3, <2>3 DEF Informed, mem
    <2> QED BY <1>11, <2>3, <2>4, <2>5
  <1>15. ASSUME MarkCreating PROVE Kept0
    <2> DEFINE st == [mem.st EXCEPT !.phase = "Creating"]
    <2>1. st \in StatusType
      BY <1>1 DEF StatusType, Phase
    <2>2. /\ patchStatus(st, Goto("create"), Fail("Error")) /\ w.pc = "creating"
          /\ w.pc \in Working /\ UNCHANGED kids
      BY <1>15 DEF MarkCreating, At, Working, PC, pangolin
    <2>3. Goto("create") \in WorkerType
      BY <1>7 DEF PC
    <2> HIDE DEF st
    <2>4. \A c \in CR : c # c0 => cr'[c] = cr[c]
      BY <1>5, <1>6, <2>1, <2>2, <2>3
    <2>5. cr[c0].st.rid \notin live
      BY <1>2, <1>3, <2>2 DEF Informed, mem
    <2> QED BY <1>11, <2>2, <2>4, <2>5
  <1>16. ASSUME RecordResource PROVE Kept0
    <2> DEFINE st == [mem.st EXCEPT !.rid = w.rid, !.dom = w.dom, !.phase = "Creating"]
    <2>1. st \in StatusType
      BY <1>1 DEF StatusType, Phase
    <2>2. /\ patchStatus(st, Goto("reget"), Goto("rollback")) /\ w.pc = "record"
          /\ w.pc \in Working /\ UNCHANGED kids
      BY <1>16 DEF RecordResource, At, Working, PC, pangolin
    <2>3. Goto("reget") \in WorkerType /\ Goto("rollback") \in WorkerType
      BY <1>7 DEF PC
    <2> HIDE DEF st
    <2>4. \A c \in CR : c # c0 => cr'[c] = cr[c]
      BY <1>5, <2>1, <2>2, <2>3
    <2>5. cr[c0].st.rid \notin live
      BY <1>2, <1>3, <2>2 DEF Informed, mem
    <2> QED BY <1>11, <2>2, <2>4, <2>5
  <1>17. ASSUME NEW i \in Item, CreateKid(i) PROVE Kept0
    <2>1. /\ w.pc = "kids" /\ UNCHANGED cr /\ mem.st = cr[c0].st
      BY <1>3, <1>17 DEF CreateKid, At, Working, PC
    <2>2. /\ w'.pc = "kids" /\ w'.c = c0 /\ w'.updating = w.updating /\ w'.kind = w.kind
          /\ \/ kids' = kids /\ w'.got = w.got
             \/ /\ kids' = kids \cup {Kid(i)}
                /\ w' = [w EXCEPT !.todo = @ \ {i}, !.got[w.kind] = @ \cup {nextId}]
      BY <1>1, <1>4, <1>17 DEF CreateKid, KidFails, At, WorkerType, c0
    <2>3. \A k \in Kind : w.got[k] \subseteq w'.got[k]
      <3>1. CASE w' = [w EXCEPT !.todo = @ \ {i}, !.got[w.kind] = @ \cup {nextId}]
        BY <1>1, <3>1 DEF WorkerType
      <3> QED BY <2>2, <3>1
    <2>4. ASSUME NEW x \in kids, Mine(x) PROVE Listed0(x) \/ Held0(x)
      <3>1. x.kind \in Kind
        BY <1>1 DEF KidType
      <3>2. InHand(x) => InHand(x)'
        BY <2>1, <2>2, <2>3, <3>1 DEF InHand
      <3> QED BY <2>1, <2>2, <2>4, <3>2
    <2>5. ASSUME w' = [w EXCEPT !.todo = @ \ {i}, !.got[w.kind] = @ \cup {nextId}],
                 NEW x, x.id = nextId, x.kind = w.kind, x.rid = KidsOf
          PROVE  Held0(x)
      <3>1. nextId \in w'.got[w.kind]
        BY <1>1, <2>5 DEF WorkerType
      <3>2. KidsOf = cr[c0].st.rid
        BY <1>2, <2>1 DEF KidsOf, Informed, mem
      <3>3. InHand(x)'
        BY <2>2, <2>5, <3>1 DEF InHand
      <3> QED BY <2>1, <2>2, <2>5, <3>2, <3>3
    <2>6. ASSUME NEW x \in kids', x \notin kids PROVE Held0(x)
      <3>1. /\ w' = [w EXCEPT !.todo = @ \ {i}, !.got[w.kind] = @ \cup {nextId}]
            /\ x = [id |-> nextId, rid |-> KidsOf, kind |-> w.kind, item |-> i,
                    site |-> w.site]
        BY <2>2, <2>6 DEF Kid
      <3>2. x.id = nextId /\ x.kind = w.kind /\ x.rid = KidsOf
        BY <3>1
      <3> QED BY <2>5, <3>1, <3>2
    <2> QED BY <2>1, <2>4, <2>6 DEF Kept0
  <1>18. ASSUME CreatedTargets PROVE Kept0
    <2> DEFINE st == [mem.st EXCEPT !.ids["target"] = w.got["target"]]
    <2>1. st \in StatusType /\ st.rid = mem.st.rid /\ st.ids["target"] = w.got["target"]
      BY <1>1 DEF StatusType, Kind
    <2>2. /\ w.pc = "kids" /\ w.kind = "target" /\ ~w.updating /\ w.pc \in Working
          /\ kids' = kids /\ mem.st = cr[c0].st
      BY <1>3, <1>18 DEF CreatedTargets, AllTried, At, Working, PC, pangolin
    <2>3. \A x \in kids : cr[c0].st.rid = x.rid => x.id \in w.got["target"] /\ x.kind = "target"
      BY <1>2, <2>2 DEF Informed, mem
    <2>4. \/ w' = StartKids(w, "rule") /\ UNCHANGED cr
          \/ w.got["target"] = {} /\ UNCHANGED cr
          \/ patchStatus(st, Fail(EnsureWhy), Fail(EnsureWhy))
      BY <1>18 DEF CreatedTargets
    <2>5. CASE w' = StartKids(w, "rule") /\ UNCHANGED cr
      <3>1. LET u == StartKids(w, "rule")
            IN  /\ u.pc = "kids" /\ u.c = c0 /\ u.updating = w.updating
                /\ u.got["target"] = w.got["target"]
        BY <1>1 DEF StartKids, WorkerType, c0, Kind
      <3> QED BY <2>2, <2>3, <2>5, <3>1 DEF Kept0, InHand
    <2>6. CASE w.got["target"] = {} /\ UNCHANGED cr
      BY <2>2, <2>3, <2>6 DEF Kept0
    <2>7. CASE patchStatus(st, Fail(EnsureWhy), Fail(EnsureWhy))
      <3> HIDE DEF st
      <3>1. cr'[c0].st = st /\ \A c \in CR : c # c0 => cr'[c] = cr[c]
        BY <1>5, <1>6, <2>1, <2>2, <2>7
      <3> QED BY <2>1, <2>2, <2>3, <3>1 DEF Kept0
    <2> HIDE DEF st
    <2> QED BY <2>4, <2>5, <2>6, <2>7
  <1>19. ASSUME CreatedRules PROVE Kept0
    <2> DEFINE s1 == [mem.st EXCEPT !.ids = w.got]
               s2 == [mem.st EXCEPT !.ids = w.got,
                        !.hash = [k \in Kind |-> hashJSON(mem.spec.kids[k])]]
               ok == IF w.had THEN Goto("refetch") ELSE Ready(w)
    <2>1. s1 \in StatusType /\ s1.rid = mem.st.rid /\ s1.ids = w.got
      BY <1>1 DEF StatusType
    <2>2. s2 \in StatusType /\ s2.rid = mem.st.rid /\ s2.ids = w.got
      <3>1. [k \in Kind |-> hashJSON(mem.spec.kids[k])] \in [Kind -> SUBSET (SUBSET Item)]
        BY <1>1 DEF SpecType, hashJSON
      <3> QED BY <1>1, <3>1 DEF StatusType
    <2>3. /\ w.pc = "kids" /\ w.kind = "rule" /\ ~w.updating /\ w.pc \in Working
          /\ kids' = kids /\ mem.st = cr[c0].st
      BY <1>3, <1>19 DEF CreatedRules, AllTried, At, Working, PC, pangolin
    <2>4. \A x \in kids : cr[c0].st.rid = x.rid => x.id \in w.got[x.kind]
      BY <1>2, <2>3 DEF Informed, mem
    <2>5. ok \in WorkerType
      <3>1. Goto("refetch") \in WorkerType /\ Ready(w) \in WorkerType
        BY <1>1, <1>7, ReadyType DEF PC
      <3> QED BY <3>1
    <2>6. \/ patchStatus(s1, Fail(EnsureWhy), Fail(EnsureWhy))
          \/ patchStatus(s2, ok, Fail("Error"))
      BY <1>19 DEF CreatedRules
    <2> HIDE DEF s1, s2, ok
    <2>7. cr'[c0].st \in {s1, s2} /\ \A c \in CR : c # c0 => cr'[c] = cr[c]
      BY <1>5, <1>6, <2>1, <2>2, <2>3, <2>5, <2>6
    <2> QED BY <2>1, <2>2, <2>3, <2>4, <2>7 DEF Kept0
  <1>20. ASSUME PersistKids PROVE Kept0
    <2> DEFINE k == w.kind
               s1 == [mem.st EXCEPT !.ids[k] = w.got[k],
                        !.hash[k] = hashJSON(mem.spec.kids[k])]
               s2 == [mem.st EXCEPT !.ids[k] = append(@, w.got[k])]
    <2>1. /\ s1 \in StatusType /\ s1.rid = mem.st.rid /\ s1.ids[k] = w.got[k]
          /\ \A j \in Kind : j # k => s1.ids[j] = mem.st.ids[j]
      <3>1. hashJSON(mem.spec.kids[k]) \in SUBSET (SUBSET Item)
        BY <1>1 DEF SpecType, hashJSON
      <3> QED BY <1>1, <3>1 DEF StatusType
    <2>2. /\ s2 \in StatusType /\ s2.rid = mem.st.rid
          /\ s2.ids[k] = mem.st.ids[k] \cup w.got[k]
          /\ \A j \in Kind : j # k => s2.ids[j] = mem.st.ids[j]
      BY <1>1 DEF StatusType, append
    <2>3. /\ w.pc = "kids" /\ w.updating /\ w.pc \in Working /\ kids' = kids
          /\ mem.st = cr[c0].st
      BY <1>3, <1>20 DEF PersistKids, AllTried, At, Working, PC, pangolin
    <2>4. w.old = mem.st.ids[k]
      BY <1>2, <2>3 DEF ReplaceInv
    <2>5. \A x \in kids : x.kind \in Kind
      BY <1>1 DEF KidType
    <2>6. \A x \in kids : InHand(x) => x.kind = k /\ x.id \in w.got[k]
      BY <2>3 DEF InHand
    <2>7. \/ patchStatus(s1, Goto("prune"), Fail("Error"))
          \/ patchStatus(s2, Fail(UpdateWhy), Fail(UpdateWhy))
          \/ w.got[k] = {} /\ UNCHANGED cr
      BY <1>20 DEF PersistKids
    <2>8. CASE patchStatus(s1, Goto("prune"), Fail("Error"))
      <3> HIDE DEF s1
      <3>1. Goto("prune") \in WorkerType
        BY <1>7 DEF PC
      <3>2. /\ cr'[c0].st = s1 /\ (\A c \in CR : c # c0 => cr'[c] = cr[c])
            /\ ButMem(w', Goto("prune"))
        BY <1>5, <1>6, <2>1, <2>3, <2>8, <3>1
      <3>3. w'.pc = "prune" /\ w'.c = c0 /\ w'.old = w.old /\ w'.kind = k
        BY <1>1, <3>2 DEF ButMem, Goto, WorkerType, c0
      <3>4. ASSUME NEW x \in kids, Mine(x) PROVE Listed0(x) \/ Held0(x)
        <4>1. CASE x.id \in cr[c0].st.ids[x.kind] /\ x.kind = k
          BY <2>1, <2>3, <2>4, <3>2, <3>3, <3>4, <4>1 DEF InHand
        <4>2. CASE x.id \in cr[c0].st.ids[x.kind] /\ x.kind # k
          BY <2>1, <2>3, <2>5, <3>2, <3>4, <4>2
        <4>3. CASE InHand(x)
          BY <2>1, <2>3, <2>6, <3>2, <3>4, <4>3
        <4> QED BY <3>4, <4>1, <4>2, <4>3
      <3> QED BY <2>3, <3>2, <3>4 DEF Kept0
    <2>9. CASE patchStatus(s2, Fail(UpdateWhy), Fail(UpdateWhy))
      <3> HIDE DEF s2
      <3>1. cr'[c0].st = s2 /\ \A c \in CR : c # c0 => cr'[c] = cr[c]
        BY <1>5, <1>6, <2>2, <2>3, <2>9
      <3>2. ASSUME NEW x \in kids, Mine(x) PROVE Listed0(x)
        <4>1. x.id \in cr[c0].st.ids[x.kind] \/ (x.kind = k /\ x.id \in w.got[k])
          BY <2>6, <3>2
        <4> QED BY <2>2, <2>3, <2>5, <3>1, <3>2, <4>1
      <3> QED BY <2>3, <3>1, <3>2 DEF Kept0
    <2>10. CASE w.got[k] = {} /\ UNCHANGED cr
      BY <2>3, <2>6, <2>10 DEF Kept0
    <2> HIDE DEF s1, s2
    <2> QED BY <2>7, <2>8, <2>9, <2>10
  <1>21. ASSUME NEW id \in w.old, PruneKid(id) PROVE Kept0
    <2>1. /\ w.pc = "prune" /\ UNCHANGED cr /\ kids' = {x \in kids : x.id # id}
          /\ w'.pc = "prune" /\ w'.c = c0 /\ w'.old = w.old \ {id} /\ w'.kind = w.kind
      BY <1>1, <1>4, <1>21 DEF PruneKid, At, WorkerType, c0
    <2>2. ASSUME NEW x \in kids', Mine(x) PROVE Listed0(x) \/ Held0(x)
      BY <2>1, <2>2 DEF InHand
    <2> QED BY <2>1, <2>2 DEF Kept0
  <1>22. ASSUME Pruned PROVE Kept0
    <2>1. w.pc = "prune" /\ w.old = {} /\ UNCHANGED <<cr, kids>>
      BY <1>22 DEF Pruned, At, pangolin
    <2>2. \A x : ~InHand(x)
      BY <2>1 DEF InHand
    <2> QED BY <2>1, <2>2 DEF Kept0
  <1>23. ASSUME MarkReady PROVE Kept0
    <2> DEFINE st == [mem.st EXCEPT !.phase = "Ready", !.obs = mem.gen,
                        !.cond = [reason |-> "Reconciled", gen |-> mem.gen]]
    <2>1. st \in StatusType /\ st.ids = mem.st.ids /\ st.rid = mem.st.rid
      BY <1>1 DEF StatusType, Phase, Reason
    <2>2. /\ patchAndReturn(st) /\ w.pc = "ready" /\ UNCHANGED kids
          /\ mem.st = cr[c0].st
      BY <1>3, <1>23 DEF MarkReady, At, Working, PC, pangolin
    <2> HIDE DEF st
    <2>3. cr'[c0].st \in {cr[c0].st, st} /\ \A c \in CR : c # c0 => cr'[c] = cr[c]
      BY <1>1, <2>1, <2>2, CleanReturn
    <2> QED BY <1>9, <2>1, <2>2, <2>3 DEF Kept0
  <1>24. ASSUME ReportFailure PROVE Kept0
    <2>1. /\ patchAndReturn(FailureStatus) /\ w.pc = "fail" /\ UNCHANGED kids
          /\ mem.st = cr[c0].st
      BY <1>3, <1>24 DEF ReportFailure, At, Working, PC, pangolin
    <2>2. /\ FailureStatus \in StatusType
          /\ w.why # "Reset" => FailureStatus.ids = mem.st.ids /\ FailureStatus.rid = mem.st.rid
      BY <1>1, NoDomType DEF FailureStatus, StatusType, Phase, Reason
    <2>3. cr'[c0].st \in {cr[c0].st, FailureStatus} /\ \A c \in CR : c # c0 => cr'[c] = cr[c]
      BY <1>1, <2>1, <2>2, CleanReturn
    <2>4. w.why = "Reset" => cr[c0].st.rid \notin live
      BY <1>2, <2>1 DEF Sync, mem, c0
    <2>5. CASE w.why = "Reset"
      BY <1>11, <2>1, <2>3, <2>4, <2>5
    <2>6. CASE w.why # "Reset"
      BY <1>9, <2>1, <2>2, <2>3, <2>6 DEF Kept0
    <2> QED BY <2>5, <2>6
  <1>25. ASSUME RemoveFinalizer PROVE Kept0
    <2>1. /\ w.pc = "unfinalize" /\ UNCHANGED kids /\ mem.st.rid \notin live
          /\ UNCHANGED cr \/ (Unmodified /\ cr' = [cr EXCEPT ![c0] = Gone(mem.gen)])
      BY <1>2, <1>25 DEF RemoveFinalizer, At, pangolin, CleanupInv
    <2>2. CASE UNCHANGED cr
      BY <1>10, <2>1, <2>2
    <2>3. CASE Unmodified /\ cr' = [cr EXCEPT ![c0] = Gone(mem.gen)]
      BY <1>1, <1>11, <2>1, <2>3 DEF Unmodified
    <2> QED BY <2>1, <2>2, <2>3
  <1>26. Kept0
    BY <1>12, <1>13, <1>14, <1>15, <1>16, <1>17, <1>18, <1>19, <1>20, <1>21, <1>22, <1>23,
       <1>24, <1>25 DEF WorkerStep
  <1> QED BY <1>8, <1>26

LEMMA AccountInvInit == Init => AccountInv
  <1> SUFFICES ASSUME Init PROVE AccountInv
    OBVIOUS
  <1>1. OrphanInv /\ ChildInv
    BY OrphanInvInit, ChildInvInit
  <1>2. w.pc = "idle" /\ kids = {}
    BY DEF Init, Idle
  <1> QED BY <1>1, <1>2 DEF AccountInv, HomeInv, Informed, OwnedInv, Working

LEMMA AccountInvNext == AccountInv /\ [Next]_vars => AccountInv'
  <1> SUFFICES ASSUME AccountInv, [Next]_vars PROVE AccountInv'
    OBVIOUS
  <1>1. /\ OrphanInv /\ ChildInv /\ HomeInv /\ LinkInv /\ TypeOK /\ ObjectsInv /\ WorkerInv
    BY DEF AccountInv, ChildInv, LinkInv, CleanupInv
  <1>2. OrphanInv' /\ ChildInv' /\ HomeInv'
    BY <1>1, OrphanInvNext, ChildInvNext, HomeInvNext
  <1> SUFFICES ASSUME Clean' PROVE Informed(w)' /\ OwnedInv'
    BY <1>2 DEF AccountInv
  <1>3. Clean
    BY <1>1, FaultsGrowNext DEF FaultsGrow, Clean, Seen
  <1>4. Informed(w) /\ OwnedInv
    BY <1>3 DEF AccountInv
  <1>5. CASE WorkerStep
    BY <1>3, <1>5, InformedWorker, OwnedWorker
  <1>6. CASE ~WorkerStep
    <2>1. /\ w' = w \/ Crash \/ \E c \in CR : Reconcile(c)
          /\ live' \subseteq live
      BY <1>1, <1>6, OthersKeep DEF live
    <2>2. /\ \A c \in CR : cr[c].fin => cr'[c].st = cr[c].st
          /\ UNCHANGED pangolin \/ \E id \in live : Drift(id)
      BY <1>1, <1>6, OthersChildren
    <2>3. kids' \subseteq kids
      BY <2>2 DEF pangolin, Drift, DeleteResource
    <2>4. \A x \in kids : \A c \in CR : cr[c].st.rid = x.rid => cr'[c].st = cr[c].st
      <3>1. \A x \in kids : x.rid # 0
        BY <1>1 DEF TypeOK, KidType
      <3>2. \A c \in CR : cr[c].st.rid # 0 => cr[c].fin
        BY <1>1 DEF ObjectsInv
      <3> QED BY <2>2, <3>1, <3>2
    <2>5. CASE w' = w
      <3>1. \A x : InHand(x)' = InHand(x)
        BY <2>5 DEF InHand
      <3>2. OwnedInv'
        <4> SUFFICES ASSUME NEW x \in kids'
                     PROVE  \E c \in CR : /\ cr'[c].st.rid = x.rid
                                          /\ \/ x.id \in cr'[c].st.ids[x.kind]
                                             \/ c = c0 /\ InHand(x)
          BY <2>5, <3>1 DEF OwnedInv, c0
        <4>1. PICK c \in CR : /\ cr[c].st.rid = x.rid
                              /\ x.id \in cr[c].st.ids[x.kind] \/ (c = c0 /\ InHand(x))
          BY <1>4, <2>3 DEF OwnedInv
        <4>2. cr'[c].st = cr[c].st
          BY <2>3, <2>4, <4>1
        <4> QED BY <4>1, <4>2
      <3>3. w.pc \in Working => cr'[w.c].st = cr[w.c].st
        <4>1. w.c \in CR /\ (w.pc \in Working => cr[w.c].fin)
          BY <1>1 DEF TypeOK, WorkerType, WorkerInv, c0
        <4> QED BY <2>2, <4>1
      <3>4. Informed(w)'
        <4> HIDE DEF live
        <4> QED BY <1>4, <2>1, <2>3, <2>5, <3>3 DEF Informed
      <3> QED BY <3>2, <3>4
    <2>6. ASSUME NEW c \in CR, Reconcile(c)
          PROVE  Informed(w)' /\ OwnedInv'
      <3>1. w.pc = "idle" /\ cache[c] = cr[c] /\ UNCHANGED <<cr, kids>>
        <4>1. ~Fault("lag")
          <5>1. \A f : Fault(f) => f \in faults'.seen
            BY DEF Fault
          <5> QED BY <1>1, <5>1 DEF Clean, Seen
        <4> QED BY <2>6, <4>1 DEF Reconcile, At, Get, pangolin
      <3>2. \/ w'.pc = "idle"
            \/ w'.pc \in {"cleanup", "site", "finalize"} /\ w'.c = c /\ w'.mem = cr[c]
        BY <2>6, <3>1, IdleType DEF Reconcile, WorkerType, Idle
      <3>3. Informed(w)'
        BY <3>1, <3>2 DEF Informed, Working
      <3>4. \A x \in kids : \E d \in CR : cr[d].st.rid = x.rid /\ x.id \in cr[d].st.ids[x.kind]
        BY <1>4, <3>1 DEF OwnedInv, InHand
      <3>5. OwnedInv'
        BY <3>1, <3>4 DEF OwnedInv
      <3> QED BY <3>3, <3>5
    <2>7. ~Crash
      BY <1>1 DEF Crash, Fault, Clean, Seen, TypeOK
    <2> QED BY <2>1, <2>5, <2>6, <2>7
  <1> QED BY <1>5, <1>6

\* createTargets and createRules, partial failures: as long as the operator survives,
\* the stores answer, no read is stale and no name is edited, no target or rule is in
\* Pangolin that no status lists, but for those that the worker has just created or is
\* about to delete, however many calls fail and whoever deletes resources or edits
\* specs meanwhile.
THEOREM EveryChildIsListed == Spec => []ChildrenAccounted
  <1>1. AccountInv => ChildrenAccounted
    <2> SUFFICES ASSUME AccountInv, Clean PROVE ChildrenAccounted
      BY DEF Clean, ChildrenAccounted
    <2>1. OwnedInv
      BY DEF AccountInv
    <2> QED BY <2>1 DEF OwnedInv, InHand, ChildrenAccounted
  <1> QED BY <1>1, AccountInvInit, AccountInvNext, PTL DEF Spec
=============================================================================
