--------------------------- MODULE PublicResource ---------------------------
(***************************************************************************)
(* The PublicResource reconciler (internal/controller/publicresource)      *)
(* between the two stores it keeps in step: the Kubernetes API server,     *)
(* read through an informer cache, and the Pangolin API.                   *)
(*                                                                         *)
(* One worker runs Reconcile; every call it makes to a store is one step,  *)
(* so users, administrators, cache updates and a crash of the operator     *)
(* interleave between any two calls.                                       *)
(*                                                                         *)
(* An operator marked "Mutant" is a wrong variant of the one that follows: *)
(* substituting it shows that a property can fail. Nothing else uses it.   *)
(***************************************************************************)
EXTENDS Domains, FiniteSets

CONSTANTS
  CR,         \* PublicResource objects (namespace/name keys)
  Name,       \* values of spec.name
  FullDomain, \* non-empty values of spec.fullDomain, as sequences of characters
  Char,       \* the characters of domain names
  Site,       \* NewtSite names; a site's name also stands for its siteId
  Item,       \* contents of one target or one rule
  Specs,      \* the specs users write
  Foreign,    \* Pangolin resources that may exist before the operator starts
  FirstId,    \* the first identifier Pangolin hands out after that
  Matches,    \* <<query, name>>: pairs for which ListResources returns the name
  Domains,    \* the organisation's domains, as ListDomains returns them
  Faults,     \* the kinds of failure that can happen
  MaxFaults,  \* bound on the number of failures, stale reads included
  MaxGen      \* bound on metadata.generation

NoDom == <<>>
NoCR == "none"
NoSite == "none"
Kind == {"target", "rule"}

SpecType ==
  [name : Name, http : BOOLEAN, dom : FullDomain \cup {NoDom}, ssl : BOOLEAN,
   host : BOOLEAN, site : Site, kids : [Kind -> SUBSET Item]]

ResourceType ==
  [id : Nat \ {0}, name : Name, dom : Seq(Char), ssl : BOOLEAN,
   host : BOOLEAN, by : CR \cup {NoCR}]

\* What can go wrong. The last four are no failures but what users do and the
\* properties tell apart.
FaultKind ==
  {"api",      \* a Pangolin call fails and does nothing
   "apiLost",  \* a Pangolin call takes effect and its answer is lost
   "bad",      \* Pangolin answers HTTP 400
   "del",      \* a delete in Pangolin fails
   "k8s",      \* a write to the API server fails and does nothing
   "k8sLost",  \* a write takes effect and its answer is lost
   "crash",    \* the operator stops and starts again
   "drift",    \* an administrator deletes a resource in Pangolin
   "site",     \* a NewtSite stops being ready
   "lag",      \* the reconciler reads a cache that is behind the API server
   "race",     \* an edit of an object that is being reconciled
   "rename",   \* an edit of spec.name
   "unsent",   \* an edit that updateResource does not send to Pangolin
   "trim"}     \* a spec whose full domain ResolveDomain trims twice

ASSUME ConstantsAssumption ==
  /\ CR # {} /\ NoCR \notin CR
  /\ Site # {} /\ NoSite \notin Site
  /\ Specs # {} /\ Specs \subseteq SpecType
  /\ Foreign \subseteq ResourceType
  /\ FirstId \in Nat \ {0}
  /\ \A r \in Foreign : r.by = NoCR /\ r.id < FirstId
  /\ \A r1, r2 \in Foreign : r1.id = r2.id => r1 = r2
  /\ Faults \subseteq FaultKind
  /\ MaxFaults \in Nat
  /\ MaxGen \in Nat

\* ensureExists relies on it: the search for a name returns the resources that have
\* that name, whatever else it returns.
ASSUME SearchFindsName == \A n \in Name : <<n, n>> \in Matches

\* The full domains that users write are names.
ASSUME DomainsAssumption ==
  /\ "." \in Char
  /\ Domains \in DomainListType(Char)
  /\ FullDomain \subseteq NameType(Char)

VARIABLES
  cr,         \* the objects at the API server
  cache,      \* the informer cache the reconciler reads
  queue,      \* keys waiting for the worker (requeues included)
  w,          \* the worker: program counter and locals of Reconcile
  resources,  \* resources in Pangolin
  kids,       \* targets and rules in Pangolin
  nextId,     \* the next identifier Pangolin hands out
  ready,      \* sites whose status is Ready with a siteId
  faults      \* how many failures there were, and what was seen of FaultKind

pangolin == <<resources, kids, nextId>>
vars == <<cr, cache, queue, w, resources, kids, nextId, ready, faults>>

-----------------------------------------------------------------------------
(* Objects. *)

Phase == {"", "Creating", "Ready", "Error"}
Reason == {"", "Pending", "Error", "PermanentError", "Reconciled"}

\* A hash is modelled as a set holding the value hashed: {} is the empty string.
StatusType ==
  [phase : Phase, cond : [reason : Reason, gen : Nat], rid : Nat,
   dom : Seq(Char), ids : [Kind -> SUBSET Nat],
   hash : [Kind -> SUBSET (SUBSET Item)], obs : Nat]

hashJSON(v) == {v}

ZeroStatus ==
  [phase |-> "", cond |-> [reason |-> "", gen |-> 0], rid |-> 0, dom |-> NoDom,
   ids |-> [k \in Kind |-> {}], hash |-> [k \in Kind |-> {}], obs |-> 0]

ObjectType ==
  [exists : BOOLEAN, del : BOOLEAN, fin : BOOLEAN, gen : Nat, spec : SpecType,
   st : StatusType]

\* No object. The generation is kept: a later object of the same name has
\* another UID, which the next generation stands for.
Gone(gen) ==
  [exists |-> FALSE, del |-> FALSE, fin |-> FALSE, gen |-> gen,
   spec |-> CHOOSE s \in Specs : TRUE, st |-> ZeroStatus]

NewObject(gen, spec) ==
  [exists |-> TRUE, del |-> FALSE, fin |-> FALSE, gen |-> gen, spec |-> spec,
   st |-> ZeroStatus]

-----------------------------------------------------------------------------
(* The worker. *)

PC == {"idle", "finalize", "site", "list", "adopt", "creating", "create",
       "record", "rollback", "reget", "settings", "kids", "prune",
       "refetch", "update", "ready", "fail", "cleanup", "unfinalize"}

APIError == {"Error", "NotFound", "BadRequest"}
Why == {"", "Pending", "Conflict", "BadRequest", "Error", "Reset"}

WorkerType ==
  [pc : PC, c : CR, mem : ObjectType, site : Site \cup {NoSite},
   had : BOOLEAN, adopted : BOOLEAN, updating : BOOLEAN,
   http : BOOLEAN, rid : Nat, dom : Seq(Char), kind : Kind,
   todo : SUBSET Item, got : [Kind -> SUBSET Nat], old : SUBSET Nat,
   errs : SUBSET APIError, why : Why]

Idle ==
  [pc |-> "idle", c |-> CHOOSE c \in CR : TRUE, mem |-> Gone(0), site |-> NoSite,
   had |-> FALSE, adopted |-> FALSE, updating |-> FALSE, http |-> FALSE, rid |-> 0,
   dom |-> NoDom, kind |-> "target", todo |-> {}, got |-> [k \in Kind |-> {}], old |-> {},
   errs |-> {}, why |-> ""]

c0 == w.c
mem == w.mem
live == {r.id : r \in resources}

\* A failure of kind k happens.
Fault(k) ==
  /\ k \in Faults
  /\ faults.n < MaxFaults
  /\ faults' = [n |-> faults.n + 1, seen |-> faults.seen \cup {k}]

\* Edits of the kinds S are allowed and have been seen.
Note(S) ==
  /\ S \subseteq Faults
  /\ faults' = [faults EXCEPT !.seen = @ \cup S]

\* A read of the cache.
Get(c) == IF cache[c] = cr[c] THEN UNCHANGED faults ELSE Fault("lag")

\* The cache catches up before anything else happens, unless a stale read may follow.
Fresh == cache # cr => "lag" \in Faults /\ faults.n < MaxFaults

At(pc) == w.pc = pc /\ Fresh
Goto(pc) == [w EXCEPT !.pc = pc]

\* The ends of reconcile need no local but the object.
Ready(v) == [Idle EXCEPT !.pc = "ready", !.c = v.c, !.mem = v.mem]
Fail(why) == [Idle EXCEPT !.pc = "fail", !.c = c0, !.mem = mem, !.why = why]

\* A Pangolin call of ensureExists fails and does nothing.
Refused ==
  /\ \/ Fault("api") /\ w' = Fail("Error")
     \/ Fault("bad") /\ w' = Fail("BadRequest")
  /\ UNCHANGED pangolin

\* Reconcile returns and the key is not put back.
Forget ==
  /\ w' = Idle
  /\ UNCHANGED queue

\* Reconcile returns; the key comes back after a resync, a requeue or a backoff.
Requeue ==
  /\ w' = Idle
  /\ queue' = queue \cup {c0}

-----------------------------------------------------------------------------
(* Writes to the API server. *)

Sent(before, after, server) == IF after # before THEN after ELSE server

\* The merge patch carries the fields that mutate changed in memory, whatever
\* the server holds in the others.
Merge(server, before, after) ==
  [phase |-> Sent(before.phase, after.phase, server.phase),
   cond  |-> Sent(before.cond, after.cond, server.cond),
   rid   |-> Sent(before.rid, after.rid, server.rid),
   dom   |-> Sent(before.dom, after.dom, server.dom),
   ids   |-> [k \in Kind |-> Sent(before.ids[k], after.ids[k], server.ids[k])],
   hash  |-> [k \in Kind |-> Sent(before.hash[k], after.hash[k], server.hash[k])],
   obs   |-> Sent(before.obs, after.obs, server.obs)]

\* A zero value is left out of the answer (omitempty), and decoding the answer
\* into the object in memory keeps what that field held before.
Kept(old, zero, new) == IF new = zero THEN old ELSE new

DecodedStatus(old, new) ==
  [phase |-> Kept(old.phase, "", new.phase),
   cond  |-> Kept(old.cond, ZeroStatus.cond, new.cond),
   rid   |-> Kept(old.rid, 0, new.rid),
   dom   |-> Kept(old.dom, NoDom, new.dom),
   ids   |-> [k \in Kind |-> Kept(old.ids[k], {}, new.ids[k])],
   hash  |-> [k \in Kind |-> Kept(old.hash[k], {}, new.hash[k])],
   obs   |-> Kept(old.obs, 0, new.obs)]

DecodedSpec(old, new) ==
  [name |-> new.name, http |-> new.http, dom |-> Kept(old.dom, NoDom, new.dom),
   ssl |-> Kept(old.ssl, FALSE, new.ssl), host |-> Kept(old.host, FALSE, new.host),
   site |-> new.site,
   kids |-> [k \in Kind |-> Kept(old.kids[k], {}, new.kids[k])]]

\* Memory after the answer `server` is decoded into an object with status st.
Decoded(server, st) ==
  [server EXCEPT !.spec = DecodedSpec(mem.spec, server.spec),
                 !.st = DecodedStatus(st, server.st)]

\* patchStatus: st is the status mutate leaves in memory; the worker goes on as
\* ok when the patch succeeds and as ko when it returns an error.
patchStatus(st, ok, ko) ==
  LET new == [cr[c0] EXCEPT !.st = Merge(cr[c0].st, mem.st, st)]
  IN  \/ /\ cr' = [cr EXCEPT ![c0] = new]
         /\ w' = [ok EXCEPT !.mem = Decoded(new, st)]
         /\ UNCHANGED faults
      \/ /\ Fault("k8s")
         /\ w' = [ko EXCEPT !.mem.st = st]
         /\ UNCHANGED cr
      \/ /\ Fault("k8sLost")
         /\ cr' = [cr EXCEPT ![c0] = new]
         /\ w' = [ko EXCEPT !.mem.st = st]

\* The last patch of a reconcile: its outcome changes nothing but the server.
patchAndReturn(st) ==
  \/ /\ cr' = [cr EXCEPT ![c0].st = Merge(@, mem.st, st)]
     /\ UNCHANGED faults
  \/ /\ Fault("k8s")
     /\ UNCHANGED cr

\* r.Update sends the resourceVersion read: it succeeds when the object is still
\* the one in memory.
Unmodified == cr[c0] = mem

\* The object Update writes when it adds the finalizer: ssl=false is left out of
\* the JSON (omitempty), so the API server fills in the default, true.
WithFinalizer ==
  [mem EXCEPT !.fin = TRUE, !.spec.ssl = TRUE,
              !.gen = IF mem.spec.ssl THEN @ ELSE @ + 1]

-----------------------------------------------------------------------------
(* Reconcile. *)

Reconcile(c) ==
  /\ At("idle") /\ c \in queue
  /\ queue' = queue \ {c}
  /\ w' = IF ~cache[c].exists THEN Idle
          ELSE [Idle EXCEPT !.c = c, !.mem = cache[c],
                  !.pc = IF cache[c].del THEN "cleanup"
                         ELSE IF cache[c].fin THEN "site" ELSE "finalize"]
  /\ Get(c)
  /\ UNCHANGED <<cr, cache, pangolin, ready>>

\* Mutant: an error of Update is logged and ignored.
AddFinalizerUnchecked ==
  /\ At("finalize")
  /\ \/ /\ Unmodified
        /\ cr' = [cr EXCEPT ![c0] = WithFinalizer]
        /\ w' = [w EXCEPT !.pc = "site", !.mem = WithFinalizer]
        /\ UNCHANGED faults
     \/ /\ Fault("k8s")
        /\ w' = [w EXCEPT !.pc = "site"]
        /\ UNCHANGED cr
  /\ UNCHANGED <<queue, cache, pangolin, ready>>

AddFinalizer ==
  /\ At("finalize")
  /\ \/ /\ Unmodified
        /\ cr' = [cr EXCEPT ![c0] = WithFinalizer]
        /\ w' = [w EXCEPT !.pc = "site", !.mem = WithFinalizer]
        /\ UNCHANGED <<queue, faults>>
     \/ /\ ~Unmodified \* HTTP 409 from the API server
        /\ Requeue
        /\ UNCHANGED <<cr, faults>>
     \/ /\ Fault("k8s")
        /\ Requeue
        /\ UNCHANGED cr
     \/ /\ Fault("k8sLost") /\ Unmodified
        /\ cr' = [cr EXCEPT ![c0] = WithFinalizer]
        /\ Requeue
  /\ UNCHANGED <<cache, pangolin, ready>>

ResolveSite ==
  /\ At("site")
  /\ w' = IF mem.spec.site \in ready
          THEN [w EXCEPT !.pc = "list", !.site = mem.spec.site, !.had = mem.st.rid # 0]
          ELSE Fail("Pending")
  /\ UNCHANGED <<cr, cache, queue, pangolin, ready, faults>>

Listed == {r \in resources : <<mem.spec.name, r.name>> \in Matches}

\* Mutant: only a resource that is linked already is found.
findResourceById == {r \in Listed : r.id = mem.st.rid}

\* The items findResource may return; the order of the list is Pangolin's.
findResource ==
  {r \in Listed : /\ r.name = mem.spec.name
                  /\ mem.spec.http /\ mem.spec.dom # NoDom => r.dom = mem.spec.dom}

ensureExists ==
  /\ At("list")
  /\ \/ /\ mem.st.rid \in {r.id : r \in Listed}
        /\ w' = Goto("refetch")
        /\ UNCHANGED <<pangolin, faults>>
     \/ /\ mem.st.rid \notin {r.id : r \in Listed}
        /\ \/ \E r \in findResource :
                w' = [w EXCEPT !.pc = "adopt", !.rid = r.id, !.dom = r.dom]
           \/ findResource = {} /\ w' = Goto("creating")
        /\ UNCHANGED <<pangolin, faults>>
     \/ Refused
  /\ UNCHANGED <<cr, cache, queue, ready>>

Adopt ==
  /\ At("adopt")
  /\ patchStatus([mem.st EXCEPT !.rid = w.rid, !.dom = w.dom, !.phase = "Creating",
                                !.ids = [k \in Kind |-> {}],
                                !.hash = [k \in Kind |-> {}]],
                 [w EXCEPT !.pc = "update", !.adopted = TRUE],
                 Fail("Error"))
  /\ UNCHANGED <<cache, queue, pangolin, ready>>

-----------------------------------------------------------------------------
(* createResource: no resource is linked and none can be adopted. *)

MarkCreating ==
  /\ At("creating")
  /\ patchStatus([mem.st EXCEPT !.phase = "Creating"], Goto("create"), Fail("Error"))
  /\ UNCHANGED <<cache, queue, pangolin, ready>>

\* What ResolveDomain makes of each full domain, and the full domain that Pangolin
\* composes of the domain and the subdomain sent.
Resolution == [d \in FullDomain |-> ResolveDomain(Domains, d)]

Composed ==
  [d \in FullDomain |-> IF Resolution[d].ok
                        THEN FullDomainOf(Domains, Resolution[d].id, Resolution[d].sub)
                        ELSE NoDom]

\* A full domain that belongs to none of the organisation's is an error.
Resolvable(spec) == spec.http /\ spec.dom # NoDom => Resolution[spec.dom].ok

\* The domain a resource created for the spec gets; Pangolin refuses one in use.
DomainOf(spec) == IF spec.http /\ spec.dom # NoDom THEN Composed[spec.dom] ELSE NoDom
DomainTaken ==
  DomainOf(mem.spec) # NoDom /\ \E r \in resources : r.dom = DomainOf(mem.spec)

CreatedResource ==
  [id |-> nextId, name |-> mem.spec.name, dom |-> DomainOf(mem.spec), ssl |-> TRUE,
   host |-> FALSE, by |-> c0]

\* ListDomains, ResolveDomain and CreateResource. They are one step, as nothing else
\* writes what ListDomains reads.
createResource ==
  /\ At("create")
  /\ \/ /\ ~Resolvable(mem.spec)
        /\ w' = Fail("Error")
        /\ UNCHANGED <<pangolin, faults>>
     \/ /\ Resolvable(mem.spec) /\ DomainTaken
        /\ w' = Fail("Conflict")
        /\ UNCHANGED <<pangolin, faults>>
     \/ /\ Resolvable(mem.spec) /\ ~DomainTaken
        /\ resources' = resources \cup {CreatedResource}
        /\ nextId' = nextId + 1
        /\ \/ /\ w' = [w EXCEPT !.pc = "record", !.http = mem.spec.http, !.rid = nextId,
                             !.dom = DomainOf(mem.spec)]
              /\ UNCHANGED faults
           \/ Fault("apiLost") /\ w' = Fail("Error")
        /\ UNCHANGED kids
     \/ Refused
  /\ UNCHANGED <<cr, cache, queue, ready>>

RecordResource ==
  /\ At("record")
  /\ patchStatus([mem.st EXCEPT !.rid = w.rid, !.dom = w.dom, !.phase = "Creating"],
                 Goto("reget"), Goto("rollback"))
  /\ UNCHANGED <<cache, queue, pangolin, ready>>

\* Mutant: HTTP 404 is not taken as success.
DeleteResourceStrict(id) ==
  /\ id \in live
  /\ resources' = {r \in resources : r.id # id}
  /\ kids' = {x \in kids : x.rid # id}
  /\ UNCHANGED nextId

\* DeleteResource of the Pangolin API: its targets and rules go with it.
DeleteResource(id) ==
  /\ resources' = {r \in resources : r.id # id}
  /\ kids' = {x \in kids : x.rid # id}
  /\ UNCHANGED nextId

\* Mutant: the resource is not rolled back.
RollbackSkipped ==
  /\ At("rollback")
  /\ w' = Fail("Error")
  /\ UNCHANGED <<cr, cache, queue, pangolin, ready, faults>>

Rollback ==
  /\ At("rollback")
  /\ w' = Fail("Error")
  /\ \/ /\ DeleteResource(w.rid)
        /\ UNCHANGED faults
     \/ /\ Fault("del")
        /\ UNCHANGED pangolin
  /\ UNCHANGED <<cr, cache, queue, ready>>

Reget ==
  /\ At("reget")
  /\ w' = [w EXCEPT !.pc = "settings", !.mem = cache[c0]]
  /\ Get(c0)
  /\ UNCHANGED <<cr, cache, queue, pangolin, ready>>

\* What UpdateResource changes: an unset optional setting is left out of the
\* request, and Pangolin keeps the value it has. The domain is never sent.
Configured(r, http, name) ==
  [r EXCEPT !.name = name, !.ssl = IF http THEN mem.spec.ssl ELSE @,
            !.host = @ \/ (http /\ mem.spec.host)]

UpdateResource(id, http, sendName) ==
  /\ resources' = {IF r.id # id THEN r
                   ELSE Configured(r, http, IF sendName THEN mem.spec.name ELSE r.name)
                   : r \in resources}
  /\ UNCHANGED <<kids, nextId>>


\* The worker v starts to create the targets or the rules of its spec.
StartKids(v, k) ==
  [v EXCEPT !.pc = "kids", !.kind = k, !.todo = v.mem.spec.kids[k],
            !.got[k] = {}, !.old = v.mem.st.ids[k], !.errs = {}]

Settings ==
  /\ At("settings")
  /\ \/ /\ w.rid \in live
        /\ UpdateResource(w.rid, w.http, ~w.http)
        /\ \/ w' = StartKids(w, "target") /\ UNCHANGED faults
           \/ Fault("apiLost") /\ w' = Fail("Error")
     \/ /\ w.rid \notin live
        /\ w' = Fail("Error")
        /\ UNCHANGED <<pangolin, faults>>
     \/ Refused
  /\ UNCHANGED <<cr, cache, queue, ready>>

-----------------------------------------------------------------------------
(* createTargets and createRules: one call per item, in any order; all of    *)
(* them are made, and the errors are joined.                                 *)

KidsOf == IF w.updating THEN mem.st.rid ELSE w.rid

Kid(i) == [id |-> nextId, rid |-> KidsOf, kind |-> w.kind, item |-> i, site |-> w.site]

\* The call for item i failed with error e.
KidFails(i, e) == w' = [w EXCEPT !.todo = @ \ {i}, !.errs = @ \cup {e}]

CreateKid(i) ==
  /\ At("kids") /\ i \in w.todo
  /\ \/ /\ KidsOf \in live
        /\ kids' = kids \cup {Kid(i)}
        /\ nextId' = nextId + 1
        /\ \/ /\ w' = [w EXCEPT !.todo = @ \ {i}, !.got[w.kind] = @ \cup {nextId}]
              /\ UNCHANGED faults
           \/ Fault("apiLost") /\ KidFails(i, "Error")
     \/ /\ \/ KidsOf \notin live /\ KidFails(i, "NotFound") /\ UNCHANGED faults
           \/ Fault("api") /\ KidFails(i, "Error")
           \/ Fault("bad") /\ KidFails(i, "BadRequest")
        /\ UNCHANGED <<kids, nextId>>
  /\ UNCHANGED <<cr, cache, queue, resources, ready>>

\* Mutant: the first answer is taken for all of them.
AllTriedEarly == At("kids") /\ w.got[w.kind] # {}

AllTried == At("kids") /\ w.todo = {}

\* ensureExists returned an error.
EnsureWhy == IF "BadRequest" \in w.errs THEN "BadRequest" ELSE "Error"

\* Mutant: HTTP 404 is passed through.
UpdateWhyUnhandled == IF "NotFound" \in w.errs THEN "NotFound" ELSE "Error"

\* updateResource returned an error.
UpdateWhy == IF "NotFound" \in w.errs THEN "Reset" ELSE "Error"

\* createResource, after createTargets: rules follow, or the targets created so
\* far are recorded and the error returned.
CreatedTargets ==
  /\ AllTried /\ ~w.updating /\ w.kind = "target"
  /\ \/ /\ w.errs = {}
        /\ w' = StartKids(w, "rule")
        /\ UNCHANGED <<cr, faults>>
     \/ /\ w.errs # {} /\ w.got["target"] = {}
        /\ w' = Fail(EnsureWhy)
        /\ UNCHANGED <<cr, faults>>
     \/ /\ w.errs # {} /\ w.got["target"] # {}
        /\ patchStatus([mem.st EXCEPT !.ids["target"] = w.got["target"]],
                       Fail(EnsureWhy), Fail(EnsureWhy))
  /\ UNCHANGED <<cache, queue, pangolin, ready>>

\* createResource, after createRules. A drift re-creation had an ID before and
\* re-reads the object; a first creation goes straight to Ready.
CreatedRules ==
  /\ AllTried /\ ~w.updating /\ w.kind = "rule"
  /\ IF w.errs # {}
     THEN patchStatus([mem.st EXCEPT !.ids = w.got], Fail(EnsureWhy), Fail(EnsureWhy))
     ELSE patchStatus([mem.st EXCEPT !.ids = w.got,
                         !.hash = [k \in Kind |-> hashJSON(mem.spec.kids[k])]],
                      IF w.had THEN Goto("refetch") ELSE Ready(w), Fail("Error"))
  /\ UNCHANGED <<cache, queue, pangolin, ready>>

-----------------------------------------------------------------------------
(* updateResource *)

Stale(v, k) == hashJSON(v.mem.spec.kids[k]) # v.mem.st.hash[k]

UpdateRules(v) ==
  IF Stale(v, "rule") THEN StartKids(v, "rule") ELSE Ready(v)

UpdateTargets(v) ==
  IF Stale(v, "target") THEN StartKids(v, "target") ELSE UpdateRules(v)

\* Mutant: only a resource never observed is updated.
needsUpdateOnce(obj) == obj.st.rid # 0 /\ obj.st.obs = 0

needsUpdate(obj) == obj.st.rid # 0 /\ obj.gen # obj.st.obs

\* hadID && !adopted: re-read the object, then decide whether to update.
Refetch ==
  /\ At("refetch")
  /\ LET v == [w EXCEPT !.mem = cache[c0], !.pc = "update"]
     IN  w' = IF needsUpdate(v.mem) THEN v ELSE Ready(v)
  /\ Get(c0)
  /\ UNCHANGED <<cr, cache, queue, pangolin, ready>>

updateResource ==
  /\ At("update")
  /\ \/ /\ mem.st.rid \in live
        /\ UpdateResource(mem.st.rid, mem.spec.http, TRUE)
        /\ \/ w' = UpdateTargets([w EXCEPT !.updating = TRUE]) /\ UNCHANGED faults
           \/ Fault("apiLost") /\ w' = Fail("Error")
     \/ /\ mem.st.rid \notin live
        /\ w' = Fail("Reset")
        /\ UNCHANGED <<pangolin, faults>>
     \/ /\ Fault("api")
        /\ w' = Fail("Error")
        /\ UNCHANGED pangolin
  /\ UNCHANGED <<cr, cache, queue, ready>>

\* Mutant: the IDs recorded before are forgotten.
appendDropsOld(ids, new) == new

append(ids, new) == ids \cup new

\* The new children of one kind are all there: persist their IDs and the hash
\* before the old ones are deleted. On an error keep those created as well.
PersistKids ==
  /\ AllTried /\ w.updating
  /\ LET k == w.kind
     IN  \/ /\ w.errs = {}
            /\ patchStatus([mem.st EXCEPT !.ids[k] = w.got[k],
                                          !.hash[k] = hashJSON(mem.spec.kids[k])],
                           Goto("prune"), Fail("Error"))
         \/ /\ w.errs # {} /\ w.got[k] # {}
            /\ patchStatus([mem.st EXCEPT !.ids[k] = append(@, w.got[k])],
                           Fail(UpdateWhy), Fail(UpdateWhy))
         \/ /\ w.errs # {} /\ w.got[k] = {}
            /\ w' = Fail(UpdateWhy)
            /\ UNCHANGED <<cr, faults>>
  /\ UNCHANGED <<cache, queue, pangolin, ready>>

\* DeleteTarget or DeleteRule of one old child; an error is logged and ignored.
PruneKid(id) ==
  /\ At("prune") /\ id \in w.old
  /\ w' = [w EXCEPT !.old = @ \ {id}]
  /\ \/ /\ kids' = {x \in kids : x.id # id}
        /\ UNCHANGED faults
     \/ /\ Fault("del")
        /\ UNCHANGED kids
  /\ UNCHANGED <<cr, cache, queue, resources, nextId, ready>>

Pruned ==
  /\ At("prune") /\ w.old = {}
  /\ w' = IF w.kind = "target" THEN UpdateRules(w) ELSE Ready(w)
  /\ UNCHANGED <<cr, cache, queue, pangolin, ready, faults>>

-----------------------------------------------------------------------------
(* The ends of reconcile, and cleanup. *)

MarkReady ==
  /\ At("ready")
  /\ patchAndReturn([mem.st EXCEPT !.phase = "Ready", !.obs = mem.gen,
                       !.cond = [reason |-> "Reconciled", gen |-> mem.gen]])
  /\ Requeue
  /\ UNCHANGED <<cache, pangolin, ready>>

\* The status each kind of failure leaves in memory.
FailureStatus ==
  LET cond(reason) == [reason |-> reason, gen |-> mem.gen]
  IN  CASE w.why \in {"Pending", "Conflict"} -> [mem.st EXCEPT !.cond = cond("Pending")]
        [] w.why = "BadRequest" ->
             [mem.st EXCEPT !.cond = cond("PermanentError"), !.phase = "Error"]
        [] w.why = "Reset" -> [mem.st EXCEPT !.rid = 0, !.dom = NoDom,
                                             !.ids = [k \in Kind |-> {}]]
        [] OTHER -> [mem.st EXCEPT !.cond = cond("Error")]

\* Mutant: every failure is final.
ReportFailureOnce ==
  /\ At("fail")
  /\ patchAndReturn(FailureStatus)
  /\ Forget
  /\ UNCHANGED <<cache, pangolin, ready>>

ReportFailure ==
  /\ At("fail")
  /\ patchAndReturn(FailureStatus)
  /\ IF w.why = "BadRequest" THEN Forget ELSE Requeue
  /\ UNCHANGED <<cache, pangolin, ready>>

\* Mutant: an error of DeleteResource is logged and ignored.
CleanupIgnoresError ==
  /\ At("cleanup")
  /\ w' = Goto("unfinalize")
  /\ \/ DeleteResource(mem.st.rid) /\ UNCHANGED faults
     \/ Fault("del") /\ UNCHANGED pangolin
  /\ UNCHANGED <<cr, cache, queue, ready>>

Cleanup ==
  /\ At("cleanup")
  /\ \/ /\ mem.st.rid = 0
        /\ w' = Goto("unfinalize")
        /\ UNCHANGED <<pangolin, queue, faults>>
     \/ /\ mem.st.rid # 0
        /\ DeleteResource(mem.st.rid)
        /\ \/ w' = Goto("unfinalize") /\ UNCHANGED <<queue, faults>>
           \/ Fault("apiLost") /\ Requeue
     \/ /\ mem.st.rid # 0 /\ Fault("del")
        /\ Requeue
        /\ UNCHANGED pangolin
  /\ UNCHANGED <<cr, cache, ready>>

RemoveFinalizer ==
  /\ At("unfinalize")
  /\ \/ /\ Unmodified
        /\ cr' = [cr EXCEPT ![c0] = Gone(mem.gen)]
        /\ \/ Forget /\ UNCHANGED faults
           \/ Fault("k8sLost") /\ Requeue
     \/ /\ ~Unmodified
        /\ Requeue
        /\ UNCHANGED <<cr, faults>>
     \/ /\ Fault("k8s")
        /\ Requeue
        /\ UNCHANGED cr
  /\ UNCHANGED <<cache, pangolin, ready>>

WorkerStep ==
  \/ AddFinalizer \/ ResolveSite \/ ensureExists \/ Adopt \/ MarkCreating
  \/ createResource \/ RecordResource \/ Rollback \/ Reget \/ Settings
  \/ \E i \in Item : CreateKid(i)
  \/ CreatedTargets \/ CreatedRules \/ Refetch \/ updateResource \/ PersistKids
  \/ \E id \in w.old : PruneKid(id)
  \/ Pruned \/ MarkReady \/ ReportFailure \/ Cleanup \/ RemoveFinalizer

-----------------------------------------------------------------------------
(* The rest of the system. *)

\* A watch event reaches the cache; GenerationChangedPredicate drops those that
\* leave the generation alone.
CacheSync(c) ==
  /\ cache[c] # cr[c]
  /\ cache' = [cache EXCEPT ![c] = cr[c]]
  /\ queue' = IF cache[c].gen # cr[c].gen \/ cache[c].exists # cr[c].exists
              THEN queue \cup {c} ELSE queue
  /\ UNCHANGED <<cr, w, pangolin, ready, faults>>

\* Whether ResolveDomain damages the subdomain of what the spec s asks for.
Damaged(s) == TrimmedTwice(Domains, s.dom)

UserCreate(c, s) ==
  /\ Fresh /\ ~cr[c].exists /\ cr[c].gen < MaxGen
  /\ Note(IF Damaged(s) THEN {"trim"} ELSE {})
  /\ cr' = [cr EXCEPT ![c] = NewObject(cr[c].gen + 1, s)]
  /\ UNCHANGED <<cache, queue, w, pangolin, ready>>

\* Whether the edit of c's spec into s is of kind k.
EditIs(k, c, s) ==
  LET old == cr[c].spec
  IN  CASE k = "race" -> w.pc # "idle" /\ c0 = c
        [] k = "rename" -> s.name # old.name
        [] k = "unsent" -> \/ <<s.http, s.dom, s.site>> # <<old.http, old.dom, old.site>>
                           \/ old.host /\ ~s.host
        [] k = "trim" -> Damaged(s)

UserEdit(c, s) ==
  /\ Fresh /\ cr[c].exists /\ ~cr[c].del /\ cr[c].spec # s /\ cr[c].gen < MaxGen
  /\ Note({k \in {"race", "rename", "unsent", "trim"} : EditIs(k, c, s)})
  /\ cr' = [cr EXCEPT ![c].spec = s, ![c].gen = @ + 1]
  /\ UNCHANGED <<cache, queue, w, pangolin, ready>>

\* The first delete of an object with a finalizer only marks it.
Deleted(o) ==
  IF o.fin THEN [o EXCEPT !.del = TRUE, !.gen = o.gen + 1] ELSE Gone(o.gen)

UserDelete(c) ==
  /\ Fresh /\ cr[c].exists /\ ~cr[c].del
  /\ cr' = [cr EXCEPT ![c] = Deleted(cr[c])]
  /\ UNCHANGED <<cache, queue, w, pangolin, ready, faults>>

\* An administrator deletes a resource in Pangolin.
Drift(id) ==
  /\ Fresh /\ Fault("drift")
  /\ DeleteResource(id)
  /\ UNCHANGED <<cr, cache, queue, w, ready>>

SiteReady(s) ==
  /\ Fresh /\ s \notin ready
  /\ ready' = ready \cup {s}
  /\ UNCHANGED <<cr, cache, queue, w, pangolin, faults>>

SiteLost(s) ==
  /\ Fresh /\ s \in ready /\ Fault("site")
  /\ ready' = ready \ {s}
  /\ UNCHANGED <<cr, cache, queue, w, pangolin>>

\* The operator restarts: the cache is filled anew and every object is queued.
Crash ==
  /\ Fresh /\ Fault("crash")
  /\ w' = Idle
  /\ cache' = cr
  /\ queue' = {c \in CR : cr[c].exists}
  /\ UNCHANGED <<cr, pangolin, ready>>

Environment ==
  \/ \E c \in CR, s \in Specs : UserCreate(c, s) \/ UserEdit(c, s)
  \/ \E c \in CR : UserDelete(c)
  \/ \E id \in live : Drift(id)
  \/ \E s \in Site : SiteReady(s) \/ SiteLost(s)
  \/ Crash

DomainsDistinct(R) == \A r1, r2 \in R : r1.dom = r2.dom /\ r1.dom # NoDom => r1 = r2

Init ==
  /\ cr = [c \in CR |-> Gone(0)]
  /\ cache = cr
  /\ queue = {}
  /\ w = Idle
  /\ resources \in {R \in SUBSET Foreign : DomainsDistinct(R)}
  /\ kids = {}
  /\ nextId = FirstId
  /\ ready = {}
  /\ faults = [n |-> 0, seen |-> {}]

Next ==
  \/ \E c \in CR : CacheSync(c) \/ Reconcile(c)
  \/ WorkerStep
  \/ Environment

Spec == Init /\ [][Next]_vars

\* Every call returns within its timeout, watch events arrive, the work queue is
\* first in first out, and a NewtSite that can be provisioned becomes ready.
Fairness ==
  /\ WF_vars(WorkerStep)
  /\ \A c \in CR : WF_vars(CacheSync(c)) /\ SF_vars(Reconcile(c))
  /\ \A s \in Site : WF_vars(SiteReady(s))

FairSpec == Spec /\ Fairness

-----------------------------------------------------------------------------
(* Properties. *)

KidType ==
  [id : Nat \ {0}, rid : Nat \ {0}, kind : Kind, item : Item, site : Site \cup {NoSite}]

\* Every variable keeps its type: in particular Pangolin's identifiers are never
\* zero, the value that status.resourceId uses for "no resource".
TypeOK ==
  /\ cr \in [CR -> ObjectType]
  /\ cache \in [CR -> ObjectType]
  /\ queue \subseteq CR
  /\ w \in WorkerType
  /\ resources \subseteq ResourceType
  /\ kids \subseteq KidType
  /\ nextId \in Nat \ {0}
  /\ ready \subseteq Site
  /\ faults \in [n : Nat, seen : SUBSET FaultKind]

Seen(S) == faults.seen \cap S # {}

\* cleanup: an object that carries the finalizer disappears only when the Pangolin
\* resource its status links is gone, whatever fails, restarts or reads stale data
\* in between (DeleteResource comes before the optimistically locked Update).
FinalizerHeld ==
  [][\A c \in CR : cr[c].fin /\ ~cr'[c].exists => cr[c].st.rid \notin live']_vars

\* The PublicResource implements Link, its targets and rules being records, too.
L == INSTANCE Link WITH
  Object <- CR,
  phase  <- [c \in CR |-> IF ~cr[c].exists THEN "absent"
                          ELSE IF cr[c].del THEN "doomed"
                          ELSE IF cr[c].fin THEN "held" ELSE "free"],
  link   <- [c \in CR |-> cr[c].st.rid],
  remote <- live \cup {x.id : x \in kids},
  issued <- nextId,
  asked  <- 0

\* Finalizer and status keep the promise of Link through every failure: resources,
\* targets and rules are created only for an object that holds the finalizer, the
\* status links what was handed out, and an object goes only when the resource it
\* links is gone.
ImplementsLink == L!Spec

\* updateResource, "Create new before deleting old to avoid dropping traffic": a
\* target or rule of a living resource is deleted only when the status at the API
\* server no longer lists it, and the children listed there serve every item of
\* the spec whose hash the status holds. After a resource was deleted in Pangolin
\* this is said of the resource the object links, as far as no read was stale.
NoTrafficGap ==
  [][\A x \in kids \ kids' :
       x.rid \in live' /\ (Seen({"drift"}) => x.rid = cr[c0].st.rid /\ ~Seen({"lag"})) =>
         LET st == cr[c0].st
         IN  /\ x.id \notin st.ids[x.kind]
             /\ \A i \in UNION st.hash[x.kind] :
                  \E y \in kids' : y.id \in st.ids[x.kind] /\ y.item = i]_vars

\* ensureExists lists before it creates: the operator creates no second resource of
\* a name and a domain, be the first one foreign, of another object, or its own and
\* not recorded (crash, lost answer, failed rollback), as long as edits change
\* neither name nor domain.
NoDuplicate ==
  ~Seen({"rename", "unsent"}) =>
    \A r1, r2 \in resources :
      r1.by # NoCR /\ <<r1.name, r1.dom>> = <<r2.name, r2.dom>> => r1 = r2

\* Every living resource that the operator created is linked by the object it was
\* created for.
Linked ==
  \A r \in resources : r.by # NoCR =>
    \/ cr[r.by].st.rid = r.id
    \/ c0 = r.by /\ w.rid = r.id /\ w.pc \in {"record", "rollback"}

\* createResource, "Rollback to avoid orphaned Pangolin resource": the resources
\* stay linked when status patches fail or their answers are lost, resources
\* vanish in Pangolin and edits race with the reconciler, as long as the operator
\* survives, Pangolin answers and no read of the cache is stale.
NoOrphan == ~Seen({"crash", "apiLost", "del", "lag", "rename"}) => Linked

\* The status claims that the current generation is applied, and nobody is at it.
Settled(c) ==
  /\ cr[c].exists /\ ~cr[c].del /\ (w.pc = "idle" \/ c0 # c)
  /\ cr[c].st.cond.reason = "Reconciled" /\ cr[c].st.obs = cr[c].gen

ChildrenOf(r, k) == {x \in kids : x.rid = r.id /\ x.kind = k}

\* Pangolin serves what the spec of c asks for.
Applied(c) ==
  LET s == cr[c].spec
  IN  \E r \in resources :
        /\ r.id = cr[c].st.rid /\ r.name = s.name
        /\ s.http => /\ s.dom # NoDom => r.dom = s.dom
                     /\ r.ssl = s.ssl /\ r.host = s.host
        /\ \A k \in Kind : \A i \in s.kids[k] :
             \E x \in ChildrenOf(r, k) :
               x.item = i /\ (k = "target" => x.site = s.site)


\* A settled resource has no child that the status does not list.
NoLeak ==
  \A c \in CR : Settled(c) =>
    \A r \in resources : r.id = cr[c].st.rid =>
      \A k \in Kind : {x.id : x \in ChildrenOf(r, k)} \subseteq cr[c].st.ids[k]

\* createTargets and createRules, partial failures: a target or rule in Pangolin is
\* always listed by the status of an object that links its resource, or the worker is
\* creating or deleting children of that object. Those created before an error are
\* recorded and replaced on retry; nothing else forgets them but what is excluded here.
ChildrenAccounted ==
  ~Seen({"apiLost", "del", "k8s", "k8sLost", "crash", "lag", "rename"}) =>
    \A x \in kids : \E c \in CR :
      /\ cr[c].st.rid = x.rid
      /\ x.id \in cr[c].st.ids[x.kind] \/ (c = c0 /\ w.pc \in {"kids", "prune"})

\* The object stays ready: from some time on, Ready means applied.
EventuallyApplied == <>[](\A c \in CR : Settled(c) => Applied(c))

\* "ObservedGeneration reflects the .metadata.generation most recently
\* reconciled": what the spec of a Ready object asks for is served, after any failures,
\* lost answers and restarts, unless an edit races with the reconciler, the resource is
\* deleted in Pangolin, an edit is one that updateResource does not send, ResolveDomain
\* sends another domain, or two objects ask for one resource. That nothing else is
\* served is NothingExtra.
Converges ==
  [](~Seen({"lag", "race", "drift", "unsent", "rename", "trim"})) => EventuallyApplied

\* A deleted object goes away once Pangolin and the API server answer again.
DeletionCompletes == \A c \in CR : cr[c].del ~> ~cr[c].exists

\* A live object becomes Ready, unless Pangolin refused its spec (HTTP 400), its domain
\* belongs to none of the organisation's, or a resource that was not created for it
\* holds its domain (HTTP 409). Its own, when it is not recorded, does not stand in the
\* way but after a change of name, or where ResolveDomain sent another domain: there
\* ensureExists does not find it.
BecomesReady ==
  [](~Seen({"rename", "trim"})) =>
    \A c \in CR : cr[c].exists ~>
      \/ Settled(c) \/ cr[c].del \/ ~cr[c].exists
      \/ cr[c].st.cond.reason = "PermanentError"
      \/ ~Resolvable(cr[c].spec)
      \/ /\ cr[c].st.cond.reason = "Pending"
         /\ \E r \in resources : r.by # c /\ r.dom # NoDom /\ r.dom = DomainOf(cr[c].spec)
=============================================================================
