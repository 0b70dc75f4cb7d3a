--------------------------- MODULE PrivateResource ---------------------------
(***************************************************************************)
(* The PrivateResource reconciler (internal/controller/privateresource):   *)
(* several objects, one worker, an informer cache, the NewtSites they name *)
(* and the site resources in Pangolin, which two objects of the same name  *)
(* can come to share.                                                      *)
(*                                                                         *)
(* As in PublicResource, every call to a store is one step.                *)
(*                                                                         *)
(* An operator marked "Mutant" is a wrong variant of the one that follows: *)
(* substituting it shows that a property can fail. Nothing else uses it.   *)
(***************************************************************************)
EXTENDS Domains, FiniteSets

CONSTANTS
  CR,          \* PrivateResource objects (namespace/name keys)
  Name,        \* values of spec.name
  Dest,        \* values of spec.destination
  FullDomain,  \* non-empty values of spec.fullDomain, as sequences of characters
  Char,        \* the characters of domain names
  Site,        \* NewtSite names
  SiteId,      \* the siteId each NewtSite gets first
  Specs,       \* the specs users write for each object
  Foreign,     \* site resources that may exist before the operator starts
  FirstId,     \* the first identifier Pangolin hands out after that
  Matches,     \* <<query, name>>: pairs for which ListSiteResources returns the name
  Domains,     \* the organisation's domains, as ListDomains returns them
  Faults,      \* the kinds of failure that can happen
  MaxFaults,   \* for each kind of failure, a bound on how many there are in all when one
               \* of that kind has happened; stale reads included
  MaxGen       \* bound on metadata.generation of each object

NoDom == <<>>
NoCR == "none"
Port == {"", "22", "*"}   \* values of tcpPorts and udpPorts; "" is no port

\* alias stands for the optional fields, which are sent when they are set;
\* roles for the fields that are always sent.
SpecType ==
  [name : Name, http : BOOLEAN, dest : Dest, dom : FullDomain \cup {NoDom},
   ports : Port, alias : BOOLEAN, roles : BOOLEAN, site : Site]

ResourceType ==
  [id : Nat \ {0}, name : Name, http : BOOLEAN, dest : Dest,
   dom : Seq(Char), ports : Port, alias : BOOLEAN, roles : BOOLEAN, sid : Nat,
   by : CR \cup {NoCR}]

\* What can go wrong, as in PublicResource; and what the properties tell apart.
FaultKind ==
  {"api", "apiLost", "bad", "del", "k8s", "k8sLost", "crash", "drift", "site", "lag",
   "late",    \* CreateSiteResource times out and takes effect later
   "resite",  \* a NewtSite gets another siteId: it was created anew
   "race",    \* an edit of an object that is being reconciled
   "rename",  \* an edit of spec.name
   "move",    \* an edit of the fields adoption matches: mode, destination, domain, site
   "unsent",  \* an edit that updateSiteResource does not send to Pangolin
   "trim"}    \* a spec whose full domain ResolveDomain trims twice

ASSUME ConstantsAssumption ==
  /\ CR # {} /\ NoCR \notin CR
  /\ NoDom \notin FullDomain
  /\ IsFiniteSet(Site)
  /\ SiteId \in [Site -> 1..Cardinality(Site)]
  /\ \A s, t \in Site : SiteId[s] = SiteId[t] => s = t
  /\ Specs \in [CR -> SUBSET SpecType] /\ \A c \in CR : Specs[c] # {}
  /\ Foreign \subseteq ResourceType
  /\ FirstId \in Nat \ {0}
  /\ \A r \in Foreign : r.by = NoCR /\ r.id < FirstId
  /\ \A r1, r2 \in Foreign : r1.id = r2.id => r1 = r2
  /\ Faults \subseteq FaultKind
  /\ MaxFaults \in [FaultKind -> Nat]
  /\ MaxGen \in [CR -> Nat]

\* ensureExists relies on it: the search for a name returns the site resources that
\* have that name, whatever else it returns.
ASSUME SearchFindsName == \A n \in Name : <<n, n>> \in Matches

\* The full domains that users write are names.
ASSUME DomainsAssumption ==
  /\ "." \in Char
  /\ Domains \in DomainListType(Char)
  /\ FullDomain \subseteq NameType(Char)

VARIABLES
  cr,         \* the objects at the API server
  cache,      \* the informer cache the reconciler reads
  queue,      \* keys waiting for the worker (requeues included)
  w,          \* the worker: program counter and locals of Reconcile
  resources,  \* site resources in Pangolin
  late,       \* creations that timed out and are still under way; until they take
              \* effect their id only tells them apart
  nextId,     \* the next identifier Pangolin hands out
  siteId,     \* the siteId of each NewtSite, 0 when it is not Ready
  faults      \* how many failures there were, and what was seen of FaultKind

pangolin == <<resources, late, nextId>>
vars == <<cr, cache, queue, w, resources, late, nextId, siteId, faults>>

-----------------------------------------------------------------------------
(* Objects. *)

Phase == {"", "Creating", "Ready", "Error"}
Reason == {"", "Pending", "Error", "PermanentError", "Reconciled"}

StatusType ==
  [phase : Phase, cond : [reason : Reason, gen : Nat], rid : Nat,
   dom : Seq(Char), obs : Nat]

ZeroStatus ==
  [phase |-> "", cond |-> [reason |-> "", gen |-> 0], rid |-> 0, dom |-> NoDom,
   obs |-> 0]

ObjectType ==
  [exists : BOOLEAN, del : BOOLEAN, fin : BOOLEAN, gen : Nat, spec : SpecType,
   st : StatusType]

\* No object. The generation is kept and stands for the UID, as in PublicResource.
Gone(gen) ==
  [exists |-> FALSE, del |-> FALSE, fin |-> FALSE, gen |-> gen,
   spec |-> CHOOSE s \in UNION {Specs[c] : c \in CR} : TRUE, st |-> ZeroStatus]

NewObject(gen, spec) ==
  [exists |-> TRUE, del |-> FALSE, fin |-> FALSE, gen |-> gen, spec |-> spec,
   st |-> ZeroStatus]

-----------------------------------------------------------------------------
(* The worker. *)

PC == {"idle", "finalize", "site", "list", "adopt", "creating", "create", "record",
       "rollback", "refetch", "update", "ready", "fail", "cleanup", "unfinalize"}

Why == {"", "Pending", "BadRequest", "Error", "Reset"}

WorkerType ==
  [pc : PC, c : CR, mem : ObjectType, sid : Nat, had : BOOLEAN, rid : Nat,
   dom : Seq(Char), why : Why]

Idle ==
  [pc |-> "idle", c |-> CHOOSE c \in CR : TRUE, mem |-> Gone(0), sid |-> 0,
   had |-> FALSE, rid |-> 0, dom |-> NoDom, why |-> ""]

c0 == w.c
mem == w.mem
live == {r.id : r \in resources}

Fault(k) ==
  /\ k \in Faults
  /\ faults.n < MaxFaults[k]
  /\ faults' = [n |-> faults.n + 1, seen |-> faults.seen \cup {k}]

Note(S) ==
  /\ S \subseteq Faults
  /\ faults' = [faults EXCEPT !.seen = @ \cup S]

Get(c) == IF cache[c] = cr[c] THEN UNCHANGED faults ELSE Fault("lag")

\* The cache catches up before anything else happens, unless a stale read may follow.
Fresh == cache # cr => "lag" \in Faults /\ faults.n < MaxFaults["lag"]

At(pc) == w.pc = pc /\ Fresh
Goto(pc) == [w EXCEPT !.pc = pc]

\* The ends of reconcile need no local but the object.
Ready(v) == [Idle EXCEPT !.pc = "ready", !.c = v.c, !.mem = v.mem]
Fail(why) == [Idle EXCEPT !.pc = "fail", !.c = c0, !.mem = mem, !.why = why]

\* A Pangolin call of ensureExists fails and does nothing.
Refused ==
  /\ \/ Fault("api") /\ w' = Fail("Error")
     \/ Fault("bad") /\ w' = Fail("BadRequest")
  /\ UNCHANGED pangolin

Forget == w' = Idle /\ UNCHANGED queue
Requeue == w' = Idle /\ queue' = queue \cup {c0}

-----------------------------------------------------------------------------
(* Writes to the API server; see PublicResource. *)

Sent(before, after, server) == IF after # before THEN after ELSE server

Merge(server, before, after) ==
  [phase |-> Sent(before.phase, after.phase, server.phase),
   cond  |-> Sent(before.cond, after.cond, server.cond),
   rid   |-> Sent(before.rid, after.rid, server.rid),
   dom   |-> Sent(before.dom, after.dom, server.dom),
   obs   |-> Sent(before.obs, after.obs, server.obs)]

\* Decoding the answer keeps what memory held in a field that is left out.
Kept(old, zero, new) == IF new = zero THEN old ELSE new

DecodedStatus(old, new) ==
  [phase |-> Kept(old.phase, "", new.phase),
   cond  |-> Kept(old.cond, ZeroStatus.cond, new.cond),
   rid   |-> Kept(old.rid, 0, new.rid),
   dom   |-> Kept(old.dom, NoDom, new.dom),
   obs   |-> Kept(old.obs, 0, new.obs)]

DecodedSpec(old, new) ==
  [new EXCEPT !.dom = Kept(old.dom, NoDom, @), !.ports = Kept(old.ports, "", @),
              !.alias = old.alias \/ @, !.roles = old.roles \/ @]

Decoded(server, st) ==
  [server EXCEPT !.spec = DecodedSpec(mem.spec, server.spec),
                 !.st = DecodedStatus(st, server.st)]

patchStatus(st, ok, ko) ==
  LET new == [cr[c0] EXCEPT !.st = Merge(cr[c0].st, mem.st, st)]
  IN  \/ /\ cr' = [cr EXCEPT ![c0] = new]
         /\ w' = [ok EXCEPT !.mem = Decoded(new, st)]
         /\ UNCHANGED faults
      \/ /\ Fault("k8s")
         /\ w' = [ko EXCEPT !.mem.st = st]
         /\ UNCHANGED cr
      \/ /\ Fault("k8sLost")
         /\ cr' = [cr EXCEPT ![c0] = new]
         /\ w' = [ko EXCEPT !.mem.st = st]

\* The last patch of a reconcile: its outcome changes nothing but the server.
patchAndReturn(st) ==
  \/ /\ cr' = [cr EXCEPT ![c0].st = Merge(@, mem.st, st)]
     /\ UNCHANGED faults
  \/ /\ Fault("k8s")
     /\ UNCHANGED cr

\* Update is guarded by the resourceVersion.
Unmodified == cr[c0] = mem

\* An empty list of ports is left out of the JSON, so the API server fills in the
\* default, all ports.
WithFinalizer ==
  [mem EXCEPT !.fin = TRUE, !.spec.ports = Kept("*", "", @),
              !.gen = IF mem.spec.ports = "" THEN @ + 1 ELSE @]

-----------------------------------------------------------------------------
(* Reconcile. *)

Reconcile(c) ==
  /\ At("idle") /\ c \in queue
  /\ queue' = queue \ {c}
  /\ w' = IF ~cache[c].exists THEN Idle
          ELSE [Idle EXCEPT !.c = c, !.mem = cache[c],
                  !.pc = IF cache[c].del THEN "cleanup"
                         ELSE IF cache[c].fin THEN "site" ELSE "finalize"]
  /\ Get(c)
  /\ UNCHANGED <<cr, cache, pangolin, siteId>>

AddFinalizer ==
  /\ At("finalize")
  /\ \/ /\ Unmodified
        /\ cr' = [cr EXCEPT ![c0] = WithFinalizer]
        /\ \/ w' = [w EXCEPT !.pc = "site", !.mem = WithFinalizer]
              /\ UNCHANGED <<queue, faults>>
           \/ Fault("k8sLost") /\ Requeue
     \/ /\ ~Unmodified \* HTTP 409 from the API server
        /\ Requeue
        /\ UNCHANGED <<cr, faults>>
     \/ /\ Fault("k8s")
        /\ Requeue
        /\ UNCHANGED cr
  /\ UNCHANGED <<cache, pangolin, siteId>>

ResolveSite ==
  /\ At("site")
  /\ w' = LET sid == siteId[mem.spec.site]
          IN  IF sid = 0 THEN Fail("Pending")
              ELSE [w EXCEPT !.pc = "list", !.sid = sid, !.had = mem.st.rid # 0]
  /\ UNCHANGED <<cr, cache, queue, pangolin, siteId, faults>>

Listed == {r \in resources : <<mem.spec.name, r.name>> \in Matches}

\* Mutant: only a resource that is linked already is found.
findSiteResourceById == {r \in Listed : r.id = mem.st.rid}

\* The items findSiteResource may return; the order of the list is Pangolin's.
findSiteResource ==
  {r \in Listed :
     /\ r.name = mem.spec.name /\ r.http = mem.spec.http
     /\ IF mem.spec.http THEN mem.spec.dom # NoDom /\ r.dom = mem.spec.dom
        ELSE r.dest = mem.spec.dest /\ r.sid = w.sid}

ensureExists ==
  /\ At("list")
  /\ \/ /\ mem.st.rid \in {r.id : r \in Listed}
        /\ w' = Goto("refetch")
        /\ UNCHANGED <<pangolin, faults>>
     \/ /\ mem.st.rid \notin {r.id : r \in Listed}
        /\ \/ \E r \in findSiteResource :
                w' = [w EXCEPT !.pc = "adopt", !.rid = r.id, !.dom = r.dom]
           \/ findSiteResource = {} /\ w' = Goto("creating")
        /\ UNCHANGED <<pangolin, faults>>
     \/ Refused
  /\ UNCHANGED <<cr, cache, queue, siteId>>

\* Mutant: an adopted resource is taken as it is.
AdoptAsIs ==
  /\ At("adopt")
  /\ LET st == [mem.st EXCEPT !.rid = w.rid, !.dom = w.dom, !.phase = "Creating"]
     IN  patchStatus(st, Ready(w), Fail("Error"))
  /\ UNCHANGED <<cache, queue, pangolin, siteId>>

Adopt ==
  /\ At("adopt")
  /\ patchStatus([mem.st EXCEPT !.rid = w.rid, !.dom = w.dom, !.phase = "Creating"],
                 Goto("update"), Fail("Error"))
  /\ UNCHANGED <<cache, queue, pangolin, siteId>>

-----------------------------------------------------------------------------
(* createSiteResource *)

MarkCreating ==
  /\ At("creating")
  /\ patchStatus([mem.st EXCEPT !.phase = "Creating"], Goto("create"), Fail("Error"))
  /\ UNCHANGED <<cache, queue, pangolin, siteId>>

\* httpFieldsFor: ListDomains and ResolveDomain, for every full domain.
httpFieldsFor == [d \in FullDomain |-> ResolveDomain(Domains, d)]

\* An empty domain, or one that belongs to none of the organisation's, is an error.
Resolvable(spec) == spec.http => spec.dom # NoDom /\ httpFieldsFor[spec.dom].ok

\* The full domains that Pangolin composes from the domain and the subdomain sent.
Composed ==
  [d \in FullDomain |->
     IF httpFieldsFor[d].ok
     THEN FullDomainOf(Domains, httpFieldsFor[d].id, httpFieldsFor[d].sub) ELSE NoDom]

SentDom == IF mem.spec.http THEN Composed[mem.spec.dom] ELSE NoDom

\* Ports left out of the request are all ports for Pangolin.
SentPorts(now) == IF mem.spec.http THEN now ELSE Kept(now, "", mem.spec.ports)

CreatedResource(id) ==
  [id |-> id, name |-> mem.spec.name, http |-> mem.spec.http,
   dest |-> mem.spec.dest, dom |-> SentDom, ports |-> SentPorts("*"),
   alias |-> mem.spec.alias, roles |-> mem.spec.roles, sid |-> w.sid, by |-> c0]

createSiteResource ==
  /\ At("create")
  /\ \/ /\ ~Resolvable(mem.spec)
        /\ w' = Fail("Error")
        /\ UNCHANGED <<pangolin, faults>>
     \/ /\ Resolvable(mem.spec)
        /\ resources' = resources \cup {CreatedResource(nextId)}
        /\ nextId' = nextId + 1
        /\ \/ /\ w' = [w EXCEPT !.pc = "record", !.rid = nextId, !.dom = SentDom]
              /\ UNCHANGED faults
           \/ Fault("apiLost") /\ w' = Fail("Error")
        /\ UNCHANGED late
     \/ /\ Resolvable(mem.spec) /\ Fault("late")
        /\ late' = late \cup {CreatedResource(faults.n)}
        /\ w' = Fail("Error")
        /\ UNCHANGED <<resources, nextId>>
     \/ Refused
  /\ UNCHANGED <<cr, cache, queue, siteId>>

\* A creation takes effect after the client gave up on it.
Land(r) ==
  /\ Fresh
  /\ late' = late \ {r}
  /\ resources' = resources \cup {[r EXCEPT !.id = nextId]}
  /\ nextId' = nextId + 1
  /\ UNCHANGED <<cr, cache, queue, w, siteId, faults>>

\* A first creation is Ready; a re-creation reads the object again.
RecordResource ==
  /\ At("record")
  /\ patchStatus([mem.st EXCEPT !.rid = w.rid, !.dom = w.dom, !.phase = "Creating"],
                 IF w.had THEN Goto("refetch") ELSE Ready(w), Goto("rollback"))
  /\ UNCHANGED <<cache, queue, pangolin, siteId>>

\* Mutant: HTTP 404 is not taken as success.
DeleteSiteResourceStrict(id) ==
  /\ id \in live
  /\ resources' = {r \in resources : r.id # id}
  /\ UNCHANGED <<late, nextId>>

\* DeleteSiteResource of the Pangolin API.
DeleteSiteResource(id) ==
  /\ resources' = {r \in resources : r.id # id}
  /\ UNCHANGED <<late, nextId>>

\* Mutant: the resource is not rolled back.
RollbackSkipped ==
  /\ At("rollback")
  /\ w' = Fail("Error")
  /\ UNCHANGED <<cr, cache, queue, pangolin, siteId, faults>>

Rollback ==
  /\ At("rollback")
  /\ w' = Fail("Error")
  /\ \/ DeleteSiteResource(w.rid) /\ UNCHANGED faults
     \/ Fault("del") /\ UNCHANGED pangolin
  /\ UNCHANGED <<cr, cache, queue, siteId>>

-----------------------------------------------------------------------------
(* updateSiteResource *)

needsUpdate(obj) == obj.st.rid # 0 /\ obj.gen # obj.st.obs

\* hadID && !adopted: re-read the object, then decide whether to update.
Refetch ==
  /\ At("refetch")
  /\ LET v == [w EXCEPT !.mem = cache[c0], !.pc = "update"]
     IN  w' = IF needsUpdate(v.mem) THEN v ELSE Ready(v)
  /\ Get(c0)
  /\ UNCHANGED <<cr, cache, queue, pangolin, siteId>>

\* What UpdateSiteResource changes: an unset optional field is left out of the
\* request, and Pangolin keeps the value it has.
Configured(r) ==
  [r EXCEPT !.name = mem.spec.name, !.http = mem.spec.http, !.dest = mem.spec.dest,
            !.dom = IF mem.spec.http THEN SentDom ELSE @, !.ports = SentPorts(@),
            !.alias = @ \/ mem.spec.alias, !.roles = mem.spec.roles, !.sid = w.sid]

updateSiteResource ==
  /\ At("update")
  /\ \/ /\ ~Resolvable(mem.spec)
        /\ w' = Fail("Error")
        /\ UNCHANGED <<pangolin, faults>>
     \/ /\ Resolvable(mem.spec) /\ mem.st.rid \in live
        /\ resources' = {IF r.id = mem.st.rid THEN Configured(r) ELSE r : r \in resources}
        /\ \/ w' = Ready(w) /\ UNCHANGED faults
           \/ Fault("apiLost") /\ w' = Fail("Error")
        /\ UNCHANGED <<late, nextId>>
     \/ /\ Resolvable(mem.spec) /\ mem.st.rid \notin live
        /\ w' = Fail("Reset")
        /\ UNCHANGED <<pangolin, faults>>
     \/ /\ Fault("api")
        /\ w' = Fail("Error")
        /\ UNCHANGED pangolin
  /\ UNCHANGED <<cr, cache, queue, siteId>>

-----------------------------------------------------------------------------
(* The ends of reconcile, and cleanup. *)

MarkReady ==
  /\ At("ready")
  /\ patchAndReturn([mem.st EXCEPT !.phase = "Ready", !.obs = mem.gen,
                       !.cond = [reason |-> "Reconciled", gen |-> mem.gen]])
  /\ Requeue
  /\ UNCHANGED <<cache, pangolin, siteId>>

\* Mutant: the error itself is given as the reason.
FailureStatusRaw == [mem.st EXCEPT !.cond = [reason |-> w.why, gen |-> mem.gen]]

\* The status each kind of failure leaves in memory.
FailureStatus ==
  LET cond(reason) == [reason |-> reason, gen |-> mem.gen]
  IN  CASE w.why = "Pending" -> [mem.st EXCEPT !.cond = cond("Pending")]
        [] w.why = "BadRequest" ->
             [mem.st EXCEPT !.cond = cond("PermanentError"), !.phase = "Error"]
        [] w.why = "Reset" -> [mem.st EXCEPT !.rid = 0]
        [] OTHER -> [mem.st EXCEPT !.cond = cond("Error")]

\* Mutant: every failure is final.
ReportFailureOnce ==
  /\ At("fail")
  /\ patchAndReturn(FailureStatus)
  /\ Forget
  /\ UNCHANGED <<cache, pangolin, siteId>>

ReportFailure ==
  /\ At("fail")
  /\ patchAndReturn(FailureStatus)
  /\ IF w.why = "BadRequest" THEN Forget ELSE Requeue
  /\ UNCHANGED <<cache, pangolin, siteId>>

\* Mutant: an error of DeleteSiteResource is logged and ignored.
CleanupIgnoresError ==
  /\ At("cleanup")
  /\ w' = Goto("unfinalize")
  /\ \/ DeleteSiteResource(mem.st.rid) /\ UNCHANGED faults
     \/ Fault("del") /\ UNCHANGED pangolin
  /\ UNCHANGED <<cr, cache, queue, siteId>>

Cleanup ==
  /\ At("cleanup")
  /\ \/ /\ mem.st.rid = 0
        /\ w' = Goto("unfinalize")
        /\ UNCHANGED <<pangolin, queue, faults>>
     \/ /\ mem.st.rid # 0
        /\ DeleteSiteResource(mem.st.rid)
        /\ \/ w' = Goto("unfinalize") /\ UNCHANGED <<queue, faults>>
           \/ Fault("apiLost") /\ Requeue
     \/ /\ mem.st.rid # 0 /\ Fault("del")
        /\ Requeue
        /\ UNCHANGED pangolin
  /\ UNCHANGED <<cr, cache, siteId>>

RemoveFinalizer ==
  /\ At("unfinalize")
  /\ \/ /\ Unmodified
        /\ cr' = [cr EXCEPT ![c0] = Gone(mem.gen)]
        /\ \/ Forget /\ UNCHANGED faults
           \/ Fault("k8sLost") /\ Requeue
     \/ /\ ~Unmodified
        /\ Requeue
        /\ UNCHANGED <<cr, faults>>
     \/ /\ Fault("k8s")
        /\ Requeue
        /\ UNCHANGED cr
  /\ UNCHANGED <<cache, pangolin, siteId>>

WorkerStep ==
  \/ AddFinalizer \/ ResolveSite \/ ensureExists \/ Adopt \/ MarkCreating
  \/ createSiteResource \/ RecordResource \/ Rollback \/ Refetch
  \/ updateSiteResource \/ MarkReady \/ ReportFailure \/ Cleanup \/ RemoveFinalizer

-----------------------------------------------------------------------------
(* The rest of the system. *)

CacheSync(c) ==
  /\ cache[c] # cr[c]
  /\ cache' = [cache EXCEPT ![c] = cr[c]]
  /\ queue' = IF cache[c].gen # cr[c].gen \/ cache[c].exists # cr[c].exists
              THEN queue \cup {c} ELSE queue
  /\ UNCHANGED <<cr, w, pangolin, siteId, faults>>

\* Whether ResolveDomain damages the subdomain of what the spec s asks for.
Damaged(s) == TrimmedTwice(Domains, s.dom)

UserCreate(c, s) ==
  /\ Fresh /\ ~cr[c].exists /\ cr[c].gen < MaxGen[c]
  /\ Note(IF Damaged(s) THEN {"trim"} ELSE {})
  /\ cr' = [cr EXCEPT ![c] = NewObject(cr[c].gen + 1, s)]
  /\ UNCHANGED <<cache, queue, w, pangolin, siteId>>

\* Whether the edit of c's spec into s is of kind k.
EditIs(k, c, s) ==
  LET old == cr[c].spec
  IN  CASE k = "race" -> w.pc # "idle" /\ c0 = c
        [] k = "rename" -> s.name # old.name
        [] k = "move" -> <<s.http, s.dest, s.dom, s.site>>
                           # <<old.http, old.dest, old.dom, old.site>>
        [] k = "unsent" -> \/ s.http # old.http
                           \/ old.alias /\ ~s.alias
                           \/ old.ports # "" /\ s.ports = ""
        [] k = "trim" -> Damaged(s)

UserEdit(c, s) ==
  /\ Fresh /\ cr[c].exists /\ ~cr[c].del /\ cr[c].spec # s
  /\ cr[c].gen < MaxGen[c]
  /\ Note({k \in {"race", "rename", "move", "unsent", "trim"} : EditIs(k, c, s)})
  /\ cr' = [cr EXCEPT ![c].spec = s, ![c].gen = @ + 1]
  /\ UNCHANGED <<cache, queue, w, pangolin, siteId>>

\* The first delete of an object with a finalizer only marks it.
Deleted(obj) ==
  IF obj.fin THEN [obj EXCEPT !.del = TRUE, !.gen = @ + 1] ELSE Gone(obj.gen)

UserDelete(c) ==
  /\ Fresh /\ cr[c].exists /\ ~cr[c].del
  /\ cr' = [cr EXCEPT ![c] = Deleted(cr[c])]
  /\ UNCHANGED <<cache, queue, w, pangolin, siteId, faults>>

\* An administrator deletes a site resource in Pangolin.
Drift(id) ==
  /\ Fresh /\ Fault("drift")
  /\ DeleteSiteResource(id)
  /\ UNCHANGED <<cr, cache, queue, w, siteId>>

SiteReady(s) ==
  /\ Fresh /\ siteId[s] = 0
  /\ siteId' = [siteId EXCEPT ![s] = SiteId[s]]
  /\ UNCHANGED <<cr, cache, queue, w, pangolin, faults>>

SiteLost(s) ==
  /\ Fresh /\ siteId[s] = SiteId[s] /\ Fault("site")
  /\ siteId' = [siteId EXCEPT ![s] = 0]
  /\ UNCHANGED <<cr, cache, queue, w, pangolin>>

SiteReplaced(s) ==
  /\ Fresh /\ siteId[s] = SiteId[s] /\ Fault("resite")
  /\ siteId' = [siteId EXCEPT ![s] = SiteId[s] + Cardinality(Site)]
  /\ UNCHANGED <<cr, cache, queue, w, pangolin>>

\* The operator restarts: the cache is filled anew and every object is queued.
Crash ==
  /\ Fresh /\ Fault("crash")
  /\ w' = Idle
  /\ cache' = cr
  /\ queue' = {c \in CR : cr[c].exists}
  /\ UNCHANGED <<cr, pangolin, siteId>>

Environment ==
  \/ \E c \in CR : \/ UserDelete(c)
                  \/ \E s \in Specs[c] : UserCreate(c, s) \/ UserEdit(c, s)
  \/ \E id \in live : Drift(id)
  \/ \E s \in Site : SiteReady(s) \/ SiteLost(s) \/ SiteReplaced(s)
  \/ Crash

Init ==
  /\ cr = [c \in CR |-> Gone(0)]
  /\ cache = cr
  /\ queue = {}
  /\ w = Idle
  /\ resources \in SUBSET Foreign
  /\ late = {}
  /\ nextId = FirstId
  /\ siteId = [s \in Site |-> 0]
  /\ faults = [n |-> 0, seen |-> {}]

Next ==
  \/ \E c \in CR : CacheSync(c) \/ Reconcile(c)
  \/ WorkerStep
  \/ \E r \in late : Land(r)
  \/ Environment

Spec == Init /\ [][Next]_vars

\* Every call returns within its timeout, watch events arrive, the work queue is
\* first in first out, and a NewtSite that can be provisioned becomes ready.
Fairness ==
  /\ WF_vars(WorkerStep)
  /\ \A c \in CR : WF_vars(CacheSync(c)) /\ SF_vars(Reconcile(c))
  /\ \A s \in Site : WF_vars(SiteReady(s))

FairSpec == Spec /\ Fairness

-----------------------------------------------------------------------------
(* Properties. *)

\* Every variable keeps its type: in particular no resource of Pangolin has the
\* identifier zero, which status.siteResourceId uses for "no resource", and every
\* failure that a reconcile can end with has a reason of its own.
TypeOK ==
  /\ cr \in [CR -> ObjectType]
  /\ cache \in [CR -> ObjectType]
  /\ queue \subseteq CR
  /\ w \in WorkerType
  /\ resources \subseteq ResourceType
  /\ \A r \in late : [r EXCEPT !.id = 1] \in ResourceType
  /\ nextId \in Nat \ {0}
  /\ siteId \in [Site -> Nat]
  /\ faults \in [n : Nat, seen : SUBSET FaultKind]

Seen(S) == faults.seen \cap S # {}

\* The PrivateResource implements Link.
L == INSTANCE Link WITH
  Object <- CR,
  phase  <- [c \in CR |-> IF ~cr[c].exists THEN "absent"
                          ELSE IF cr[c].del THEN "doomed"
                          ELSE IF cr[c].fin THEN "held" ELSE "free"],
  link   <- [c \in CR |-> cr[c].st.rid],
  remote <- live,
  issued <- nextId,
  asked  <- Cardinality(late)

\* Finalizer and status keep the promise of Link through every failure: a site
\* resource is created only for an object that holds the finalizer, a status links
\* what was handed out, and an object goes only when the site resource it links is
\* gone.
ImplementsLink == L!Spec

\* What adoption tells two site resources apart by.
SameUse(r1, r2) ==
  /\ r1.name = r2.name /\ r1.http = r2.http
  /\ IF r1.http THEN r1.dom = r2.dom ELSE r1.dest = r2.dest /\ r1.sid = r2.sid

\* ensureExists lists before it creates: the operator creates no second site resource
\* of a name, mode and destination, or full domain, be the first one foreign, of
\* another object, or its own and not recorded (crash, lost answer, failed rollback),
\* unless what it is found by changes under its feet or the creation takes effect
\* after the list. Nor is it found again when ResolveDomain trims the full domain
\* twice: Pangolin then serves "my.home" for a spec that says "myhome.home".
NoDuplicate ==
  ~Seen({"rename", "move", "resite", "late", "trim"}) =>
    \A r1, r2 \in resources : r1.by # NoCR /\ SameUse(r1, r2) => r1 = r2

\* Every site resource that the operator created is linked by the object it was
\* created for, or the worker is about to record it.
Linked ==
  \A r \in resources : r.by # NoCR =>
    \/ cr[r.by].st.rid = r.id
    \/ c0 = r.by /\ w.rid = r.id /\ w.pc \in {"record", "rollback"}

\* createSiteResource, "Rollback to avoid orphaned Pangolin site resource": the site
\* resources stay linked when status patches fail or their answers are lost, site
\* resources vanish in Pangolin, edits race with the reconciler and sites are replaced,
\* as long as the operator survives, Pangolin answers and no read of the cache is
\* stale.
NoOrphan == ~Seen({"crash", "apiLost", "late", "del", "lag", "rename"}) => Linked

\* The status claims that the current generation is applied, and nobody is at it.
Settled(c) ==
  /\ cr[c].exists /\ ~cr[c].del /\ (w.pc = "idle" \/ c0 # c)
  /\ cr[c].st.cond.reason = "Reconciled" /\ cr[c].st.obs = cr[c].gen

\* Pangolin serves what the spec of c says, through the site it names.
Applied(c) ==
  LET s == cr[c].spec
  IN  \E r \in resources :
        /\ r.id = cr[c].st.rid
        /\ r.name = s.name /\ r.http = s.http /\ r.dest = s.dest
        /\ r.roles = s.roles /\ r.alias = s.alias
        /\ IF s.http THEN r.dom = s.dom ELSE r.ports = s.ports
        /\ siteId[s.site] # 0 => r.sid = siteId[s.site]

\* "ObservedGeneration reflects the last observed spec generation": from some time
\* on a Ready object is applied, after failures, restarts, late creations and edits of
\* what adoption matches, as long as no two objects ask for the same site resource and
\* ResolveDomain leaves its full domain whole. After a deletion in Pangolin as well,
\* unless something else fails: a site resource that is adopted in place of the lost
\* one is recorded before it is updated, at a generation that counts as observed.
Converges ==
  [](~Seen({"lag", "race", "rename", "unsent", "resite", "trim"})
     /\ ~(Seen({"drift"}) /\ Seen({"api", "k8sLost", "crash"})))
    => <>[](\A c \in CR : Settled(c) => Applied(c))

\* A deleted object goes away once Pangolin and the API server answer again.
DeletionCompletes == \A c \in CR : cr[c].del ~> ~cr[c].exists

\* A live object becomes Ready, unless Pangolin refused it (HTTP 400) or its domain
\* belongs to none of the organisation's.
BecomesReady ==
  \A c \in CR : cr[c].exists ~>
    \/ Settled(c) \/ cr[c].del \/ ~cr[c].exists
    \/ cr[c].st.cond.reason = "PermanentError"
    \/ ~Resolvable(cr[c].spec)
=============================================================================
