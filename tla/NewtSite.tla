------------------------------ MODULE NewtSite ------------------------------
(***************************************************************************)
(* The NewtSite reconciler (internal/controller/newtsite), for one         *)
(* cluster-scoped NewtSite: the site it creates or adopts in Pangolin, the *)
(* Secret with the credentials of that site, and the newt Deployment.      *)
(*                                                                         *)
(* As in PublicResource, every call to a store is one step. The scan of    *)
(* routes and services that ends a reconcile is not modelled here: it      *)
(* leaves the state of this module alone.                                  *)
(*                                                                         *)
(* An operator marked "Mutant" is a wrong variant of the one that follows: *)
(* substituting it shows that a property can fail. Nothing else uses it.   *)
(***************************************************************************)
EXTENDS Naturals, FiniteSets

CONSTANTS
  Name,       \* values of spec.name
  Image,      \* values of spec.newt
  Specs,      \* the specs users write
  Foreign,    \* Pangolin sites that may exist before the operator starts
  FirstId,    \* the first identifier Pangolin hands out after that
  Faults,     \* the kinds of failure that can happen
  MaxFaults,  \* bound on the number of failures
  MaxGen      \* bound on metadata.generation; a re-creation may pass it by one

NoImage == "none"

SpecType == [name : Name, local : BOOLEAN, managed : BOOLEAN, image : Image]

\* A site in Pangolin, tunnelled or local; for is the uid of the object that the
\* operator created it for, and 0 when somebody else created it.
SiteType == [id : Nat \ {0}, name : Name, local : BOOLEAN, for : Nat]

\* What can go wrong, as in PublicResource; and edits the properties tell apart.
FaultKind ==
  {"api", "apiLost", "bad", "del", "k8s", "k8sLost", "crash", "drift", "lag",
   "pods",    \* the newt pods stop being ready
   "race",    \* an edit of the object while it is being reconciled
   "rename",  \* an edit of spec.name
   "retype",  \* an edit of spec.type or spec.managedDeployment
   "gc"}      \* re-creation of the object before its Secret is collected

ASSUME ConstantsAssumption ==
  /\ NoImage \notin Image
  /\ Specs # {} /\ Specs \subseteq SpecType
  /\ Foreign \subseteq SiteType
  /\ FirstId \in Nat \ {0}
  /\ \A s \in Foreign : s.for = 0 /\ s.id < FirstId
  /\ \A s1, s2 \in Foreign : s1.id = s2.id => s1 = s2
  /\ Faults \subseteq FaultKind
  /\ MaxFaults \in Nat
  /\ MaxGen \in Nat

VARIABLES
  ns,      \* the NewtSite at the API server
  cache,   \* the informer cache the reconciler reads
  queued,  \* whether the key waits for the worker
  w,       \* the worker: program counter and locals of Reconcile
  sites,   \* sites in Pangolin
  nextId,  \* the next identifier Pangolin hands out
  secret,  \* the credentials Secret: the site they are for, and the Secret's owner
  dep,     \* the newt Deployment: what it runs, its owner, and whether pods are ready
  faults   \* how many failures there were, and what was seen of FaultKind

owned == <<secret, dep>>
pangolin == <<sites, nextId>>
vars == <<ns, cache, queued, w, sites, nextId, secret, dep, faults>>

-----------------------------------------------------------------------------
(* Objects. *)

Phase == {"", "Creating", "Ready", "Error"}
Reason == {"", "Error", "PermanentError", "Reconciled"}

StatusType ==
  [phase : Phase, cond : [reason : Reason, gen : Nat], sid : Nat, online : BOOLEAN,
   obs : Nat]

ZeroStatus ==
  [phase |-> "", cond |-> [reason |-> "", gen |-> 0], sid |-> 0, online |-> FALSE,
   obs |-> 0]

\* The generation is kept when the object goes, so that its value at creation
\* tells objects of the same name apart: uid.
ObjectType ==
  [exists : BOOLEAN, del : BOOLEAN, fin : BOOLEAN, uid : Nat, gen : Nat,
   spec : SpecType, st : StatusType]

Gone(gen) ==
  [exists |-> FALSE, del |-> FALSE, fin |-> FALSE, uid |-> 0, gen |-> gen,
   spec |-> CHOOSE s \in Specs : TRUE, st |-> ZeroStatus]

NewObject(gen, spec) ==
  [exists |-> TRUE, del |-> FALSE, fin |-> FALSE, uid |-> gen, gen |-> gen,
   spec |-> spec, st |-> ZeroStatus]

NoSecret == [cred |-> 0, uid |-> 0]
NoDeployment == [image |-> NoImage, uid |-> 0, pods |-> FALSE]

-----------------------------------------------------------------------------
(* The worker. *)

PC == {"idle", "finalize", "start", "list", "adopt", "creating", "create", "secret",
       "record", "rollback", "reget", "update", "rename", "check", "deploy",
       "online", "ready", "fail", "cleanup", "unfinalize"}

Why == {"", "Error", "BadRequest", "Reset"}

WorkerType == [pc : PC, mem : ObjectType, sid : Nat, online : BOOLEAN, why : Why]

Idle == [pc |-> "idle", mem |-> Gone(0), sid |-> 0, online |-> FALSE, why |-> ""]

mem == w.mem
live == {s.id : s \in sites}

Fault(k) ==
  /\ k \in Faults
  /\ faults.n < MaxFaults
  /\ faults' = [n |-> faults.n + 1, seen |-> faults.seen \cup {k}]

Note(S) ==
  /\ S \subseteq Faults
  /\ faults' = [faults EXCEPT !.seen = @ \cup S]

Get == IF cache = ns THEN UNCHANGED faults ELSE Fault("lag")

\* The cache catches up before anything else happens, unless a stale read may follow.
Fresh == cache # ns => "lag" \in Faults /\ faults.n < MaxFaults

At(pc) == w.pc = pc /\ Fresh
Goto(pc) == [w EXCEPT !.pc = pc]
Fail(why) == [Idle EXCEPT !.pc = "fail", !.mem = mem, !.why = why]

\* A Pangolin call of findOrCreate fails and does nothing.
Refused ==
  /\ \/ Fault("api") /\ w' = Fail("Error")
     \/ Fault("bad") /\ w' = Fail("BadRequest")
  /\ UNCHANGED pangolin

Forget == w' = Idle /\ UNCHANGED queued
Requeue == w' = Idle /\ queued' = TRUE

-----------------------------------------------------------------------------
(* Writes to the API server; see PublicResource. *)

Sent(before, after, server) == IF after # before THEN after ELSE server

Merge(server, before, after) ==
  [phase  |-> Sent(before.phase, after.phase, server.phase),
   cond   |-> Sent(before.cond, after.cond, server.cond),
   sid    |-> Sent(before.sid, after.sid, server.sid),
   online |-> Sent(before.online, after.online, server.online),
   obs    |-> Sent(before.obs, after.obs, server.obs)]

\* An omitted zero value keeps what memory held; the spec has no such field here.
Kept(old, zero, new) == IF new = zero THEN old ELSE new

Decoded(server, st) ==
  [server EXCEPT !.st.phase = Kept(st.phase, "", @),
                 !.st.cond = Kept(st.cond, ZeroStatus.cond, @),
                 !.st.sid = Kept(st.sid, 0, @),
                 !.st.online = Kept(st.online, FALSE, @),
                 !.st.obs = Kept(st.obs, 0, @)]

patchStatus(st, ok, ko) ==
  LET new == [ns EXCEPT !.st = Merge(ns.st, mem.st, st)]
  IN  \/ /\ ns' = new
         /\ w' = [ok EXCEPT !.mem = Decoded(new, st)]
         /\ UNCHANGED faults
      \/ /\ Fault("k8s")
         /\ w' = [ko EXCEPT !.mem.st = st]
         /\ UNCHANGED ns
      \/ /\ Fault("k8sLost")
         /\ ns' = new
         /\ w' = [ko EXCEPT !.mem.st = st]

\* The last patch of a reconcile: its outcome changes nothing but the server.
patchAndReturn(st) ==
  \/ /\ ns' = [ns EXCEPT !.st = Merge(@, mem.st, st)]
     /\ UNCHANGED faults
  \/ /\ Fault("k8s")
     /\ UNCHANGED ns

\* Update is guarded by the resourceVersion.
Unmodified == ns = mem

-----------------------------------------------------------------------------
(* Reconcile. *)

Reconcile ==
  /\ At("idle") /\ queued
  /\ queued' = FALSE
  /\ w' = IF ~cache.exists THEN Idle
          ELSE [Idle EXCEPT !.mem = cache,
                  !.pc = IF cache.del THEN "cleanup"
                         ELSE IF cache.fin THEN "start" ELSE "finalize"]
  /\ Get
  /\ UNCHANGED <<ns, cache, pangolin, owned>>

AddFinalizer ==
  /\ At("finalize")
  /\ \/ /\ Unmodified
        /\ ns' = [mem EXCEPT !.fin = TRUE]
        /\ \/ w' = [w EXCEPT !.pc = "start", !.mem.fin = TRUE] /\ UNCHANGED <<queued, faults>>
           \/ Fault("k8sLost") /\ Requeue
     \/ /\ ~Unmodified
        /\ Requeue
        /\ UNCHANGED <<ns, faults>>
     \/ /\ Fault("k8s")
        /\ Requeue
        /\ UNCHANGED ns
  /\ UNCHANGED <<cache, pangolin, owned>>

\* Mutant: a site that is up to date is not looked up in Pangolin.
StartUnchecked ==
  /\ At("start")
  /\ w' = Goto(IF mem.st.sid = 0 THEN "list"
               ELSE IF mem.gen # mem.st.obs THEN "update" ELSE "deploy")
  /\ UNCHANGED <<ns, cache, queued, pangolin, owned, faults>>

\* Which branch reconcile takes: create, update, or the check for drift.
Start ==
  /\ At("start")
  /\ w' = Goto(IF mem.st.sid = 0 THEN "list"
               ELSE IF mem.gen # mem.st.obs THEN "update" ELSE "check")
  /\ UNCHANGED <<ns, cache, queued, pangolin, owned, faults>>

-----------------------------------------------------------------------------
(* findOrCreate and createSite *)

\* Mutant: a site of that name is not looked for.
findSiteNone == {}

findSite == {s \in sites : s.name = mem.spec.name}

findOrCreate ==
  /\ At("list")
  /\ \/ /\ \/ \E s \in findSite : w' = [w EXCEPT !.pc = "adopt", !.sid = s.id]
           \/ findSite = {} /\ w' = Goto("creating")
        /\ UNCHANGED <<pangolin, faults>>
     \/ Refused
  /\ UNCHANGED <<ns, cache, queued, owned>>

Adopt ==
  /\ At("adopt")
  /\ patchStatus([mem.st EXCEPT !.sid = w.sid, !.phase = "Creating"],
                 Goto("reget"), Fail("Error"))
  /\ UNCHANGED <<cache, queued, pangolin, owned>>

MarkCreating ==
  /\ At("creating")
  /\ patchStatus([mem.st EXCEPT !.phase = "Creating"], Goto("create"), Fail("Error"))
  /\ UNCHANGED <<cache, queued, pangolin, owned>>

\* The site that is asked for: spec.type is sent now, and never again.
CreatedSite ==
  [id |-> nextId, name |-> mem.spec.name, local |-> mem.spec.local, for |-> mem.uid]

\* PickSiteDefaults and CreateSite. The credentials picked are named by the site
\* they are for.
createSite ==
  /\ At("create")
  /\ \/ /\ sites' = sites \cup {CreatedSite}
        /\ nextId' = nextId + 1
        /\ \/ /\ w' = [w EXCEPT !.sid = nextId,
                                !.pc = IF mem.spec.local THEN "record" ELSE "secret"]
              /\ UNCHANGED faults
           \/ Fault("apiLost") /\ w' = Fail("Error")
     \/ Refused
  /\ UNCHANGED <<ns, cache, queued, owned>>

\* Mutant: a Secret that exists is left alone.
CreateSecretOnce ==
  /\ At("secret")
  /\ secret' = IF secret = NoSecret THEN [cred |-> w.sid, uid |-> mem.uid] ELSE secret
  /\ w' = Goto("record")
  /\ UNCHANGED <<ns, cache, queued, pangolin, dep, faults>>

\* CreateOrUpdate of the credentials: an existing Secret keeps its owner.
CreateSecret ==
  /\ At("secret")
  /\ LET new == [cred |-> w.sid, uid |-> IF secret = NoSecret THEN mem.uid ELSE secret.uid]
     IN  \/ secret' = new /\ w' = Goto("record") /\ UNCHANGED faults
         \/ Fault("k8sLost") /\ secret' = new /\ w' = Fail("Error")
         \/ Fault("k8s") /\ w' = Fail("Error") /\ UNCHANGED secret
  /\ UNCHANGED <<ns, cache, queued, pangolin, dep>>

RecordSite ==
  /\ At("record")
  /\ patchStatus([mem.st EXCEPT !.sid = w.sid], Goto("reget"), Goto("rollback"))
  /\ UNCHANGED <<cache, queued, pangolin, owned>>

\* Mutant: HTTP 404 is not taken as success.
DeleteSiteStrict(id) ==
  /\ id \in live
  /\ sites' = {s \in sites : s.id # id}
  /\ UNCHANGED nextId

\* DeleteSite of the Pangolin API; deleting a site that is gone changes nothing.
DeleteSite(id) ==
  /\ sites' = {s \in sites : s.id # id}
  /\ UNCHANGED nextId

Rollback ==
  /\ At("rollback")
  /\ w' = Fail("Error")
  /\ \/ DeleteSite(w.sid) /\ UNCHANGED faults
     \/ Fault("del") /\ UNCHANGED pangolin
  /\ UNCHANGED <<ns, cache, queued, owned>>

\* A site of type local, or one whose Deployment users manage, is ready now.
Deploying(v) ==
  [v EXCEPT !.pc = IF v.mem.spec.local \/ ~v.mem.spec.managed THEN "ready" ELSE "deploy",
            !.sid = 0]

Reget ==
  /\ At("reget")
  /\ w' = Deploying([w EXCEPT !.mem = cache])
  /\ Get
  /\ UNCHANGED <<ns, cache, queued, pangolin, owned>>

-----------------------------------------------------------------------------
(* updateSite, and the steady-state check for drift *)

\* Mutant: HTTP 404 is passed through.
GetSiteUnhandled ==
  /\ At("update")
  /\ \/ \E s \in sites : /\ s.id = mem.st.sid
                         /\ w' = IF s.name # mem.spec.name THEN Goto("rename")
                                 ELSE Deploying(w)
     \/ mem.st.sid \notin live /\ w' = Fail("NotFound")
  /\ UNCHANGED <<ns, cache, queued, pangolin, owned, faults>>

\* updateSite, GetSite: rename the site when its name differs.
GetSite ==
  /\ At("update")
  /\ \/ /\ \/ \E s \in sites : /\ s.id = mem.st.sid
                               /\ w' = IF s.name # mem.spec.name THEN Goto("rename")
                                       ELSE Deploying(w)
           \/ mem.st.sid \notin live /\ w' = Fail("Reset")
        /\ UNCHANGED faults
     \/ Fault("api") /\ w' = Fail("Error")
  /\ UNCHANGED <<ns, cache, queued, pangolin, owned>>

UpdateSite ==
  /\ At("rename")
  /\ \/ /\ mem.st.sid \in live
        /\ sites' = {IF s.id = mem.st.sid THEN [s EXCEPT !.name = mem.spec.name] ELSE s :
                     s \in sites}
        /\ \/ w' = Deploying(w) /\ UNCHANGED faults
           \/ Fault("apiLost") /\ w' = Fail("Error")
     \/ /\ mem.st.sid \notin live
        /\ w' = Fail("Reset")
        /\ UNCHANGED <<sites, faults>>
     \/ Fault("api") /\ w' = Fail("Error") /\ UNCHANGED sites
  /\ UNCHANGED <<ns, cache, queued, nextId, owned>>

\* An error other than HTTP 404 is returned without a status patch.
DriftCheck ==
  /\ At("check")
  /\ \/ /\ w' = IF mem.st.sid \in live THEN Deploying(w) ELSE Fail("Reset")
        /\ UNCHANGED <<queued, faults>>
     \/ Fault("api") /\ Requeue
  /\ UNCHANGED <<ns, cache, pangolin, owned>>

-----------------------------------------------------------------------------
(* The Deployment, and the ends of reconcile *)

\* The manifest is a function of spec.newt, here its image; the pods are those of the
\* Deployment that is there.
buildDeployment(site) ==
  [image |-> site.spec.image, uid |-> site.uid, pods |-> dep.pods]

\* ensureServiceAccount and ensureDeployment. SetControllerReference tells owners
\* apart by kind and name, not by UID: an object that was created anew takes the
\* Deployment of its predecessor over.
ensureDeployment ==
  /\ At("deploy")
  /\ \/ /\ dep' = buildDeployment(mem)
        /\ \/ w' = Goto("online") /\ UNCHANGED faults
           \/ Fault("k8sLost") /\ w' = Fail("Error")
     \/ Fault("k8s") /\ w' = Fail("Error") /\ UNCHANGED dep
  /\ UNCHANGED <<ns, cache, queued, pangolin, secret>>

ReadOnline ==
  /\ At("online")
  /\ w' = [w EXCEPT !.pc = "ready", !.online = dep.pods]
  /\ UNCHANGED <<ns, cache, queued, pangolin, owned, faults>>

\* The status patch, and the requeue after the scan (or its error).
MarkReady ==
  /\ At("ready")
  /\ patchAndReturn([mem.st EXCEPT !.phase = "Ready", !.obs = mem.gen, !.online = w.online,
                       !.cond = [reason |-> "Reconciled", gen |-> mem.gen]])
  /\ Requeue
  /\ UNCHANGED <<cache, pangolin, owned>>

FailureStatus ==
  LET cond(reason) == [reason |-> reason, gen |-> mem.gen]
  IN  CASE w.why = "BadRequest" ->
             [mem.st EXCEPT !.cond = cond("PermanentError"), !.phase = "Error"]
        [] w.why = "Reset" -> [mem.st EXCEPT !.sid = 0]
        [] OTHER -> [mem.st EXCEPT !.cond = cond("Error")]

\* Mutant: every failure is final.
ReportFailureOnce ==
  /\ At("fail")
  /\ patchAndReturn(FailureStatus)
  /\ Forget
  /\ UNCHANGED <<cache, pangolin, owned>>

ReportFailure ==
  /\ At("fail")
  /\ patchAndReturn(FailureStatus)
  /\ IF w.why = "BadRequest" THEN Forget ELSE Requeue
  /\ UNCHANGED <<cache, pangolin, owned>>

\* Mutant: an error of DeleteSite is logged and ignored.
CleanupIgnoresError ==
  /\ At("cleanup")
  /\ w' = Goto("unfinalize")
  /\ \/ DeleteSite(mem.st.sid) /\ UNCHANGED faults
     \/ Fault("del") /\ UNCHANGED pangolin
  /\ UNCHANGED <<ns, cache, queued, owned>>

Cleanup ==
  /\ At("cleanup")
  /\ \/ /\ mem.st.sid = 0
        /\ w' = Goto("unfinalize")
        /\ UNCHANGED <<pangolin, queued, faults>>
     \/ /\ mem.st.sid # 0
        /\ DeleteSite(mem.st.sid)
        /\ \/ w' = Goto("unfinalize") /\ UNCHANGED <<queued, faults>>
           \/ Fault("apiLost") /\ Requeue
     \/ /\ mem.st.sid # 0 /\ Fault("del")
        /\ Requeue
        /\ UNCHANGED pangolin
  /\ UNCHANGED <<ns, cache, owned>>

RemoveFinalizer ==
  /\ At("unfinalize")
  /\ \/ /\ Unmodified
        /\ ns' = Gone(mem.gen)
        /\ \/ Forget /\ UNCHANGED faults
           \/ Fault("k8sLost") /\ Requeue
     \/ /\ ~Unmodified
        /\ Requeue
        /\ UNCHANGED <<ns, faults>>
     \/ /\ Fault("k8s")
        /\ Requeue
        /\ UNCHANGED ns
  /\ UNCHANGED <<cache, pangolin, owned>>

WorkerStep ==
  \/ AddFinalizer \/ Start \/ findOrCreate \/ Adopt \/ MarkCreating \/ createSite
  \/ CreateSecret \/ RecordSite \/ Rollback \/ Reget \/ GetSite \/ UpdateSite
  \/ DriftCheck \/ ensureDeployment \/ ReadOnline \/ MarkReady \/ ReportFailure
  \/ Cleanup \/ RemoveFinalizer

-----------------------------------------------------------------------------
(* The rest of the system. *)

CacheSync ==
  /\ cache # ns
  /\ cache' = ns
  /\ queued' = (queued \/ cache.gen # ns.gen \/ cache.exists # ns.exists)
  /\ UNCHANGED <<ns, w, pangolin, owned, faults>>

\* The garbage collector deletes what an object that is gone owns; the deletion
\* of an owned object brings the key of its owner back.
Orphaned(uid) == uid # 0 /\ ~(ns.exists /\ ns.uid = uid)

Collect ==
  /\ Fresh
  /\ Orphaned(secret.uid) \/ Orphaned(dep.uid)
  /\ secret' = IF Orphaned(secret.uid) THEN NoSecret ELSE secret
  /\ dep' = IF Orphaned(dep.uid) THEN NoDeployment ELSE dep
  /\ queued' = TRUE
  /\ UNCHANGED <<ns, cache, w, pangolin, faults>>

\* newt pods start once the Deployment and the Secret are there.
PodsReady ==
  /\ Fresh /\ dep.image # NoImage /\ secret # NoSecret /\ ~dep.pods
  /\ dep' = [dep EXCEPT !.pods = TRUE]
  /\ queued' = TRUE
  /\ UNCHANGED <<ns, cache, w, pangolin, secret, faults>>

PodsLost ==
  /\ Fresh /\ dep.pods /\ Fault("pods")
  /\ dep' = [dep EXCEPT !.pods = FALSE]
  /\ queued' = TRUE
  /\ UNCHANGED <<ns, cache, w, pangolin, secret>>

UserCreate(s) ==
  /\ Fresh /\ ~ns.exists /\ ns.gen <= MaxGen
  /\ Note(IF owned # <<NoSecret, NoDeployment>> THEN {"gc"} ELSE {})
  /\ ns' = NewObject(ns.gen + 1, s)
  /\ UNCHANGED <<cache, queued, w, pangolin, owned>>

EditIs(k, s) ==
  CASE k = "race" -> w.pc # "idle"
    [] k = "rename" -> s.name # ns.spec.name
    [] k = "retype" -> <<s.local, s.managed>> # <<ns.spec.local, ns.spec.managed>>

UserEdit(s) ==
  /\ Fresh /\ ns.exists /\ ~ns.del /\ ns.spec # s /\ ns.gen < MaxGen
  /\ Note({k \in {"race", "rename", "retype"} : EditIs(k, s)})
  /\ ns' = [ns EXCEPT !.spec = s, !.gen = @ + 1]
  /\ UNCHANGED <<cache, queued, w, pangolin, owned>>

UserDelete ==
  /\ Fresh /\ ns.exists /\ ~ns.del
  /\ ns' = IF ns.fin THEN [ns EXCEPT !.del = TRUE, !.gen = @ + 1] ELSE Gone(ns.gen)
  /\ UNCHANGED <<cache, queued, w, pangolin, owned, faults>>

\* An administrator deletes a site in Pangolin.
Drift(id) ==
  /\ Fresh /\ Fault("drift")
  /\ DeleteSite(id)
  /\ UNCHANGED <<ns, cache, queued, w, owned>>

Crash ==
  /\ Fresh /\ Fault("crash")
  /\ w' = Idle
  /\ cache' = ns
  /\ queued' = ns.exists
  /\ UNCHANGED <<ns, pangolin, owned>>

Environment ==
  \/ Collect \/ PodsReady \/ PodsLost \/ UserDelete \/ Crash
  \/ \E s \in Specs : UserCreate(s) \/ UserEdit(s)
  \/ \E id \in live : Drift(id)

Init ==
  /\ ns = Gone(0)
  /\ cache = ns
  /\ queued = FALSE
  /\ w = Idle
  /\ sites \in SUBSET Foreign
  /\ nextId = FirstId
  /\ secret = NoSecret
  /\ dep = NoDeployment
  /\ faults = [n |-> 0, seen |-> {}]

Next == CacheSync \/ Reconcile \/ WorkerStep \/ Environment

Spec == Init /\ [][Next]_vars

\* Every call returns within its timeout, watch events arrive, a queued key is
\* taken, the garbage collector runs, and pods that can start do.
Fairness ==
  /\ WF_vars(WorkerStep) /\ WF_vars(CacheSync) /\ SF_vars(Reconcile)
  /\ WF_vars(Collect) /\ WF_vars(PodsReady)

FairSpec == Spec /\ Fairness

-----------------------------------------------------------------------------
(* Properties. *)

\* Every variable keeps its type; in particular Pangolin's identifiers are never
\* zero, the value that status.siteId uses for "no site".
TypeOK ==
  /\ ns \in ObjectType
  /\ cache \in ObjectType
  /\ queued \in BOOLEAN
  /\ w \in WorkerType
  /\ sites \subseteq SiteType
  /\ nextId \in Nat \ {0}
  /\ secret \in [cred : Nat, uid : Nat]
  /\ dep \in [image : Image \cup {NoImage}, uid : Nat, pods : BOOLEAN]
  /\ faults \in [n : Nat, seen : SUBSET FaultKind]

Seen(S) == faults.seen \cap S # {}

\* The NewtSite implements Link.
L == INSTANCE Link WITH
  Object <- {"site"},
  phase  <- [o \in {"site"} |-> IF ~ns.exists THEN "absent"
                               ELSE IF ns.del THEN "doomed"
                               ELSE IF ns.fin THEN "held" ELSE "free"],
  link   <- [o \in {"site"} |-> ns.st.sid],
  remote <- live,
  issued <- nextId,
  asked  <- 0

\* Finalizer and status keep the promise of Link through every failure, and through
\* the re-creation of the object: a site is created only for an object that holds
\* the finalizer, its status links what was handed out, and it goes only when the
\* site it links is gone.
ImplementsLink == L!Spec

\* findOrCreate lists before it creates: after a lost answer, a restart or a
\* failed rollback the site is adopted by its name and not created once more.
NoDuplicateSite ==
  ~Seen({"rename"}) =>
    \A s1, s2 \in sites : s1.for # 0 /\ s1.name = s2.name => s1 = s2

\* The status claims that the current generation is applied, and nobody is at it.
Settled ==
  /\ ns.exists /\ ~ns.del /\ w.pc = "idle"
  /\ ns.st.cond.reason = "Reconciled" /\ ns.st.obs = ns.gen

\* "The operator auto-creates a Secret ... The newt Deployment reads credentials
\* from this Secret": a site that the operator created for this object and reports as
\* Ready has its own credentials in the Secret.
CredentialsUsable ==
  Settled /\ ~ns.spec.local =>
    \A s \in sites : s.id = ns.st.sid /\ s.for = ns.uid => secret.cred = s.id

\* The Secret follows the site through deletions in Pangolin, re-creations,
\* rollbacks and adoptions, as long as the write of the Secret is reached and does not
\* fail, and no Secret of an earlier object of the same name is left. Renames are safe
\* too, unless the reconciler loses track of a site: by an answer that did not come, or
\* by a status that was read too early.
CredentialsKept ==
  /\ ~Seen({"apiLost", "crash", "k8s", "gc", "retype"})
  /\ ~Seen({"rename"}) \/ ~Seen({"lag", "k8sLost"})
  => CredentialsUsable

Deployed == ~ns.spec.local /\ ns.spec.managed

\* Pangolin and the cluster hold what the spec says: the name, the newt Deployment
\* with its image, owner and online flag, and, as long as no edit changed them, the
\* type of a site that was created for this object, and no Deployment where none is
\* asked for.
SiteApplied ==
  /\ \E s \in sites :
       /\ s.id = ns.st.sid /\ s.name = ns.spec.name
       /\ ~Seen({"retype"}) /\ s.for = ns.uid => s.local = ns.spec.local
  /\ Deployed => /\ dep.image = ns.spec.image /\ dep.uid = ns.uid
                 /\ ns.st.online = dep.pods
  /\ ~Seen({"retype"}) /\ ~Deployed => dep = NoDeployment

\* "ObservedGeneration reflects the last observed spec generation": from some time
\* on a Ready site is applied, after failures, restarts, deletions in Pangolin,
\* re-creations of the object, renames and edits of spec.newt, unless an edit races
\* with the reconciler or the object was read stale. Not so an edit of type or
\* managedDeployment: updateSite sends the name only, and nothing deletes a
\* Deployment; and an adopted site keeps the type it has.
SiteConverges ==
  [](~Seen({"race", "lag"})) => <>[](Settled => SiteApplied)

\* A deleted NewtSite goes away once Pangolin and the API server answer again.
SiteDeletionCompletes == ns.del ~> ~ns.exists

\* A live NewtSite becomes Ready, unless Pangolin refused it (HTTP 400): whatever
\* fails, is lost or deleted on the way, the key comes back.
SiteBecomesReady ==
  ns.exists ~> \/ Settled \/ ns.del \/ ~ns.exists
               \/ ns.st.cond.reason = "PermanentError"
=============================================================================
