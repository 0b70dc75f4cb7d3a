---------------------------- MODULE Autodiscover ----------------------------
(***************************************************************************)
(* Autodiscovery (internal/autodiscover, internal/controller/newtsite):    *)
(* PublicResources made from HTTPRoutes, TCPRoutes and Services, by one    *)
(* worker per kind that follows the events, and by the NewtSite worker,    *)
(* which scans all sources of a site when the site is reconciled.          *)
(*                                                                         *)
(* The PublicResource reconciler is seen as what it does to an object that *)
(* is deleted: it holds it for a while (its finalizer) and lets it go.     *)
(*                                                                         *)
(* An operator marked "Mutant" is a wrong variant of the one that follows: *)
(* substituting it shows that a property can fail. Nothing else uses it.   *)
(***************************************************************************)
EXTENDS Naturals, FiniteSets

CONSTANTS
  Source,    \* routes and Services that can exist: [kind, ns, name]
  Site,      \* NewtSite names
  Host,      \* hostnames, and values of the full-domain annotation
  Slug,      \* what HostnameToResourceName makes of each: dots become dashes
  Port,      \* Service ports with their protocol; "http" is the one of that name
  Gateway,   \* Gateway names
  Contents,  \* what users write into each source
  Configs,   \* the autoDiscover specs users write for each site
  ByHand,    \* names under which a user may have made a PublicResource by hand
  Faults,    \* the kinds of failure that can happen
  MaxFaults, \* bound on the number of failures
  MaxEdits,  \* bound on the number of edits by users
  Together   \* the sets of sources that may exist at a time

NoSite == "no site"
None == "none"

Kind == {"httproute", "tcproute", "service"}
Stages == <<"httproute", "tcproute", "service">>
Scanner == "scan"
Worker == Kind \cup {Scanner}

\* The annotations of a source and the parts of its spec that count. users
\* (auth-whitelist-users) stands for the settings that an annotation takes over from
\* the site's default; ssl is one that the API server has a default for, too.
ContentType ==
  [out : BOOLEAN, ref : Site \cup {NoSite}, parents : SUBSET Gateway,
   hosts : SUBSET Host, backend : BOOLEAN, ports : SUBSET Port,
   port : Port \cup {None}, all : {"unset", "yes", "no"},
   users : {"unset", "yes", "no"}, ssl : {"unset", "yes", "no"}]

\* target: the hostname of the gateway's Service is given, or can be derived.
ConfigType ==
  [kinds : SUBSET Kind, gw : Gateway \cup {None}, target : BOOLEAN,
   all : BOOLEAN, users : BOOLEAN, ssl : BOOLEAN]

\* What can go wrong; and what the properties tell apart.
FaultKind ==
  {"k8s",     \* a call to the API server fails
   "crash",   \* the operator restarts
   "race",    \* a source changes while a worker is at what it read of it
   "hidden",  \* the event of a change is filtered out
   "config"}  \* a NewtSite is edited or deleted

ASSUME ConstantsAssumption ==
  /\ \A s \in Source : s.kind \in Kind
  /\ Site # {} /\ NoSite \notin Site /\ None \notin Gateway \cup Port
  /\ Contents \in [Source -> SUBSET ContentType]
  /\ Configs \in [Site -> SUBSET ConfigType]
  /\ \A t \in Site : Configs[t] # {}
  /\ \A s \in Source : s.kind = "service" =>
       \A c \in Contents[s] : Cardinality(c.hosts) <= 1
  /\ Faults \subseteq FaultKind
  /\ MaxFaults \in Nat /\ MaxEdits \in Nat /\ Together \subseteq SUBSET Source

VARIABLES
  src,     \* the sources that exist, with their contents
  cfg,     \* the NewtSites that exist, with their autoDiscover specs
  res,     \* the PublicResources that exist
  queue,   \* sources whose event waits for the worker of their kind
  w,       \* the workers
  faults,  \* how many failures there were, and what was seen of FaultKind
  edits    \* how many edits there were

vars == <<src, cfg, res, queue, w, faults, edits>>

-----------------------------------------------------------------------------
(* What is wanted of a source. *)

IsOptOut(c) == c.out

\* parentRefsMatch, of the gateway that the site names.
ReferencesGateway(c, f) == f.gw # None /\ f.gw \in c.parents

\* Whether site t, with the spec f, discovers source s with the content c.
Discovers(s, c, t, f) ==
  /\ s.kind \in f.kinds
  /\ c.ref = t \/ (s.kind # "service" /\ ReferencesGateway(c, f))

\* The annotation, or else the default of the site.
Setting(value, default) == IF value = "unset" THEN default ELSE value = "yes"

\* Mutant: the site of the gateway is not filled in.
siteRefOnly(c, t) == c.ref

siteRef(c, t) == IF c.ref # NoSite THEN c.ref ELSE t

HTTPSpec(ref, via, host, c, f) ==
  [site |-> ref, via |-> via, part |-> host, users |-> Setting(c.users, f.users),
   ssl |-> Setting(c.ssl, f.ssl)]
TCPSpec(ref, port) ==
  [site |-> ref, via |-> None, part |-> port, users |-> FALSE, ssl |-> FALSE]

HostnameToResourceName(name, host) == <<name, Slug[host]>>
ServiceResourceName(s, port) == <<s.ns, s.name, port>>

Item(s, t, name, spec) ==
  [src |-> s, key |-> <<s.ns, name>>, spec |-> spec,
   lab |-> [kind |-> s.kind, name |-> s.name, site |-> t]]

\* The target is the gateway of the site, or the first backend of the route; with
\* neither the hostname is skipped.
HTTPRouteItems(s, c, t, f) ==
  {Item(s, t, HostnameToResourceName(s.name, h),
        HTTPSpec(siteRef(c, t), f.gw, h, c, f)) :
     h \in {g \in c.hosts : IF f.gw # None THEN f.target ELSE c.backend}}

TCPRouteItems(s, c, t) ==
  {Item(s, t, <<s.name>>, TCPSpec(siteRef(c, t), "tcp")) : b \in {TRUE} \cap {c.backend}}

\* The port of the annotation; else the only one, or the one named http.
selectPort(c) ==
  IF c.port # None THEN c.ports \cap {c.port}
  ELSE IF Cardinality(c.ports) = 1 THEN c.ports ELSE c.ports \cap {"http"}

ServiceItems(s, c, t, f) ==
  IF c.ref = NoSite THEN {}
  ELSE IF c.hosts = {} /\ Setting(c.all, f.all)
  THEN {Item(s, t, ServiceResourceName(s, p), TCPSpec(c.ref, p)) : p \in c.ports}
  ELSE IF c.hosts = {}
  THEN {Item(s, t, ServiceResourceName(s, p), TCPSpec(c.ref, p)) : p \in selectPort(c)}
  ELSE {Item(s, t, HostnameToResourceName(s.name, h), HTTPSpec(c.ref, None, h, c, f)) :
          h \in {g \in c.hosts : selectPort(c) # {}}}

Items(s, c, t, f) ==
  CASE s.kind = "httproute" -> HTTPRouteItems(s, c, t, f)
    [] s.kind = "tcproute"  -> TCPRouteItems(s, c, t)
    [] s.kind = "service"   -> ServiceItems(s, c, t, f)

\* What the sources, as they are now, ask for.
Wanted ==
  UNION {UNION {Items(s, src[s], t, cfg[t]) :
                  s \in {r \in DOMAIN src :
                    ~IsOptOut(src[r]) /\ Discovers(r, src[r], t, cfg[t])}} :
           t \in DOMAIN cfg}

\* Every item that some content under some spec of some site can ask for.
AllItems ==
  UNION {UNION {Items(s, c, t, f) : c \in Contents[s], f \in Configs[t]} :
           s \in Source, t \in Site}
Key == {i.key : i \in AllItems}

-----------------------------------------------------------------------------
(* Objects and workers. *)

LabelType == [kind : Kind \cup {None}, name : {s.name : s \in Source} \cup {None},
              site : Site \cup {NoSite}]
ResourceType ==
  [del : BOOLEAN, lab : LabelType, owner : Site \cup {NoSite},
   spec : [site : Site \cup {NoSite}, via : Gateway \cup {None},
           part : Host \cup Port \cup {"tcp", None}, users : BOOLEAN, ssl : BOOLEAN]]

\* What a user writes by hand.
Manual ==
  [del |-> FALSE, lab |-> [kind |-> None, name |-> None, site |-> NoSite],
   owner |-> NoSite, spec |-> [site |-> NoSite, via |-> None, part |-> None,
                               users |-> FALSE, ssl |-> TRUE]]

PC == {"idle", "list", "delete", "ensure", "write"}

\* src: the source of the event; site and f: the NewtSite and its spec, as read when
\* the scan began; left: the kinds it has yet to scan; todo and keys: what is left
\* to ensure and to delete, keys also the one that is being written; seen: the object
\* that Get returned, if any; failed: whether an error was joined.
WorkerType ==
  [pc : PC, src : SUBSET Source, site : Site \cup {NoSite}, f : UNION {Configs[t] : t \in Site},
   left : SUBSET Kind, todo : SUBSET AllItems, keys : SUBSET Key,
   seen : SUBSET ResourceType, failed : BOOLEAN]

Idle ==
  [pc |-> "idle", src |-> {}, site |-> NoSite,
   f |-> CHOOSE f \in UNION {Configs[t] : t \in Site} : TRUE, left |-> {},
   todo |-> {}, keys |-> {}, seen |-> {}, failed |-> FALSE]

Fault(k) ==
  /\ k \in Faults
  /\ faults.n < MaxFaults
  /\ faults' = [n |-> faults.n + 1, seen |-> faults.seen \cup {k}]

Note(S) ==
  /\ S \subseteq Faults
  /\ faults' = [faults EXCEPT !.seen = @ \cup S]

Seen(S) == faults.seen \cap S # {}

Objects == UNCHANGED <<src, cfg, edits>>

-----------------------------------------------------------------------------
(* Events: ReconcileHTTPRoute, ReconcileTCPRoute, ReconcileService. *)

\* resolveSite: the first in a list whose order is that of a map.
resolveSite(s) == {t \in DOMAIN cfg : Discovers(s, src[s], t, cfg[t])}

Process(items) ==
  IF items = {} THEN Idle ELSE [Idle EXCEPT !.pc = "ensure", !.todo = items]

Reconcile(s) ==
  LET step(v) == w' = [w EXCEPT ![s.kind] = [v EXCEPT !.src = IF v = Idle THEN {} ELSE {s}]]
      remove == [Idle EXCEPT !.pc = "list"]
  IN  /\ w[s.kind].pc = "idle" /\ s \in queue
      /\ \/ /\ s \notin DOMAIN src
            /\ step(remove)
            /\ queue' = queue \ {s} /\ UNCHANGED faults
         \/ /\ s \in DOMAIN src
            /\ \/ resolveSite(s) = {} /\ UNCHANGED w
               \/ \E t \in resolveSite(s) :
                    step(IF IsOptOut(src[s]) THEN remove
                         ELSE Process(Items(s, src[s], t, cfg[t])))
            /\ queue' = queue \ {s} /\ UNCHANGED faults
         \/ Fault("k8s") /\ UNCHANGED <<w, queue>>
      /\ UNCHANGED res /\ Objects

\* Mutant: the error is not returned.
RetryDropped(k) == w' = [w EXCEPT ![k] = Idle] /\ UNCHANGED queue

\* An error ends the reconcile, and the event is retried.
Retry(k) == w' = [w EXCEPT ![k] = Idle] /\ queue' = queue \cup w[k].src

\* Mutant: the kind is not looked at.
OwnedByName(k, s) == {x \in DOMAIN res : res[x].lab.name = s.name}

\* The labels do not name the source's namespace, and the list is not limited to it.
Owned(k, s) == {x \in DOMAIN res : res[x].lab.kind = k /\ res[x].lab.name = s.name}

ListOwned(k) ==
  /\ w[k].pc = "list"
  /\ \/ /\ \E s \in w[k].src :
             w' = [w EXCEPT ![k] = IF Owned(k, s) = {} THEN Idle
                                   ELSE [@ EXCEPT !.pc = "delete", !.keys = Owned(k, s)]]
        /\ UNCHANGED <<queue, faults>>
     \/ Fault("k8s") /\ Retry(k)
  /\ UNCHANGED res /\ Objects

Without(f, x) == [y \in DOMAIN f \ {x} |-> f[y]]
With(f, x, v) == [y \in DOMAIN f \cup {x} |-> IF y = x THEN v ELSE f[y]]

\* The finalizer holds an object back, if the reconciler has set it yet.
Delete(x) ==
  \/ x \in DOMAIN res /\ ~res[x].del /\ res' = Without(res, x)
  \/ x \in DOMAIN res /\ res' = [res EXCEPT ![x].del = TRUE]
  \/ x \notin DOMAIN res /\ UNCHANGED res

deleteOwnedResources(k) ==
  /\ w[k].pc = "delete"
  /\ \/ /\ \E x \in w[k].keys :
             /\ Delete(x)
             /\ w' = [w EXCEPT ![k] = IF w[k].keys = {x} THEN Idle
                                      ELSE [w[k] EXCEPT !.keys = w[k].keys \ {x}]]
        /\ UNCHANGED <<queue, faults>>
     \/ /\ Fault("k8s") /\ Retry(k)
        /\ \/ UNCHANGED res
           \/ \E x \in w[k].keys : Delete(x)
  /\ Objects

-----------------------------------------------------------------------------
(* ensureOwnedPublicResource, for the items of an event or of a scan. *)

At(x) == IF x \in DOMAIN res THEN {res[x]} ELSE {}

\* Mutant: only the labels are compared.
UpToDateLabels(seen, i) == \E r \in seen : r.lab = i.lab

UpToDate(seen, i) == \E r \in seen : r.lab = i.lab /\ r.spec = i.spec

\* The worker is done with an item.
Step(k, item, v) == w' = [w EXCEPT ![k] = [v EXCEPT !.todo = @ \ {item}, !.seen = {},
                                                    !.keys = {}, !.pc = "ensure"]]

GetExisting(k) ==
  /\ w[k].pc = "ensure"
  /\ \E i \in w[k].todo :
       \/ /\ UpToDate(At(i.key), i)
          /\ Step(k, i, w[k])
          /\ UNCHANGED faults
       \/ /\ ~UpToDate(At(i.key), i)
          /\ w' = [w EXCEPT ![k] = [@ EXCEPT !.pc = "write", !.seen = At(i.key),
                                             !.keys = {i.key}]]
          /\ UNCHANGED faults
       \/ Fault("k8s") /\ Step(k, i, [w[k] EXCEPT !.failed = TRUE])
  /\ UNCHANGED <<res, queue>> /\ Objects

\* ssl=false is left out of the JSON, so the API server fills in its default, true.
Defaulted(spec) == [spec EXCEPT !.ssl = TRUE]

NewResource(i) ==
  [del |-> FALSE, lab |-> i.lab, spec |-> Defaulted(i.spec), owner |-> i.lab.site]

\* A JSON merge patch carries the fields that differ from what was read.
Sent(before, after, server) == IF after # before THEN after ELSE server

Merged(server, seen, i) ==
  LET spec == [x \in DOMAIN i.spec |-> Sent(seen.spec[x], i.spec[x], server.spec[x])]
  IN  [server EXCEPT
         !.lab  = [x \in DOMAIN @ |-> Sent(seen.lab[x], i.lab[x], @[x])],
         !.spec = IF i.spec.ssl = seen.spec.ssl THEN spec ELSE Defaulted(spec)]

\* Create, or Patch, which no resourceVersion guards.
Write(i, seen) ==
  \/ seen = {} /\ i.key \notin DOMAIN res /\ res' = With(res, i.key, NewResource(i))
  \/ /\ i.key \in DOMAIN res
     /\ \E r \in seen : res' = [res EXCEPT ![i.key] = Merged(@, r, i)]

\* HTTP 409 for an object that exists by now, HTTP 404 for one that has gone.
Refused(i, seen) == seen = {} <=> i.key \in DOMAIN res

ensureOwnedPublicResource(k) ==
  /\ w[k].pc = "write"
  /\ \E i \in w[k].todo :
       /\ i.key \in w[k].keys
       /\ \/ Write(i, w[k].seen) /\ Step(k, i, w[k]) /\ UNCHANGED faults
          \/ /\ Refused(i, w[k].seen)
             /\ Step(k, i, [w[k] EXCEPT !.failed = TRUE])
             /\ UNCHANGED <<res, faults>>
          \/ /\ Fault("k8s")
             /\ Step(k, i, [w[k] EXCEPT !.failed = TRUE])
             /\ Write(i, w[k].seen) \/ UNCHANGED res
  /\ UNCHANGED queue /\ Objects

\* All items were tried; the errors are joined.
EventDone(k) ==
  /\ k # Scanner /\ w[k].pc = "ensure" /\ w[k].todo = {}
  /\ IF w[k].failed THEN Retry(k) ELSE w' = [w EXCEPT ![k] = Idle] /\ UNCHANGED queue
  /\ UNCHANGED <<res, faults>> /\ Objects

-----------------------------------------------------------------------------
(* reconcileAutodiscover, at the end of a reconcile of a NewtSite. *)

StartScan(t) ==
  /\ w[Scanner].pc = "idle" /\ cfg[t].kinds # {}
  /\ w' = [w EXCEPT ![Scanner] = [Idle EXCEPT !.pc = "list", !.site = t, !.f = cfg[t],
                                              !.left = cfg[t].kinds]]
  /\ UNCHANGED <<res, queue, faults>> /\ Objects

Stage(left) == Stages[CHOOSE n \in 1..3 : Stages[n] \in left
                                          /\ \A m \in 1..3 : m < n => Stages[m] \notin left]

\* Mutant: opted-out sources are not skipped.
ScannedAll(k, t, f) ==
  UNION {Items(s, src[s], t, f) : s \in {r \in DOMAIN src :
    r.kind = k /\ Discovers(r, src[r], t, f)}}

\* The items of the sources of a kind, as the list shows them.
Scanned(k, t, f) ==
  UNION {Items(s, src[s], t, f) : s \in {r \in DOMAIN src :
    r.kind = k /\ ~IsOptOut(src[r]) /\ Discovers(r, src[r], t, f)}}

\* scanHTTPRoutes, scanTCPRoutes, scanServices, up to the calls they make.
ScanKind ==
  /\ w[Scanner].pc = "list"
  /\ \/ /\ w' = LET v == w[Scanner]
                    k == Stage(v.left)
                IN  [w EXCEPT ![Scanner].pc = "ensure", ![Scanner].left = @ \ {k},
                              ![Scanner].todo = Scanned(k, v.site, v.f)]
        /\ UNCHANGED faults
     \/ Fault("k8s") /\ w' = [w EXCEPT ![Scanner] = Idle]
  /\ UNCHANGED <<res, queue>> /\ Objects

\* An error of one kind ends the scan before the next.
KindDone ==
  /\ w[Scanner].pc = "ensure" /\ w[Scanner].todo = {}
  /\ w' = [w EXCEPT ![Scanner] =
             IF @.failed \/ @.left = {} THEN Idle ELSE [@ EXCEPT !.pc = "list"]]
  /\ UNCHANGED <<res, queue, faults>> /\ Objects

WorkerStep(k) ==
  \/ k # Scanner /\ (ListOwned(k) \/ deleteOwnedResources(k) \/ EventDone(k))
  \/ GetExisting(k) \/ ensureOwnedPublicResource(k)
  \/ k = Scanner /\ (ScanKind \/ KindDone)

-----------------------------------------------------------------------------
(* The rest of the system. *)

\* The predicates of SetupWithManager: parentRefs, or a site-ref annotation.
Visible(s, c) == IF s.kind = "service" THEN c.ref # NoSite ELSE c.parents # {}

Event(s, old, new) ==
  queue' = IF \E c \in old \cup new : Visible(s, c) THEN queue \cup {s} ELSE queue

\* Whether a worker is at what it read of s, or of a source with which s shares a
\* PublicResource, or at a deletion for its name.
Held(s) ==
  \/ \E k \in Worker : \E i \in w[k].todo : \E j \in AllItems : j.src = s /\ j.key = i.key
  \/ \E r \in w[s.kind].src : r.name = s.name /\ w[s.kind].pc \in {"list", "delete"}

Edit(s, new) ==
  LET old == IF s \in DOMAIN src THEN {src[s]} ELSE {}
  IN  /\ edits < MaxEdits /\ edits' = edits + 1
      /\ old # new
      /\ src' = IF new = {} THEN Without(src, s)
                ELSE With(src, s, CHOOSE c \in new : TRUE)
      /\ DOMAIN src' \in Together
      /\ Event(s, old, new)
      /\ Note((IF Held(s) THEN {"race"} ELSE {})
              \cup (IF \E c \in old \cup new : Visible(s, c) THEN {} ELSE {"hidden"}))
      /\ UNCHANGED <<cfg, res, w>>

\* The NewtSite worker does not finalize a site while it scans it. The garbage
\* collector and the user change the rest at any time.
SiteEdit(t, f) ==
  /\ edits < MaxEdits /\ edits' = edits + 1
  /\ cfg[t] # f /\ cfg' = [cfg EXCEPT ![t] = f]
  /\ Note({"config"})
  /\ UNCHANGED <<src, res, queue, w>>

SiteDelete(t) ==
  /\ edits < MaxEdits /\ edits' = edits + 1
  /\ w[Scanner].site # t
  /\ cfg' = Without(cfg, t)
  /\ Note({"config"})
  /\ UNCHANGED <<src, res, queue, w>>

Collect(x) ==
  /\ ~res[x].del /\ res[x].owner \notin DOMAIN cfg \cup {NoSite}
  /\ Delete(x)
  /\ UNCHANGED <<queue, w, faults>> /\ Objects

\* The PublicResource reconciler removes its finalizer.
Finalized(x) ==
  /\ res[x].del
  /\ res' = Without(res, x)
  /\ UNCHANGED <<queue, w, faults>> /\ Objects

\* A restart shows every source that exists as created.
Crash ==
  /\ Fault("crash")
  /\ w' = [k \in Worker |-> Idle]
  /\ queue' = {s \in DOMAIN src : Visible(s, src[s])}
  /\ UNCHANGED res /\ Objects

Cluster == \E x \in DOMAIN res : Collect(x) \/ Finalized(x)

Environment ==
  \/ \E s \in Source : \/ \E c \in Contents[s] : Edit(s, {c})
                       \/ s \in DOMAIN src /\ Edit(s, {})
  \/ \E t \in DOMAIN cfg : SiteDelete(t) \/ \E f \in Configs[t] : SiteEdit(t, f)
  \/ Crash

Init ==
  /\ src \in UNION {{f \in [S -> UNION {Contents[s] : s \in S}] :
                       \A s \in S : f[s] \in Contents[s]} :
                  S \in Together}
  /\ cfg \in {f \in [Site -> UNION {Configs[t] : t \in Site}] :
                \A t \in Site : f[t] \in Configs[t]}
  /\ res \in {[x \in S |-> Manual] : S \in SUBSET (ByHand \cap {i.key : i \in Wanted})}
  /\ queue = {s \in DOMAIN src : Visible(s, src[s])}
  /\ w = [k \in Worker |-> Idle]
  /\ faults = [n |-> 0, seen |-> {}]
  /\ edits = 0

Next ==
  \/ \E s \in Source : Reconcile(s)
  \/ \E k \in Worker : WorkerStep(k)
  \/ \E t \in DOMAIN cfg : StartScan(t)
  \/ Cluster
  \/ Environment

Spec == Init /\ [][Next]_vars

\* Every call returns within its timeout, a worker whose queue is not empty takes
\* from it, a NewtSite with autoDiscover is reconciled every five minutes, the garbage
\* collector runs, and the PublicResource reconciler completes deletions.
Fairness ==
  /\ \A k \in Kind : WF_vars(WorkerStep(k) \/ \E s \in queue : s.kind = k /\ Reconcile(s))
  /\ WF_vars(WorkerStep(Scanner))
  /\ \A t \in Site : SF_vars(t \in DOMAIN cfg /\ StartScan(t))
  /\ WF_vars(Cluster)

FairSpec == Spec /\ Fairness

-----------------------------------------------------------------------------
(* Properties. *)

\* Every variable keeps its type; in particular every PublicResource that discovery
\* wrote names a NewtSite, whether by annotation or by gateway.
TypeOK ==
  /\ DOMAIN src \subseteq Source /\ \A s \in DOMAIN src : src[s] \in Contents[s]
  /\ DOMAIN cfg \subseteq Site /\ \A t \in DOMAIN cfg : cfg[t] \in Configs[t]
  /\ DOMAIN res \subseteq Key
  /\ \A x \in DOMAIN res : /\ res[x] \in ResourceType
                           /\ res[x].lab.kind = None \/ res[x].spec.site # NoSite
  /\ queue \subseteq Source
  /\ w \in [Worker -> WorkerType]
  /\ faults \in [n : Nat, seen : SUBSET FaultKind]
  /\ edits \in Nat

\* Nothing else asks for the same PublicResource: no other source whose name makes
\* the same resource name, and no second site that discovers the source.
Alone(i) == \A j \in Wanted : j.key = i.key => j = i

\* r is as i asks for, as far as the API server lets it be: ssl=false is never kept.
Written(r, i) == r.lab = i.lab /\ r.spec = Defaulted(i.spec)

Present(i) == i.key \in DOMAIN res /\ ~res[i.key].del /\ Written(res[i.key], i)

\* deleteOwnedResources is at the resources of a kind and name, in all namespaces,
\* which sources that may have asked for this one have: one of them the kind, and the
\* same or another the name, since a patch sends the labels one by one.
NamesakeRemoved(i) ==
  \E k \in Kind : w[k].pc = "delete" /\ \E s \in w[k].src :
    \E j1, j2 \in AllItems : /\ j1.key = i.key /\ j1.lab.kind = k
                            /\ j2.key = i.key /\ j2.lab.name = s.name

\* A PublicResource is only written for a source that asks for it, with what it asks
\* for, by whichever worker and after whatever it read, as long as the source did
\* not change meanwhile: never for an opted-out source or one of another site, and
\* not as a mixture of what a worker read and what another, or a user, wrote.
OnlyWanted ==
  [][~Seen({"race", "config"})' =>
       \A x \in DOMAIN res' :
         x \notin DOMAIN res \/ <<res[x].lab, res[x].spec>> # <<res'[x].lab, res'[x].spec>>
         => \E i \in Wanted : i.key = x /\ (Written(res'[x], i) \/ ~Alone(i))]_vars

\* A PublicResource that is as its source wants it stays so, whatever the workers do
\* for other sources, through failures and restarts, unless a route or Service of
\* the same kind and name, in any namespace, is being removed, or one whose name
\* makes the same resource name.
Steady ==
  [][~Seen({"race", "config"}) =>
       \A i \in Wanted : i \in Wanted' /\ Alone(i) /\ Present(i) /\ ~NamesakeRemoved(i)
                         => Present(i)']_vars

\* "The operator processes every HTTPRoute hostname as a separate PublicResource":
\* once the edits stop, every source has its PublicResources, as it wants them, for
\* good, also where the event was filtered, lost or overtaken, a namesake was
\* removed, the site was edited or the name was taken: the scan makes up for it.
Discovered == <>[](\A i \in Wanted : Alone(i) => Present(i))

\* A PublicResource of s exists: by its labels, in the namespace of s.
Exposed(s) ==
  \E x \in DOMAIN res : x[1] = s.ns /\ res[x].lab.kind = s.kind /\ res[x].lab.name = s.name

\* s was deleted, or opted out while a site discovers it.
Removed(s) == s \in DOMAIN src => IsOptOut(src[s]) /\ resolveSite(s) # {}

\* Once the edits stop, the PublicResources of the sources that were deleted or opted
\* out are gone for good, whatever the API server answers first, unless the event was
\* not seen or a worker was at the source: nothing but the event removes them.
Withdrawn ==
  <>[](\/ Seen({"race", "hidden", "crash", "config"})
       \/ \A s \in Source : Removed(s) => ~Exposed(s))

\* An HTTPRoute that is annotated with a site of route discovery, and opts out.
OptedOut(s) ==
  /\ s \in DOMAIN src /\ s.kind = "httproute" /\ IsOptOut(src[s])
  /\ \E t \in DOMAIN cfg : src[s].ref = t /\ s.kind \in cfg[t].kinds

\* AutoDiscoverSpec.GatewayName, "When empty, all HTTPRoutes carrying the site-ref
\* annotation are processed", and README, "Opt out": such a route ends without a
\* PublicResource.
OptOutHonoured ==
  \A s \in Source : OptedOut(s) ~> ~OptedOut(s) \/ ~Exposed(s)
=============================================================================
