----------------------------- MODULE Reconciler -----------------------------
(***************************************************************************)
(* The control plane's ingress controller: ArgonConfigReconciler           *)
(* (internal/controller/ingress_controller.go, utils.go) turning cluster   *)
(* objects into the snapshot it broadcasts, below controller-runtime's     *)
(* informers and work queue.                                               *)
(*                                                                         *)
(* Every Ingress has one rule with one path to one Service, by port        *)
(* number, and one TLS Secret.  Objects are their revisions, 0 for one     *)
(* that does not exist.  Revision v of the Service names its ports so that *)
(* only EndpointSlices made from revision v have ports of these names; it  *)
(* always has the port number of the rule.                                 *)
(***************************************************************************)
EXTENDS Naturals

CONSTANTS
    Ingresses,
    Addrs,       \* addresses of the Service's pods
    SliceKey,    \* the work queue's key for the EndpointSlice
    MaxRev,      \* bound on the revisions of an object
    MaxChanges,  \* bound on the changes made to the cluster
    MaxErrors    \* bound on List calls that fail

ASSUME ReconcilerConstants ==
    /\ SliceKey \notin Ingresses
    /\ MaxRev \in Nat \ {0} /\ MaxChanges \in Nat /\ MaxErrors \in Nat

Revs == 0 .. MaxRev
Slices == [rev : 1 .. MaxRev, ready : SUBSET Addrs]
Keys == Ingresses \union {SliceKey}

\* What a TargetProxy says: the Ingress and its revision, the index of the
\* chosen port in the slice, the ready addresses and the TLS bundle, if any.
Targets == [ing : Ingresses, spec : 1 .. MaxRev, port : {1, 2}, addrs : SUBSET Addrs, cert : Revs]

VARIABLES
    apiIng, apiSlice, apiSvc, apiSecret,  \* external: the API server's objects
    ing, slice, svc, secret,              \* external: the informers' stores
    changes,      \* changes of the API server's objects so far
    events,       \* external: objects whose handler has still to be called
    queue,        \* external: the work queue
    errors,       \* failed List calls so far
    pc,           \* control point of Reconcile
    listed,       \* ingList
    todo,         \* the Ingresses of ingList that parseEndpoints has not come to
    cur,          \* the one it is at
    cert,         \* bundle
    got,          \* slicesList
    targets,      \* targetProxies
    lastVersion,  \* the field lastVersion, as far as == can tell: see Finish
    published,    \* the targets of the snapshot broadcast last
    saw           \* history: saw[i] is what the last pass read for Ingress i

apiVars == <<apiIng, apiSlice, apiSvc, apiSecret, changes>>
storeVars == <<ing, slice, svc, secret>>
passVars == <<pc, listed, todo, cur, cert, got, targets, saw>>
outVars == <<lastVersion, published>>
vars == <<apiIng, apiSlice, apiSvc, apiSecret, changes, ing, slice, svc, secret, events, queue,
          errors, pc, listed, todo, cur, cert, got, targets, saw, lastVersion, published>>

\* Every variable of the controller keeps its type.
TypeOK ==
    /\ apiIng \in [Ingresses -> Revs] /\ ing \in [Ingresses -> Revs]
    /\ apiSlice \in Slices /\ slice \in Slices /\ got \in Slices
    /\ {apiSvc, apiSecret, svc, secret, cert} \subseteq Revs
    /\ changes \in 0 .. MaxChanges /\ errors \in 0 .. MaxErrors
    /\ events \in SUBSET Keys /\ queue \in SUBSET Keys
    /\ pc \in {"idle", "loop", "slices", "port"}
    /\ listed \in [Ingresses -> Revs]
    /\ todo \in SUBSET Ingresses
    /\ cur \in Ingresses
    /\ targets \in SUBSET Targets /\ published \in SUBSET Targets
    /\ lastVersion \in {"none", "empty", "routes"}
    /\ saw \in [Ingresses -> [ok : BOOLEAN, svc : Revs, cert : Revs]]

\* The caches are synchronized before the worker starts; every object in them
\* makes an event.  The slices may still be those of the Service's revision 1.
Init ==
    /\ apiIng \in [Ingresses -> {0, 1}] /\ ing = apiIng
    /\ apiSlice = [rev |-> 1, ready |-> Addrs] /\ slice = apiSlice /\ got = apiSlice
    /\ apiSvc \in 1 .. MaxRev /\ svc = apiSvc
    /\ apiSecret = 1 /\ secret = 1 /\ cert = 0
    /\ changes = 0 /\ errors = 0
    /\ events = {i \in Ingresses : ing[i] # 0} \union {SliceKey}
    /\ queue = {}
    /\ pc = "idle"
    /\ listed = [i \in Ingresses |-> 0]
    /\ todo = {}
    /\ cur \in Ingresses
    /\ targets = {} /\ published = {}
    /\ lastVersion = "none"
    /\ saw = [i \in Ingresses |-> [ok |-> FALSE, svc |-> 0, cert |-> 0]]

----------------------------------------------------------------------------
(* The cluster *)

Change == changes < MaxChanges /\ changes' = changes + 1

\* An object is created, edited or deleted.  EndpointSlices are remade from the
\* Service as it is then.
ClusterChange ==
    /\ Change
    /\ \/ /\ \E i \in Ingresses, v \in Revs : apiIng' = [apiIng EXCEPT ![i] = v]
          /\ UNCHANGED <<apiSlice, apiSvc, apiSecret>>
       \/ /\ \E ready \in SUBSET Addrs :
                apiSlice' = [rev |-> IF apiSvc = 0 THEN apiSlice.rev ELSE apiSvc, ready |-> ready]
          /\ UNCHANGED <<apiIng, apiSvc, apiSecret>>
       \/ apiSvc' \in Revs /\ UNCHANGED <<apiIng, apiSlice, apiSecret>>
       \/ apiSecret' \in Revs /\ UNCHANGED <<apiIng, apiSlice, apiSvc>>
    /\ UNCHANGED <<storeVars, events, queue, errors, passVars, outVars>>

----------------------------------------------------------------------------
(* Informers and work queue *)

\* The Ingress informer stores a change and has an event to deliver.
SyncIngress(i) ==
    /\ ing[i] # apiIng[i]
    /\ ing' = [ing EXCEPT ![i] = apiIng[i]]
    /\ events' = events \union {i}
    /\ UNCHANGED <<apiVars, slice, svc, secret, queue, errors, passVars, outVars>>

\* Mutated SetupWithManager: it watches Ingresses only.
SyncSliceUnwatched ==
    /\ slice # apiSlice
    /\ slice' = apiSlice
    /\ UNCHANGED <<apiVars, ing, svc, secret, events, queue, errors, passVars, outVars>>

\* So has the EndpointSlice informer: SetupWithManager watches them ...
SyncSlice ==
    /\ slice # apiSlice
    /\ slice' = apiSlice
    /\ events' = events \union {SliceKey}
    /\ UNCHANGED <<apiVars, ing, svc, secret, queue, errors, passVars, outVars>>

\* ... and watches neither Services nor Secrets, which are only read.
SyncUnwatched ==
    /\ \/ svc # apiSvc /\ svc' = apiSvc /\ UNCHANGED secret
       \/ secret # apiSecret /\ secret' = apiSecret /\ UNCHANGED svc
    /\ UNCHANGED <<apiVars, ing, slice, events, queue, errors, passVars, outVars>>

\* The event handler adds the key; a key that is queued already is added once.
Enqueue(k) ==
    /\ k \in events
    /\ events' = events \ {k}
    /\ queue' = queue \union {k}
    /\ UNCHANGED <<apiVars, storeVars, errors, passVars, outVars>>

\* The informer's periodic resync makes an event for every Ingress; those for
\* EndpointSlices are filtered by ResourceVersionChangedPredicate.
Resync ==
    /\ events' = events \union {i \in Ingresses : ing[i] # 0}
    /\ UNCHANGED <<apiVars, storeVars, queue, errors, passVars, outVars>>

----------------------------------------------------------------------------
(* Reconcile, run by one worker at a time *)

Error == errors < MaxErrors /\ errors' = errors + 1

\* The worker takes a key, and Reconcile, which ignores it, lists the Ingresses.
List(k) ==
    /\ pc = "idle"
    /\ k \in queue
    /\ queue' = queue \ {k}
    /\ listed' = ing
    /\ todo' = {i \in Ingresses : ing[i] # 0}
    /\ targets' = {}
    /\ pc' = "loop"
    /\ UNCHANGED <<apiVars, storeVars, events, errors, cur, cert, got, saw, outVars>>

\* The List fails and Reconcile returns the error: the key is queued again.
ListErr(k) ==
    /\ pc = "idle"
    /\ k \in queue
    /\ Error
    /\ UNCHANGED <<apiVars, storeVars, events, queue, passVars, outVars>>

\* parseEndpoints comes to the next Ingress; buildTLSBundle gets its Secret and
\* makes a zero bundle if there is none.
BuildTLSBundle(i) ==
    /\ pc = "loop"
    /\ i \in todo
    /\ todo' = todo \ {i}
    /\ cur' = i
    /\ cert' = secret
    /\ pc' = "slices"
    /\ UNCHANGED <<apiVars, storeVars, events, queue, errors, listed, got, targets, saw, outVars>>

\* buildTargetFromRule lists the Service's EndpointSlices.
ListSlices ==
    /\ pc = "slices"
    /\ got' = slice
    /\ pc' = "port"
    /\ UNCHANGED <<apiVars, storeVars, events, queue, errors, listed, todo, cur, cert, targets, saw, outVars>>

\* That fails: the path is left out of the snapshot and the error is dropped.
ListSlicesErr ==
    /\ pc = "slices"
    /\ Error
    /\ saw' = [saw EXCEPT ![cur] = [ok |-> FALSE, svc |-> 0, cert |-> cert]]
    /\ pc' = "loop"
    /\ UNCHANGED <<apiVars, storeVars, events, queue, listed, todo, cur, cert, got, targets, outVars>>

\* resolveServicePortName and matchSlicePortByName: without the Service the name
\* is "", which any first port matches; else the port must have the name.  0 is
\* for no port.
MatchedPort(sl, sv) == IF sv = 0 THEN 1 ELSE IF sv = sl.rev THEN 2 ELSE 0

\* The target made of what was read; none without a port or a ready address.
TargetOf(i, spec, sl, sv, c) ==
    IF spec = 0 \/ MatchedPort(sl, sv) = 0 \/ sl.ready = {} THEN {}
    ELSE {[ing |-> i, spec |-> spec, port |-> MatchedPort(sl, sv), addrs |-> sl.ready, cert |-> c]}

\* Mutated buildTargetFromRule: no check that a port was chosen.
ResolvePortUnchecked ==
    /\ pc = "port"
    /\ targets' = targets \union
          {[ing |-> cur, spec |-> listed[cur], port |-> MatchedPort(got, svc), addrs |-> got.ready,
            cert |-> cert]}
    /\ saw' = [saw EXCEPT ![cur] = [ok |-> TRUE, svc |-> svc, cert |-> cert]]
    /\ pc' = "loop"
    /\ UNCHANGED <<apiVars, storeVars, events, queue, errors, listed, todo, cur, cert, got, outVars>>

\* It gets the Service, picks the port and makes the target.
ResolvePort ==
    /\ pc = "port"
    /\ targets' = targets \union TargetOf(cur, listed[cur], got, svc, cert)
    /\ saw' = [saw EXCEPT ![cur] = [ok |-> TRUE, svc |-> svc, cert |-> cert]]
    /\ pc' = "loop"
    /\ UNCHANGED <<apiVars, storeVars, events, queue, errors, listed, todo, cur, cert, got, outVars>>

\* Version hashes the routes as %+v prints them, with the address PathType points
\* to.  It points into this pass's copy of the Ingress, and currentSnapshot still
\* refers to that of the last one: versions are equal only if neither snapshot
\* has routes.
VersionOf(ts) == IF ts = {} THEN "empty" ELSE "routes"
SameVersion == lastVersion = "empty" /\ targets = {}

\* Mutated Reconcile: only the first snapshot is broadcast.
FinishOnce ==
    /\ pc = "loop"
    /\ todo = {}
    /\ pc' = "idle"
    /\ IF lastVersion = "routes"
       THEN UNCHANGED outVars
       ELSE /\ lastVersion' = VersionOf(targets)
            /\ published' = targets
    /\ UNCHANGED <<apiVars, storeVars, events, queue, errors, listed, todo, cur, cert, got, targets, saw>>

\* ToSnapshot, and the end of Reconcile: broadcast unless the version is the same.
Finish ==
    /\ pc = "loop"
    /\ todo = {}
    /\ pc' = "idle"
    /\ IF SameVersion
       THEN UNCHANGED outVars
       ELSE /\ lastVersion' = VersionOf(targets)
            /\ published' = targets
    /\ UNCHANGED <<apiVars, storeVars, events, queue, errors, listed, todo, cur, cert, got, targets, saw>>

ReconcileStep ==
    \/ \E k \in Keys : List(k)
    \/ \E i \in Ingresses : BuildTLSBundle(i)
    \/ ListSlices \/ ListSlicesErr \/ ResolvePort \/ Finish

Next ==
    \/ ClusterChange
    \/ \E i \in Ingresses : SyncIngress(i)
    \/ SyncSlice \/ SyncUnwatched
    \/ \E k \in Keys : Enqueue(k)
    \/ Resync
    \/ \E k \in Keys : List(k) \/ ListErr(k)
    \/ \E i \in Ingresses : BuildTLSBundle(i)
    \/ ListSlices \/ ListSlicesErr \/ ResolvePort \/ Finish

Spec == Init /\ [][Next]_vars

\* Informers keep up, handlers are called, the queue serves every key it holds,
\* Reconcile runs, and resyncs come round.
Fairness ==
    /\ \A i \in Ingresses : WF_vars(SyncIngress(i))
    /\ WF_vars(SyncSlice) /\ WF_vars(SyncUnwatched)
    /\ \A k \in Keys : WF_vars(Enqueue(k))
    /\ WF_vars(Resync)
    /\ WF_vars(ReconcileStep)

FairSpec == Spec /\ Fairness

----------------------------------------------------------------------------

\* The controller has nothing left to do.
Quiet == pc = "idle" /\ queue = {} /\ events = {}

\* No change of an Ingress or an EndpointSlice is lost, whenever it comes: once
\* the controller is quiet, what it published is what one pass over the objects
\* in its caches makes of them, with the Service and the Secret as that pass read
\* them.  A path whose EndpointSlices could not be listed stays out.
NoLostEvent ==
    Quiet => published =
        UNION {TargetOf(i, ing[i], slice, saw[i].svc, saw[i].cert) : i \in {j \in Ingresses : saw[j].ok}}

\* Whatever was missed, stale or swallowed, the controller gets to publishing the
\* cluster as it is (after a resync, in the worst case).
EventuallyCurrent ==
    []<>(published = UNION {TargetOf(i, apiIng[i], apiSlice, apiSvc, apiSecret) : i \in Ingresses})

============================================================================
