-------------------------- MODULE ReconcilerProofs --------------------------
(***************************************************************************)
(* No change of an Ingress or an EndpointSlice is lost to the controller,  *)
(* for any number of Ingresses, addresses and changes: whenever it comes   *)
(* in a pass of Reconcile, there is an event or a key left for another.    *)
(***************************************************************************)
EXTENDS Reconciler, TLAPS

\* An event has not been handled, or a key has not been taken.
Pending == events \union queue # {}

\* parseEndpoints is at Ingress cur.
Working == pc \in {"slices", "port"}

\* The Ingresses the pass is through with.
Done == {i \in Ingresses : i \notin todo /\ ~(Working /\ i = cur)}

\* What the pass has made, or should have, of the Ingresses in D.
Made(D) ==
    UNION {TargetOf(i, listed[i], slice, saw[i].svc, saw[i].cert) : i \in {j \in D : saw[j].ok}}

\* Unless there is a key or an event for another pass, this one works on what the
\* stores hold: its list, its EndpointSlices and the targets made so far.
PassInv ==
    ~Pending =>
        /\ listed = ing
        /\ pc = "port" => got = slice
        /\ pc # "idle" => targets = Made(Done)
        /\ pc = "idle" => published = Made(Ingresses)

\* The Ingress at hand is off the list; the version tells whether there are routes.
LocalInv ==
    /\ Working => cur \notin todo
    /\ lastVersion = "empty" => published = {}

ReconcilerInv == TypeOK /\ PassInv /\ LocalInv

----------------------------------------------------------------------------
(* Types *)

\* A target has a revision, a port of the slice and some addresses.
LEMMA TargetTyped ==
    ASSUME NEW i \in Ingresses, NEW spec \in Revs, NEW sl \in Slices, NEW sv \in Revs, NEW c \in Revs
    PROVE  TargetOf(i, spec, sl, sv, c) \subseteq Targets
  <1>1. CASE spec = 0 \/ MatchedPort(sl, sv) = 0 \/ sl.ready = {}
    BY <1>1 DEF TargetOf
  <1>2. CASE ~(spec = 0 \/ MatchedPort(sl, sv) = 0 \/ sl.ready = {})
    <2>1. spec \in 1 .. MaxRev
      BY <1>2, ReconcilerConstants DEF Revs
    <2>2. MatchedPort(sl, sv) \in {1, 2}
      BY <1>2 DEF MatchedPort
    <2>3. sl.ready \in SUBSET Addrs
      BY DEF Slices
    <2> QED
      BY <1>2, <2>1, <2>2, <2>3 DEF TargetOf, Targets
  <1> QED
    BY <1>1, <1>2

\* The caches start with what the API server has.
LEMMA InitTyped == Init => TypeOK
  BY ReconcilerConstants DEF Init, TypeOK, Revs, Slices, Keys

\* The cluster and the informers keep the types.
LEMMA ClusterTyped ==
    ASSUME TypeOK,
           \/ ClusterChange \/ SyncSlice \/ SyncUnwatched \/ Resync
           \/ \E i \in Ingresses : SyncIngress(i)
           \/ \E k \in Keys : Enqueue(k)
    PROVE  TypeOK'
  <1> USE ReconcilerConstants DEF TypeOK, apiVars, storeVars, passVars, outVars
  <1>1. CASE ClusterChange
    <2>1. changes' \in 0 .. MaxChanges
      BY <1>1 DEF ClusterChange, Change
    <2>2. apiIng' \in [Ingresses -> Revs] /\ {apiSvc', apiSecret'} \subseteq Revs
      BY <1>1 DEF ClusterChange
    <2>3. apiSlice' \in Slices
      BY <1>1 DEF ClusterChange, Slices, Revs
    <2> QED
      BY <1>1, <2>1, <2>2, <2>3 DEF ClusterChange
  <1>2. CASE SyncSlice \/ SyncUnwatched \/ Resync
    BY <1>2 DEF SyncSlice, SyncUnwatched, Resync, Keys
  <1>3. ASSUME NEW i \in Ingresses, SyncIngress(i) PROVE TypeOK'
    BY <1>3 DEF SyncIngress, Keys
  <1>4. ASSUME NEW k \in Keys, Enqueue(k) PROVE TypeOK'
    BY <1>4 DEF Enqueue
  <1> QED
    BY <1>1, <1>2, <1>3, <1>4

\* So does a pass of Reconcile.
LEMMA PassTyped ==
    ASSUME TypeOK,
           \/ \E k \in Keys : List(k) \/ ListErr(k)
           \/ \E i \in Ingresses : BuildTLSBundle(i)
           \/ ListSlices \/ ListSlicesErr \/ ResolvePort \/ Finish
    PROVE  TypeOK'
  <1> USE ReconcilerConstants DEF TypeOK, apiVars, storeVars, passVars, outVars
  <1>1. ASSUME NEW k \in Keys, List(k) \/ ListErr(k) PROVE TypeOK'
    BY <1>1 DEF List, ListErr, Error
  <1>2. ASSUME NEW i \in Ingresses, BuildTLSBundle(i) PROVE TypeOK'
    BY <1>2 DEF BuildTLSBundle
  <1>3. CASE ListSlices
    BY <1>3 DEF ListSlices
  <1>4. CASE ListSlicesErr
    <2>1. saw' \in [Ingresses -> [ok : BOOLEAN, svc : Revs, cert : Revs]]
      BY <1>4 DEF ListSlicesErr, Revs
    <2> QED
      BY <1>4, <2>1 DEF ListSlicesErr, Error
  <1>5. CASE ResolvePort
    <2>1. targets' \subseteq Targets
      BY <1>5, TargetTyped DEF ResolvePort
    <2> QED
      BY <1>5, <2>1 DEF ResolvePort
  <1>6. CASE Finish
    BY <1>6 DEF Finish, VersionOf
  <1> QED
    BY <1>1, <1>2, <1>3, <1>4, <1>5, <1>6

----------------------------------------------------------------------------
(* Passes *)

\* An Ingress that is not there makes no target.
LEMMA NothingOfNothing ==
    ASSUME NEW D \in SUBSET Ingresses, \A i \in D : listed[i] = 0
    PROVE  Made(D) = {}
  BY DEF Made, TargetOf

\* One more Ingress adds its target, if its EndpointSlices were listed.
LEMMA MadeOfOneMore ==
    ASSUME NEW D \in SUBSET Ingresses, NEW c \in Ingresses
    PROVE  Made(D \union {c}) =
             Made(D) \union (IF saw[c].ok THEN TargetOf(c, listed[c], slice, saw[c].svc, saw[c].cert) ELSE {})
  BY DEF Made

\* All is handed out when there is nothing on the list.
LEMMA AllDone == ASSUME pc = "loop", todo = {} PROVE Done = Ingresses
  BY DEF Done, Working

\* An informer that sees a change leaves an event; a handler turns it into a key.
LEMMA EventKeeps ==
    ASSUME TypeOK, PassInv, LocalInv,
           \/ ClusterChange \/ SyncSlice \/ SyncUnwatched \/ Resync
           \/ \E i \in Ingresses : SyncIngress(i)
           \/ \E k \in Keys : Enqueue(k)
    PROVE  PassInv' /\ LocalInv'
  <1>1. UNCHANGED <<queue, passVars, outVars>> \/ \E k \in Keys : Enqueue(k)
    BY DEF ClusterChange, SyncSlice, SyncUnwatched, Resync, SyncIngress
  <1>2. UNCHANGED <<passVars, outVars>>
    BY <1>1 DEF Enqueue
  <1>3. LocalInv'
    BY <1>2 DEF LocalInv, Working, passVars, outVars
  <1>4. Pending' \/ (UNCHANGED <<ing, slice>> /\ (Pending => Pending'))
    BY DEF Pending, ClusterChange, SyncSlice, SyncUnwatched, Resync, SyncIngress, Enqueue, storeVars
  <1>5. UNCHANGED slice => \A D : UNCHANGED Made(D)
    BY <1>2 DEF Made, passVars
  <1>6. UNCHANGED Done
    BY <1>2 DEF Done, Working, passVars
  <1>7. PassInv'
    BY <1>2, <1>4, <1>5, <1>6 DEF PassInv, passVars, outVars
  <1> QED
    BY <1>3, <1>7

\* A pass begins with the list as it is, and with nothing made.
LEMMA ListKeeps ==
    ASSUME TypeOK, PassInv, LocalInv, NEW k \in Keys, List(k) \/ ListErr(k)
    PROVE  PassInv' /\ LocalInv'
  <1>1. CASE List(k)
    <2>1. /\ listed' = ing /\ targets' = {} /\ pc' = "loop"
          /\ todo' = {i \in Ingresses : ing[i] # 0}
          /\ UNCHANGED <<ing, slice, saw, lastVersion, published>>
      BY <1>1 DEF List, storeVars, outVars
    <2>2. Done' = {i \in Ingresses : listed'[i] = 0}
      BY <2>1 DEF Done, Working
    <2>3. Made(Done)' = {}
      BY <2>2 DEF Made, TargetOf
    <2> QED
      BY <2>1, <2>3 DEF PassInv, LocalInv, Working
  <1>2. CASE ListErr(k)
    BY <1>2 DEF ListErr, PassInv, LocalInv, Working, Pending, Done, Made, storeVars, passVars, outVars
  <1> QED
    BY <1>1, <1>2

\* The next Ingress is off the list and not done yet; its EndpointSlices are the
\* store's.
LEMMA StepKeeps ==
    ASSUME TypeOK, PassInv, LocalInv, ListSlices \/ \E i \in Ingresses : BuildTLSBundle(i)
    PROVE  PassInv' /\ LocalInv'
  <1>1. /\ UNCHANGED <<ing, slice, events, queue, listed, targets, saw, lastVersion, published>>
        /\ pc # "idle" /\ pc' # "idle"
        /\ pc' = "port" => got' = slice
    BY DEF ListSlices, BuildTLSBundle, storeVars, outVars
  <1>2. Done' = Done /\ (Working' => cur' \notin todo')
    BY DEF ListSlices, BuildTLSBundle, Done, Working, LocalInv, TypeOK
  <1>3. Made(Done)' = Made(Done)
    BY <1>1, <1>2 DEF Made
  <1> QED
    BY <1>1, <1>2, <1>3 DEF PassInv, LocalInv, Pending

\* The Ingress at hand is done: its target is in, or what was read of it is noted as
\* missing.
LEMMA IngressDoneKeeps ==
    ASSUME TypeOK, PassInv, LocalInv, ListSlicesErr \/ ResolvePort
    PROVE  PassInv' /\ LocalInv'
  <1>1. /\ UNCHANGED <<ing, slice, events, queue, listed, todo, cur, lastVersion, published>>
        /\ Working /\ pc' = "loop"
        /\ \A i \in Ingresses \ {cur} : saw'[i] = saw[i]
    BY DEF ListSlicesErr, ResolvePort, storeVars, outVars, Working, TypeOK
  <1>2. cur \in Ingresses /\ Done' = Done \union {cur} /\ cur \notin Done /\ Done \subseteq Ingresses
    BY <1>1 DEF Done, Working, LocalInv, TypeOK
  <1>3. /\ \A i \in Done' \ {cur} : saw'[i] = saw[i]
        /\ Done = Done' \ {cur}
    BY <1>1, <1>2
  <1>4. Made(Done)' = Made(Done) \union
           (IF saw'[cur].ok THEN TargetOf(cur, listed[cur], slice, saw'[cur].svc, saw'[cur].cert) ELSE {})
    BY <1>1, <1>2, <1>3 DEF Made
  <1>5. CASE ListSlicesErr
    <2>1. saw'[cur].ok = FALSE /\ targets' = targets
      BY <1>2, <1>5 DEF ListSlicesErr, TypeOK
    <2> QED
      BY <1>1, <1>4, <2>1 DEF PassInv, LocalInv, Pending, Working
  <1>6. CASE ResolvePort
    <2>1. /\ saw'[cur].ok = TRUE /\ saw'[cur].svc = svc /\ saw'[cur].cert = cert /\ pc = "port"
          /\ targets' = targets \union TargetOf(cur, listed[cur], got, svc, cert)
      BY <1>2, <1>6 DEF ResolvePort, TypeOK
    <2> QED
      BY <1>1, <1>4, <2>1 DEF PassInv, LocalInv, Pending, Working
  <1> QED
    BY <1>5, <1>6

\* The pass ends with its targets published, or with none where none were published.
LEMMA FinishKeeps ==
    ASSUME TypeOK, PassInv, LocalInv, Finish
    PROVE  PassInv' /\ LocalInv'
  <1>1. /\ UNCHANGED <<ing, slice, events, queue, listed, todo, saw>>
        /\ pc = "loop" /\ todo = {} /\ pc' = "idle"
    BY DEF Finish, storeVars
  <1>2. published' = targets /\ (lastVersion' = "empty" => targets = {})
    BY DEF Finish, SameVersion, VersionOf, LocalInv, outVars
  <1>3. Made(Ingresses)' = Made(Ingresses)
    BY <1>1 DEF Made
  <1> QED
    BY <1>1, <1>2, <1>3, AllDone DEF PassInv, LocalInv, Pending, Working

----------------------------------------------------------------------------

\* At the start every object makes an event.
LEMMA InitPass == Init => ReconcilerInv
  <1> SUFFICES ASSUME Init PROVE ReconcilerInv
    OBVIOUS
  <1>1. Pending
    BY DEF Init, Pending
  <1>2. LocalInv
    BY DEF Init, LocalInv, Working
  <1> QED
    BY <1>1, <1>2, InitTyped DEF ReconcilerInv, PassInv

\* Every step keeps the invariant.
LEMMA NextPass == ReconcilerInv /\ [Next]_vars => ReconcilerInv'
  <1> SUFFICES ASSUME TypeOK, PassInv, LocalInv, [Next]_vars PROVE ReconcilerInv'
    BY DEF ReconcilerInv
  <1>1. CASE \/ ClusterChange \/ SyncSlice \/ SyncUnwatched \/ Resync
             \/ \E i \in Ingresses : SyncIngress(i)
             \/ \E k \in Keys : Enqueue(k)
    BY <1>1, ClusterTyped, EventKeeps DEF ReconcilerInv
  <1>2. CASE \/ \E k \in Keys : List(k) \/ ListErr(k)
             \/ \E i \in Ingresses : BuildTLSBundle(i)
             \/ ListSlices \/ ListSlicesErr \/ ResolvePort \/ Finish
    BY <1>2, PassTyped, ListKeeps, StepKeeps, IngressDoneKeeps, FinishKeeps DEF ReconcilerInv
  <1>3. CASE UNCHANGED vars
    <2>1. TypeOK'
      BY <1>3 DEF vars, TypeOK
    <2>2. PassInv' /\ LocalInv'
      BY <1>3 DEF vars, PassInv, LocalInv, Pending, Working, Done, Made
    <2> QED
      BY <2>1, <2>2 DEF ReconcilerInv
  <1> QED
    BY <1>1, <1>2, <1>3 DEF Next

\* Every variable of the controller keeps its type.
THEOREM ReconcilerTypeCorrect == Spec => []TypeOK
  <1>1. ReconcilerInv => TypeOK
    BY DEF ReconcilerInv
  <1> QED
    BY <1>1, InitPass, NextPass, PTL DEF Spec

\* Whenever a change of an Ingress or an EndpointSlice comes, before, in or after a pass
\* of Reconcile, what is published once the controller is quiet accounts for it.
THEOREM NoEventIsLost == Spec => []NoLostEvent
  <1>1. ReconcilerInv => NoLostEvent
    BY DEF ReconcilerInv, PassInv, NoLostEvent, Quiet, Pending, Made
  <1> QED
    BY <1>1, InitPass, NextPass, PTL DEF Spec

=============================================================================
