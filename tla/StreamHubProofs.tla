-------------------------- MODULE StreamHubProofs --------------------------
(***************************************************************************)
(* The safety properties of StreamHub hold for any number of snapshots and *)
(* any number of streams.                                                  *)
(***************************************************************************)
EXTENDS StreamHub, TLAPS

\* Along one stream snapshots only get newer: what was sent is older than what
\* the handler holds, which is older than what waits in the channel, and
\* nothing is newer than the hub's current snapshot.
Ordered(id) ==
    /\ delivered[id] <= last
    /\ held[id] # NoSnap => delivered[id] < held[id] /\ held[id] <= last
    /\ chan[id] # NoSnap =>
        delivered[id] < chan[id] /\ held[id] < chan[id] /\ chan[id] <= last

\* While Broadcast has yet to offer its argument to a stream, that argument is
\* the current snapshot and newer than all the stream has seen.
Pending(id) ==
    id \in chs =>
        arg = last /\ delivered[id] < arg /\ held[id] < arg /\ chan[id] < arg

\* An id without a handler has left no trace.
Idle(id) ==
    watch[id] = "idle" =>
        id \notin cons /\ held[id] = NoSnap /\ delivered[id] = NoSnap

\* A handler holds a snapshot exactly while it sends.
Holding(id) == (watch[id] = "send") <=> (held[id] # NoSnap)

NotLost(id) ==
    id \in cons \ (chs \union overrun) /\ watch[id] \in {"send", "select"} =>
        last \in {chan[id], held[id], delivered[id]}

StreamInv(id) ==
    Ordered(id) /\ Pending(id) /\ Idle(id) /\ Holding(id) /\ NotLost(id)

\* The inductive invariant.
HubInv == TypeOK /\ \A id \in Streams : StreamInv(id)

----------------------------------------------------------------------------

\* The hub NewStreamHub returns has the invariant.
LEMMA InitInv == Init => HubInv
  BY PublishBound
     DEF Init, HubInv, StreamInv, TypeOK, Ordered, Pending, Idle, Holding, NotLost,
         Snapshots, MaybeSnap, NoSnap, WatchStates

\* Every step keeps every variable's type.
LEMMA StepType == TypeOK /\ [Next]_vars => TypeOK'
  <1> SUFFICES ASSUME TypeOK, [Next]_vars PROVE TypeOK'
    OBVIOUS
  <1> USE PublishBound DEF TypeOK, MaybeSnap, Snapshots, NoSnap, WatchStates, hubVars, watchVars
  <1>1. CASE Reconcile
    BY <1>1 DEF Reconcile, Broadcast
  <1>2. ASSUME NEW id \in Streams, Watch(id) PROVE TypeOK'
    BY <1>2 DEF Watch, Add, Fresh
  <1>3. ASSUME NEW id \in Streams, Offer(id) PROVE TypeOK'
    BY <1>3 DEF Offer
  <1>4. ASSUME NEW id \in Streams, HandlerStep(id) \/ Disconnect(id) PROVE TypeOK'
    BY <1>4 DEF HandlerStep, SendOk, SendErr, Receive, CtxDone, Return, Remove, Disconnect
  <1>5. CASE UNCHANGED vars
    BY <1>5 DEF vars
  <1> QED
    BY <1>1, <1>2, <1>3, <1>4, <1>5 DEF Next, HandlerStep

\* Every step keeps the invariant of each stream j: one case per action.
LEMMA StepInv == HubInv /\ [Next]_vars => HubInv'
  <1> SUFFICES ASSUME HubInv, [Next]_vars PROVE HubInv'
    OBVIOUS
  <1>t. TypeOK /\ TypeOK'
    BY StepType DEF HubInv
  <1> SUFFICES ASSUME NEW j \in Streams
               PROVE StreamInv(j)'
    BY <1>t DEF HubInv
  <1> USE PublishBound, <1>t
      DEF TypeOK, HubInv, StreamInv, Ordered, Pending, Idle, Holding, NotLost,
          MaybeSnap, Snapshots, NoSnap, hubVars, watchVars
  <1>1. CASE Reconcile
    BY <1>1 DEF Reconcile, Broadcast
  <1>2. ASSUME NEW id \in Streams, Watch(id)
        PROVE StreamInv(j)'
    BY <1>2 DEF Watch, Add, Fresh
  <1>3. ASSUME NEW id \in Streams, Offer(id)
        PROVE StreamInv(j)'
    BY <1>3 DEF Offer
  <1>4. ASSUME NEW id \in Streams, SendOk(id)
        PROVE StreamInv(j)'
    BY <1>4 DEF SendOk
  <1>5. ASSUME NEW id \in Streams, SendErr(id)
        PROVE StreamInv(j)'
    BY <1>5 DEF SendErr
  <1>6. ASSUME NEW id \in Streams, Receive(id)
        PROVE StreamInv(j)'
    BY <1>6 DEF Receive
  <1>7. ASSUME NEW id \in Streams, CtxDone(id) \/ Return(id) \/ Disconnect(id)
        PROVE StreamInv(j)'
    BY <1>7 DEF CtxDone, Return, Remove, Disconnect
  <1>8. CASE UNCHANGED vars
    BY <1>8 DEF vars
  <1> QED
    BY <1>1, <1>2, <1>3, <1>4, <1>5, <1>6, <1>7, <1>8 DEF Next

----------------------------------------------------------------------------

\* HubInv holds in every reachable state of the hub.
THEOREM HubInvariant == Spec => []HubInv
  BY InitInv, StepInv, PTL DEF Spec

\* Type correctness of hub.go's and Watch's state.
THEOREM TypeCorrect == Spec => []TypeOK
  <1>1. HubInv => TypeOK
    BY DEF HubInv
  <1> QED
    BY <1>1, HubInvariant, PTL

\* No stream is sent a snapshot twice, or an older one after a newer one
\* (Watch's replay and the channel fed by Broadcast).
THEOREM SendsAreFresh == Spec => []FreshSend
  <1>1. HubInv => FreshSend
    BY DEF HubInv, StreamInv, Ordered, FreshSend
  <1> QED
    BY <1>1, HubInvariant, PTL

\* The default case of Broadcast's select is the only way a live stream can
\* lose the current snapshot.
THEOREM OnlyOverrunsLose == Spec => []LossOnlyByOverrun
  <1>1. HubInv => LossOnlyByOverrun
    BY DEF HubInv, StreamInv, TypeOK, NotLost, LossOnlyByOverrun
  <1> QED
    BY <1>1, HubInvariant, PTL

============================================================================
