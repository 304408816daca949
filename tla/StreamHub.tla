----------------------------- MODULE StreamHub -----------------------------
(***************************************************************************)
(* The control plane's snapshot fan-out: StreamHub (internal/grpc/hub.go)  *)
(* and the Watch handler that serves one gRPC stream per data plane        *)
(* (internal/grpc/server.go).                                              *)
(*                                                                         *)
(* A snapshot is the number of the Broadcast that published it; the zero   *)
(* snapshot, whose Version is "", is NoSnap.  The ids StreamHub.Add gives  *)
(* out from its counter next only have to differ among the streams that    *)
(* are still in use, so the id of a finished stream may serve again: any   *)
(* number of Watch calls is covered, and the size of Streams bounds how    *)
(* many are open at a time.                                                *)
(***************************************************************************)
EXTENDS Naturals

CONSTANTS
    MaxPublish,   \* bound on the number of snapshots broadcast
    Streams       \* the ids of streams

ASSUME PublishBound == MaxPublish \in Nat

NoSnap == 0
Snapshots == 1 .. MaxPublish
MaybeSnap == Snapshots \union {NoSnap}

VARIABLES
    cons,       \* the keys of StreamHub.cons
    chan,       \* chan[id]: content of the capacity-1 channel of stream id
    last,       \* StreamHub.last
    arg,        \* Broadcast's argument s
    chs,        \* Broadcast's copied channels that it has not offered s to yet
    watch,      \* watch[id]: control point of the Watch handler
    held,       \* held[id]: the snapshot the handler is about to Send
    gone,       \* streams whose context is done (the client went away)
    delivered,  \* history: delivered[id] is the last snapshot sent on the stream
    overrun     \* history: streams whose latest offer met a full channel

hubVars == <<cons, chan, last, arg, chs>>
watchVars == <<watch, held, gone, delivered>>
vars == <<cons, chan, last, arg, chs, watch, held, gone, delivered, overrun>>

WatchStates == {"idle", "send", "select", "return"}

\* Every variable of hub.go and of the Watch handlers keeps its type, and a handler
\* in Send has a snapshot to send, never the zero one.
TypeOK ==
    /\ cons \in SUBSET Streams
    /\ chan \in [Streams -> MaybeSnap]
    /\ last \in MaybeSnap
    /\ arg \in MaybeSnap
    /\ chs \in SUBSET Streams
    /\ watch \in [Streams -> WatchStates]
    /\ held \in [Streams -> MaybeSnap]
    /\ gone \in SUBSET Streams
    /\ delivered \in [Streams -> MaybeSnap]
    /\ overrun \in SUBSET Streams
    /\ \A id \in Streams : watch[id] = "send" => held[id] # NoSnap

\* NewStreamHub
Init ==
    /\ cons = {}
    /\ chan = [id \in Streams |-> NoSnap]
    /\ last = NoSnap
    /\ arg = NoSnap
    /\ chs = {}
    /\ watch = [id \in Streams |-> "idle"]
    /\ held = [id \in Streams |-> NoSnap]
    /\ gone = {}
    /\ delivered = [id \in Streams |-> NoSnap]
    /\ overrun = {}

----------------------------------------------------------------------------
(* The hub *)

\* No handler and no Broadcast in progress refers to the id.
Fresh(id) == watch[id] = "idle" /\ id \notin chs

\* Mutated Add: the current snapshot is queued for the new stream as well.
AddAndQueue(id) ==
    /\ Fresh(id)
    /\ cons' = cons \union {id}
    /\ chan' = [chan EXCEPT ![id] = last]
    /\ UNCHANGED <<last, arg, chs>>

\* The critical section of Add: a new, empty channel is registered.
Add(id) ==
    /\ Fresh(id)
    /\ cons' = cons \union {id}
    /\ chan' = [chan EXCEPT ![id] = NoSnap]
    /\ UNCHANGED <<last, arg, chs>>

\* Mutated Remove: the entry stays in the map.
RemoveNothing(id) == UNCHANGED hubVars

\* The critical section of Remove.
Remove(id) ==
    /\ cons' = cons \ {id}
    /\ UNCHANGED <<chan, last, arg, chs>>

\* The critical section of Broadcast(s).  Its only caller is Reconcile, which
\* controller-runtime runs one at a time: the previous Broadcast has returned.
Broadcast(s) ==
    /\ chs = {}
    /\ last' = s
    /\ arg' = s
    /\ chs' = cons
    /\ UNCHANGED <<cons, chan, watchVars, overrun>>

\* Mutated Offer: no default case, so the send waits for room.
OfferBlocking(id) ==
    /\ id \in chs
    /\ chan[id] = NoSnap
    /\ chan' = [chan EXCEPT ![id] = arg]
    /\ overrun' = overrun \ {id}
    /\ chs' = chs \ {id}
    /\ UNCHANGED <<cons, last, arg, watchVars>>

\* One iteration of Broadcast's loop, outside the lock and in map order, i.e.
\* any order: the non-blocking send either fills the channel or, when it is
\* full, drops s.
Offer(id) ==
    /\ id \in chs
    /\ \/ /\ chan[id] = NoSnap
          /\ chan' = [chan EXCEPT ![id] = arg]
          /\ overrun' = overrun \ {id}
       \/ /\ chan[id] # NoSnap
          /\ overrun' = overrun \union {id}
          /\ UNCHANGED chan
    /\ chs' = chs \ {id}
    /\ UNCHANGED <<cons, last, arg, watchVars>>

----------------------------------------------------------------------------
(* The Watch handler of stream id *)

\* Mutated Watch: the current snapshot is not replayed to a new stream.
WatchNoReplay(id) ==
    /\ Add(id)
    /\ watch' = [watch EXCEPT ![id] = "select"]
    /\ UNCHANGED <<held, gone, delivered, overrun>>

\* Mutated Watch: no test whether there is a current snapshot.
WatchUntested(id) ==
    /\ Add(id)
    /\ held' = [held EXCEPT ![id] = last]
    /\ watch' = [watch EXCEPT ![id] = "send"]
    /\ UNCHANGED <<gone, delivered, overrun>>

\* Watch calls Add, which also returns the current snapshot, and goes on to Send
\* it if there is one.
Watch(id) ==
    /\ Add(id)
    /\ held' = [held EXCEPT ![id] = last]
    /\ watch' = [watch EXCEPT ![id] = IF last # NoSnap THEN "send" ELSE "select"]
    /\ UNCHANGED <<gone, delivered, overrun>>

\* stream.Send returns nil.
SendOk(id) ==
    /\ watch[id] = "send"
    /\ delivered' = [delivered EXCEPT ![id] = held[id]]
    /\ held' = [held EXCEPT ![id] = NoSnap]
    /\ watch' = [watch EXCEPT ![id] = "select"]
    /\ UNCHANGED <<hubVars, gone, overrun>>

\* stream.Send returns an error, and so does Watch.
SendErr(id) ==
    /\ watch[id] = "send"
    /\ id \in gone
    /\ held' = [held EXCEPT ![id] = NoSnap]
    /\ watch' = [watch EXCEPT ![id] = "return"]
    /\ UNCHANGED <<hubVars, gone, delivered, overrun>>

\* case s := <-ch
Receive(id) ==
    /\ watch[id] = "select"
    /\ chan[id] # NoSnap
    /\ held' = [held EXCEPT ![id] = chan[id]]
    /\ chan' = [chan EXCEPT ![id] = NoSnap]
    /\ watch' = [watch EXCEPT ![id] = "send"]
    /\ UNCHANGED <<cons, last, arg, chs, gone, delivered, overrun>>

\* case <-ctx.Done()
CtxDone(id) ==
    /\ watch[id] = "select"
    /\ id \in gone
    /\ watch' = [watch EXCEPT ![id] = "return"]
    /\ UNCHANGED <<hubVars, held, gone, delivered, overrun>>

\* defer s.Hub.Remove(id).  The history of the stream ends with it.
Return(id) ==
    /\ watch[id] = "return"
    /\ Remove(id)
    /\ watch' = [watch EXCEPT ![id] = "idle"]
    /\ gone' = gone \ {id}
    /\ delivered' = [delivered EXCEPT ![id] = NoSnap]
    /\ overrun' = overrun \ {id}
    /\ UNCHANGED held

\* Environment: the client of a live stream disconnects, or the server's
\* keepalive (30s + 10s) finds that it is dead.
Disconnect(id) ==
    /\ watch[id] \in {"send", "select"}
    /\ id \notin gone
    /\ gone' = gone \union {id}
    /\ UNCHANGED <<hubVars, watch, held, delivered, overrun>>

----------------------------------------------------------------------------

\* Reconcile broadcasts a snapshot that differs from the one before.
Reconcile == last < MaxPublish /\ Broadcast(last + 1)

HandlerStep(id) ==
    SendOk(id) \/ SendErr(id) \/ Receive(id) \/ CtxDone(id) \/ Return(id)

Next ==
    \/ Reconcile
    \/ \E id \in Streams :
        \/ Offer(id)
        \/ Watch(id)
        \/ SendOk(id)
        \/ SendErr(id)
        \/ Receive(id)
        \/ CtxDone(id)
        \/ Return(id)
        \/ Disconnect(id)

\* Broadcast's loop never waits, so the goroutine running it gets through it.
BroadcastFairness == WF_vars(\E id \in Streams : Offer(id))

\* A handler goroutine takes its next step; Send returns because the client
\* reads its stream or is found to be gone.
HandlerFairness == \A id \in Streams : WF_vars(HandlerStep(id))

Spec == Init /\ [][Next]_vars

\* No handler need ever move: every client may stall.
StalledSpec == Spec /\ BroadcastFairness

FairSpec == Spec /\ BroadcastFairness /\ HandlerFairness

----------------------------------------------------------------------------
(* Safety *)

\* What a handler is about to Send is newer than everything it sent before:
\* the replay in Watch and the channel filled by a concurrent Broadcast never
\* give a stream the same snapshot twice or an older one after a newer one.
FreshSend ==
    \A id \in Streams : held[id] # NoSnap => delivered[id] < held[id]

\* A snapshot can be lost to a live stream in one way only, the default case
\* of Broadcast's select.  Without it, once Broadcast is done with the stream,
\* the current snapshot is in its channel, in the hands of its handler, or
\* sent: no interleaving of Add and Broadcast lets a new stream miss it.
LossOnlyByOverrun ==
    \A id \in cons \ (chs \union overrun) :
        watch[id] \in {"send", "select"} =>
            last \in {chan[id], held[id], delivered[id]}

----------------------------------------------------------------------------
(* Liveness *)

\* Broadcast returns even if no data plane ever reads its stream: a stalled
\* client cannot hold up Reconcile.
BroadcastCompletes == (chs # {}) ~> (chs = {})

\* The hub forgets a stream whose client has gone, if its handler runs.
DisconnectedIsRemoved ==
    HandlerFairness => \A id \in Streams : (id \in gone) ~> (id \notin cons)

UpToDate(id) == delivered[id] = last

\* A live stream that was not overrun catches up with the current snapshot, if its
\* client reads.
CatchesUpUnlessOverrun ==
    HandlerFairness => \A id \in Streams :
        []<>(id \notin cons \/ id \in gone \/ id \in overrun \/ UpToDate(id))

\* Streaming updates, as the README promises it: every live stream catches up
\* with the current snapshot.
CatchesUp ==
    \A id \in Streams : []<>(id \notin cons \/ id \in gone \/ UpToDate(id))

============================================================================
