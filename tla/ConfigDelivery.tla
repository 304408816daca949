--------------------------- MODULE ConfigDelivery ---------------------------
(***************************************************************************)
(* The two planes together: one controller (StreamHub) and one data plane  *)
(* (GrpcManager), joined by the Watch stream.  Either process may crash    *)
(* and start again: a controller comes back with an empty hub and a new    *)
(* certificate bundle, a data plane with nothing.                          *)
(***************************************************************************)
EXTENDS Naturals, Sequences

CONSTANTS
    MaxPublish, Streams,                \* of StreamHub
    MaxGen, MaxFaults,                  \* of GrpcManager
    NoStream                            \* no stream is open

ASSUME NoStreamIsNone == NoStream \notin Streams

VARIABLES
    \* StreamHub
    cons, chan, last, arg, chs, watch, held, gone, delivered, overrun,
    \* GrpcManager
    pub, srv, disk, rpc, inbox, faults, cancel, pem, permit, wpc, wfile,
    pc, lfile, conn, snap, table, sni, ready,
    \* the hub's id of the stream the data plane has open
    sid

Hub == INSTANCE StreamHub
Mgr == INSTANCE GrpcManager

hubVars == <<cons, chan, last, arg, chs, watch, held, gone, delivered, overrun>>
envVars == <<pub, srv, disk, faults>>
linkVars == <<rpc, inbox>>
managerVars == <<cancel, pem, permit, wpc, wfile, pc, lfile, conn, snap, table, sni, ready>>
vars == <<hubVars, envVars, linkVars, managerVars, sid>>

Init == Hub!Init /\ Mgr!Init /\ sid = NoStream

----------------------------------------------------------------------------
(* Steps of the controller *)

\* Reconcile finds a changed configuration and broadcasts it.
Reconcile ==
    /\ pub < MaxPublish
    /\ Hub!Broadcast(pub + 1)
    /\ pub' = pub + 1
    /\ UNCHANGED <<srv, disk, faults, linkVars, managerVars, sid>>

Offer(id) == Hub!Offer(id) /\ UNCHANGED <<envVars, linkVars, managerVars, sid>>

\* The server runs Watch for the call the data plane has made.
Watch(id) ==
    /\ rpc = "called"
    /\ sid = NoStream
    /\ Hub!Watch(id)
    /\ sid' = id
    /\ UNCHANGED <<envVars, linkVars, managerVars>>

\* What is sent on the open stream reaches the data plane; what is sent on one
\* it has left is lost.
SendOk(id) ==
    /\ Hub!SendOk(id)
    /\ IF id = sid THEN Mgr!ServerSend(held[id]) ELSE UNCHANGED linkVars
    /\ UNCHANGED <<envVars, managerVars, sid>>

HandlerInternal(id) ==
    /\ Hub!SendErr(id) \/ Hub!Receive(id) \/ Hub!CtxDone(id) \/ Hub!Return(id)
    /\ UNCHANGED <<envVars, linkVars, managerVars, sid>>

\* The server learns that the data plane has left the stream.
Disconnect(id) ==
    /\ id # sid
    /\ Hub!Disconnect(id)
    /\ UNCHANGED <<envVars, linkVars, managerVars, sid>>

\* Crash and restart: NewStreamHub, and a new bundle in NewServer.  (The bound
\* leaves the new process a snapshot to publish.)
ControllerRestart ==
    /\ pub < MaxPublish
    /\ Mgr!ControllerRestart
    /\ sid' = NoStream
    /\ cons' = {}
    /\ chan' = [id \in Streams |-> Hub!NoSnap]
    /\ last' = Hub!NoSnap
    /\ arg' = Hub!NoSnap
    /\ chs' = {}
    /\ watch' = [id \in Streams |-> "idle"]
    /\ held' = [id \in Streams |-> Hub!NoSnap]
    /\ gone' = {}
    /\ delivered' = [id \in Streams |-> Hub!NoSnap]
    /\ overrun' = {}

----------------------------------------------------------------------------
(* Steps of the data plane *)

\* The gRPC loop; when it drops its stream, no stream is open.
LoopStep ==
    /\ Mgr!LoopStep
    /\ sid' = IF rpc' = "none" THEN NoStream ELSE sid
    /\ UNCHANGED hubVars

WatcherStep == Mgr!WatcherStep /\ UNCHANGED <<hubVars, sid>>

MountSecret == Mgr!MountSecret /\ UNCHANGED <<hubVars, sid>>

ConnectionLost == Mgr!ConnectionLost /\ sid' = NoStream /\ UNCHANGED hubVars

\* Crash and restart: GrpcManager::start with nothing in memory.
DataPlaneRestart ==
    /\ Mgr!Fault
    /\ Mgr!DropStream
    /\ sid' = NoStream
    /\ pem' = [f \in Mgr!Files |-> 0]
    /\ permit' = [n \in Mgr!Notifies |-> FALSE]
    /\ wpc' = "sleep"
    /\ wfile' = "ca"
    /\ pc' = "top"
    /\ lfile' = "ca"
    /\ conn' = [f \in Mgr!Files |-> 0]
    /\ snap' = 0
    /\ table' = 0
    /\ sni' = 0
    /\ ready' = FALSE
    /\ UNCHANGED <<hubVars, pub, srv, disk, cancel>>

----------------------------------------------------------------------------

Next ==
    \/ Reconcile
    \/ \E id \in Streams :
        Offer(id) \/ Watch(id) \/ SendOk(id) \/ HandlerInternal(id) \/ Disconnect(id)
    \/ ControllerRestart
    \/ LoopStep
    \/ WatcherStep
    \/ MountSecret
    \/ ConnectionLost
    \/ DataPlaneRestart

Spec == Init /\ [][Next]_vars

\* Both processes run; the server accepts calls, its Sends return, its keepalive
\* finds streams that were left, a started controller reconciles, and the
\* Secret reaches the node.
Fairness ==
    /\ WF_vars(LoopStep)
    /\ WF_vars(WatcherStep)
    /\ WF_vars(MountSecret)
    /\ WF_vars(last = Hub!NoSnap /\ Reconcile)
    /\ WF_vars(\E id \in Streams : Offer(id))
    /\ WF_vars(\E id \in Streams : Watch(id))
    /\ \A id \in Streams : WF_vars(SendOk(id) \/ HandlerInternal(id)) /\ WF_vars(Disconnect(id))

FairSpec == Spec /\ Fairness

----------------------------------------------------------------------------

\* The data plane's routes are a register that only moves forward, through
\* dropped streams, replays after a reconnect and restarts of the controller.
Register == INSTANCE ConfigRegister WITH published <- pub, installed <- table

RefinesRegister == Register!Spec

\* End to end: while the stream is open and has not been overrun, the current
\* snapshot is installed or somewhere on its way: in the channel, in the hands
\* of the Watch handler, or received and not yet read.
OnItsWay ==
    sid # NoStream /\ sid \notin chs \union overrun =>
        \/ last \in {chan[sid], held[sid], snap}
        \/ \E i \in 1 .. Len(inbox) : inbox[i] = last

\* The data plane always gets to the current snapshot again, after a crash of
\* either side, a lost connection or a certificate rotation, unless its stream
\* was overrun.
ConvergesUnlessOverrun == []<>(table = pub \/ sid \in overrun)

============================================================================
