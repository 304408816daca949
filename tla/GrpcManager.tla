---------------------------- MODULE GrpcManager ----------------------------
(***************************************************************************)
(* The data plane's side of configuration streaming: GrpcManager           *)
(* (images/dataplane/src/grpc.rs).  Two tasks share memory: the gRPC loop  *)
(* connects to the controller, opens the Watch stream and installs the     *)
(* snapshots it receives; the certs watcher polls the mounted Secret and   *)
(* notifies the loop when a PEM file changed.                              *)
(*                                                                         *)
(* A snapshot is its publication number, 0 the empty default.  The PEM     *)
(* bytes are the generation of the bundle they come from, 0 when empty.    *)
(* Delays are abstracted: a sleep ends, a timeout fires.                   *)
(***************************************************************************)
EXTENDS Naturals, Sequences

CONSTANTS
    MaxPublish,  \* bound on the number of snapshots the controller publishes
    MaxGen,      \* bound on the number of certificate bundles (controller starts)
    MaxFaults    \* bound on connection failures that are not credential errors

ASSUME ManagerBounds == MaxPublish \in Nat /\ MaxGen \in Nat \ {0} /\ MaxFaults \in Nat

Snapshots == 0 .. MaxPublish
Gens == 0 .. MaxGen
Files == {"ca", "crt", "key"}
Notifies == {"ca", "client"}

\* ca_updated is notified for ca.crt, client_pem_updated for tls.crt and tls.key.
NotifyOf(f) == IF f = "ca" THEN "ca" ELSE "client"
FileAfter(f) == CASE f = "ca" -> "crt" [] f = "crt" -> "key" [] f = "key" -> "ca"

VARIABLES
    pub,      \* external: the controller's latest snapshot
    srv,      \* external: generation of the bundle the controller serves with
    disk,     \* external: generation of the files kubelet has mounted
    rpc,      \* external: the transport's view of the Watch call
    inbox,    \* external: snapshots received on the stream and not yet read
    faults,   \* failures so far, at most MaxFaults
    cancel,   \* the CancellationToken
    pem,      \* pem[f]: ca_pem, client_pem, client_key_pem
    permit,   \* permit[n]: the stored permit of the Notify n
    wpc,      \* control point of the certs watcher
    wfile,    \* the file the certs watcher is at
    pc,       \* control point of the gRPC loop
    lfile,    \* the PEM connect_fut loads next
    conn,     \* conn[f]: the bytes the current connection was made with
    snap,     \* the shared snapshot
    table,    \* the snapshot route_table was built from
    sni,      \* the snapshot the SNI certificates were built from
    ready     \* what /readyz answers

envVars == <<pub, srv, disk, faults>>
linkVars == <<rpc, inbox>>
watcherVars == <<pem, wpc, wfile>>
loopVars == <<pc, lfile, conn, snap, table, sni, ready>>
vars == <<pub, srv, disk, rpc, inbox, faults, cancel, pem, permit, wpc, wfile,
          pc, lfile, conn, snap, table, sni, ready>>

Applying == {"apply_table", "apply_sni"}
Streaming == {"stream"} \union Applying
LoopStates == {"top", "load", "connect", "watch", "backoff", "done"} \union Streaming

\* Every variable of the manager keeps its type, and nothing can be read of a
\* stream that was dropped.
TypeOK ==
    /\ pub \in Snapshots
    /\ srv \in Gens
    /\ disk \in Gens
    /\ rpc \in {"none", "called", "up", "closed"}
    /\ inbox \in Seq(Snapshots)
    /\ faults \in 0 .. MaxFaults
    /\ cancel \in BOOLEAN
    /\ pem \in [Files -> Gens]
    /\ permit \in [Notifies -> BOOLEAN]
    /\ wpc \in {"sleep", "load", "notify", "done"}
    /\ wfile \in Files
    /\ pc \in LoopStates
    /\ lfile \in Files
    /\ conn \in [Files -> Gens]
    /\ snap \in Snapshots
    /\ table \in Snapshots
    /\ sni \in Snapshots
    /\ ready \in BOOLEAN
    /\ rpc = "none" => inbox = <<>>

\* GrpcManager::start beside a controller that has just started; the chart
\* creates the Secret with empty files.
Init ==
    /\ pub = 0
    /\ srv = 1
    /\ disk = 0
    /\ rpc = "none"
    /\ inbox = <<>>
    /\ faults = 0
    /\ cancel = FALSE
    /\ pem = [f \in Files |-> 0]
    /\ permit = [n \in Notifies |-> FALSE]
    /\ wpc = "sleep"
    /\ wfile = "ca"
    /\ pc = "top"
    /\ lfile = "ca"
    /\ conn = [f \in Files |-> 0]
    /\ snap = 0
    /\ table = 0
    /\ sni = 0
    /\ ready = FALSE

----------------------------------------------------------------------------
(* The certs watcher *)

\* Two seconds have passed: the files are read again, ca.crt first.
WatcherTick ==
    /\ wpc = "sleep"
    /\ wpc' = "load"
    /\ wfile' = "ca"
    /\ UNCHANGED <<envVars, linkVars, cancel, pem, permit, loopVars>>

\* The cancelled() arm.
WatcherCancelled ==
    /\ wpc = "sleep"
    /\ cancel
    /\ wpc' = "done"
    /\ UNCHANGED <<envVars, linkVars, cancel, pem, permit, wfile, loopVars>>

NextFile ==
    /\ wpc' = IF wfile = "key" THEN "sleep" ELSE "load"
    /\ wfile' = FileAfter(wfile)

\* try_load_and_store finds new, non-empty bytes.
FileChanged == disk # 0 /\ disk # pem[wfile]

\* A failure that is nobody's fault here.
Fault == faults < MaxFaults /\ faults' = faults + 1

\* Mutated try_load_and_store: new bytes are stored, Ok(false) is returned.
TryLoadAndStoreSilently ==
    /\ wpc = "load"
    /\ pem' = [pem EXCEPT ![wfile] = IF FileChanged THEN disk ELSE @]
    /\ NextFile
    /\ UNCHANGED <<envVars, linkVars, cancel, permit, loopVars>>

\* Mutated try_load_and_store: Ok(true) for every non-empty file.
TryLoadAndStoreAlways ==
    /\ wpc = "load"
    /\ \/ /\ disk # 0
          /\ pem' = [pem EXCEPT ![wfile] = disk]
          /\ wpc' = "notify"
          /\ UNCHANGED wfile
       \/ /\ disk = 0
          /\ NextFile
          /\ UNCHANGED pem
    /\ UNCHANGED <<envVars, linkVars, cancel, permit, loopVars>>

\* try_load_and_store: changed bytes are stored (Ok(true)), unchanged or empty
\* ones are not (Ok(false)), and the read may fail (Err).
TryLoadAndStore ==
    /\ wpc = "load"
    /\ \/ /\ FileChanged
          /\ pem' = [pem EXCEPT ![wfile] = disk]
          /\ wpc' = "notify"
          /\ UNCHANGED <<wfile, faults>>
       \/ /\ ~FileChanged
          /\ NextFile
          /\ UNCHANGED <<pem, faults>>
       \/ /\ Fault
          /\ NextFile
          /\ UNCHANGED pem
    /\ UNCHANGED <<pub, srv, disk, linkVars, cancel, permit, loopVars>>

\* notify_one stores a permit; a second one before it is consumed adds none.
NotifyOne ==
    /\ wpc = "notify"
    /\ permit' = [permit EXCEPT ![NotifyOf(wfile)] = TRUE]
    /\ NextFile
    /\ UNCHANGED <<envVars, linkVars, cancel, pem, loopVars>>

WatcherStep == WatcherTick \/ WatcherCancelled \/ TryLoadAndStore \/ NotifyOne

----------------------------------------------------------------------------
(* The gRPC loop *)

installVars == <<snap, table, sni>>

\* The head of the loop: stop if cancelled, else start connect_fut.
Top ==
    /\ pc = "top"
    /\ pc' = IF cancel THEN "done" ELSE "load"
    /\ lfile' = "ca"
    /\ UNCHANGED <<envVars, linkVars, cancel, permit, watcherVars, conn, installVars, ready>>

\* connect_fut loads the three PEMs one after the other; the certs watcher may
\* store between two loads.
LoadPem ==
    /\ pc = "load"
    /\ conn' = [conn EXCEPT ![lfile] = pem[lfile]]
    /\ lfile' = FileAfter(lfile)
    /\ pc' = IF lfile = "key" THEN "connect" ELSE "load"
    /\ UNCHANGED <<envVars, linkVars, cancel, permit, watcherVars, installVars, ready>>

\* All three PEMs are there, cert and key belong together, and each side's
\* certificate is signed by the CA the other side trusts.
CredentialsMatch == \A f \in Files : conn[f] = srv

\* The connection is made and the Watch call issued at once.
ConnectOk ==
    /\ pc = "connect"
    /\ CredentialsMatch
    /\ pc' = "watch"
    /\ rpc' = "called"
    /\ UNCHANGED <<envVars, inbox, cancel, permit, watcherVars, lfile, conn, installVars, ready>>

\* connect_fut returns an error or the 10s timeout fires; then the backoff.
ConnectErr ==
    /\ pc = "connect"
    /\ \/ ~CredentialsMatch /\ UNCHANGED faults
       \/ Fault
    /\ pc' = "backoff"
    /\ UNCHANGED <<pub, srv, disk, linkVars, cancel, permit, watcherVars, lfile, conn, installVars, ready>>

\* watch() resolves when the response headers arrive, even if the stream breaks
\* right after them.
WatchOk ==
    /\ pc = "watch"
    /\ rpc = "up" \/ (rpc = "closed" /\ inbox # <<>>)
    /\ ready' = TRUE
    /\ pc' = "stream"
    /\ UNCHANGED <<envVars, linkVars, cancel, permit, watcherVars, lfile, conn, installVars>>

\* Mutated break: messages of the old stream are still there.
DropStreamOnly ==
    /\ rpc' = "none"
    /\ UNCHANGED inbox

\* The client side of the stream is dropped, with what it had not read.
DropStream ==
    /\ rpc' = "none"
    /\ inbox' = <<>>

\* watch() fails.
WatchErr ==
    /\ pc = "watch"
    /\ rpc = "closed"
    /\ pc' = "backoff"
    /\ DropStream
    /\ UNCHANGED <<envVars, cancel, permit, watcherVars, lfile, conn, installVars, ready>>

\* Mutated cancelled() arm: the stream is left, the loop is not.
StreamCancelledContinues ==
    /\ pc = "stream"
    /\ cancel
    /\ UNCHANGED vars

\* The cancelled() arm of the stream loop: return.
StreamCancelled ==
    /\ pc = "stream"
    /\ cancel
    /\ pc' = "done"
    /\ DropStream
    /\ UNCHANGED <<envVars, cancel, permit, watcherVars, lfile, conn, installVars, ready>>

\* The two notified() arms: consume the permit and reconnect.
CertsUpdated(n) ==
    /\ pc = "stream"
    /\ permit[n]
    /\ permit' = [permit EXCEPT ![n] = FALSE]
    /\ pc' = "backoff"
    /\ DropStream
    /\ UNCHANGED <<envVars, cancel, watcherVars, lfile, conn, installVars, ready>>

\* Mutated receive: the newest message is taken first.
ReceiveNewest ==
    /\ pc = "stream"
    /\ inbox # <<>>
    /\ snap' = inbox[Len(inbox)]
    /\ inbox' = SubSeq(inbox, 1, Len(inbox) - 1)
    /\ pc' = "apply_table"
    /\ UNCHANGED <<envVars, rpc, cancel, permit, watcherVars, lfile, conn, table, sni, ready>>

\* Ok(Some(snap)): the shared snapshot is replaced first ...
ReceiveSnapshot ==
    /\ pc = "stream"
    /\ inbox # <<>>
    /\ snap' = Head(inbox)
    /\ inbox' = Tail(inbox)
    /\ pc' = "apply_table"
    /\ UNCHANGED <<envVars, rpc, cancel, permit, watcherVars, lfile, conn, table, sni, ready>>

\* Mutated table update: done for the first snapshot only.
InstallTableOnce ==
    /\ pc = "apply_table"
    /\ table' = IF table = 0 THEN snap ELSE table
    /\ pc' = "apply_sni"
    /\ UNCHANGED <<envVars, linkVars, cancel, permit, watcherVars, lfile, conn, snap, sni, ready>>

\* ... then, under its own write lock, the route table ...
InstallTable ==
    /\ pc = "apply_table"
    /\ table' = snap
    /\ pc' = "apply_sni"
    /\ UNCHANGED <<envVars, linkVars, cancel, permit, watcherVars, lfile, conn, snap, sni, ready>>

\* ... then the SNI certificates.
StoreSni ==
    /\ pc = "apply_sni"
    /\ sni' = snap
    /\ pc' = "stream"
    /\ UNCHANGED <<envVars, linkVars, cancel, permit, watcherVars, lfile, conn, snap, table, ready>>

\* Ok(None) and Err(status): an aborted stream may lose what was not read.
StreamClosed ==
    /\ pc = "stream"
    /\ rpc = "closed"
    /\ pc' = "backoff"
    /\ DropStream
    /\ UNCHANGED <<envVars, cancel, permit, watcherVars, lfile, conn, installVars, ready>>

\* The backoff has been slept.
Sleep ==
    /\ pc = "backoff"
    /\ pc' = "top"
    /\ UNCHANGED <<envVars, linkVars, cancel, permit, watcherVars, lfile, conn, installVars, ready>>

LoopStep ==
    \/ Top \/ LoadPem \/ ConnectOk \/ ConnectErr \/ WatchOk \/ WatchErr
    \/ StreamCancelled \/ StreamClosed \/ ReceiveSnapshot \/ InstallTable \/ StoreSni
    \/ Sleep
    \/ \E n \in Notifies : CertsUpdated(n)

----------------------------------------------------------------------------
(* The environment *)

managerVars == <<cancel, permit, watcherVars, loopVars>>

\* GrpcManager::shutdown cancels the token.
Shutdown ==
    /\ ~cancel
    /\ cancel' = TRUE
    /\ UNCHANGED <<envVars, linkVars, permit, watcherVars, loopVars>>

\* The server sends a snapshot; grpc-go sends the response headers with the
\* first one.
ServerSend(s) ==
    /\ rpc \in {"called", "up"}
    /\ rpc' = "up"
    /\ inbox' = Append(inbox, s)

\* The connection breaks.
CloseRpc ==
    /\ rpc \in {"called", "up"}
    /\ rpc' = "closed"
    /\ UNCHANGED inbox

\* A new snapshot is sent on the stream that is open, or dropped: Broadcast does
\* not wait for a stream whose channel is full, and with none open there is
\* nothing to send on.
Publish ==
    /\ pub < MaxPublish
    /\ pub' = pub + 1
    /\ \/ rpc = "up" /\ ServerSend(pub + 1)
       \/ UNCHANGED linkVars
    /\ UNCHANGED <<srv, disk, faults, managerVars>>

\* A new stream starts with the current snapshot, if there is one.
ServerOpen ==
    /\ rpc = "called"
    /\ pub > 0
    /\ ServerSend(pub)
    /\ UNCHANGED <<envVars, managerVars>>

ConnectionLost ==
    /\ CloseRpc
    /\ Fault
    /\ UNCHANGED <<pub, srv, disk, managerVars>>

\* The controller restarts with a new CA, certificate and key (NewServer).
ControllerRestart ==
    /\ srv < MaxGen
    /\ srv' = srv + 1
    /\ CloseRpc \/ (rpc \in {"none", "closed"} /\ UNCHANGED linkVars)
    /\ UNCHANGED <<pub, disk, faults, managerVars>>

\* The Secret follows the controller's bundle and kubelet swaps the mounted
\* files, all of them at once.
MountSecret ==
    /\ disk # srv
    /\ disk' = srv
    /\ UNCHANGED <<pub, srv, linkVars, faults, managerVars>>

Next ==
    \/ WatcherTick \/ WatcherCancelled \/ TryLoadAndStore \/ NotifyOne
    \/ Top \/ LoadPem \/ ConnectOk \/ ConnectErr \/ WatchOk \/ WatchErr
    \/ StreamCancelled \/ StreamClosed \/ ReceiveSnapshot \/ InstallTable \/ StoreSni
    \/ Sleep
    \/ \E n \in Notifies : CertsUpdated(n)
    \/ Shutdown \/ Publish \/ ServerOpen \/ ConnectionLost
    \/ ControllerRestart \/ MountSecret

Spec == Init /\ [][Next]_vars

\* Tokio runs both tasks, sleeps end and the connect timeout fires.  Once
\* cancelled, the watcher leaves its select at one of its next rounds.
ManagerFairness ==
    WF_vars(LoopStep) /\ WF_vars(WatcherStep) /\ SF_vars(WatcherCancelled)

\* The Secret reaches the node, and the controller answers a Watch call.
ServerFairness ==
    /\ WF_vars(MountSecret)
    /\ WF_vars(ServerOpen)
    /\ WF_vars(pub = 0 /\ Publish)

FairSpec == Spec /\ ManagerFairness /\ ServerFairness

----------------------------------------------------------------------------
(* Safety *)

\* While a stream is up, a PEM newer than the one the connection was made with
\* is never forgotten: the loop has a permit to consume, or the watcher is
\* between its store and its notify_one.
NoLostRotation ==
    pc \in Streaming =>
        \A f \in Files :
            conn[f] # pem[f] => permit[NotifyOf(f)] \/ (wpc = "notify" /\ wfile = f)

\* A snapshot reaches the shared snapshot, the routes and the certificates in
\* this order, and the three differ only while one is being applied: a lost
\* stream, a reconnect or a shutdown never leaves them apart.
AppliedInOrder ==
    /\ sni <= table /\ table <= snap /\ snap <= pub
    /\ pc \notin Applying => sni = snap

\* No step takes any of the three back to an older snapshot, whatever streams
\* were dropped and reopened in between.
NeverBackwards == [][snap <= snap' /\ table <= table' /\ sni <= sni']_vars

----------------------------------------------------------------------------
(* Liveness *)

\* Certificate updates and stale permits cause finitely many reconnects: the
\* loop ends up streaming and stays there, with the files of the last rotation.
StreamSettles == <>[](cancel \/ (pc \in Streaming /\ CredentialsMatch))

\* What was published by a moment without an open stream is in the routes later,
\* or something newer is, whatever was sent on the stream before and lost with
\* it: the next stream replays the current snapshot.  Of what is published while
\* a stream is open, nothing is said: Broadcast may drop it.
ReconnectCatchesUp ==
    \A s \in Snapshots : rpc # "up" /\ pub >= s ~> cancel \/ table >= s

\* shutdown() returns: both tasks it joins end, given a controller that answers
\* Watch calls.
ShutdownCompletes == cancel ~> (pc = "done" /\ wpc = "done")

============================================================================
