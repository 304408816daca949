------------------------- MODULE GrpcManagerProofs -------------------------
(***************************************************************************)
(* The safety properties of GrpcManager, for any number of snapshots,      *)
(* certificate rotations and faults.                                       *)
(***************************************************************************)
EXTENDS GrpcManager, TLAPS

\* connect_fut has already loaded f for the connection at hand.
Loaded(f) ==
    \/ pc \in {"connect", "watch"} \union Streaming
    \/ pc = "load" /\ \/ f = "ca" /\ lfile # "ca"
                      \/ f = "crt" /\ lfile = "key"

\* NoLostRotation from the moment f is loaded, which is when the race with the
\* certs watcher begins.
RotationSeen ==
    \A f \in Files :
        Loaded(f) /\ conn[f] # pem[f] =>
            permit[NotifyOf(f)] \/ (wpc = "notify" /\ wfile = f)

\* What is still to be read from the stream is sorted, and lies between what
\* is installed and what is published.
InboxSorted ==
    /\ \A i \in 1 .. Len(inbox) : snap <= inbox[i] /\ inbox[i] <= pub
    /\ \A i, j \in 1 .. Len(inbox) : i <= j => inbox[i] <= inbox[j]

\* How far the snapshot at hand has been applied.
ApplyPhase ==
    /\ sni <= table /\ table <= snap /\ snap <= pub
    /\ pc = "apply_table" => table = sni
    /\ pc = "apply_sni" => table = snap
    /\ pc \notin Applying => table = snap /\ sni = snap

----------------------------------------------------------------------------

\* GrpcManager::start establishes the type invariant.
LEMMA InitType == Init => TypeOK
  <1> SUFFICES ASSUME Init PROVE TypeOK
    OBVIOUS
  <1>1. 0 \in Snapshots /\ 0 \in Gens /\ 1 \in Gens /\ 0 \in 0 .. MaxFaults
    BY ManagerBounds DEF Snapshots, Gens
  <1>2. inbox \in Seq(Snapshots)
    BY DEF Init
  <1> QED
    BY <1>1, <1>2 DEF Init, TypeOK, Files, Notifies, LoopStates

\* Every step of the watcher, the loop and the environment keeps the types.
LEMMA StepType == TypeOK /\ [Next]_vars => TypeOK'
  <1> SUFFICES ASSUME TypeOK, [Next]_vars PROVE TypeOK'
    OBVIOUS
  <1> USE DEF TypeOK, envVars, linkVars, watcherVars, loopVars, installVars, managerVars
  <1>f. \A g \in Files : FileAfter(g) \in Files /\ NotifyOf(g) \in Notifies
    BY DEF Files, FileAfter, NotifyOf, Notifies
  <1>g. Fault => faults' \in 0 .. MaxFaults
    BY ManagerBounds DEF Fault
  <1>1. CASE WatcherTick
    BY <1>1 DEF WatcherTick, Files
  <1>2. CASE WatcherCancelled
    BY <1>2 DEF WatcherCancelled
  <1>3. CASE TryLoadAndStore
    BY <1>3, <1>f, <1>g DEF TryLoadAndStore, NextFile, Files
  <1>4. CASE NotifyOne
    BY <1>4, <1>f DEF NotifyOne, NextFile
  <1>5. CASE Top
    BY <1>5 DEF Top, LoopStates, Files
  <1>6. CASE LoadPem
    BY <1>6, <1>f DEF LoadPem, LoopStates
  <1>7. CASE ConnectOk
    BY <1>7 DEF ConnectOk, LoopStates
  <1>8. CASE ConnectErr
    BY <1>8, <1>g DEF ConnectErr, LoopStates
  <1>9. CASE WatchOk
    BY <1>9 DEF WatchOk, LoopStates, Streaming
  <1>10. CASE WatchErr
    BY <1>10 DEF WatchErr, DropStream, LoopStates
  <1>11. CASE Sleep
    BY <1>11 DEF Sleep, LoopStates
  <1>12. CASE StreamCancelled
    BY <1>12 DEF StreamCancelled, DropStream, LoopStates
  <1>13. CASE StreamClosed
    BY <1>13 DEF StreamClosed, DropStream, LoopStates
  <1>14. CASE \E n \in Notifies : CertsUpdated(n)
    BY <1>14 DEF CertsUpdated, DropStream, LoopStates
  <1>15. CASE ReceiveSnapshot
    BY <1>15 DEF ReceiveSnapshot, LoopStates, Streaming, Applying
  <1>16. CASE InstallTable
    BY <1>16 DEF InstallTable, LoopStates, Streaming, Applying
  <1>17. CASE StoreSni
    BY <1>17 DEF StoreSni, LoopStates, Streaming
  <1>18. CASE Publish
    <2>1. pub + 1 \in Snapshots
      BY <1>18, ManagerBounds DEF Publish, Snapshots
    <2>2. /\ rpc' \in {"none", "called", "up", "closed"} /\ inbox' \in Seq(Snapshots)
          /\ rpc' = "none" => inbox' = <<>>
      <3>1. CASE ServerSend(pub + 1)
        BY <2>1, <3>1 DEF ServerSend
      <3>2. CASE UNCHANGED linkVars
        BY <3>2
      <3> QED
        BY <1>18, <3>1, <3>2 DEF Publish
    <2> QED
      BY <1>18, <2>1, <2>2 DEF Publish
  <1>19. CASE ServerOpen
    BY <1>19 DEF ServerOpen, ServerSend
  <1>20. CASE Shutdown
    BY <1>20 DEF Shutdown
  <1>21. CASE ConnectionLost
    BY <1>21, <1>g DEF ConnectionLost, CloseRpc
  <1>22. CASE ControllerRestart
    BY <1>22, ManagerBounds DEF ControllerRestart, CloseRpc, Gens
  <1>23. CASE MountSecret
    BY <1>23 DEF MountSecret
  <1>24. CASE UNCHANGED vars
    BY <1>24 DEF vars
  <1> QED
    BY <1>1, <1>2, <1>3, <1>4, <1>5, <1>6, <1>7, <1>8, <1>9, <1>10, <1>11, <1>12, <1>13, <1>14, <1>15, <1>16, <1>17, <1>18, <1>19, <1>20, <1>21, <1>22, <1>23, <1>24 DEF Next

\* Type correctness of the manager.
THEOREM ManagerTypeCorrect == Spec => []TypeOK
  BY InitType, StepType, PTL DEF Spec

----------------------------------------------------------------------------

\* Every step keeps RotationSeen: a load makes conn and pem agree, a store is
\* followed by its notify_one, and a permit is consumed only by leaving the
\* stream.
LEMMA StepRotation == TypeOK /\ RotationSeen /\ [Next]_vars => RotationSeen'
  <1> SUFFICES ASSUME TypeOK, RotationSeen, [Next]_vars, NEW f \in Files
               PROVE (Loaded(f) /\ conn[f] # pem[f] =>
                        permit[NotifyOf(f)] \/ (wpc = "notify" /\ wfile = f))'
    BY DEF RotationSeen
  <1> USE DEF TypeOK, RotationSeen, Loaded, Files, Notifies, Streaming, Applying, NotifyOf,
              FileAfter, NextFile, envVars, linkVars, watcherVars, loopVars, installVars, managerVars
  <1>1. CASE WatcherTick \/ WatcherCancelled \/ NotifyOne
    BY <1>1 DEF WatcherTick, WatcherCancelled, NotifyOne
  <1>2. CASE TryLoadAndStore
    BY <1>2 DEF TryLoadAndStore, FileChanged
  <1>3. CASE Top
    BY <1>3 DEF Top
  <1>4. CASE LoadPem
    BY <1>4 DEF LoadPem
  <1>5. CASE ConnectOk \/ ConnectErr \/ WatchOk \/ WatchErr \/ Sleep
    BY <1>5 DEF ConnectOk, ConnectErr, WatchOk, WatchErr, Sleep
  <1>6. CASE StreamCancelled \/ StreamClosed \/ \E n \in Notifies : CertsUpdated(n)
    BY <1>6 DEF StreamCancelled, StreamClosed, CertsUpdated
  <1>7. CASE ReceiveSnapshot \/ InstallTable \/ StoreSni
    BY <1>7 DEF ReceiveSnapshot, InstallTable, StoreSni
  <1>8. CASE Publish \/ ServerOpen \/ Shutdown \/ ConnectionLost \/ ControllerRestart \/ MountSecret
    BY <1>8 DEF Publish, ServerOpen, Shutdown, ConnectionLost, ControllerRestart, MountSecret
  <1>9. CASE UNCHANGED vars
    BY <1>9 DEF vars
  <1> QED
    BY <1>1, <1>2, <1>3, <1>4, <1>5, <1>6, <1>7, <1>8, <1>9 DEF Next

\* A rotated PEM is never forgotten by a connection made with the old one.
THEOREM RotationIsNeverLost == Spec => []NoLostRotation
  <1>1. Init => RotationSeen
    BY DEF Init, RotationSeen, Loaded, Streaming, Applying
  <1>2. RotationSeen => NoLostRotation
    BY DEF RotationSeen, NoLostRotation, Loaded
  <1> QED
    BY <1>1, <1>2, StepRotation, ManagerTypeCorrect, PTL DEF Spec

----------------------------------------------------------------------------

\* Reading the stream and appending to it keep it sorted.
LEMMA StepInbox == TypeOK /\ InboxSorted /\ ApplyPhase /\ [Next]_vars => InboxSorted'
  <1> SUFFICES ASSUME TypeOK, InboxSorted, ApplyPhase, [Next]_vars PROVE InboxSorted'
    OBVIOUS
  <1>t. pub \in Nat /\ snap \in Nat /\ inbox \in Seq(Nat)
    BY ManagerBounds DEF TypeOK, Snapshots
  <1>e. ASSUME inbox' = <<>> PROVE InboxSorted'
    BY <1>e DEF InboxSorted
  <1>s. ASSUME UNCHANGED <<pub, snap, inbox>> PROVE InboxSorted'
    BY <1>s DEF InboxSorted
  <1>1. CASE ReceiveSnapshot
    <2>1. /\ snap' = inbox[1] /\ pub' = pub /\ inbox # <<>> /\ inbox' = Tail(inbox)
      BY <1>1, <1>t DEF ReceiveSnapshot, envVars
    <2>2. /\ Len(inbox') = Len(inbox) - 1
          /\ \A i \in 1 .. Len(inbox') : inbox'[i] = inbox[i + 1]
      BY <2>1, <1>t
    <2> QED
      BY <2>1, <2>2, <1>t DEF InboxSorted
  <1>2. ASSUME NEW s \in Nat, pub <= s, pub' = s, snap' = snap, inbox' = Append(inbox, s)
        PROVE InboxSorted'
    <2>1. /\ Len(inbox') = Len(inbox) + 1
          /\ inbox'[Len(inbox) + 1] = s
          /\ \A i \in 1 .. Len(inbox) : inbox'[i] = inbox[i]
      BY <1>2, <1>t
    <2> QED
      BY <1>2, <2>1, <1>t DEF InboxSorted, ApplyPhase
  <1>3. CASE Publish
    <2>1. CASE inbox' = inbox
      BY <1>3, <2>1, <1>t DEF Publish, InboxSorted, managerVars, loopVars
    <2>2. CASE inbox' = Append(inbox, pub + 1)
      BY <1>3, <2>2, <1>2, <1>t DEF Publish, managerVars, loopVars
    <2> QED
      BY <1>3, <2>1, <2>2 DEF Publish, ServerSend, linkVars
  <1>4. CASE ServerOpen
    BY <1>4, <1>2, <1>t DEF ServerOpen, ServerSend, envVars, managerVars, loopVars
  <1>5. CASE WatchErr \/ StreamCancelled \/ StreamClosed \/ \E n \in Notifies : CertsUpdated(n)
    BY <1>5, <1>e DEF WatchErr, StreamCancelled, StreamClosed, CertsUpdated, DropStream
  <1>6. CASE \/ WatcherTick \/ WatcherCancelled \/ TryLoadAndStore \/ NotifyOne
             \/ Top \/ LoadPem \/ ConnectOk \/ ConnectErr \/ WatchOk \/ Sleep
    BY <1>6, <1>s
       DEF WatcherTick, WatcherCancelled, TryLoadAndStore, NotifyOne, Top, LoadPem, ConnectOk,
           ConnectErr, WatchOk, Sleep, envVars, linkVars, loopVars, installVars
  <1>7. CASE InstallTable \/ StoreSni \/ Shutdown \/ ConnectionLost \/ ControllerRestart \/ MountSecret
    BY <1>7, <1>s
       DEF InstallTable, StoreSni, Shutdown, ConnectionLost, CloseRpc, ControllerRestart,
           MountSecret, envVars, linkVars, loopVars, managerVars
  <1>8. CASE UNCHANGED vars
    BY <1>8, <1>s DEF vars
  <1> QED
    BY <1>1, <1>3, <1>4, <1>5, <1>6, <1>7, <1>8 DEF Next

\* The three installs of a snapshot keep their order.
LEMMA StepApply == TypeOK /\ InboxSorted /\ ApplyPhase /\ [Next]_vars => ApplyPhase'
  <1> SUFFICES ASSUME TypeOK, InboxSorted, ApplyPhase, [Next]_vars PROVE ApplyPhase'
    OBVIOUS
  <1>t. /\ pub \in Nat /\ snap \in Nat /\ table \in Nat /\ sni \in Nat
        /\ inbox \in Seq(Nat)
    BY ManagerBounds DEF TypeOK, Snapshots
  <1> USE DEF ApplyPhase, Applying
  <1>1. CASE ReceiveSnapshot
    <2>1. snap <= inbox[1] /\ inbox[1] <= pub /\ snap' = inbox[1]
      BY <1>1, <1>t DEF ReceiveSnapshot, InboxSorted
    <2> QED
      BY <1>1, <2>1, <1>t DEF ReceiveSnapshot, envVars
  <1>2. CASE InstallTable \/ StoreSni
    BY <1>2, <1>t DEF InstallTable, StoreSni, envVars
  <1>3. CASE Publish
    BY <1>3, <1>t DEF Publish, managerVars, loopVars
  <1>4. CASE \/ WatcherTick \/ WatcherCancelled \/ TryLoadAndStore \/ NotifyOne
             \/ Shutdown \/ ServerOpen \/ ConnectionLost \/ ControllerRestart \/ MountSecret
    BY <1>4 DEF WatcherTick, WatcherCancelled, TryLoadAndStore, NotifyOne, Shutdown, ServerOpen,
                ConnectionLost, ControllerRestart, MountSecret, envVars, loopVars, managerVars
  <1>5. CASE Top \/ LoadPem \/ ConnectOk \/ ConnectErr \/ WatchOk \/ WatchErr \/ Sleep
    BY <1>5 DEF Top, LoadPem, ConnectOk, ConnectErr, WatchOk, WatchErr, Sleep, envVars, installVars
  <1>6. CASE StreamCancelled \/ StreamClosed \/ \E n \in Notifies : CertsUpdated(n)
    BY <1>6 DEF StreamCancelled, StreamClosed, CertsUpdated, envVars, installVars
  <1>7. CASE UNCHANGED vars
    BY <1>7 DEF vars
  <1> QED
    BY <1>1, <1>2, <1>3, <1>4, <1>5, <1>6, <1>7 DEF Next

\* No step installs an older snapshot.
LEMMA StepForward ==
    TypeOK /\ InboxSorted /\ ApplyPhase /\ [Next]_vars =>
        [snap <= snap' /\ table <= table' /\ sni <= sni']_vars
  <1> SUFFICES ASSUME TypeOK, InboxSorted, ApplyPhase, Next
               PROVE snap <= snap' /\ table <= table' /\ sni <= sni'
    OBVIOUS
  <1>t. /\ pub \in Nat /\ snap \in Nat /\ table \in Nat /\ sni \in Nat
        /\ inbox \in Seq(Nat)
    BY ManagerBounds DEF TypeOK, Snapshots
  <1>s. UNCHANGED installVars => snap <= snap' /\ table <= table' /\ sni <= sni'
    BY <1>t DEF installVars
  <1>1. CASE ReceiveSnapshot
    <2>1. snap <= inbox[1] /\ snap' = inbox[1]
      BY <1>1, <1>t DEF ReceiveSnapshot, InboxSorted
    <2> QED
      BY <1>1, <2>1, <1>t DEF ReceiveSnapshot
  <1>2. CASE InstallTable \/ StoreSni
    BY <1>2, <1>t DEF InstallTable, StoreSni, ApplyPhase
  <1>3. CASE \/ WatcherTick \/ WatcherCancelled \/ TryLoadAndStore \/ NotifyOne
             \/ Shutdown \/ Publish \/ ServerOpen \/ ConnectionLost \/ ControllerRestart \/ MountSecret
    BY <1>3, <1>s
       DEF WatcherTick, WatcherCancelled, TryLoadAndStore, NotifyOne, Shutdown, Publish, ServerOpen,
           ConnectionLost, ControllerRestart, MountSecret, loopVars, managerVars, installVars
  <1>4. CASE Top \/ LoadPem \/ ConnectOk \/ ConnectErr \/ WatchOk \/ WatchErr \/ Sleep
    BY <1>4, <1>s DEF Top, LoadPem, ConnectOk, ConnectErr, WatchOk, WatchErr, Sleep
  <1>5. CASE StreamCancelled \/ StreamClosed \/ \E n \in Notifies : CertsUpdated(n)
    BY <1>5, <1>s DEF StreamCancelled, StreamClosed, CertsUpdated
  <1> QED
    BY <1>1, <1>2, <1>3, <1>4, <1>5 DEF Next

\* The invariant behind both theorems about installed snapshots.
LEMMA InstallInvariant == Spec => [](TypeOK /\ InboxSorted /\ ApplyPhase)
  <1>1. Init => InboxSorted /\ ApplyPhase
    BY DEF Init, InboxSorted, ApplyPhase, Applying
  <1> QED
    BY <1>1, StepInbox, StepApply, ManagerTypeCorrect, PTL DEF Spec

\* Snapshot, routes and certificates are installed in order and agree whenever
\* no snapshot is being applied.
THEOREM InstallsAreOrdered == Spec => []AppliedInOrder
  <1>1. ApplyPhase => AppliedInOrder
    BY DEF ApplyPhase, AppliedInOrder
  <1> QED
    BY <1>1, InstallInvariant, PTL

\* What a data plane has installed never goes back to an older snapshot.
THEOREM InstallsNeverGoBack == Spec => NeverBackwards
  BY InstallInvariant, StepForward, PTL DEF Spec, NeverBackwards

============================================================================
