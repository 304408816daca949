--------------------------- MODULE DeliveryProofs ---------------------------
(***************************************************************************)
(* The two planes together implement ConfigRegister, and the current       *)
(* snapshot is on its way to a data plane whose stream was not overrun:    *)
(* for any number of streams, snapshots, rotations, failures and restarts  *)
(* of either process.                                                      *)
(***************************************************************************)
EXTENDS ConfigDelivery, TLAPS

\* The part of the types the argument needs.
DeliveryTypes ==
    /\ pub \in Nat /\ snap \in Nat /\ table \in Nat /\ last \in Nat
    /\ chan \in [Streams -> Nat] /\ held \in [Streams -> Nat]
    /\ inbox \in Seq(Nat)
    /\ watch \in [Streams -> {"idle", "send", "select", "return"}]
    /\ sid \in Streams \union {NoStream}

\* A Watch call exists only while the loop waits for it or reads it, and nothing is
\* received before the first answer.
LinkInv ==
    /\ pc \in {"top", "load", "connect", "backoff", "done"} => rpc = "none"
    /\ rpc \in {"none", "called"} => inbox = <<>>

\* The controller's current snapshot is the latest one, unless it has not published
\* since it started; Broadcast offers the current one, and nothing is newer.
HubNow ==
    /\ last = 0 \/ last = pub
    /\ arg = last
    /\ \A id \in Streams :
        /\ chan[id] <= last /\ held[id] <= last
        /\ (watch[id] = "send") <=> (held[id] # 0)
        /\ watch[id] = "idle" => id \notin gone

\* What is installed is older than what is in the inbox, which is sorted.
InboxInv ==
    /\ table <= snap /\ snap <= pub
    /\ \A i \in 1 .. Len(inbox) : snap <= inbox[i] /\ inbox[i] <= pub
    /\ \A i, j \in 1 .. Len(inbox) : i <= j => inbox[i] <= inbox[j]

\* x is not older than anything the data plane has.
Newer(x) == x # 0 => snap <= x /\ \A i \in 1 .. Len(inbox) : inbox[i] <= x

\* The open stream is registered, its handler runs, and what it and its channel hold
\* is newer than what has arrived.
OpenInv ==
    sid # NoStream =>
        /\ sid \in cons \ gone
        /\ watch[sid] \in {"send", "select"}
        /\ Newer(held[sid]) /\ Newer(chan[sid])
        /\ chan[sid] # 0 => held[sid] <= chan[sid]

\* The inductive invariant.
DeliveryInv == DeliveryTypes /\ LinkInv /\ HubNow /\ InboxInv /\ OpenInv /\ OnItsWay

\* The variables the invariant is about.
flowVars == <<pub, snap, table, cons, chan, last, arg, chs, watch, held, gone, overrun, rpc, inbox, pc, sid>>

----------------------------------------------------------------------------

\* Both processes start with nothing.
LEMMA InitDelivery == Init => DeliveryInv
  BY DEF Init, Hub!Init, Hub!NoSnap, Mgr!Init, DeliveryInv, DeliveryTypes, LinkInv, HubNow, InboxInv,
         OpenInv, OnItsWay

\* Steps that touch nothing of it keep it.
LEMMA SilentKeeps == DeliveryInv /\ UNCHANGED flowVars => DeliveryInv'
  BY DEF flowVars, DeliveryInv, DeliveryTypes, LinkInv, HubNow, InboxInv, OpenInv, OnItsWay, Newer

\* Without an open stream only the types, the link and the order of snapshots matter.
LEMMA ClosedKeeps ==
    ASSUME DeliveryInv, sid' = NoStream, UNCHANGED <<pub, hubVars>>,
           pc' \in {"top", "load", "connect", "backoff", "done"} => rpc' = "none",
           rpc' \in {"none", "called"} => inbox' = <<>>,
           inbox' = inbox \/ inbox' = <<>>,
           UNCHANGED <<snap, table>> \/ (snap' = 0 /\ table' = 0)
    PROVE  DeliveryInv'
  <1>1. inbox \in Seq(Nat) /\ <<>> \in Seq(Nat)
    BY DEF DeliveryInv, DeliveryTypes
  <1>2. inbox' \in Seq(Nat)
    BY <1>1, Zenon
  <1>3. DeliveryTypes'
    BY <1>2 DEF DeliveryInv, DeliveryTypes, hubVars
  <1>4. HubNow'
    BY DEF DeliveryInv, HubNow, hubVars
  <1>5. InboxInv'
    BY DEF DeliveryInv, DeliveryTypes, InboxInv
  <1>6. LinkInv'
    BY DEF LinkInv
  <1>7. OpenInv' /\ OnItsWay'
    BY DEF OpenInv, OnItsWay
  <1> QED
    BY <1>3, <1>4, <1>5, <1>6, <1>7 DEF DeliveryInv

----------------------------------------------------------------------------
(* The data plane *)

\* Dropping the stream, for whatever reason.
LEMMA DropKeeps ==
    ASSUME DeliveryInv, LoopStep,
           Mgr!WatchErr \/ Mgr!StreamCancelled \/ Mgr!StreamClosed
             \/ \E n \in Mgr!Notifies : Mgr!CertsUpdated(n)
    PROVE  DeliveryInv'
  <1>1. rpc' = "none" /\ inbox' = <<>> /\ UNCHANGED <<pub, snap, table>>
    BY DEF Mgr!WatchErr, Mgr!StreamCancelled, Mgr!StreamClosed, Mgr!CertsUpdated, Mgr!DropStream,
           Mgr!envVars, Mgr!installVars
  <1> QED
    BY <1>1, ClosedKeeps DEF LoopStep

\* Steps of the loop between two streams, and the others that move no snapshot.
LEMMA LoopKeeps ==
    ASSUME DeliveryInv, LoopStep,
           Mgr!Top \/ Mgr!LoadPem \/ Mgr!ConnectOk \/ Mgr!ConnectErr \/ Mgr!WatchOk \/ Mgr!Sleep
             \/ Mgr!StoreSni
    PROVE  DeliveryInv'
  <1>1. /\ UNCHANGED <<pub, snap, table, inbox>>
        /\ rpc' = rpc \/ (rpc = "none" /\ rpc' = "called")
    BY DEF Mgr!Top, Mgr!LoadPem, Mgr!ConnectOk, Mgr!ConnectErr, Mgr!WatchOk, Mgr!Sleep, Mgr!StoreSni,
           Mgr!envVars, Mgr!linkVars, Mgr!installVars, DeliveryInv, LinkInv
  <1>2. pc' \in {"top", "load", "connect", "backoff", "done"} => rpc' = "none"
    BY DEF Mgr!Top, Mgr!LoadPem, Mgr!ConnectOk, Mgr!ConnectErr, Mgr!WatchOk, Mgr!Sleep, Mgr!StoreSni,
           Mgr!envVars, Mgr!linkVars, Mgr!installVars, DeliveryInv, LinkInv
  <1>3. rpc' \in {"none", "called"} => inbox' = <<>>
    BY <1>1 DEF DeliveryInv, LinkInv
  <1>4. CASE sid' = NoStream
    BY <1>1, <1>2, <1>3, <1>4, ClosedKeeps DEF LoopStep
  <1>5. CASE sid' = sid
    BY <1>1, <1>2, <1>3, <1>5
       DEF LoopStep, hubVars, DeliveryInv, DeliveryTypes, LinkInv, HubNow, InboxInv, OpenInv, OnItsWay, Newer
  <1> QED
    BY <1>4, <1>5 DEF LoopStep

\* The routes are replaced by those of the snapshot at hand.
LEMMA InstallKeeps ==
    ASSUME DeliveryInv, LoopStep, Mgr!InstallTable
    PROVE  DeliveryInv'
  <1>1. /\ UNCHANGED <<pub, snap, inbox, rpc>> /\ table' = snap /\ pc' = "apply_sni"
    BY DEF Mgr!InstallTable, Mgr!envVars, Mgr!linkVars
  <1>2. sid' = sid \/ sid' = NoStream
    BY DEF LoopStep
  <1> QED
    BY <1>1, <1>2
       DEF LoopStep, hubVars, DeliveryInv, DeliveryTypes, LinkInv, HubNow, InboxInv, OpenInv, OnItsWay, Newer

\* Reading the stream: the head of a sorted inbox is not older than the snapshot at
\* hand, and if that was the current one, so is the head.
LEMMA ReceiveKeeps ==
    ASSUME DeliveryInv, LoopStep, Mgr!ReceiveSnapshot
    PROVE  DeliveryInv'
  <1>1. /\ UNCHANGED <<pub, table, rpc, hubVars>> /\ pc' = "apply_table"
        /\ inbox # <<>> /\ snap' = inbox[1] /\ inbox' = Tail(inbox)
    BY DEF LoopStep, Mgr!ReceiveSnapshot, Mgr!envVars, DeliveryInv, DeliveryTypes
  <1>2. /\ inbox \in Seq(Nat) /\ inbox' \in Seq(Nat)
        /\ Len(inbox) \in Nat /\ Len(inbox) >= 1 /\ Len(inbox') = Len(inbox) - 1
        /\ \A i \in 1 .. Len(inbox') : inbox'[i] = inbox[i + 1] /\ i + 1 \in 1 .. Len(inbox)
    BY <1>1 DEF DeliveryInv, DeliveryTypes
  <1>3. 1 \in 1 .. Len(inbox) /\ snap' \in Nat /\ snap <= snap' /\ snap' <= pub
    BY <1>1, <1>2 DEF DeliveryInv, DeliveryTypes, InboxInv
  <1>4. DeliveryTypes'
    BY <1>1, <1>2, <1>3 DEF LoopStep, hubVars, DeliveryInv, DeliveryTypes
  <1>5. LinkInv'
    BY <1>1 DEF DeliveryInv, LinkInv
  <1>6. HubNow'
    BY <1>1 DEF hubVars, DeliveryInv, HubNow
  <1>7. InboxInv'
    BY <1>1, <1>2, <1>3 DEF DeliveryInv, DeliveryTypes, InboxInv
  <1>8. sid' = sid \/ sid' = NoStream
    BY DEF LoopStep
  <1>9. ASSUME NEW x \in Nat, Newer(x) PROVE Newer(x)'
    BY <1>1, <1>2, <1>3, <1>9 DEF Newer
  <1>10. OpenInv'
    BY <1>1, <1>8, <1>9 DEF hubVars, DeliveryInv, DeliveryTypes, OpenInv
  <1>11. OnItsWay'
    <2> SUFFICES ASSUME sid' # NoStream, sid' \notin chs' \union overrun'
                 PROVE  \/ last' \in {chan'[sid'], held'[sid'], snap'}
                        \/ \E i \in 1 .. Len(inbox') : inbox'[i] = last'
      BY DEF OnItsWay
    <2>1. sid' = sid /\ sid \in Streams /\ last' = last /\ chan' = chan /\ held' = held
      BY <1>1, <1>8 DEF hubVars, DeliveryInv, DeliveryTypes
    <2>2. CASE last = 0
      BY <2>1, <2>2 DEF DeliveryInv, DeliveryTypes, HubNow
    <2>3. CASE last = snap /\ last # 0
      BY <1>3, <2>1, <2>3 DEF DeliveryInv, DeliveryTypes, HubNow
    <2>4. ASSUME NEW i \in 1 .. Len(inbox), inbox[i] = last
          PROVE  last = snap' \/ \E j \in 1 .. Len(inbox') : inbox'[j] = last
      <3>1. CASE i = 1
        BY <1>1, <2>4, <3>1
      <3>2. CASE i # 1
        <4>1. i - 1 \in 1 .. Len(inbox') /\ inbox'[i - 1] = last
          BY <1>2, <2>4, <3>2
        <4> QED
          BY <4>1
      <3> QED
        BY <3>1, <3>2
    <2> QED
      BY <1>1, <2>1, <2>2, <2>3, <2>4 DEF hubVars, DeliveryInv, OnItsWay
  <1> QED
    BY <1>4, <1>5, <1>6, <1>7, <1>10, <1>11 DEF DeliveryInv

----------------------------------------------------------------------------
(* The controller *)

\* A new snapshot becomes current; the open stream is among those to be offered it.
LEMMA ReconcileKeeps == DeliveryInv /\ Reconcile => DeliveryInv'
  <1> SUFFICES ASSUME DeliveryInv, Reconcile PROVE DeliveryInv'
    OBVIOUS
  <1>1. /\ pub' = pub + 1 /\ last' = pub + 1 /\ arg' = pub + 1 /\ chs' = cons
        /\ UNCHANGED <<snap, table, cons, chan, watch, held, gone, overrun, rpc, inbox, pc, sid>>
    BY DEF Reconcile, Hub!Broadcast, Hub!watchVars, linkVars, managerVars
  <1>2. DeliveryTypes' /\ LinkInv'
    BY <1>1 DEF DeliveryInv, DeliveryTypes, LinkInv
  <1>3. HubNow'
    BY <1>1 DEF DeliveryInv, DeliveryTypes, HubNow
  <1>4. InboxInv'
    BY <1>1 DEF DeliveryInv, DeliveryTypes, InboxInv
  <1>5. OpenInv'
    BY <1>1 DEF DeliveryInv, OpenInv, Newer
  <1>6. OnItsWay'
    BY <1>1 DEF DeliveryInv, OpenInv, OnItsWay
  <1> QED
    BY <1>2, <1>3, <1>4, <1>5, <1>6 DEF DeliveryInv

\* Broadcast fills a channel, with nothing older than what left it before, or drops
\* the snapshot and leaves the stream overrun.
LEMMA OfferKeeps == ASSUME NEW id \in Streams, DeliveryInv, Offer(id) PROVE DeliveryInv'
  <1>1. /\ UNCHANGED <<pub, snap, table, cons, last, arg, watch, held, gone, rpc, inbox, pc, sid>>
        /\ chs' = chs \ {id}
    BY DEF Offer, Hub!Offer, Hub!watchVars, envVars, linkVars, managerVars
  <1>2. \/ chan' = [chan EXCEPT ![id] = last] /\ chan[id] = 0 /\ overrun' = overrun \ {id}
        \/ chan' = chan /\ overrun' = overrun \union {id}
    BY DEF Offer, Hub!Offer, Hub!NoSnap, DeliveryInv, HubNow
  <1>3. DeliveryTypes' /\ LinkInv'
    BY <1>1, <1>2 DEF DeliveryInv, DeliveryTypes, LinkInv
  <1>4. HubNow'
    BY <1>1, <1>2 DEF DeliveryInv, DeliveryTypes, HubNow
  <1>5. InboxInv'
    BY <1>1 DEF DeliveryInv, InboxInv
  <1>6. Newer(last)
    BY DEF DeliveryInv, DeliveryTypes, HubNow, InboxInv, Newer
  <1>7. OpenInv'
    BY <1>1, <1>2, <1>6 DEF DeliveryInv, DeliveryTypes, HubNow, OpenInv, Newer
  <1>8. OnItsWay'
    BY <1>1, <1>2 DEF DeliveryInv, DeliveryTypes, OnItsWay
  <1> QED
    BY <1>3, <1>4, <1>5, <1>7, <1>8 DEF DeliveryInv

\* A new stream starts with the current snapshot in the hands of its handler.
LEMMA WatchKeeps == ASSUME NEW id \in Streams, DeliveryInv, Watch(id) PROVE DeliveryInv'
  <1>1. /\ UNCHANGED <<pub, snap, table, last, arg, chs, gone, overrun, rpc, inbox, pc>>
        /\ rpc = "called" /\ sid' = id /\ watch[id] = "idle"
        /\ cons' = cons \union {id}
        /\ chan' = [chan EXCEPT ![id] = 0]
        /\ held' = [held EXCEPT ![id] = last]
        /\ watch' = [watch EXCEPT ![id] = IF last # 0 THEN "send" ELSE "select"]
    BY DEF Watch, Hub!Watch, Hub!Add, Hub!Fresh, Hub!NoSnap, envVars, linkVars, managerVars
  <1>2. DeliveryTypes' /\ LinkInv'
    BY <1>1 DEF DeliveryInv, DeliveryTypes, LinkInv
  <1>3. HubNow'
    BY <1>1 DEF DeliveryInv, DeliveryTypes, HubNow
  <1>4. InboxInv'
    BY <1>1 DEF DeliveryInv, InboxInv
  <1>5. Newer(last) /\ Newer(0)
    BY DEF DeliveryInv, DeliveryTypes, HubNow, InboxInv, Newer
  <1>6. OpenInv'
    BY <1>1, <1>5 DEF DeliveryInv, DeliveryTypes, HubNow, OpenInv, Newer
  <1>7. OnItsWay'
    BY <1>1 DEF DeliveryInv, DeliveryTypes, OnItsWay
  <1> QED
    BY <1>2, <1>3, <1>4, <1>6, <1>7 DEF DeliveryInv

\* What the handler sends on the open stream is the newest in its inbox.
LEMMA SendKeeps == ASSUME NEW id \in Streams, DeliveryInv, SendOk(id) PROVE DeliveryInv'
  <1>1. /\ UNCHANGED <<pub, snap, table, cons, chan, last, arg, chs, gone, overrun, pc, sid>>
        /\ watch[id] = "send"
        /\ held' = [held EXCEPT ![id] = 0]
        /\ watch' = [watch EXCEPT ![id] = "select"]
    BY DEF SendOk, Hub!SendOk, Hub!NoSnap, Hub!hubVars, envVars, managerVars
  <1>2. HubNow'
    BY <1>1 DEF DeliveryInv, DeliveryTypes, HubNow
  <1>3. CASE id # sid
    <2>1. UNCHANGED linkVars
      BY <1>3 DEF SendOk
    <2>2. DeliveryTypes' /\ LinkInv'
      BY <1>1, <2>1 DEF linkVars, DeliveryInv, DeliveryTypes, LinkInv
    <2>3. InboxInv'
      BY <1>1, <2>1 DEF linkVars, DeliveryInv, InboxInv
    <2>4. OpenInv' /\ OnItsWay'
      BY <1>1, <1>3, <2>1 DEF linkVars, DeliveryInv, DeliveryTypes, OpenInv, OnItsWay, Newer
    <2> QED
      BY <1>2, <2>2, <2>3, <2>4 DEF DeliveryInv
  <1>4. CASE id = sid
    <2>1. rpc \in {"called", "up"} /\ rpc' = "up" /\ inbox' = Append(inbox, held[id])
      BY <1>4 DEF SendOk, Mgr!ServerSend
    <2>2. /\ inbox \in Seq(Nat) /\ held[id] \in Nat /\ inbox' \in Seq(Nat)
          /\ Len(inbox) \in Nat /\ Len(inbox') = Len(inbox) + 1
          /\ inbox'[Len(inbox) + 1] = held[id]
          /\ \A i \in 1 .. Len(inbox) : inbox'[i] = inbox[i]
      BY <2>1 DEF DeliveryInv, DeliveryTypes
    <2>3. DeliveryTypes' /\ LinkInv'
      BY <1>1, <2>1, <2>2 DEF DeliveryInv, DeliveryTypes, LinkInv
    <2>4. held[id] # 0 /\ held[id] <= pub /\ held[id] <= last
      BY <1>1, <2>2 DEF DeliveryInv, DeliveryTypes, HubNow
    <2>5. CASE sid = NoStream
      \* NoStream is not a stream.
      BY <1>4, <2>5, NoStreamIsNone
    <2>6. CASE sid # NoStream
      <3>1. snap <= held[id] /\ \A i \in 1 .. Len(inbox) : inbox[i] <= held[id]
        BY <1>4, <2>4, <2>6 DEF DeliveryInv, OpenInv, Newer
      <3>2. ASSUME NEW i \in 1 .. Len(inbox')
            PROVE  i \in 1 .. Len(inbox) \/ (i = Len(inbox) + 1 /\ inbox'[i] = held[id])
        BY <2>2
      <3>3. \A i \in 1 .. Len(inbox') : snap <= inbox'[i] /\ inbox'[i] <= held[id] /\ inbox'[i] <= pub
        <4> TAKE i \in 1 .. Len(inbox')
        <4>1. CASE i \in 1 .. Len(inbox)
          <5>1. inbox'[i] = inbox[i]
            BY <2>2, <4>1
          <5> QED
            BY <3>1, <4>1, <5>1 DEF DeliveryInv, InboxInv
        <4>2. CASE inbox'[i] = held[id]
          BY <2>2, <2>4, <3>1, <4>2
        <4> QED
          BY <3>2, <4>1, <4>2
      <3>4. ASSUME NEW i \in 1 .. Len(inbox'), NEW j \in 1 .. Len(inbox'), i <= j
            PROVE  inbox'[i] <= inbox'[j]
        <4>1. CASE j = Len(inbox) + 1 /\ inbox'[j] = held[id]
          BY <3>3, <4>1
        <4>2. CASE j \in 1 .. Len(inbox)
          <5>1. i \in 1 .. Len(inbox)
            BY <2>2, <3>4, <4>2
          <5>2. inbox'[i] = inbox[i] /\ inbox'[j] = inbox[j]
            BY <2>2, <4>2, <5>1
          <5> QED
            BY <3>4, <4>2, <5>1, <5>2 DEF DeliveryInv, InboxInv
        <4> QED
          BY <3>2, <4>1, <4>2
      <3>5. InboxInv'
        BY <1>1, <3>3, <3>4 DEF DeliveryInv, InboxInv
      <3>6. Newer(0)' /\ (chan[id] # 0 => held[id] <= chan[id]) /\ chan[id] \in Nat
        BY <1>4, <2>6 DEF DeliveryInv, DeliveryTypes, OpenInv, Newer
      <3>7. inbox' \in Seq(Nat) /\ snap' = snap /\ snap \in Nat /\ held[id] \in Nat
        BY <1>1, <2>2 DEF DeliveryInv, DeliveryTypes
      <3>8. \A i \in 1 .. Len(inbox') : inbox'[i] \in Nat
        BY <3>7
      <3>9. Newer(chan[id])'
        BY <1>1, <3>1, <3>3, <3>6, <3>7, <3>8 DEF Newer
      <3>10. OpenInv'
        BY <1>1, <1>4, <2>6, <3>6, <3>9 DEF DeliveryInv, DeliveryTypes, OpenInv
      <3>11. OnItsWay'
        <4> SUFFICES ASSUME sid \notin chs \union overrun
                     PROVE  last \in {chan[sid], snap} \/ \E i \in 1 .. Len(inbox') : inbox'[i] = last
          BY <1>1 DEF OnItsWay
        <4>1. CASE last = held[sid]
          <5>1. Len(inbox) + 1 \in 1 .. Len(inbox') /\ inbox'[Len(inbox) + 1] = last
            BY <1>4, <2>2, <4>1
          <5> QED
            BY <5>1
        <4>2. CASE \E i \in 1 .. Len(inbox) : inbox[i] = last
          <5> PICK i \in 1 .. Len(inbox) : inbox[i] = last
            BY <4>2
          <5>1. i \in 1 .. Len(inbox') /\ inbox'[i] = last
            BY <2>2
          <5> QED
            BY <5>1
        <4> QED
          BY <2>6, <4>1, <4>2 DEF DeliveryInv, OnItsWay
      <3> QED
        BY <1>2, <2>3, <3>5, <3>10, <3>11 DEF DeliveryInv
    <2> QED
      BY <2>5, <2>6
  <1> QED
    BY <1>3, <1>4

\* The other steps of a handler, which put nothing on the wire; the handler of the open
\* stream only receives.
LEMMA HandlerKeeps == ASSUME NEW id \in Streams, DeliveryInv, HandlerInternal(id) PROVE DeliveryInv'
  <1>1. UNCHANGED <<pub, snap, table, last, arg, chs, rpc, inbox, pc, sid>>
    BY DEF HandlerInternal, Hub!SendErr, Hub!Receive, Hub!CtxDone, Hub!Return, Hub!Remove, Hub!hubVars,
           envVars, linkVars, managerVars
  <1>2. LinkInv' /\ InboxInv'
    BY <1>1 DEF DeliveryInv, LinkInv, InboxInv
  <1>3. CASE Hub!SendErr(id)
    <2>1. /\ UNCHANGED <<cons, chan, gone, overrun>> /\ watch[id] = "send" /\ id \in gone
          /\ held' = [held EXCEPT ![id] = 0] /\ watch' = [watch EXCEPT ![id] = "return"]
      BY <1>3 DEF Hub!SendErr, Hub!hubVars, Hub!NoSnap
    <2>2. DeliveryTypes' /\ HubNow'
      BY <1>1, <2>1 DEF DeliveryInv, DeliveryTypes, HubNow
    <2>3. OpenInv' /\ OnItsWay'
      BY <1>1, <2>1 DEF DeliveryInv, DeliveryTypes, OpenInv, OnItsWay, Newer
    <2> QED
      BY <1>2, <2>2, <2>3 DEF DeliveryInv
  <1>4. CASE Hub!Receive(id)
    <2>1. /\ UNCHANGED <<cons, gone, overrun>> /\ watch[id] = "select" /\ chan[id] # 0
          /\ held' = [held EXCEPT ![id] = chan[id]] /\ chan' = [chan EXCEPT ![id] = 0]
          /\ watch' = [watch EXCEPT ![id] = "send"]
      BY <1>4 DEF Hub!Receive, Hub!NoSnap
    <2>2. DeliveryTypes' /\ HubNow'
      BY <1>1, <2>1 DEF DeliveryInv, DeliveryTypes, HubNow
    <2>3. OpenInv'
      BY <1>1, <2>1 DEF DeliveryInv, DeliveryTypes, OpenInv, Newer
    <2>4. held[id] = 0
      BY <2>1 DEF DeliveryInv, HubNow
    <2>5. OnItsWay'
      BY <1>1, <2>1, <2>4 DEF DeliveryInv, DeliveryTypes, OnItsWay
    <2> QED
      BY <1>2, <2>2, <2>3, <2>5 DEF DeliveryInv
  <1>5. CASE Hub!CtxDone(id)
    <2>1. /\ UNCHANGED <<cons, chan, held, gone, overrun>> /\ watch[id] = "select" /\ id \in gone
          /\ watch' = [watch EXCEPT ![id] = "return"]
      BY <1>5 DEF Hub!CtxDone, Hub!hubVars
    <2>2. DeliveryTypes' /\ HubNow'
      BY <1>1, <2>1 DEF DeliveryInv, DeliveryTypes, HubNow
    <2>3. OpenInv' /\ OnItsWay'
      BY <1>1, <2>1 DEF DeliveryInv, DeliveryTypes, OpenInv, OnItsWay, Newer
    <2> QED
      BY <1>2, <2>2, <2>3 DEF DeliveryInv
  <1>6. CASE Hub!Return(id)
    <2>1. /\ UNCHANGED <<chan, held>> /\ watch[id] = "return" /\ cons' = cons \ {id}
          /\ gone' = gone \ {id} /\ overrun' = overrun \ {id}
          /\ watch' = [watch EXCEPT ![id] = "idle"]
      BY <1>6 DEF Hub!Return, Hub!Remove
    <2>2. DeliveryTypes' /\ HubNow'
      BY <1>1, <2>1 DEF DeliveryInv, DeliveryTypes, HubNow
    <2>3. sid # id
      BY <2>1, NoStreamIsNone DEF DeliveryInv, OpenInv
    <2>4. OpenInv' /\ OnItsWay'
      BY <1>1, <2>1, <2>3 DEF DeliveryInv, DeliveryTypes, OpenInv, OnItsWay, Newer
    <2> QED
      BY <1>2, <2>2, <2>4 DEF DeliveryInv
  <1> QED
    BY <1>3, <1>4, <1>5, <1>6 DEF HandlerInternal

\* A stream the data plane has left is found to be gone.
LEMMA DisconnectKeeps == ASSUME NEW id \in Streams, DeliveryInv, Disconnect(id) PROVE DeliveryInv'
  <1>1. /\ UNCHANGED <<pub, snap, table, cons, chan, last, arg, chs, watch, held, overrun, rpc, inbox, pc, sid>>
        /\ gone' = gone \union {id} /\ watch[id] # "idle" /\ id # sid
    BY DEF Disconnect, Hub!Disconnect, Hub!hubVars, envVars, linkVars, managerVars
  <1> QED
    BY <1>1 DEF DeliveryInv, DeliveryTypes, LinkInv, HubNow, InboxInv, OpenInv, OnItsWay, Newer

\* A new controller process has no stream and no snapshot.
LEMMA RestartKeeps == DeliveryInv /\ ControllerRestart => DeliveryInv'
  <1> SUFFICES ASSUME DeliveryInv, ControllerRestart PROVE DeliveryInv'
    OBVIOUS
  <1>1. /\ UNCHANGED <<pub, snap, table, inbox, pc>> /\ sid' = NoStream
        /\ rpc' = rpc \/ (rpc \in {"called", "up"} /\ rpc' = "closed")
    BY DEF ControllerRestart, Mgr!ControllerRestart, Mgr!CloseRpc, Mgr!linkVars, Mgr!managerVars, Mgr!loopVars
  <1>2. /\ last' = 0 /\ arg' = 0 /\ gone' = {}
        /\ chan' = [id \in Streams |-> 0] /\ held' = [id \in Streams |-> 0]
        /\ watch' = [id \in Streams |-> "idle"]
    BY DEF ControllerRestart, Hub!NoSnap
  <1>3. DeliveryTypes' /\ HubNow'
    BY <1>1, <1>2 DEF DeliveryInv, DeliveryTypes, HubNow
  <1>4. LinkInv' /\ InboxInv'
    BY <1>1 DEF DeliveryInv, LinkInv, InboxInv
  <1>5. OpenInv' /\ OnItsWay'
    BY <1>1 DEF OpenInv, OnItsWay
  <1> QED
    BY <1>3, <1>4, <1>5 DEF DeliveryInv

----------------------------------------------------------------------------

\* Every step of either process keeps it.
LEMMA NextKeeps == DeliveryInv /\ [Next]_vars => DeliveryInv'
  <1> SUFFICES ASSUME DeliveryInv, [Next]_vars PROVE DeliveryInv'
    OBVIOUS
  <1>1. CASE LoopStep
    BY <1>1, DropKeeps, LoopKeeps, InstallKeeps, ReceiveKeeps DEF LoopStep, Mgr!LoopStep
  <1>2. CASE WatcherStep
    BY <1>2, SilentKeeps
       DEF WatcherStep, Mgr!WatcherStep, Mgr!WatcherTick, Mgr!WatcherCancelled, Mgr!TryLoadAndStore,
           Mgr!NotifyOne, Mgr!envVars, Mgr!linkVars, Mgr!loopVars, hubVars, flowVars
  <1>3. CASE MountSecret
    BY <1>3, SilentKeeps
       DEF MountSecret, Mgr!MountSecret, Mgr!linkVars, Mgr!managerVars, Mgr!loopVars, hubVars, flowVars
  <1>4. CASE ConnectionLost
    <2>1. /\ UNCHANGED <<pub, hubVars, snap, table, inbox, pc>> /\ sid' = NoStream
          /\ rpc \in {"called", "up"} /\ rpc' = "closed"
      BY <1>4 DEF ConnectionLost, Mgr!ConnectionLost, Mgr!CloseRpc, Mgr!managerVars, Mgr!loopVars
    <2> QED
      BY <2>1, ClosedKeeps DEF DeliveryInv, LinkInv
  <1>5. CASE DataPlaneRestart
    <2>1. /\ UNCHANGED <<pub, hubVars>> /\ sid' = NoStream /\ rpc' = "none" /\ inbox' = <<>>
          /\ snap' = 0 /\ table' = 0
      BY <1>5 DEF DataPlaneRestart, Mgr!DropStream
    <2> QED
      BY <2>1, ClosedKeeps
  <1>6. CASE UNCHANGED vars
    BY <1>6, SilentKeeps DEF vars, hubVars, envVars, linkVars, managerVars, flowVars
  <1> QED
    BY <1>1, <1>2, <1>3, <1>4, <1>5, <1>6, ReconcileKeeps, OfferKeeps, WatchKeeps, SendKeeps, HandlerKeeps,
       DisconnectKeeps, RestartKeeps
       DEF Next

\* The current snapshot of the controller is installed, or on its way, while the stream
\* of Watch is open and was not overrun.
THEOREM CurrentIsOnItsWay == Spec => []OnItsWay
  <1>1. DeliveryInv => OnItsWay
    BY DEF DeliveryInv
  <1> QED
    BY <1>1, InitDelivery, NextKeeps, PTL DEF Spec

\* The routes of update_route_table are a register that moves only forward to published
\* snapshots, and starts empty with the process.
THEOREM DeliveryImplementsRegister == Spec => RefinesRegister
  <1>1. Init => Register!Init
    BY DEF Init, Mgr!Init, Register!Init
  <1>2. DeliveryInv /\ [Next]_vars => [Register!Next]_<<pub, table>>
    <2> SUFFICES ASSUME DeliveryInv, [Next]_vars, ~UNCHANGED <<pub, table>>
                 PROVE  Register!Next
      OBVIOUS
    <2>1. CASE Reconcile
      BY <2>1 DEF Reconcile, managerVars, Register!Next, Register!Publish
    <2>2. CASE DataPlaneRestart
      BY <2>2 DEF DataPlaneRestart, Register!Next, Register!Restart
    <2>3. CASE LoopStep
      <3>1. UNCHANGED <<pub, table>> \/ (table' = snap /\ UNCHANGED pub)
        BY <2>3
           DEF LoopStep, Mgr!LoopStep, Mgr!Top, Mgr!LoadPem, Mgr!ConnectOk, Mgr!ConnectErr, Mgr!WatchOk,
               Mgr!WatchErr, Mgr!StreamCancelled, Mgr!StreamClosed, Mgr!ReceiveSnapshot, Mgr!InstallTable,
               Mgr!StoreSni, Mgr!Sleep, Mgr!CertsUpdated, Mgr!envVars, Mgr!installVars
      <3> QED
        BY <3>1 DEF DeliveryInv, DeliveryTypes, InboxInv, Register!Next, Register!Install
    <2>4. ASSUME ControllerRestart \/ WatcherStep \/ MountSecret \/ ConnectionLost PROVE FALSE
      BY <2>4
         DEF ControllerRestart, WatcherStep, MountSecret, ConnectionLost, Mgr!ControllerRestart,
             Mgr!WatcherStep, Mgr!WatcherTick, Mgr!WatcherCancelled, Mgr!TryLoadAndStore, Mgr!NotifyOne,
             Mgr!MountSecret, Mgr!ConnectionLost, Mgr!envVars, Mgr!managerVars, Mgr!loopVars
    <2>5. ASSUME NEW id \in Streams,
                 Offer(id) \/ Watch(id) \/ SendOk(id) \/ HandlerInternal(id) \/ Disconnect(id)
          PROVE  FALSE
      BY <2>5 DEF Offer, Watch, SendOk, HandlerInternal, Disconnect, envVars, managerVars
    <2>6. ~UNCHANGED vars
      BY DEF vars, envVars, managerVars
    <2> QED
      BY <2>1, <2>2, <2>3, <2>4, <2>5, <2>6 DEF Next
  <1> QED
    BY <1>1, <1>2, InitDelivery, NextKeeps, PTL DEF Spec, RefinesRegister, Register!Spec

=============================================================================
