# Argon in TLA+

Argon is an ingress controller in two processes: a control plane (Go,
`images/controlplane`) that turns Kubernetes objects into snapshots, and data planes
(Rust, `images/dataplane`) that get the snapshots over a gRPC stream and proxy requests
by them. The modules here model both, from the first change of an Ingress to the last
step of a request, check them with TLC and prove their main invariants with TLAPS.

## The system

| Part | State | Operations | What is hard about it |
|---|---|---|---|
| Ingress controller (`ingress_controller.go`, `utils.go`) | `lastVersion`, `currentSnapshot`; informer caches and work queue of controller-runtime | `Reconcile`, which lists, gets and builds everything anew | objects change while a pass runs; four caches that lag differently; Services and Secrets are read but not watched; errors that drop a path |
| Stream hub and Watch (`hub.go`, `server.go`) | consumers, `last`, a channel of capacity 1 per stream | `Add`, `Remove`, `Broadcast`, `Watch` | `Add` during a `Broadcast`; slow and dead clients; sends outside the lock |
| gRPC manager (`grpc.rs`) | PEMs, two `Notify` permits, snapshot, route table, SNI map, ready flag | the gRPC loop, the certs watcher, `shutdown` | rotation while connecting or streaming, stale permits, three-step install, cancellation, restarts of the controller, which bring a new CA |
| Routing (`ToSnapshot`, `Sort`, `RouteTable`, `extract_host`) | the table | building, choosing | two unstable sorts and a stable one; folding of case; buckets |
| Request path (`proxy.rs`, balancing in `snapshot.rs`) | read guard, cursors, counters, in-flight requests | `proxy_handler` and all it calls | table swaps with requests in flight, cancellation of futures, retries, authorization |
| Servers and shutdown (`main.rs`) | shutdown token, two listeners, their `JoinSet`s | start, accept, drain, joining | a connection accepted after the cancellation, failed binds and accepts, the order of the joins, signals |
| SNI certificates (`certs.rs`) | the map of certificates | `certificates_from_snap`, `resolve` | two lookups with an update between them; bundles that share a name or cannot be read |
| Annotations (`utils.go`, `snapshot.rs`) | none | parsing, on both sides of the stream | integers of three widths, dropped errors, folding of case |
| Request contents (`proxy.rs`) | headers, the captured request | authorization, rewriting, attempts, response | what changes the headers, and in which order, before the request is captured |
| Certificate controller (`secrets_controller.go`, `certs.go`) | the Secret | `Reconcile` | restarts, two controllers |
| Gateway controller | none in use | | unfinished, not started by `main.go` |

A change goes through all of them: an informer event makes a pass, the pass a
`Broadcast`, `Watch` sends it, the manager installs it, and requests that take the read
guard from then on are routed by it.

## Modules

* **Reconciler**: passes of `Reconcile` over the caches. An object is a revision.
  The API server, the informers, the work queue and resyncs are external; the guards and
  the order of List, Get and Broadcast are those of the code. A pass is one action per
  read, so that changes fall between any two. `saw` is a history of what a pass read.
  The version is a hash over a print-out that contains the address of each `PathType`,
  which is a new one in each pass: `SameVersion` says when two can be equal.
* **StreamHub**: `hub.go` and the `Watch` handler. Critical sections are one action,
  `Broadcast`'s loop is one action per channel. A snapshot is its number.
* **GrpcManager**: both tasks of `grpc.rs`, one action per await point or shared
  access. PEM bytes are the generation of their bundle. Environment: a controller that
  publishes, drops what meets a full channel, restarts with a new bundle and loses
  connections, and kubelet.
* **ConfigDelivery**: the two instantiated and joined by the stream, with crash and
  restart of either process. **ConfigRegister** is what they promise together: routes
  are those of some published snapshot and only move to newer ones.
* **Proxy**: `proxy_handler`, its guards and counters, both balancing policies, and the
  manager's table swap. The lookup of a route is a choice of outcome here. What a
  request is made of does not matter, that requests overlap does.
* **Settings**: what annotations become, as operators: `parseAnnotations`, then what
  `RouteTable::new` makes of the cluster. Integers wrap at widths that are constants, and
  a constant function, `Folded`, gives a text trimmed and in lower case.
* **Forwarding**: the same handler from authorization to response, for one request at a
  time, with its headers: a header map is a function to sequences of values. An Ingress
  is configured from any of the annotations, a request comes, the authorization service
  answers as it likes, attempts fail or succeed. What an endpoint is sent is recorded in
  `sent`; the properties compare it with the annotations, not with the rule made of them.
  Texts stay atoms: `Prefixes` says which skip paths a path starts with, and `MaxTimeout`
  is the documented 120000.
* **CertResolver**: `certs.rs`, as operators. **Servers**: `main.rs`, one action per
  await point of `main`, of a server or of a connection's task; the kernel's queue of
  connections is external. The TLS handshake has one action per lookup, so that the
  manager's `StoreSni` falls between the two. Requests on a connection are Proxy's.
* **Routing**: the lookup itself, from rule paths to the chosen cluster. Hosts and
  paths are sequences of character codes, because folding, joining, prefixes and the
  order of strings are what it is about. `sort.Slice` may return any sorted sequence.
  So a listing is any bijection from positions to the set; `sort_by` is stable and has
  one result, which `Buckets` describes by what it is, not by an algorithm.
* **StreamHubProofs**, **GrpcManagerProofs**, **DeliveryProofs**, **ReconcilerProofs**,
  **RoutingProofs**, **ProxyProofs**, **ServersProofs**, **ForwardingProofs**: theorems.
  **MCProxy**, **MCRouting**, **MCServers**, **MCForwarding**: constants and symmetry for
  TLC.

Definitions whose comment begins with "Mutated" are faulty variants of the one that
follows. They are not part of a specification; each breaks the property that
`PROJECT.json` pairs it with.

## Runs

| Run | Checks | Bounds |
|---|---|---|
| `hub` | `FreshSend`, `LossOnlyByOverrun`, `BroadcastCompletes`, `DisconnectedIsRemoved`, `CatchesUpUnlessOverrun` | 2 streams at a time, any number in a row; 4 snapshots: one in the channel, one in the handler, one dropped, one more |
| `manager` | `NoLostRotation`, `AppliedInOrder`, `NeverBackwards`, `StreamSettles`, `ReconnectCatchesUp`, `ShutdownCompletes` | 2 bundles, i.e. one rotation, 2 snapshots, 1 failure |
| `delivery` | `OnItsWay`, `RefinesRegister`, `ConvergesUnlessOverrun` | 1 stream at a time, any number in a row; 2 bundles, 3 snapshots (enough to overrun a stream), 1 failure or restart of the data plane |
| `proxy` | `CountersExact`, `AuthorizedFirst`, `RoundRobinEven`, `UpdateGoesThrough`, `Answered` | 2 requests at a time, any number in a row; 2 tables, so that a request outlives its own; clusters of 2 endpoints with either policy, with and without authorization |
| `reconciler` | `NoLostEvent`, `EventuallyCurrent` | 2 Ingresses, a Service at either revision, one change anywhere, 1 failed List |
| `routing` | `MostSpecific`, `RoutedToItsBackend` | up to 3 rule paths out of 2 hosts, 4 paths (nested, and two that differ in case), 3 types, 2 backends; 45 requests |
| `servers` | `NothingCutOff`, `ManagerOutlives`, `CertMatches`, `ShutdownEnds`, `QueuedSettles` | 2 connections, to one listener or to both: one may drain while the other is queued or accepted; 2 snapshots that share, replace and lose names and wildcards |
| `forwarding` | `SameEveryTime`, `RetriedAsSet`, `HeadersAsConfigured`, `HopByHop`, `AuthHonoured`, `SettingsKept` | an `int` of 6 bits and an `int32` of 5, with numbers at and beyond the limits of both and 12 for the largest timeout; up to 3 header operations; each combination of authorization settings, with skip paths that begin alike or differ in case only; 20 requests |

The runs of the modules that declare one also check the type invariant.

`manager` has a hub that may drop any snapshot, so nothing follows for a stream that stays
open. `ReconnectCatchesUp` is what the replay in `Watch` gives: whatever was published
when a stream is lost, or before the first one, is in the routes in the end. What holds
on an open stream needs the hub itself, and is `ConvergesUnlessOverrun` of `delivery`. There
one stream at a time is enough for what the two planes do together; two that overlap, the
open one and one being left, are in `hub`, and `DeliveryProofs` has any number.

Four runs show where the code departs from what the repository says of it:

* `hub_lost_update`: a snapshot that meets a full channel is dropped, and if no other
  change follows the data plane never gets it.
* `routing_no_cluster`: clusters are stored under a lower-case name and looked up by the
  original one, so that a path with an upper-case letter always gets 404. That two names
  which differ in case only do no worse is due to the sort of clusters
  (`RoutedToItsBackend`).
* `servers_sigterm`: the comment in `main.rs` names SIGTERM and the task awaits
  `ctrl_c()`, which is SIGINT. The signal that stops a container cuts off what is open.
* `settings_documented`: one Ingress with a value for each of five settings that
  `docs/settings.md` allows or says how to read, and a last state in which none is read
  that way. `backend-protocol` and `lb-algorithm` are compared as they are written, not
  without regard to case (lines 12 and 57), so that the documented `leastconn` gives
  round-robin. The range of `backend-timeout` (37) is not checked: what does not parse
  becomes 0, a negative number a timeout of ages, and 130000 stays 130000. A number of
  retries beyond an `int` gives 1, not the nearest bound (48). Of two skip paths that
  differ in case only the first is in force (113). `SettingsKept`, `RetriedAsSet` and
  `AuthHonoured` are the other side: what holds of all other values, checked in
  `forwarding` and proved.

Read from the code, and not kept as runs:

* a timeout is answered with 502, not 504 (`docs/settings.md:39`);
* `least_conn` counts a request until its response head, not until its last byte;
* one unknown mode in `request-headers` drops the whole list;
* Services are not watched: a pass that read a stale one drops the path, and only
  another event or the resync (10 hours) brings it back; a Service that is missing leaves
  the first port of the slice;
* a name with a certificate in the old map as in the new one may be answered with the
  default, if the old has it by the wildcard only and the new by its own entry only:
  `CertMatches` allows that and no more;
* a new table restarts each rotation at its first endpoint; equal configurations get
  different versions, so that every pass with routes broadcasts;
* a `watch()` call to a controller that has nothing to send holds up `shutdown()`, and
  a bind error of a proxy port is noticed at shutdown only.

### Fairness

Goroutines and tasks that can run do run (weak fairness of their steps). Beyond that:
`hub` assumes nothing of clients for `BroadcastCompletes`; the other two liveness
properties name their assumption, that Sends return because the client reads or the
keepalive finds it dead. `manager` assumes strong fairness of leaving the watcher's
`select!` once cancelled (its arms are polled in random order), a controller that
answers calls and a Secret that reaches the node. `delivery` assumes the same of both
sides, and that a controller that has started publishes once. `proxy` assumes the fair lock of
tokio and that timeouts fire, and nothing of clients, upstreams and the authorization
service. `reconciler` assumes that informers keep up and resyncs come round. `servers`
assumes that `select!`, which polls its arms in random order, takes an arm that is ready
time and again (strong fairness of accepting and of stopping), and that clients hang up
some day: `main.rs` has no time limit on connections, and `ShutdownEnds` fails without
the latter. Deadlock is checked in all runs but `manager` and `servers`, where the process
ends.

## Proofs

All for any value of the constants, from the assumptions stated beside them.

* `StreamHubProofs`: `TypeCorrect`, `SendsAreFresh`, `OnlyOverrunsLose` follow from
  `HubInvariant`. `FreshSend` and `LossOnlyByOverrun` are not inductive: the invariant
  adds how the number in a channel, in a handler and delivered relate to `last` and to a
  Broadcast that has not come to the stream yet.
* `GrpcManagerProofs`: `RotationIsNeverLost` strengthens `NoLostRotation` to the states
  in which a connection is being made, where PEMs already loaded must be covered by a
  permit as well. `InstallsAreOrdered` and `InstallsNeverGoBack` rest on
  `InstallInvariant`: what is on its way is sorted and not older than what is installed.
* `DeliveryProofs`: `DeliveryImplementsRegister` (the refinement) and `CurrentIsOnItsWay`,
  for both planes with crashes of either, assuming only that `NoStream` is not a stream.
  `DeliveryInv` orders the whole way: routes, shared snapshot, inbox (sorted), handler,
  channel, `last`, each not older than the one before. `last` is the latest snapshot or
  none at all, after a restart, and this is why the replay in Watch never sets a data
  plane back. Each step then is a Publish, an Install or a Restart of the register, or
  changes neither of its variables.
* `ProxyProofs`: `CountersNeverDrift` needs how the cardinality of the set of holders
  changes when one joins or leaves (`GuardTaken`, `GuardDropped`) and that all other
  steps keep it (`HoldersKept`). `NothingSentUnauthorized` and `RetriesAreBounded` follow
  from one invariant per request, `SendInv`.
  `RoundRobinIsEven` holds for any number of endpoints and requests: `TurnInv` says which
  endpoints are ahead. Those whose index is below the remainder of the cursor have had
  their turn in this round, and are one choice ahead of the rest; the lemmas about
  division say how the remainder moves.
* `ReconcilerProofs`: `NoEventIsLost`, for any Ingresses, Services and number of changes,
  and `ReconcilerTypeCorrect`. `NoLostEvent` speaks of a controller at rest. `PassInv` is
  what it needs of one at work: unless a key or an event for another pass is waiting, the
  list, the EndpointSlices and the targets of this pass are what the stores hold.
* `RoutingProofs`: `RoutedByMostSpecific` and `OwnBackend`, for any hosts, paths and number
  of rules, and for every outcome of the sorts. `RoutingInv` (`TablesAreTrue`) keeps what is
  left of the rules: the snapshot and each bucket hold exactly the rules they should,
  nothing stands before what should precede it, and under a name in lower case the table
  has the cluster of that very name. The last needs `LowerIsLast` (a text comes before the
  same text in lower case, by the first character that differs) and that a later cluster
  overwrites. `NotBeforeIsPreferred` is the arithmetic of priorities: a rank is worth
  1000000, more than the length of any path a request matches (`RoutingConstants`: the
  `http` crate refuses a URI of 2^16 characters or more).
* `ServersProofs`: `ExitCutsNothing` and `ManagerIsLast`, for any number of connections.
  Neither is inductive: `ShutdownInv` ties the place `main` has come to with the servers
  that have returned, and a task in a `JoinSet` with its server not having returned.
  `ServersTypeCorrect` includes that an accept queue holds exactly the connections that
  wait for it, each once (`KernelInv`). `CertificateMatches`, for any bundles and any
  number of updates, rests on what `certificates_from_snap` computes (the last usable
  bundle with a name has it) and on `HandshakeInv`: between the two lookups the name has
  been missed in a map that was stored meanwhile. `CertConstants` says that snapshots are
  sequences of bundles and that no bundle has the missing name.
* `ForwardingProofs`: for any annotations, requests, headers and answers of the
  authorization service. `RetriesSendTheSame`: `AttemptInv` says that the captured request
  is the one at hand as long as it is being sent, and that a second attempt is made only
  when there was no body. `ForwardingTypeCorrect` and `SettingsSurvive` come from `FlowInv`:
  the rule in force is the one made of the annotations, within the widths.
  `RetriesAsConfigured` adds `RetryInv`, which counts what was sent against what is left.
  `HeadersFollowAnnotations` and `HopHeadersStay` add `HeaderInv`: which headers a request
  has at each point, from the client's to the captured ones. `AuthorizationHonoured` adds
  `AuthInv`: what the service was asked and said, and what its answer left in the headers.
  Both planes deduplicate the skip paths, one with case and one without. `LeadersKept` says
  what is left after both: an entry before which no other differs from it in case only
  (`Leads`), and nothing that was not listed.

  The operators are loops over lists (of rewrites, of names, of skip paths), so what they
  compute needs an induction. It is done by least counterexamples (`Least`, `Induct`, from
  the well-foundedness of the naturals): `LoopRuns` gives every loop its run, a sequence of
  intermediate values, and `RunTyped` and its kin say what each of them satisfies. The
  assumptions: `Widths` (the `int32` is no wider than the `int`, and holds the default
  timeout and 10), `PowersOfTwo` (arithmetic of `^` at these widths, which the provers do not
  know and TLC evaluates), `HeaderConstants` (the headers the proxy sets itself are not
  hop-by-hop; numbers are integers, lists are sequences), `LowerCase` (names of headers and
  protocols are in lower case), `DocumentedRange` (an `int32` holds the largest timeout) and
  `RequestBodies`.

Two definitions have their form because of the proofs: the arms of the CASEs in `Rewrite`
and `Atoi` exclude each other, since TLA+ leaves open which of two overlapping arms is
taken, and `Buckets` settles ties by position, since no listing is sorted by a strict order
when two rules tie.

Only model-checked: everything temporal beyond `[]`. These are the liveness properties of
`hub`, `manager`, `delivery`, `proxy`, `reconciler` and `servers`; fairness and ENABLED
are beyond the prover. All safety properties of the passing runs are proved.

## Not modelled

* The wording of answers, the URL of a redirect to sign in and the headers of the
  authorization request: text put together from the request, and nothing depends on it.
* The admin port: stateless answers. Nothing cancels or joins its listener.
* The certificate controller's own writes: GrpcManager has their effect, a Secret of a
  later bundle that reaches the node at some time. Which of two controllers writes last
  is up to the lease and the deployment.
* The end of the controller process: `GracefulStop` waits for Watch streams, and the
  models stop it suddenly.
* The client pool, with the annotation that chooses one that does not verify, TLS itself,
  flags: configuration of libraries. Generated code. The
  Gateway controller, which `main.go` does not start.

`PROJECT.json` lists each part with its reason, and the hazards no property covers.

## Next

Reconciler composed with StreamHub, in place of the latter's `Reconcile`.
