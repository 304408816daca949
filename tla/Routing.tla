------------------------------ MODULE Routing ------------------------------
(***************************************************************************)
(* What becomes of the rules of the Ingresses until a request is answered: *)
(* ToSnapshot and Sort on the control plane, RouteTable and the first part *)
(* of proxy_handler on the data plane.                                     *)
(*                                                                         *)
(* Hosts and paths are sequences of character codes, because the code      *)
(* compares, folds, joins and cuts them: only / A Z a z | and . matter.    *)
(* A backend stands for all else a cluster holds.                          *)
(***************************************************************************)
EXTENDS Integers, Sequences, FiniteSetsExt, Functions

CONSTANTS
    Hosts,         \* hosts of rules, <<>> for a rule without one
    Paths,         \* paths of rules
    Backends,
    RequestHosts,  \* what requests name as their host
    RequestPaths,
    MaxTargets     \* bound on the number of paths in all rules

\* A URI is shorter than 2^16 characters.
ASSUME RoutingConstants ==
    /\ MaxTargets \in Nat
    /\ <<>> \in Hosts
    /\ Hosts \union Paths \union RequestHosts \union RequestPaths \subseteq Seq(Nat)
    /\ \A p \in RequestPaths : Len(p) < 65536

PathTypes == {"Exact", "Prefix", "ImplementationSpecific"}
Targets == [host : Hosts, path : Paths, type : PathTypes, be : Backends]
Requests == [via : {"header", "uri", "none"}, host : RequestHosts, path : RequestPaths]

VARIABLES
    pc,       \* how far the configuration has come
    targets,  \* the paths of targetProxies
    snap,     \* the Snapshot: sequences of routes and of clusters
    table,    \* the RouteTable
    req,      \* the request
    answer    \* what routing finds for it

vars == <<pc, targets, snap, table, req, answer>>

----------------------------------------------------------------------------
(* Text *)

Dot == 46
Bar == 124

\* to_ascii_lowercase
Lower(s) == [n \in DOMAIN s |-> IF s[n] \in 65 .. 90 THEN s[n] + 32 ELSE s[n]]

\* trim_end_matches('.')
TrimDots(s) == SubSeq(s, 1, Max({0} \union {n \in DOMAIN s : s[n] # Dot}))

\* starts_with
StartsWith(s, p) == Len(p) <= Len(s) /\ \A n \in DOMAIN p : s[n] = p[n]

\* Go's < on strings
Less(s, t) ==
    \/ s # t /\ StartsWith(t, s)
    \/ \E n \in DOMAIN s \intersect DOMAIN t :
          s[n] < t[n] /\ \A m \in 1 .. n - 1 : s[m] = t[m]

----------------------------------------------------------------------------
(* Control plane *)

PathTypeRank(t) == CASE t = "Exact" -> 3 [] t = "Prefix" -> 2 [] OTHER -> 1

RoutePriority(path, t) == PathTypeRank(t) * 1000000 + Len(path)

ClusterName(t) == t.host \o <<Bar>> \o t.path

RouteOf(t) == [host |-> t.host, path |-> t.path, type |-> t.type, cluster |-> ClusterName(t),
               priority |-> RoutePriority(t.path, t.type)]

ClusterOf(t) == [name |-> ClusterName(t), be |-> t.be]

\* The order of routes in Sort.  PathType is compared as a pointer, which differs
\* between any two routes, so that Cluster is never compared; routes that get to
\* PathType have the same rank.
RouteBefore(a, b) ==
    \/ a.priority > b.priority
    \/ a.priority = b.priority /\ Less(a.host, b.host)
    \/ a.priority = b.priority /\ a.host = b.host /\ Less(a.path, b.path)

\* Mutated Sort: clusters stay in the order of the map iteration.
ClusterBeforeNever(a, b) == FALSE

ClusterBefore(a, b) == Less(a.name, b.name)

\* The orders in which a set can be listed.
Listings(S) == Bijection(1 .. Cardinality(S), S)

\* sort.Slice is not stable and maps are iterated in any order: a result is any
\* sequence in which nothing stands after what should follow it.
SortedRoutes(S) ==
    {s \in {[n \in DOMAIN o |-> RouteOf(o[n])] : o \in Listings(S)} :
        \A i, j \in DOMAIN s : i < j => ~RouteBefore(s[j], s[i])}

SortedClusters(S) ==
    {s \in {[n \in DOMAIN o |-> ClusterOf(o[n])] : o \in Listings(S)} :
        \A i, j \in DOMAIN s : i < j => ~ClusterBefore(s[j], s[i])}

\* toPbSnapshot copies the fields the data plane reads one by one; a priority, at
\* most 3 * 10^6 and the length of a path, fits into its int32.
ToPbSnapshot(rs, cs) == [routes |-> rs, clusters |-> cs]

\* parseEndpoints appends what the next path of a rule makes.  (Two paths with the
\* same host and path come from different rules.)
ParseEndpoints(t) ==
    /\ pc = "parse"
    /\ Cardinality(targets) < MaxTargets
    /\ targets' = targets \union {t}
    /\ UNCHANGED <<pc, snap, table, req, answer>>

\* Reconcile's ToSnapshot, and the snapshot as it is sent.
ToSnapshot ==
    /\ pc = "parse"
    /\ \E rs \in SortedRoutes(targets), cs \in SortedClusters(targets) : snap' = ToPbSnapshot(rs, cs)
    /\ pc' = "snapshot"
    /\ UNCHANGED <<targets, table, req, answer>>

----------------------------------------------------------------------------
(* Data plane *)

\* PathType::parse returns Some: routes of another type are dropped.
Parsed(t) == t \in {"Exact", "Prefix"}

\* The RouteRule made of a route; its host is the key of its bucket.
RuleOf(r) == [path |-> r.path, type |-> r.type, cluster |-> r.cluster, priority |-> r.priority]

\* The order inside a bucket: priority, length, Exact before Prefix.
RuleBefore(a, b) ==
    \/ a.priority > b.priority
    \/ a.priority = b.priority /\ Len(a.path) > Len(b.path)
    \/ /\ a.priority = b.priority /\ Len(a.path) = Len(b.path)
       /\ a.type = "Exact" /\ b.type = "Prefix"

\* The bucket of h, by what sort_by, which is stable, makes of it: the one listing of
\* its routes in which each comes before the next or is its equal and came before it.
Buckets(routes, h) ==
    LET own == {n \in DOMAIN routes : Parsed(routes[n].type) /\ Lower(routes[n].host) = h}
        rule(n) == RuleOf(routes[n])
    IN  {[i \in DOMAIN p |-> rule(p[i])] :
            p \in {q \in Listings(own) : \A i, j \in DOMAIN q : i < j =>
                      /\ ~RuleBefore(rule(q[j]), rule(q[i]))
                      /\ RuleBefore(rule(q[i]), rule(q[j])) \/ q[i] < q[j]}}

\* RouteTable::new.  Clusters are entered under their folded name, a later one
\* over an earlier one.
NewTable ==
    /\ pc = "snapshot"
    /\ LET cs == snap.clusters
           at(k) == cs[Max({n \in DOMAIN cs : Lower(cs[n].name) = k})]
           hosts == {Lower(r.host) : r \in {q \in Range(snap.routes) : Parsed(q.type)}}
       IN  \E b \in [hosts -> UNION {Buckets(snap.routes, h) : h \in hosts}] :
              /\ \A h \in hosts : b[h] \in Buckets(snap.routes, h)
              /\ table' = [routes   |-> b,
                           clusters |-> [k \in {Lower(c.name) : c \in Range(cs)} |-> at(k).be]]
    /\ pc' = "serving"
    /\ UNCHANGED <<targets, snap, req, answer>>

\* extract_host: the Host header is folded and loses its trailing dots; the host
\* of the URI stays as it is.
ExtractHost(q) == IF q.via = "header" THEN TrimDots(Lower(q.host)) ELSE q.host

Matches(r, path) == IF r.type = "Exact" THEN r.path = path ELSE StartsWith(path, r.path)

\* match_in_bucket: the first rule that matches, as a sequence of at most one.
MatchInBucket(h, path) ==
    LET rules == IF h \in DOMAIN table.routes THEN table.routes[h] ELSE <<>>
        hits == {n \in DOMAIN rules : Matches(rules[n], path)}
    IN  IF hits = {} THEN <<>> ELSE <<rules[Min(hits)]>>

\* Mutated choose_route: rules without a host come first.
ChooseRouteAnyHostFirst(h, path) ==
    IF MatchInBucket(<<>>, path) # <<>> THEN MatchInBucket(<<>>, path) ELSE MatchInBucket(h, path)

\* choose_route: the host's own rules, then those without a host.
ChooseRoute(h, path) ==
    IF MatchInBucket(h, path) # <<>> THEN MatchInBucket(h, path) ELSE MatchInBucket(<<>>, path)

NoRequest == [via |-> "none", host |-> <<>>, path |-> <<>>]
NoAnswer == [status |-> "none", route |-> <<>>, be |-> <<>>]
BadRequest == [NoAnswer EXCEPT !.status = "400"]
NotFound(r) == [NoAnswer EXCEPT !.status = "404", !.route = r]
Found(r) == [status |-> "found", route |-> r, be |-> <<table.clusters[r[1].cluster]>>]

\* resolve_route and resolve_cluster: the name is looked up unfolded.
AnswerTo(q) ==
    LET r == ChooseRoute(ExtractHost(q), q.path)
    IN  IF q.via = "none" THEN BadRequest
        ELSE IF r = <<>> \/ r[1].cluster \notin DOMAIN table.clusters THEN NotFound(r)
        ELSE Found(r)

\* proxy_handler up to the choice of a cluster.
Request(q) ==
    /\ pc = "serving"
    /\ answer = NoAnswer
    /\ req' = q
    /\ answer' = AnswerTo(q)
    /\ UNCHANGED <<pc, targets, snap, table>>

\* The handler returns.
Return ==
    /\ answer # NoAnswer
    /\ answer' = NoAnswer
    /\ req' = NoRequest
    /\ UNCHANGED <<pc, targets, snap, table>>

Init ==
    /\ pc = "parse"
    /\ targets = {}
    /\ snap = [routes |-> <<>>, clusters |-> <<>>]
    /\ table = [routes |-> <<>>, clusters |-> <<>>]
    /\ req = NoRequest
    /\ answer = NoAnswer

Next ==
    \/ \E t \in Targets : ParseEndpoints(t)
    \/ ToSnapshot
    \/ NewTable
    \/ \E q \in Requests : Request(q)
    \/ Return

Spec == Init /\ [][Next]_vars

----------------------------------------------------------------------------

\* The rules a request could be routed by.  A request with a Host header names its
\* host in any case, one with an absolute URI in lower case.
Candidates(host) ==
    {t \in targets : Lower(t.host) = host /\ Parsed(t.type) /\ Matches(RouteOf(t), req.path)}

\* t is preferred to u: an Exact path to a Prefix, else the longer one.
Preferred(t, u) ==
    \/ t.type = "Exact"
    \/ t.type = u.type /\ Len(t.path) >= Len(u.path)

\* However the rules were listed and sorted on either side, a request is routed by
\* the most specific rule for its host, and by one without a host only if none of
\* the host's own matches (choose_route, match_in_bucket and both sorts).
MostSpecific ==
    answer.status \in {"404", "found"} =>
        LET own == Candidates(TrimDots(Lower(req.host)))
            any == IF own = {} THEN Candidates(<<>>) ELSE own
        IN  (req.via = "uri" => req.host = TrimDots(Lower(req.host))) =>
              IF any = {} THEN answer.route = <<>>
              ELSE \E t \in any : answer.route = <<RuleOf(RouteOf(t))>> /\ \A u \in any : Preferred(t, u)

\* A path in lower case gets to its own backend even beside one that differs from
\* it in case only, though both clusters are entered under one name: Sort puts the
\* one in lower case last.
RoutedToItsBackend ==
    \A t \in targets :
        /\ answer.route = <<RuleOf(RouteOf(t))>>
        /\ ClusterName(t) = Lower(ClusterName(t))
        /\ \A u \in targets : ClusterName(u) = ClusterName(t) => u = t
        => answer.be = <<t.be>>

----------------------------------------------------------------------------
(* A statement of the repository *)

\* "Match Route by (host, path)", "Pick an Endpoint via the cluster's LB policy":
\* a request that matches a route gets to a cluster.
EveryRouteHasCluster == answer.route # <<>> => answer.status = "found"

============================================================================
