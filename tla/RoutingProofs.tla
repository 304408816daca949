--------------------------- MODULE RoutingProofs ---------------------------
(***************************************************************************)
(* A request is routed by the most specific rule and gets to its backend,  *)
(* for any rules, requests and number of them, however the rules were      *)
(* listed and sorted.  The invariant says what is left of the rules in     *)
(* the snapshot and in the table; the rest is about one lookup.            *)
(***************************************************************************)
EXTENDS Routing, FiniteSetTheorems, WellFoundedInduction, TLAPS

----------------------------------------------------------------------------
(* Numbers and text *)

\* Every set of naturals has a least element.
LEMMA Least ==
    ASSUME NEW T, T \subseteq Nat, T # {}
    PROVE  \E n \in T : \A m \in T : n <= m
  <1>1. \E x \in T : \A y \in T : <<y, x>> \notin OpToRel(<, Nat)
    BY WFMin, NatLessThanWellFounded
  <1>2. OpToRel(<, Nat) = {p \in Nat \X Nat : p[1] < p[2]}
    BY Zenon DEF OpToRel
  <1>3. PICK x \in T : \A y \in T : <<y, x>> \notin {p \in Nat \X Nat : p[1] < p[2]}
    BY <1>1, <1>2, Zenon
  <1>4. ASSUME NEW y \in T PROVE x <= y
    <2>1. <<y, x>> \in Nat \X Nat
      OBVIOUS
    <2>2. <<y, x>> \notin {p \in Nat \X Nat : p[1] < p[2]}
      BY <1>3
    <2>3. ~ (<<y, x>>[1] < <<y, x>>[2])
      BY <2>1, <2>2, Zenon
    <2> QED BY <2>3
  <1> QED
    BY <1>4

\* Min is the least element of a set of indices.
LEMMA MinIsLeast ==
    ASSUME NEW T, T \subseteq Nat, T # {}
    PROVE  Min(T) \in T /\ \A m \in T : Min(T) <= m
  BY Least, Zenon DEF Min

\* Max is the greatest element of a set of indices.
LEMMA MaxIsGreatest ==
    ASSUME NEW k \in Nat, NEW T \in SUBSET (1 .. k), T # {}
    PROVE  Max(T) \in T /\ \A m \in T : Max(T) >= m
  <1> DEFINE D == {d \in 0 .. k : k - d \in T}
  <1>1. \A m \in T : k - m \in D
    <2> SUFFICES ASSUME NEW m \in T PROVE k - m \in D
      OBVIOUS
    <2>1. m \in 1 .. k /\ k - (k - m) = m
      OBVIOUS
    <2> QED
      BY <2>1
  <1>2. D \subseteq Nat /\ D # {}
    <2>1. PICK m : m \in T
      OBVIOUS
    <2>2. k - m \in D
      BY <1>1, <2>1
    <2> QED
      BY <2>2
  <1>3. PICK d \in D : \A e \in D : d <= e
    <2> HIDE DEF D
    <2> QED
      BY <1>2, Least
  <1>4. ASSUME NEW m \in T PROVE k - d >= m
    <2>1. d <= k - m /\ m \in 1 .. k /\ d \in 0 .. k
      BY <1>1, <1>3
    <2> QED
      BY <2>1
  <1>5. \E y \in T : \A m \in T : y >= m
    BY <1>3, <1>4
  <1> QED
    BY <1>5, Zenon DEF Max

\* A text that is not in lower case comes before the same text in lower case.
LEMMA LowerIsLast ==
    ASSUME NEW s \in Seq(Nat), Lower(s) # s
    PROVE  Less(s, Lower(s))
  <1> DEFINE k == Lower(s)
             D == {n \in DOMAIN s : k[n] # s[n]}
  <1>1. /\ DOMAIN k = DOMAIN s /\ DOMAIN s \subseteq Nat
        /\ \A n \in DOMAIN s : k[n] = IF s[n] \in 65 .. 90 THEN s[n] + 32 ELSE s[n]
    BY DEF Lower
  <1>2. D # {}
    <2>1. s = [n \in DOMAIN s |-> s[n]] /\ k = [n \in DOMAIN s |-> k[n]]
      BY DEF Lower
    <2> QED
      BY <2>1, Zenon
  <1> HIDE DEF k
  <1>3. PICK n \in D : \A m \in D : n <= m
    BY <1>1, <1>2, Least
  <1>4. s[n] \in Nat /\ n \in DOMAIN s
    BY <1>3
  <1>5. s[n] < k[n]
    BY <1>1, <1>3, <1>4
  <1>6. ASSUME NEW m \in 1 .. n - 1 PROVE s[m] = k[m]
    <2>1. m \in DOMAIN s /\ ~(n <= m)
      BY <1>4
    <2> QED
      BY <1>3, <2>1
  <1> QED
    BY <1>1, <1>4, <1>5, <1>6 DEF Less, k

\* The name of a cluster is a text.
LEMMA NamesAreText ==
    ASSUME NEW t \in Targets
    PROVE  t.host \in Seq(Nat) /\ t.path \in Seq(Nat) /\ ClusterName(t) \in Seq(Nat)
  <1>1. t.host \in Seq(Nat) /\ t.path \in Seq(Nat)
    BY RoutingConstants, SMT DEF Targets
  <1>2. <<Bar>> \in Seq(Nat)
    BY DEF Bar
  <1> QED
    BY <1>1, <1>2 DEF ClusterName

\* The ranks of the path types.
LEMMA Ranks ==
    /\ PathTypeRank("Exact") = 3 /\ PathTypeRank("Prefix") = 2
    /\ PathTypeRank("ImplementationSpecific") = 1
  BY DEF PathTypeRank

\* A priority is a number.
LEMMA PriorityIsNumber ==
    ASSUME NEW t \in Targets
    PROVE  RoutePriority(t.path, t.type) \in Nat /\ Len(t.path) \in Nat
  <1>1. PathTypeRank(t.type) \in Nat
    <2>1. t.type \in {"Exact", "Prefix", "ImplementationSpecific"}
      BY DEF Targets, PathTypes
    <2>2. 1 \in Nat /\ 2 \in Nat /\ 3 \in Nat
      OBVIOUS
    <2> QED
      BY <2>1, <2>2, Ranks, Zenon
  <1>2. Len(t.path) \in Nat
    BY NamesAreText
  <1> QED
    BY <1>1, <1>2, SMT DEF RoutePriority

----------------------------------------------------------------------------
(* The invariant *)

\* The snapshot has a route and a cluster for every path, and no cluster stands
\* before one whose name is less.
SnapInv ==
    pc # "parse" =>
        /\ DOMAIN snap.routes = 1 .. Cardinality(targets)
        /\ Range(snap.routes) = {RouteOf(t) : t \in targets}
        /\ DOMAIN snap.clusters = 1 .. Cardinality(targets)
        /\ Range(snap.clusters) = {ClusterOf(t) : t \in targets}
        /\ \A i, j \in DOMAIN snap.clusters : i < j => ~ClusterBefore(snap.clusters[j], snap.clusters[i])

\* The paths of host h that the data plane knows.
Known(h) == {t \in targets : Parsed(t.type) /\ Lower(t.host) = h}

\* A bucket has the rules of its host, and none stands before one that precedes it.
BucketInv(b, h) ==
    /\ DOMAIN b \subseteq Nat
    /\ Range(b) = {RuleOf(RouteOf(t)) : t \in Known(h)}
    /\ \A i, j \in DOMAIN b : i < j => ~RuleBefore(b[j], b[i])

\* t is the only path with its cluster name, which is in lower case.
OwnName(t) ==
    /\ ClusterName(t) = Lower(ClusterName(t))
    /\ \A u \in targets : ClusterName(u) = ClusterName(t) => u = t

\* The table has a bucket for every known host, and under a name in lower case the
\* cluster that has this very name.
TableInv ==
    pc = "serving" =>
        /\ DOMAIN table.routes = {Lower(t.host) : t \in {u \in targets : Parsed(u.type)}}
        /\ \A h \in DOMAIN table.routes : BucketInv(table.routes[h], h)
        /\ \A t \in targets : OwnName(t) =>
              ClusterName(t) \in DOMAIN table.clusters /\ table.clusters[ClusterName(t)] = t.be

\* There is an answer only while the table serves, and it is the table's.
AnswerInv ==
    /\ targets \subseteq Targets /\ IsFiniteSet(targets)
    /\ pc \in {"parse", "snapshot", "serving"}
    /\ answer # NoAnswer => pc = "serving" /\ req \in Requests /\ answer = AnswerTo(req)

RoutingInv == AnswerInv /\ SnapInv /\ TableInv

\* A sorted listing has all elements.
LEMMA ListingHasAll ==
    ASSUME NEW S, NEW o \in Listings(S), IsFiniteSet(S)
    PROVE  /\ \E k \in Nat : DOMAIN o = 1 .. k
           /\ \A i \in DOMAIN o : o[i] \in S
           /\ \A x \in S : \E i \in DOMAIN o : o[i] = x
  <1>1. Cardinality(S) \in Nat
    BY FS_CardinalityType
  <1> QED
    BY <1>1 DEF Listings, Bijection, Surjection, Injection

----------------------------------------------------------------------------
(* The steps that build the snapshot and the table *)

\* A bucket that RouteTable::new makes has the rules of its host in order.
LEMMA BucketsInOrder ==
    ASSUME AnswerInv, SnapInv, pc # "parse", NEW h, NEW b \in Buckets(snap.routes, h)
    PROVE  BucketInv(b, h)
  <1> DEFINE rs == snap.routes
             own == {n \in DOMAIN rs : Parsed(rs[n].type) /\ Lower(rs[n].host) = h}
             rule(n) == RuleOf(rs[n])
  <1>1. PICK q \in Listings(own) :
           /\ b = [i \in DOMAIN q |-> rule(q[i])]
           /\ \A i, j \in DOMAIN q : i < j => ~RuleBefore(rule(q[j]), rule(q[i]))
    BY Zenon DEF Buckets
  <1>2. IsFiniteSet(own)
    <2>1. Cardinality(targets) \in Nat
      BY FS_CardinalityType DEF AnswerInv
    <2>2. IsFiniteSet(1 .. Cardinality(targets))
      BY <2>1, FS_Interval
    <2>3. own \subseteq 1 .. Cardinality(targets)
      BY DEF SnapInv
    <2> HIDE DEF own
    <2> QED
      BY <2>2, <2>3, FS_Subset
  <1>3. /\ DOMAIN q \subseteq Nat
        /\ \A i \in DOMAIN q : q[i] \in own
        /\ \A n \in own : \E i \in DOMAIN q : q[i] = n
    <2> HIDE DEF own
    <2>1. PICK k \in Nat : DOMAIN q = 1 .. k
      BY <1>2, ListingHasAll
    <2>2. 1 .. k \subseteq Nat
      OBVIOUS
    <2> QED
      BY <1>2, <2>1, <2>2, ListingHasAll, Zenon
  <1>4. Range(rs) = {RouteOf(t) : t \in targets}
    BY DEF SnapInv
  <1>5. ASSUME NEW i \in DOMAIN b PROVE b[i] \in {RuleOf(RouteOf(t)) : t \in Known(h)}
    <2>1. q[i] \in own /\ b[i] = rule(q[i])
      BY <1>1, <1>3
    <2>2. rs[q[i]] \in Range(rs)
      BY <2>1 DEF Range
    <2>3. PICK t \in targets : rs[q[i]] = RouteOf(t)
      BY <1>4, <2>2
    <2>4. Parsed(t.type) /\ Lower(t.host) = h
      BY <2>1, <2>3 DEF RouteOf
    <2> QED
      BY <2>1, <2>3, <2>4 DEF Known
  <1>6. ASSUME NEW t \in Known(h) PROVE \E i \in DOMAIN b : b[i] = RuleOf(RouteOf(t))
    <2>1. RouteOf(t) \in Range(rs)
      BY <1>4 DEF Known
    <2>2. PICK n \in DOMAIN rs : rs[n] = RouteOf(t)
      BY <2>1 DEF Range
    <2>3. n \in own
      BY <2>2 DEF Known, RouteOf
    <2>4. PICK i \in DOMAIN q : q[i] = n
      BY <1>3, <2>3
    <2> QED
      BY <1>1, <2>2, <2>4
  <1>7. Range(b) = {RuleOf(RouteOf(t)) : t \in Known(h)}
    BY <1>5, <1>6, Zenon DEF Range
  <1>8. \A i, j \in DOMAIN b : i < j => ~RuleBefore(b[j], b[i])
    BY <1>1
  <1>9. DOMAIN b \subseteq Nat
    BY <1>1, <1>3
  <1> QED
    BY <1>7, <1>8, <1>9, Zenon DEF BucketInv

\* Of the clusters entered under one name, the last one has it in lower case, if
\* any has.
LEMMA LastIsLower ==
    ASSUME AnswerInv, SnapInv, pc # "parse", NEW t \in targets, OwnName(t)
    PROVE  LET cs == snap.clusters
               own == {n \in DOMAIN cs : Lower(cs[n].name) = ClusterName(t)}
           IN  /\ ClusterName(t) \in {Lower(c.name) : c \in Range(cs)}
               /\ cs[Max(own)].be = t.be
  <1> DEFINE cs == snap.clusters
             own == {n \in DOMAIN cs : Lower(cs[n].name) = ClusterName(t)}
             m == Max(own)
  <1>1. Cardinality(targets) \in Nat /\ DOMAIN cs = 1 .. Cardinality(targets)
    BY FS_CardinalityType DEF AnswerInv, SnapInv
  <1>2. Range(cs) = {ClusterOf(u) : u \in targets}
    BY DEF SnapInv
  <1>3. PICK i \in DOMAIN cs : cs[i] = ClusterOf(t)
    BY <1>2, Zenon DEF Range
  <1>4. cs[i].name = ClusterName(t) /\ Lower(cs[i].name) = ClusterName(t)
    BY <1>3 DEF ClusterOf, OwnName
  <1>5. ClusterName(t) \in {Lower(c.name) : c \in Range(cs)}
    BY <1>4, Zenon DEF Range
  <1>6. i \in own /\ own \subseteq 1 .. Cardinality(targets)
    BY <1>1, <1>4
  <1>7. m \in own /\ m >= i
    <2> HIDE DEF own
    <2> QED
      BY <1>1, <1>6, MaxIsGreatest
  <1>8. m \in DOMAIN cs /\ Lower(cs[m].name) = ClusterName(t)
    <2> HIDE DEF m
    <2> QED
      BY <1>7
  <1> HIDE DEF own, m
  <1>9. PICK u \in targets : cs[m] = ClusterOf(u)
    BY <1>2, <1>8, Zenon DEF Range
  <1>10. Lower(ClusterName(u)) = ClusterName(t)
    BY <1>8, <1>9 DEF ClusterOf
  <1>11. ClusterName(u) \in Seq(Nat)
    BY NamesAreText DEF AnswerInv
  <1>12. ClusterName(u) = ClusterName(t)
    <2> SUFFICES ASSUME ClusterName(u) # ClusterName(t) PROVE FALSE
      OBVIOUS
    <2>1. Less(ClusterName(u), ClusterName(t))
      BY <1>10, <1>11, LowerIsLast
    <2>2. ClusterBefore(cs[m], cs[i])
      BY <1>3, <1>9, <2>1 DEF ClusterBefore, ClusterOf
    <2>3. m # i
      BY <1>3, <1>9 DEF ClusterOf
    <2>4. i < m
      BY <1>1, <1>7, <1>8, <2>3
    <2> QED
      BY <1>8, <2>2, <2>4 DEF SnapInv
  <1>13. u = t
    BY <1>12 DEF OwnName
  <1> QED
    BY <1>5, <1>9, <1>13 DEF ClusterOf, own, m

\* What ToSnapshot makes has every path once, in order.
LEMMA SnapshotMade ==
    ASSUME RoutingInv, ToSnapshot
    PROVE  SnapInv'
  <1>1. PICK rs \in SortedRoutes(targets), cs \in SortedClusters(targets) :
           snap' = [routes |-> rs, clusters |-> cs]
    BY Zenon DEF ToSnapshot, ToPbSnapshot
  <1>2. targets' = targets /\ IsFiniteSet(targets) /\ Cardinality(targets) \in Nat
    BY FS_CardinalityType DEF ToSnapshot, RoutingInv, AnswerInv
  <1>3. PICK o \in Listings(targets) : rs = [n \in DOMAIN o |-> RouteOf(o[n])]
    BY Zenon DEF SortedRoutes
  <1>4. PICK p \in Listings(targets) : cs = [n \in DOMAIN p |-> ClusterOf(p[n])]
    BY Zenon DEF SortedClusters
  <1>5. DOMAIN o = 1 .. Cardinality(targets) /\ DOMAIN p = 1 .. Cardinality(targets)
    BY DEF Listings, Bijection, Surjection
  <1>6. Range(rs) = {RouteOf(t) : t \in targets}
    <2>1. \A n \in DOMAIN o : o[n] \in targets
      BY <1>2, ListingHasAll, Zenon
    <2>2. \A t \in targets : \E n \in DOMAIN o : o[n] = t
      BY <1>2, ListingHasAll, Zenon
    <2>3. DOMAIN rs = DOMAIN o /\ \A n \in DOMAIN o : rs[n] = RouteOf(o[n])
      BY <1>3
    <2>4. ASSUME NEW n \in DOMAIN rs PROVE rs[n] \in {RouteOf(t) : t \in targets}
      BY <2>1, <2>3
    <2>5. ASSUME NEW t \in targets PROVE \E n \in DOMAIN rs : rs[n] = RouteOf(t)
      BY <2>2, <2>3
    <2> QED
      BY <2>4, <2>5, Zenon DEF Range
  <1>7. Range(cs) = {ClusterOf(t) : t \in targets}
    <2>1. \A n \in DOMAIN p : p[n] \in targets
      BY <1>2, ListingHasAll, Zenon
    <2>2. \A t \in targets : \E n \in DOMAIN p : p[n] = t
      BY <1>2, ListingHasAll, Zenon
    <2>3. DOMAIN cs = DOMAIN p /\ \A n \in DOMAIN p : cs[n] = ClusterOf(p[n])
      BY <1>4
    <2>4. ASSUME NEW n \in DOMAIN cs PROVE cs[n] \in {ClusterOf(t) : t \in targets}
      BY <2>1, <2>3
    <2>5. ASSUME NEW t \in targets PROVE \E n \in DOMAIN cs : cs[n] = ClusterOf(t)
      BY <2>2, <2>3
    <2> QED
      BY <2>4, <2>5, Zenon DEF Range
  <1>8. \A i, j \in DOMAIN cs : i < j => ~ClusterBefore(cs[j], cs[i])
    BY Zenon DEF SortedClusters
  <1>9. snap'.routes = rs /\ snap'.clusters = cs
    BY <1>1
  <1>10. DOMAIN rs = 1 .. Cardinality(targets) /\ DOMAIN cs = 1 .. Cardinality(targets)
    BY <1>3, <1>4, <1>5
  <1> QED
    BY <1>2, <1>6, <1>7, <1>8, <1>9, <1>10 DEF SnapInv

\* What RouteTable::new makes of a snapshot is as the invariant says.
LEMMA TableMade ==
    ASSUME RoutingInv, NewTable
    PROVE  TableInv'
  <1> DEFINE cs == snap.clusters
             at(k) == cs[Max({n \in DOMAIN cs : Lower(cs[n].name) = k})]
             hosts == {Lower(r.host) : r \in {q \in Range(snap.routes) : Parsed(q.type)}}
  <1>1. PICK b \in [hosts -> UNION {Buckets(snap.routes, h) : h \in hosts}] :
           /\ \A h \in hosts : b[h] \in Buckets(snap.routes, h)
           /\ table' = [routes   |-> b,
                        clusters |-> [k \in {Lower(c.name) : c \in Range(cs)} |-> at(k).be]]
    BY DEF NewTable
  <1>2. targets' = targets /\ pc # "parse" /\ AnswerInv /\ SnapInv
    BY DEF NewTable, RoutingInv
  <1>3. hosts = {Lower(t.host) : t \in {u \in targets : Parsed(u.type)}}
    <2>1. Range(snap.routes) = {RouteOf(t) : t \in targets}
      BY <1>2 DEF SnapInv
    <2>2. \A t \in targets : RouteOf(t).host = t.host /\ RouteOf(t).type = t.type
      BY DEF RouteOf
    <2>3. ASSUME NEW t \in targets, Parsed(t.type) PROVE Lower(t.host) \in hosts
      <3>1. RouteOf(t) \in {q \in Range(snap.routes) : Parsed(q.type)}
        BY <2>1, <2>2, <2>3
      <3> QED
        BY <2>2, <3>1
    <2>4. ASSUME NEW r \in Range(snap.routes), Parsed(r.type)
          PROVE  Lower(r.host) \in {Lower(t.host) : t \in {u \in targets : Parsed(u.type)}}
      <3>1. PICK t \in targets : r = RouteOf(t)
        BY <2>1
      <3>2. t \in {u \in targets : Parsed(u.type)}
        BY <2>2, <2>4, <3>1
      <3> QED
        BY <2>2, <3>1, <3>2
    <2> QED
      BY <2>3, <2>4, Zenon
  <1>4. DOMAIN b = hosts
    OBVIOUS
  <1>5. \A h \in hosts : BucketInv(b[h], h)
    BY <1>1, <1>2, BucketsInOrder, Zenon
  <1>6. table'.routes = b /\ table'.clusters = [k \in {Lower(c.name) : c \in Range(cs)} |-> at(k).be]
    <2> HIDE DEF hosts, at, cs
    <2> QED
      BY <1>1
  <1>7. ASSUME NEW t \in targets, OwnName(t)
        PROVE  ClusterName(t) \in DOMAIN table'.clusters /\ table'.clusters[ClusterName(t)] = t.be
    <2>1. /\ ClusterName(t) \in {Lower(c.name) : c \in Range(cs)}
          /\ at(ClusterName(t)).be = t.be
      BY <1>2, <1>7, LastIsLower, Zenon
    <2> HIDE DEF at, cs
    <2> QED
      BY <1>6, <2>1
  <1>8. \A h : Known(h)' = Known(h)
    BY <1>2 DEF Known
  <1>9. \A t : OwnName(t)' <=> OwnName(t)
    BY <1>2 DEF OwnName
  <1> HIDE DEF hosts, at, cs
  <1>10. DOMAIN table'.routes = {Lower(t.host) : t \in {u \in targets' : Parsed(u.type)}}
    BY <1>2, <1>3, <1>4, <1>6
  <1>11. (\A h \in DOMAIN table.routes : BucketInv(table.routes[h], h))'
    BY <1>4, <1>5, <1>6, <1>8 DEF BucketInv
  <1> QED
    BY <1>2, <1>7, <1>9, <1>10, <1>11 DEF TableInv

----------------------------------------------------------------------------
(* The lookup *)

\* The paths of host h that match a request's path.
Matching(h, path) == {t \in Known(h) : Matches(RouteOf(t), path)}

\* r is the rule of one of the paths T, and none of T precedes it.
FirstOf(r, T) ==
    \E t \in T : r = <<RuleOf(RouteOf(t))>> /\ \A u \in T : ~RuleBefore(RuleOf(RouteOf(u)), RuleOf(RouteOf(t)))

\* match_in_bucket finds a rule if one of the host matches, and then one that no
\* matching rule of the host precedes.
LEMMA FirstMatch ==
    ASSUME AnswerInv, TableInv, pc = "serving", NEW h, NEW path
    PROVE  /\ Matching(h, path) = {} => MatchInBucket(h, path) = <<>>
           /\ Matching(h, path) # {} => FirstOf(MatchInBucket(h, path), Matching(h, path))
  <1> DEFINE b == table.routes[h]
             hits == {n \in DOMAIN b : Matches(b[n], path)}
  <1>1. \A t : Matches(RuleOf(RouteOf(t)), path) <=> Matches(RouteOf(t), path)
    BY DEF Matches, RuleOf, RouteOf
  <1>2. DOMAIN table.routes = {Lower(t.host) : t \in {u \in targets : Parsed(u.type)}}
    BY DEF TableInv
  <1>3. CASE h \notin DOMAIN table.routes
    <2>1. Matching(h, path) = {}
      BY <1>2, <1>3 DEF Matching, Known
    <2>2. MatchInBucket(h, path) = <<>>
      BY <1>3 DEF MatchInBucket
    <2> QED
      BY <2>1, <2>2
  <1>4. CASE h \in DOMAIN table.routes
    <2>1. BucketInv(b, h)
      BY <1>4 DEF TableInv
    <2>2. MatchInBucket(h, path) = IF hits = {} THEN <<>> ELSE <<b[Min(hits)]>>
      BY <1>4, Zenon DEF MatchInBucket
    <2> HIDE DEF b
    <2>3. ASSUME NEW n \in hits
          PROVE  \E t \in Matching(h, path) : b[n] = RuleOf(RouteOf(t))
      <3>1. n \in DOMAIN b /\ Matches(b[n], path)
        BY <2>3
      <3>2. PICK t \in Known(h) : b[n] = RuleOf(RouteOf(t))
        BY <2>1, <3>1, Zenon DEF BucketInv, Range
      <3> QED
        BY <1>1, <3>1, <3>2, Zenon DEF Matching
    <2>4. ASSUME NEW t \in Matching(h, path)
          PROVE  \E n \in hits : b[n] = RuleOf(RouteOf(t))
      <3>1. t \in Known(h) /\ Matches(RouteOf(t), path)
        BY DEF Matching
      <3>2. PICK n \in DOMAIN b : b[n] = RuleOf(RouteOf(t))
        BY <2>1, <3>1, Zenon DEF BucketInv, Range
      <3> QED
        BY <1>1, <3>1, <3>2, Zenon
    <2>5. CASE hits = {}
      BY <2>2, <2>4, <2>5
    <2>6. CASE hits # {}
      <3> DEFINE i == Min(hits)
      <3>1. hits \subseteq Nat
        BY <2>1 DEF BucketInv
      <3>2. i \in hits /\ \A n \in hits : i <= n
        <4> HIDE DEF hits
        <4> QED
          BY <2>6, <3>1, MinIsLeast
      <3>3. MatchInBucket(h, path) = <<b[i]>>
        BY <2>2, <2>6, Zenon
      <3> HIDE DEF i
      <3>4. PICK t \in Matching(h, path) : b[i] = RuleOf(RouteOf(t))
        BY <2>3, <3>2, Zenon
      <3>5. ASSUME NEW u \in Matching(h, path)
            PROVE  ~RuleBefore(RuleOf(RouteOf(u)), RuleOf(RouteOf(t)))
        <4>1. PICK n \in hits : b[n] = RuleOf(RouteOf(u))
          BY <2>4, Zenon
        <4>2. CASE n = i
          <5>1. RuleOf(RouteOf(u)) = RuleOf(RouteOf(t))
            BY <3>4, <4>1, <4>2
          <5>2. RoutePriority(t.path, t.type) \in Nat /\ Len(t.path) \in Nat
            BY PriorityIsNumber DEF Matching, Known, AnswerInv
          <5>3. ~RuleBefore(RuleOf(RouteOf(t)), RuleOf(RouteOf(t)))
            BY <5>2, SMT DEF RuleBefore, RuleOf, RouteOf
          <5> QED
            BY <5>1, <5>3, Zenon
        <4>3. CASE n # i
          <5>1. i < n
            BY <3>1, <3>2, <4>3
          <5> QED
            BY <2>1, <3>2, <3>4, <4>1, <5>1, Zenon DEF BucketInv
        <4> QED
          BY <4>2, <4>3
      <3>6. FirstOf(MatchInBucket(h, path), Matching(h, path))
        BY <3>3, <3>4, <3>5, Zenon DEF FirstOf
      <3> QED
        BY <3>4, <3>6
    <2> QED
      BY <2>5, <2>6
  <1> QED
    BY <1>3, <1>4

\* Of two rules that match a path the preferred one is never behind the other: the
\* lengths of paths do not reach into the ranks of a priority.
LEMMA NotBeforeIsPreferred ==
    ASSUME NEW t \in Targets, NEW u \in Targets, Parsed(t.type), Parsed(u.type),
           NEW path \in RequestPaths, Matches(RouteOf(t), path),
           ~RuleBefore(RuleOf(RouteOf(u)), RuleOf(RouteOf(t)))
    PROVE  Preferred(t, u)
  <1>1. Len(t.path) \in Nat /\ Len(u.path) \in Nat
    BY PriorityIsNumber
  <1>2. CASE t.type = "Exact"
    BY <1>2 DEF Preferred
  <1>3. CASE t.type = "Prefix"
    <2>1. Len(t.path) < 65536
      <3>1. Len(t.path) <= Len(path)
        BY <1>3 DEF Matches, StartsWith, RouteOf
      <3>2. Len(path) \in Nat /\ Len(path) < 65536
        BY RoutingConstants, SMT
      <3> QED
        BY <1>1, <3>1, <3>2, SMT
    <2>2. ~(RoutePriority(u.path, u.type) > RoutePriority(t.path, t.type))
      BY DEF RuleBefore, RuleOf, RouteOf
    <2>3. RoutePriority(t.path, t.type) = 2000000 + Len(t.path)
      BY <1>1, <1>3, Ranks, SMT DEF RoutePriority
    <2>4. u.type # "Exact"
      <3> SUFFICES ASSUME u.type = "Exact" PROVE FALSE
        OBVIOUS
      <3>1. RoutePriority(u.path, u.type) = 3000000 + Len(u.path)
        BY <1>1, Ranks, SMT DEF RoutePriority
      <3> QED
        BY <1>1, <2>1, <2>2, <2>3, <3>1, SMT
    <2>5. u.type = "Prefix"
      BY <2>4 DEF Parsed
    <2>6. RoutePriority(u.path, u.type) = 2000000 + Len(u.path)
      BY <1>1, <2>5, Ranks, SMT DEF RoutePriority
    <2>7. Len(t.path) >= Len(u.path)
      BY <1>1, <2>2, <2>3, <2>6, SMT
    <2> QED
      BY <1>3, <2>5, <2>7 DEF Preferred
  <1> QED
    BY <1>2, <1>3 DEF Parsed

\* An answer to a request that names a host has the route chosen.
LEMMA AnswerHasRoute ==
    ASSUME NEW q \in Requests, q.via # "none"
    PROVE  AnswerTo(q).route = ChooseRoute(ExtractHost(q), q.path)
  BY SMT DEF AnswerTo, NotFound, NoAnswer, Found

----------------------------------------------------------------------------
(* Theorems *)

\* The snapshot and the table hold what the rules say, whatever is asked of them.
THEOREM TablesAreTrue == Spec => []RoutingInv
  <1>1. Init => RoutingInv
    BY FS_EmptySet DEF Init, RoutingInv, AnswerInv, SnapInv, TableInv
  <1>2. RoutingInv /\ [Next]_vars => RoutingInv'
    <2> SUFFICES ASSUME RoutingInv, [Next]_vars PROVE RoutingInv'
      OBVIOUS
    <2>1. ASSUME NEW t \in Targets, ParseEndpoints(t) PROVE RoutingInv'
      <3>1. pc' = "parse" /\ pc = "parse" /\ answer' = answer /\ targets' = targets \union {t}
        BY <2>1 DEF ParseEndpoints
      <3>2. answer = NoAnswer /\ NoAnswer' = NoAnswer
        BY <3>1, Zenon DEF RoutingInv, AnswerInv, NoAnswer
      <3>3. IsFiniteSet(targets')
        BY <3>1, FS_AddElement DEF RoutingInv, AnswerInv
      <3>4. targets' \subseteq Targets
        BY <3>1 DEF RoutingInv, AnswerInv
      <3>5. AnswerInv'
        BY <3>1, <3>2, <3>3, <3>4 DEF AnswerInv
      <3>6. SnapInv' /\ TableInv'
        BY <3>1 DEF SnapInv, TableInv
      <3> QED
        BY <3>5, <3>6 DEF RoutingInv
    <2>2. CASE ToSnapshot
      <3>1. pc' = "snapshot" /\ pc = "parse" /\ answer' = answer /\ targets' = targets
        BY <2>2 DEF ToSnapshot
      <3>2. answer = NoAnswer /\ NoAnswer' = NoAnswer
        BY <3>1, Zenon DEF RoutingInv, AnswerInv, NoAnswer
      <3>3. AnswerInv'
        BY <3>1, <3>2 DEF AnswerInv, RoutingInv
      <3>4. TableInv'
        BY <3>1 DEF TableInv
      <3> QED
        BY <2>2, <3>3, <3>4, SnapshotMade DEF RoutingInv
    <2>3. CASE NewTable
      <3>1. pc' = "serving" /\ pc = "snapshot" /\ answer' = answer /\ targets' = targets /\ snap' = snap
        BY <2>3 DEF NewTable
      <3>2. answer = NoAnswer /\ NoAnswer' = NoAnswer
        BY <3>1, Zenon DEF RoutingInv, AnswerInv, NoAnswer
      <3>3. AnswerInv'
        BY <3>1, <3>2 DEF AnswerInv, RoutingInv
      <3>4. SnapInv'
        BY <3>1 DEF SnapInv, RoutingInv
      <3> QED
        BY <2>3, <3>3, <3>4, TableMade DEF RoutingInv
    <2>4. ASSUME NEW q \in Requests, Request(q) PROVE RoutingInv'
      <3>1. /\ pc' = pc /\ pc = "serving" /\ targets' = targets /\ snap' = snap /\ table' = table
            /\ req' = q /\ answer' = AnswerTo(q)
        BY <2>4 DEF Request
      <3>2. AnswerTo(req)' = AnswerTo(q)
        BY <3>1, Zenon DEF AnswerTo, ChooseRoute, MatchInBucket, Found, NotFound, BadRequest, NoAnswer
      <3>3. AnswerInv'
        BY <3>1, <3>2 DEF AnswerInv, RoutingInv
      <3>4. SnapInv' /\ TableInv'
        BY <3>1 DEF SnapInv, TableInv, RoutingInv, BucketInv, Known, OwnName
      <3> QED
        BY <3>3, <3>4 DEF RoutingInv
    <2>5. CASE Return
      <3>1. /\ pc' = pc /\ targets' = targets /\ snap' = snap /\ table' = table
            /\ answer' = NoAnswer
        BY <2>5 DEF Return
      <3>2. NoAnswer' = NoAnswer
        BY DEF NoAnswer
      <3>3. AnswerInv'
        BY <3>1, <3>2 DEF AnswerInv, RoutingInv
      <3>4. SnapInv' /\ TableInv'
        BY <3>1 DEF SnapInv, TableInv, RoutingInv, BucketInv, Known, OwnName
      <3> QED
        BY <3>3, <3>4 DEF RoutingInv
    <2>6. CASE UNCHANGED vars
      <3>1. /\ pc' = pc /\ targets' = targets /\ snap' = snap /\ table' = table
            /\ req' = req /\ answer' = answer
        BY <2>6 DEF vars
      <3>2. NoAnswer' = NoAnswer /\ AnswerTo(req)' = AnswerTo(req)
        BY <3>1, Zenon DEF AnswerTo, ChooseRoute, MatchInBucket, Found, NotFound, BadRequest, NoAnswer
      <3>3. AnswerInv'
        BY <3>1, <3>2 DEF AnswerInv, RoutingInv
      <3>4. SnapInv' /\ TableInv'
        BY <3>1 DEF SnapInv, TableInv, RoutingInv, BucketInv, Known, OwnName
      <3> QED
        BY <3>3, <3>4 DEF RoutingInv
    <2> QED
      BY <2>1, <2>2, <2>3, <2>4, <2>5, <2>6 DEF Next
  <1> QED
    BY <1>1, <1>2, PTL DEF Spec

\* However the rules were listed and sorted on either side, a request is routed by
\* the most specific rule for its host, and by one without a host only if none of
\* the host's own matches: for any rules, and any number of them.
THEOREM RoutedByMostSpecific == Spec => []MostSpecific
  <1>1. RoutingInv => MostSpecific
    <2> DEFINE h == TrimDots(Lower(req.host))
               own == Candidates(h)
               any == IF own = {} THEN Candidates(<<>>) ELSE own
    <2> SUFFICES ASSUME RoutingInv, answer.status \in {"404", "found"},
                        req.via = "uri" => req.host = h
                 PROVE  IF any = {} THEN answer.route = <<>>
                        ELSE \E t \in any : /\ answer.route = <<RuleOf(RouteOf(t))>>
                                            /\ \A u \in any : Preferred(t, u)
      BY Zenon DEF MostSpecific
    <2>1. answer # NoAnswer
      BY DEF NoAnswer
    <2>2. AnswerInv /\ TableInv /\ pc = "serving" /\ req \in Requests /\ answer = AnswerTo(req)
      BY <2>1, Zenon DEF RoutingInv, AnswerInv
    <2>3. req.via # "none"
      <3> SUFFICES ASSUME req.via = "none" PROVE FALSE
        OBVIOUS
      <3>1. answer = BadRequest
        BY <2>2, Zenon DEF AnswerTo
      <3> QED
        BY <3>1 DEF BadRequest, NoAnswer
    <2>4. ExtractHost(req) = h
      BY <2>2, <2>3 DEF ExtractHost, Requests
    <2>5. answer.route = ChooseRoute(h, req.path)
      BY <2>2, <2>3, <2>4, AnswerHasRoute
    <2> HIDE DEF h
    <2>6. \A g : Candidates(g) = Matching(g, req.path)
      BY DEF Candidates, Matching, Known
    <2>7. ASSUME NEW g, Candidates(g) # {}
          PROVE  \E t \in Candidates(g) : /\ MatchInBucket(g, req.path) = <<RuleOf(RouteOf(t))>>
                                          /\ \A u \in Candidates(g) : Preferred(t, u)
      <3>1. FirstOf(MatchInBucket(g, req.path), Candidates(g))
        BY <2>2, <2>6, <2>7, FirstMatch, Zenon
      <3>2. PICK t \in Candidates(g) :
               /\ MatchInBucket(g, req.path) = <<RuleOf(RouteOf(t))>>
               /\ \A u \in Candidates(g) : ~RuleBefore(RuleOf(RouteOf(u)), RuleOf(RouteOf(t)))
        BY <3>1, Zenon DEF FirstOf
      <3>3. ASSUME NEW u \in Candidates(g) PROVE Preferred(t, u)
        <4>1. /\ t \in Targets /\ Parsed(t.type) /\ Matches(RouteOf(t), req.path)
              /\ u \in Targets /\ Parsed(u.type)
          BY <2>2 DEF Candidates, AnswerInv
        <4>2. req.path \in RequestPaths
          BY <2>2 DEF Requests
        <4> QED
          BY <3>2, <4>1, <4>2, NotBeforeIsPreferred
      <3> QED
        BY <3>2, <3>3, Zenon
    <2>8. ASSUME NEW g, Candidates(g) = {} PROVE MatchInBucket(g, req.path) = <<>>
      BY <2>2, <2>6, <2>8, FirstMatch, Zenon
    <2>9. CASE own # {}
      <3>1. PICK t \in own : /\ MatchInBucket(h, req.path) = <<RuleOf(RouteOf(t))>>
                             /\ \A u \in own : Preferred(t, u)
        BY <2>7, <2>9, Zenon
      <3>2. <<RuleOf(RouteOf(t))>> # <<>>
        OBVIOUS
      <3>3. answer.route = <<RuleOf(RouteOf(t))>>
        BY <2>5, <3>1, <3>2, Zenon DEF ChooseRoute
      <3> QED
        BY <2>9, <3>1, <3>3, Zenon
    <2>10. CASE own = {}
      <3>1. answer.route = MatchInBucket(<<>>, req.path)
        BY <2>5, <2>8, <2>10, Zenon DEF ChooseRoute
      <3>2. any = Candidates(<<>>)
        BY <2>10
      <3> HIDE DEF any
      <3>3. CASE any = {}
        BY <2>8, <3>1, <3>2, <3>3, Zenon
      <3>4. CASE any # {}
        BY <2>7, <3>1, <3>2, <3>4, Zenon
      <3> QED
        BY <3>3, <3>4
    <2> QED
      BY <2>9, <2>10
  <1> QED
    BY <1>1, TablesAreTrue, PTL

\* A path in lower case gets to its own backend even beside others that differ from
\* it in case only: of the clusters entered under one name the table keeps the last,
\* and Sort puts the one in lower case last.
THEOREM OwnBackend == Spec => []RoutedToItsBackend
  <1>1. RoutingInv => RoutedToItsBackend
    <2> SUFFICES ASSUME RoutingInv, NEW t \in targets, answer.route = <<RuleOf(RouteOf(t))>>, OwnName(t)
                 PROVE  answer.be = <<t.be>>
      BY Zenon DEF RoutedToItsBackend, OwnName
    <2> DEFINE r == ChooseRoute(ExtractHost(req), req.path)
    <2>1. answer # NoAnswer
      BY DEF NoAnswer
    <2>2. TableInv /\ pc = "serving" /\ req \in Requests /\ answer = AnswerTo(req)
      BY <2>1, Zenon DEF RoutingInv, AnswerInv
    <2>3. req.via # "none"
      <3> SUFFICES ASSUME req.via = "none" PROVE FALSE
        OBVIOUS
      <3>1. answer = BadRequest
        BY <2>2, Zenon DEF AnswerTo
      <3> QED
        BY <3>1 DEF BadRequest, NoAnswer
    <2>4. r = <<RuleOf(RouteOf(t))>>
      BY <2>2, <2>3, AnswerHasRoute
    <2>5. r # <<>> /\ r[1].cluster = ClusterName(t)
      <3> HIDE DEF r
      <3> QED
        BY <2>4 DEF RuleOf, RouteOf
    <2>6. ClusterName(t) \in DOMAIN table.clusters /\ table.clusters[ClusterName(t)] = t.be
      BY <2>2, Zenon DEF TableInv
    <2>7. answer = Found(r)
      BY <2>2, <2>3, <2>5, <2>6, Zenon DEF AnswerTo
    <2> HIDE DEF r
    <2> QED
      BY <2>5, <2>6, <2>7 DEF Found
  <1> QED
    BY <1>1, TablesAreTrue, PTL

============================================================================
