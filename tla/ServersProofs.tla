--------------------------- MODULE ServersProofs ---------------------------
(***************************************************************************)
(* The data plane's shutdown is graceful for any number of connections:    *)
(* main returns only after every accepted connection has ended, and shuts  *)
(* the manager down only then.  And every handshake, whatever snapshots    *)
(* are stored during it, gets the certificate it should.                   *)
(***************************************************************************)
EXTENDS Servers, Integers, WellFoundedInduction, TLAPS

----------------------------------------------------------------------------
(* Graceful shutdown *)

\* The part of the types the argument needs.
ServerTypes ==
    /\ main \in {"start", "wait", "http", "https", "manager", "failed", "exited", "terminated"}
    /\ mgr \in {"running", "stopping", "stopped"}
    /\ srv \in [Listeners -> {"none", "bind", "accept", "sleep", "drain", "done"}]
    /\ queue \in [Listeners -> Seq(Conns)]
    /\ state \in [Conns -> {"new", "queued", "joined", "refused", "cut"} \union InJoinSet]
    /\ at \in [Conns -> Listeners]

\* A queue holds connections that came to its listener.
QueueInv ==
    \A s \in Listeners : \A i \in 1 .. Len(queue[s]) :
        at[queue[s][i]] = s /\ state[queue[s][i]] # "new"

\* A connection whose task is in the JoinSet keeps its server from returning.
TaskInv ==
    \A c \in Conns :
        /\ state[c] \in Served => Alive
        /\ Alive /\ state[c] \in InJoinSet => srv[at[c]] \in {"accept", "sleep", "drain"}

\* How far main is tells which servers have returned; nothing is cut before the end.
MainInv ==
    /\ main = "start" => srv = [s \in Listeners |-> "none"]
    /\ main \in {"https", "manager"} => srv["http"] = "done"
    /\ main = "manager" => srv["https"] = "done"
    /\ Alive /\ mgr # "running" => main = "manager"
    /\ Alive \/ main = "exited" => \A c \in Conns : state[c] # "cut"

ShutdownInv == ServerTypes /\ QueueInv /\ TaskInv /\ MainInv

\* A process that starts has no connection and no server.
LEMMA InitShutdown == Init => ShutdownInv
  BY DEF Init, ShutdownInv, ServerTypes, QueueInv, TaskInv, MainInv, Alive, Listeners, Served,
         InJoinSet

\* Once main is past both joins, no task of a connection is left.
LEMMA NoTaskLeft ==
    ASSUME ShutdownInv, main = "manager", NEW c \in Conns
    PROVE  state[c] \notin InJoinSet
  BY DEF ShutdownInv, ServerTypes, TaskInv, MainInv, Alive, Listeners

\* Ending the process keeps the invariant, provided an orderly exit cuts nothing.
LEMMA EndKeeps ==
    ASSUME ShutdownInv, NEW how \in {"failed", "exited", "terminated"}, End(how), Alive,
           how = "exited" => main = "manager"
    PROVE  ShutdownInv'
  <1>1. ServerTypes'
    BY DEF ShutdownInv, ServerTypes, End, InJoinSet, Served
  <1>2. QueueInv'
    BY DEF End, QueueInv
  <1>3. ~Alive'
    BY DEF End, Alive
  <1>4. ASSUME NEW c \in Conns PROVE state'[c] \notin Served
    BY DEF End, Served
  <1>5. TaskInv'
    BY <1>3, <1>4 DEF TaskInv
  <1>6. ASSUME how = "exited", NEW c \in Conns PROVE state'[c] # "cut"
    BY <1>6, NoTaskLeft DEF End, ShutdownInv, MainInv, InJoinSet
  <1>7. MainInv'
    BY <1>3, <1>6 DEF MainInv, End
  <1> QED
    BY <1>1, <1>2, <1>5, <1>7 DEF ShutdownInv

\* The steps of main, the signals and the manager keep it.
LEMMA MainKeeps ==
    ASSUME ShutdownInv, MainStep \/ CtrlC \/ Terminate \/ ManagerStops \/ StoreSni
    PROVE  ShutdownInv'
  <1> USE DEF ShutdownInv
  <1>1. CASE Start
    <2>1. \A c \in Conns : state[c] \notin InJoinSet
      BY <1>1 DEF Start, ServerTypes, TaskInv, MainInv, Alive
    <2>2. ServerTypes' /\ QueueInv' /\ MainInv'
      BY <1>1 DEF Start, ServerTypes, QueueInv, MainInv, Alive
    <2>3. TaskInv'
      BY <1>1, <2>1 DEF Start, TaskInv, Alive, InJoinSet
    <2> QED
      BY <2>2, <2>3
  <1>2. CASE StartErr
    BY <1>2, EndKeeps DEF StartErr, Alive
  <1>3. CASE CtrlC \/ StoreSni
    BY <1>3 DEF CtrlC, StoreSni, tlsVars, ServerTypes, QueueInv, TaskInv, MainInv, Alive
  <1>4. CASE Terminate
    BY <1>4, EndKeeps DEF Terminate, Alive
  <1>5. CASE Cancelled \/ JoinHttp \/ JoinHttps
    BY <1>5 DEF Cancelled, JoinHttp, JoinHttps, MainGoes, ServerTypes, QueueInv, TaskInv, MainInv,
                Alive
  <1>6. CASE ManagerStops
    BY <1>6 DEF ManagerStops, ServerTypes, QueueInv, TaskInv, MainInv, Alive
  <1>7. CASE Exit
    BY <1>7, EndKeeps DEF Exit, Alive
  <1> QED
    BY <1>1, <1>2, <1>3, <1>4, <1>5, <1>6, <1>7 DEF MainStep

\* A server's steps keep it: only a server with an empty JoinSet returns.
LEMMA ServerKeeps ==
    ASSUME ShutdownInv, NEW s \in Listeners, ServerStep(s)
    PROVE  ShutdownInv'
  <1> USE DEF ShutdownInv
  <1>1. CASE Bind(s) \/ BindErr(s) \/ AcceptErr(s) \/ Wake(s) \/ StopAccepting(s)
    <2>1. PICK to \in {"accept", "sleep", "drain", "done"} :
            /\ Alive /\ UNCHANGED <<main, mgr, queue, state, at>>
            /\ srv' = [srv EXCEPT ![s] = to]
            /\ to = "done" => srv[s] = "bind"
            /\ srv[s] \notin {"none", "done"}
      BY <1>1 DEF Bind, BindErr, AcceptErr, Wake, StopAccepting, ServerGoes
    <2>2. ServerTypes' /\ QueueInv'
      BY <2>1 DEF ServerTypes, QueueInv
    <2>3. TaskInv'
      BY <2>1 DEF TaskInv, ServerTypes, Alive
    <2>4. MainInv'
      BY <2>1 DEF MainInv, ServerTypes, Alive, Listeners
    <2> QED
      BY <2>2, <2>3, <2>4
  <1>2. CASE Accept(s)
    <2>1. PICK h \in Conns : h = queue[s][1] /\ h = Head(queue[s]) /\ at[h] = s
      BY <1>2 DEF Accept, ServerTypes, QueueInv
    <2>2. /\ Alive /\ srv[s] = "accept" /\ UNCHANGED <<main, mgr, srv, at>>
          /\ state' = [state EXCEPT ![h] = IF s = "https" THEN "tls" ELSE "open"]
          /\ queue' = [queue EXCEPT ![s] = Tail(queue[s])]
          /\ queue[s] # << >>
      BY <1>2, <2>1 DEF Accept
    <2>3. ServerTypes'
      BY <2>2 DEF ServerTypes, InJoinSet, Served
    <2>4. QueueInv'
      BY <2>2 DEF QueueInv, ServerTypes
    <2>5. TaskInv'
      BY <2>1, <2>2 DEF TaskInv, ServerTypes, Alive
    <2>6. MainInv'
      BY <2>2 DEF MainInv, ServerTypes, Alive
    <2> QED
      BY <2>3, <2>4, <2>5, <2>6
  <1>3. CASE JoinNext(s)
    BY <1>3 DEF JoinNext, ServerTypes, QueueInv, TaskInv, MainInv, Alive, InJoinSet, Served
  <1>4. CASE Drained(s)
    <2>1. /\ Alive /\ UNCHANGED <<main, mgr, at>>
          /\ srv[s] = "drain" /\ srv' = [srv EXCEPT ![s] = "done"]
          /\ queue' = [queue EXCEPT ![s] = << >>]
          /\ state' = [c \in Conns |-> IF c \in Range(queue[s]) THEN "refused" ELSE state[c]]
          /\ \A c \in Conns : at[c] = s => state[c] \notin InJoinSet
      BY <1>4 DEF Drained, Return, ServerGoes
    <2>2. ServerTypes'
      BY <2>1 DEF ServerTypes
    <2>3. \A c \in Conns : state'[c] = "refused" \/ state'[c] = state[c]
      BY <2>1
    <2>4. QueueInv'
      BY <2>1, <2>3 DEF QueueInv, ServerTypes
    <2>5. TaskInv'
      BY <2>1, <2>3 DEF TaskInv, ServerTypes, Alive, InJoinSet, Served
    <2>6. MainInv'
      BY <2>1, <2>3 DEF MainInv, ServerTypes, Alive, Listeners
    <2> QED
      BY <2>2, <2>4, <2>5, <2>6
  <1> QED
    BY <1>1, <1>2, <1>3, <1>4 DEF ServerStep

\* A connection's steps keep it.
LEMMA ConnKeeps ==
    ASSUME ShutdownInv, NEW c \in Conns, ConnStep(c)
    PROVE  ShutdownInv'
  <1> USE DEF ShutdownInv
  <1>1. ASSUME NEW s \in Listeners, Connect(c, s) PROVE ShutdownInv'
    <2>1. /\ Alive /\ UNCHANGED <<main, mgr, srv>> /\ state[c] = "new"
          /\ state' = [state EXCEPT ![c] = "queued"]
          /\ at' = [at EXCEPT ![c] = s]
          /\ queue' = [queue EXCEPT ![s] = Append(queue[s], c)]
      BY <1>1 DEF Connect
    <2>2. ServerTypes'
      BY <2>1 DEF ServerTypes
    <2>3. ASSUME NEW t \in Listeners, NEW i \in 1 .. Len(queue[t])
          PROVE  at'[queue[t][i]] = t /\ state'[queue[t][i]] # "new"
      <3>1. queue[t][i] \in Conns /\ queue[t][i] # c
        BY <2>1 DEF ServerTypes, QueueInv
      <3> QED
        BY <2>1, <3>1 DEF ServerTypes, QueueInv
    <2>4. at'[c] = s /\ state'[c] # "new"
      BY <2>1 DEF ServerTypes
    <2>5. QueueInv'
      BY <2>1, <2>3, <2>4 DEF QueueInv, ServerTypes
    <2>6. TaskInv'
      BY <2>1 DEF TaskInv, ServerTypes, Alive, InJoinSet, Served
    <2>7. MainInv'
      BY <2>1 DEF MainInv, ServerTypes, Alive
    <2> QED
      BY <2>2, <2>5, <2>6, <2>7
  <1>2. CASE ~\E s \in Listeners : Connect(c, s)
    <2>1. PICK to \in InJoinSet :
            /\ Alive /\ UNCHANGED <<main, mgr, srv, queue, at>>
            /\ state[c] \in Served
            /\ state' = [state EXCEPT ![c] = to]
      BY <1>2 DEF ConnStep, HelloExact, HelloNameless, HelloStar, TlsDone, Close, ConnGoes,
                  InJoinSet, Served
    <2>2. ServerTypes'
      BY <2>1 DEF ServerTypes
    <2>3. to # "new" /\ to # "cut" /\ state[c] \in InJoinSet
      BY <2>1 DEF InJoinSet, Served
    <2>4. QueueInv'
      BY <2>1, <2>3 DEF QueueInv, ServerTypes
    <2>5. TaskInv'
      BY <2>1, <2>3 DEF TaskInv, ServerTypes, Alive
    <2>6. MainInv'
      BY <2>1, <2>3 DEF MainInv, ServerTypes, Alive
    <2> QED
      BY <2>2, <2>4, <2>5, <2>6
  <1> QED
    BY <1>1, <1>2

\* The invariant holds in every state of the process.
LEMMA ShutdownInvariant == Spec => []ShutdownInv
  <1>1. ShutdownInv /\ [Next]_vars => ShutdownInv'
    <2> SUFFICES ASSUME ShutdownInv, [Next]_vars PROVE ShutdownInv'
      OBVIOUS
    <2>1. CASE UNCHANGED vars
      BY <2>1 DEF vars, ShutdownInv, ServerTypes, QueueInv, TaskInv, MainInv, Alive
    <2> QED
      BY <2>1, MainKeeps, ServerKeeps, ConnKeeps DEF Next
  <1> QED
    BY <1>1, InitShutdown, PTL DEF Spec

\* Whatever was accepted, and whenever, main returns only after it has ended.
THEOREM ExitCutsNothing == Spec => []NothingCutOff
  <1>1. ShutdownInv => NothingCutOff
    BY DEF ShutdownInv, MainInv, NothingCutOff
  <1> QED
    BY <1>1, ShutdownInvariant, PTL

\* The manager is shut down after the last connection has ended.
THEOREM ManagerIsLast == Spec => []ManagerOutlives
  <1>1. ASSUME ShutdownInv PROVE ManagerOutlives
    BY <1>1, NoTaskLeft DEF ShutdownInv, ServerTypes, TaskInv, MainInv, ManagerOutlives, InJoinSet
  <1> QED
    BY <1>1, ShutdownInvariant, PTL

----------------------------------------------------------------------------
(* Sets of indices, and the loop over them *)

\* Every set of naturals has a least element.
LEMMA Least ==
    ASSUME NEW T, T \subseteq Nat, T # {}
    PROVE  \E n \in T : \A m \in T : n <= m
  <1>1. \E x \in T : \A y \in T : <<y, x>> \notin OpToRel(<, Nat)
    BY WFMin, NatLessThanWellFounded
  <1>2. OpToRel(<, Nat) = {p \in Nat \X Nat : p[1] < p[2]}
    BY Zenon DEF OpToRel
  <1>3. PICK x \in T : \A y \in T : <<y, x>> \notin {p \in Nat \X Nat : p[1] < p[2]}
    BY <1>1, <1>2, Zenon
  <1>4. ASSUME NEW y \in T PROVE x <= y
    <2>1. <<y, x>> \in Nat \X Nat
      OBVIOUS
    <2>2. <<y, x>> \notin {p \in Nat \X Nat : p[1] < p[2]}
      BY <1>3
    <2>3. ~ (<<y, x>>[1] < <<y, x>>[2])
      BY <2>1, <2>2, Zenon
    <2> QED BY <2>3
  <1> QED
    BY <1>4

\* Max is the greatest element of a set of indices.
LEMMA MaxIsGreatest ==
    ASSUME NEW n \in Nat, NEW s \in SUBSET (1 .. n), s # {}
    PROVE  Max(s) \in s /\ \A i \in s : i <= Max(s)
  <1> DEFINE D == {d \in 0 .. n : n - d \in s}
  <1>1. \A i \in s : n - i \in D
    <2> SUFFICES ASSUME NEW i \in s PROVE n - i \in D
      OBVIOUS
    <2>1. i \in 1 .. n /\ n - (n - i) = i
      OBVIOUS
    <2> QED
      BY <2>1
  <1>2. D \subseteq Nat /\ D # {}
    <2>1. PICK i : i \in s
      OBVIOUS
    <2>2. n - i \in D
      BY <1>1, <2>1
    <2> QED
      BY <2>2
  <1>3. PICK d \in D : \A e \in D : d <= e
    <2> HIDE DEF D
    <2> QED
      BY <1>2, Least
  <1>4. ASSUME NEW i \in s PROVE n - d >= i
    <2>1. d <= n - i /\ i \in 1 .. n /\ d \in 0 .. n
      BY <1>1, <1>3
    <2> QED
      BY <2>1
  <1>5. \E y \in s : \A i \in s : y >= i
    BY <1>3, <1>4
  <1>6. Max(s) \in s /\ \A i \in s : Max(s) >= i
    BY <1>5 DEF Max
  <1> QED
    BY <1>6

\* Two functions of the number of rounds are the same if they start the same and every
\* round keeps them so.
LEMMA SameLoop ==
    ASSUME NEW n \in Nat, NEW f, NEW g, f[0] = g[0],
           \A i \in 1 .. n : f[i - 1] = g[i - 1] => f[i] = g[i]
    PROVE  f[n] = g[n]
  <1> DEFINE T == {m \in 0 .. n : f[m] # g[m]}
  <1>1. SUFFICES ASSUME f[n] # g[n] PROVE FALSE
    OBVIOUS
  <1>2. n \in T /\ T \subseteq Nat
    BY <1>1
  <1>3. PICK m \in T : \A k \in T : m <= k
    <2> HIDE DEF T
    <2> QED
      BY <1>2, Least
  <1>4. m \in 1 .. n /\ m - 1 \in 0 .. n /\ m - 1 \notin T
    BY <1>3
  <1> QED
    BY <1>4

----------------------------------------------------------------------------
(* The map of certificates *)

\* The first m bundles of tls, as far as they can serve the entry h.
Serving(tls, m, h) == {i \in 1 .. m : Usable(tls[i]) /\ h \in tls[i].sni}

\* The entries they are for.
Hosts(tls, m) == UNION {tls[i].sni : i \in {j \in 1 .. m : Usable(tls[j])}}

\* The map they make.
Expected(tls, m) == [h \in Hosts(tls, m) |-> tls[Max(Serving(tls, m, h))].cert]

\* The last bundle is inserted into the map of the others.
LEMMA ExpectedStep ==
    ASSUME NEW tls, NEW m \in Nat \ {0}
    PROVE  Expected(tls, m) =
             IF Usable(tls[m]) THEN Insert(Expected(tls, m - 1), tls[m]) ELSE Expected(tls, m - 1)
  <1>1. \A i : i \in 1 .. m <=> i \in 1 .. (m - 1) \/ i = m
    OBVIOUS
  <1>2. CASE ~Usable(tls[m])
    <2>1. Hosts(tls, m) = Hosts(tls, m - 1)
      BY <1>1, <1>2 DEF Hosts
    <2>2. \A h : Serving(tls, m, h) = Serving(tls, m - 1, h)
      BY <1>1, <1>2 DEF Serving
    <2> QED
      BY <1>2, <2>1, <2>2 DEF Expected
  <1>3. CASE Usable(tls[m])
    <2>1. Hosts(tls, m) = tls[m].sni \union Hosts(tls, m - 1)
      BY <1>1, <1>3 DEF Hosts
    <2>2. ASSUME NEW h \in tls[m].sni PROVE Max(Serving(tls, m, h)) = m
      <3>1. m \in Serving(tls, m, h) /\ Serving(tls, m, h) \in SUBSET (1 .. m)
        BY <1>3, <2>2 DEF Serving
      <3>2. Max(Serving(tls, m, h)) \in 1 .. m /\ m <= Max(Serving(tls, m, h))
        BY <3>1, MaxIsGreatest
      <3> QED
        BY <3>2
    <2>3. ASSUME NEW h, h \notin tls[m].sni PROVE Serving(tls, m, h) = Serving(tls, m - 1, h)
      BY <1>1, <2>3 DEF Serving
    <2>4. Expected(tls, m) = Insert(Expected(tls, m - 1), tls[m])
      BY <2>1, <2>2, <2>3 DEF Expected, Insert
    <2> QED
      BY <1>3, <2>4
  <1> QED
    BY <1>2, <1>3

\* The loop of certificates_from_snap makes that map.
LEMMA LoopMakesMap ==
    ASSUME NEW tls, Len(tls) \in Nat
    PROVE  CertificatesFromSnap(tls) = Expected(tls, Len(tls))
  <1> DEFINE n == Len(tls)
             Put(map, b) == IF Usable(b) THEN Insert(map, b) ELSE map
             P(g) == g = [i \in 0 .. n |-> IF i = 0 THEN << >> ELSE Put(g[i - 1], tls[i])]
             all == [i \in 0 .. n |-> Expected(tls, i)]
             it == CHOOSE g : P(g)
  <1>1. CertificatesFromSnap(tls) = it[n]
    BY DEF CertificatesFromSnap
  <1>2. Expected(tls, 0) = << >>
    BY DEF Expected, Hosts
  <1>3. ASSUME NEW i \in 0 .. n, i # 0 PROVE Expected(tls, i) = Put(all[i - 1], tls[i])
    <2>1. i \in Nat \ {0} /\ i - 1 \in 0 .. n
      BY <1>3
    <2> QED
      BY <2>1, ExpectedStep
  <1>4. P(all)
    BY <1>2, <1>3
  <1>5. P(it)
    <2> HIDE DEF P
    <2> QED
      BY <1>4, Zenon
  <1> HIDE DEF it
  <1>6. it[0] = all[0]
    BY <1>2, <1>5
  <1>7. ASSUME NEW i \in 1 .. n, it[i - 1] = all[i - 1] PROVE it[i] = all[i]
    <2>1. it[i] = Put(it[i - 1], tls[i])
      BY <1>5
    <2> QED
      BY <1>3, <1>7, <2>1
  <1>8. it[n] = all[n]
    <2> HIDE DEF all
    <2> QED
      BY <1>6, <1>7, SameLoop
  <1> QED
    BY <1>1, <1>8

\* The map of a snapshot has the entries its bundles are for, each with the
\* certificate of the last usable one.
LEMMA MapMatches ==
    ASSUME NEW k \in 0 .. Len(ServerTls), NEW h
    PROVE  /\ h \in DOMAIN Map[k] <=> Has(k, h)
           /\ Has(k, h) => Map[k][h] = CertOf(k, h) /\ CertOf(k, h) \in Certs
  <1>1. CASE k = 0
    BY <1>1 DEF Map, Has
  <1>2. CASE k # 0
    <2> DEFINE tls == ServerTls[k]
               n == Len(tls)
    <2>1. k \in DOMAIN ServerTls /\ k > 0 /\ n \in Nat /\ DOMAIN tls = 1 .. n
      BY <1>2, CertConstants
    <2>2. Map[k] = Expected(tls, n)
      BY <1>2, <2>1, LoopMakesMap DEF Map
    <2>3. Serving(tls, n, h) = For(k, h)
      BY <2>1 DEF Serving, For
    <2>4. h \in Hosts(tls, n) <=> Has(k, h)
      BY <2>1 DEF Hosts, Has, For
    <2>5. h \in DOMAIN Map[k] <=> Has(k, h)
      BY <2>2, <2>4 DEF Expected
    <2>6. ASSUME Has(k, h) PROVE Map[k][h] = CertOf(k, h) /\ CertOf(k, h) \in Certs
      <3>1. Map[k][h] = CertOf(k, h)
        BY <2>2, <2>3, <2>4, <2>6 DEF Expected, CertOf
      <3>2. For(k, h) \in SUBSET (1 .. n) /\ For(k, h) # {}
        BY <2>1, <2>6 DEF For, Has
      <3>3. Max(For(k, h)) \in DOMAIN tls
        BY <2>1, <3>2, MaxIsGreatest
      <3>4. CertOf(k, h) \in {b.cert : b \in Range(ServerTls[k])}
        BY <3>3 DEF CertOf, Range
      <3> QED
        BY <2>1, <3>1, <3>4 DEF Certs
    <2> QED
      BY <2>5, <2>6
  <1> QED
    BY <1>1, <1>2

----------------------------------------------------------------------------
(* The queues of the kernel *)

\* A queue holds every connection that waits for its listener, once.
KernelInv ==
    /\ \A s \in Listeners : \A i \in 1 .. Len(queue[s]) :
          at[queue[s][i]] = s /\ state[queue[s][i]] = "queued"
    /\ \A s \in Listeners : \A i, j \in 1 .. Len(queue[s]) : queue[s][i] = queue[s][j] => i = j
    /\ \A c \in Conns : state[c] = "queued" =>
          \E i \in 1 .. Len(queue[at[c]]) : queue[at[c]][i] = c

\* Nothing happens to the queues.
LEMMA SameQueues ==
    ASSUME KernelInv, UNCHANGED <<queue, state, at>>
    PROVE  KernelInv'
  <1>1. queue' = queue /\ state' = state /\ at' = at
    OBVIOUS
  <1>2. \A s \in Listeners : \A i \in 1 .. Len(queue'[s]) :
           at'[queue'[s][i]] = s /\ state'[queue'[s][i]] = "queued"
    BY <1>1 DEF KernelInv
  <1>3. \A s \in Listeners : \A i, j \in 1 .. Len(queue'[s]) : queue'[s][i] = queue'[s][j] => i = j
    BY <1>1, Zenon DEF KernelInv
  <1>4. \A c \in Conns : state'[c] = "queued" =>
           \E i \in 1 .. Len(queue'[at'[c]]) : queue'[at'[c]][i] = c
    BY <1>1 DEF KernelInv
  <1> QED
    BY <1>2, <1>3, <1>4, Zenon DEF KernelInv

\* A connection that is not queued comes and goes without touching a queue.
LEMMA OthersKeepQueues ==
    ASSUME ServerTypes, KernelInv, NEW c \in Conns, NEW to, to # "queued", state[c] # "queued",
           state' = [state EXCEPT ![c] = to], UNCHANGED <<queue, at>>
    PROVE  KernelInv'
  <1>1. ASSUME NEW s \in Listeners, NEW i \in 1 .. Len(queue[s])
        PROVE  queue[s][i] \in Conns /\ state'[queue[s][i]] = "queued"
    BY DEF ServerTypes, KernelInv
  <1>2. ASSUME NEW d \in Conns, state'[d] = "queued" PROVE state[d] = "queued"
    BY <1>2 DEF ServerTypes
  <1> QED
    BY <1>1, <1>2 DEF KernelInv

\* The process ends and so do its queues.
LEMMA EndKeepsQueues ==
    ASSUME ServerTypes, NEW how, End(how)
    PROVE  KernelInv'
  <1>1. \A c \in Conns : state'[c] # "queued"
    BY DEF End, ServerTypes, Served
  <1>2. \A s \in Listeners : Len(queue'[s]) = 0
    BY DEF End
  <1> QED
    BY <1>1, <1>2 DEF KernelInv

\* A connection joins at the end of a queue.
LEMMA ConnectKeepsQueues ==
    ASSUME ServerTypes, KernelInv, NEW c \in Conns, NEW s \in Listeners, Connect(c, s)
    PROVE  KernelInv'
  <1> DEFINE q == queue[s]
  <1>1. /\ state[c] = "new" /\ q \in Seq(Conns)
        /\ state' = [state EXCEPT ![c] = "queued"]
        /\ at' = [at EXCEPT ![c] = s]
        /\ queue' = [queue EXCEPT ![s] = Append(q, c)]
    BY DEF Connect, ServerTypes
  <1>2. /\ \A t \in Listeners \ {s} : queue'[t] = queue[t]
        /\ queue'[s] = Append(q, c) /\ Len(queue'[s]) = Len(q) + 1
        /\ queue'[s][Len(q) + 1] = c /\ \A i \in 1 .. Len(q) : queue'[s][i] = q[i]
    BY <1>1 DEF ServerTypes
  <1>3. ASSUME NEW t \in Listeners, NEW i \in 1 .. Len(queue[t])
        PROVE  /\ queue[t][i] \in Conns /\ queue[t][i] # c
               /\ at'[queue[t][i]] = t /\ state'[queue[t][i]] = "queued"
    BY <1>1 DEF ServerTypes, KernelInv
  <1>4. at'[c] = s /\ state'[c] = "queued"
    BY <1>1 DEF ServerTypes
  <1>5. ASSUME NEW t \in Listeners, NEW i \in 1 .. Len(queue'[t]), NEW j \in 1 .. Len(queue'[t])
        PROVE  /\ at'[queue'[t][i]] = t /\ state'[queue'[t][i]] = "queued"
               /\ queue'[t][i] = queue'[t][j] => i = j
    <2>1. CASE t # s
      BY <1>2, <1>3, <2>1 DEF KernelInv
    <2>2. CASE t = s
      <3>1. \A k \in 1 .. Len(queue'[s]) : k \in 1 .. Len(q) \/ k = Len(q) + 1
        BY <1>1, <1>2
      <3>2. CASE i \in 1 .. Len(q) /\ j \in 1 .. Len(q)
        <4>1. q[i] = q[j] => i = j
          BY <3>2, Zenon DEF KernelInv
        <4>2. queue'[t][i] = q[i] /\ queue'[t][j] = q[j]
          BY <1>2, <2>2, <3>2
        <4>3. at'[q[i]] = s /\ state'[q[i]] = "queued"
          BY <1>3, <3>2
        <4> QED
          BY <2>2, <4>1, <4>2, <4>3
      <3>3. CASE i = Len(q) + 1
        BY <1>2, <1>3, <1>4, <2>2, <3>1, <3>3
      <3>4. CASE i \in 1 .. Len(q) /\ j = Len(q) + 1
        BY <1>2, <1>3, <1>4, <2>2, <3>4
      <3> QED
        BY <2>2, <3>1, <3>2, <3>3, <3>4
    <2> QED
      BY <2>1, <2>2
  <1>6. ASSUME NEW d \in Conns, state'[d] = "queued"
        PROVE  \E i \in 1 .. Len(queue'[at'[d]]) : queue'[at'[d]][i] = d
    <2>1. CASE d = c
      BY <1>1, <1>2, <1>4, <2>1
    <2>2. CASE d # c
      <3>1. state[d] = "queued" /\ at'[d] = at[d] /\ at[d] \in Listeners
        BY <1>1, <1>6, <2>2 DEF ServerTypes
      <3>2. PICK i \in 1 .. Len(queue[at[d]]) : queue[at[d]][i] = d
        BY <3>1 DEF KernelInv
      <3>3. i \in 1 .. Len(queue'[at[d]]) /\ queue'[at[d]][i] = d
        BY <1>1, <1>2, <3>1, <3>2
      <3> QED
        BY <3>1, <3>3
    <2> QED
      BY <2>1, <2>2
  <1> QED
    BY <1>5, <1>6 DEF KernelInv

\* The accepted connection leaves its queue, and only it does.
LEMMA AcceptKeepsQueues ==
    ASSUME ServerTypes, KernelInv, NEW s \in Listeners, Accept(s)
    PROVE  KernelInv'
  <1> DEFINE q == queue[s]
  <1>1. q \in Seq(Conns) /\ q # << >> /\ 1 \in 1 .. Len(q)
    BY DEF Accept, ServerTypes
  <1>2. PICK h \in Conns : h = q[1] /\ h = Head(q)
    BY <1>1
  <1>3. /\ UNCHANGED at
        /\ state' = [state EXCEPT ![h] = IF s = "https" THEN "tls" ELSE "open"]
        /\ queue' = [queue EXCEPT ![s] = Tail(q)]
    BY <1>2 DEF Accept
  <1>4. /\ \A t \in Listeners \ {s} : queue'[t] = queue[t]
        /\ Len(queue'[s]) = Len(q) - 1
        /\ \A i \in 1 .. (Len(q) - 1) : queue'[s][i] = q[i + 1]
    BY <1>1, <1>3 DEF ServerTypes
  <1>5. at[h] = s
    BY <1>1, <1>2 DEF KernelInv
  <1>6. ASSUME NEW d \in Conns
        PROVE  state'[d] = "queued" <=> state[d] = "queued" /\ d # h
    BY <1>3 DEF ServerTypes
  <1>7. ASSUME NEW t \in Listeners, NEW i \in 1 .. Len(queue'[t]), NEW j \in 1 .. Len(queue'[t])
        PROVE  /\ at'[queue'[t][i]] = t /\ state'[queue'[t][i]] = "queued"
               /\ queue'[t][i] = queue'[t][j] => i = j
    <2>1. CASE t # s
      <3>1. queue'[t] = queue[t] /\ queue[t][i] \in Conns /\ at[queue[t][i]] = t
        BY <1>4, <2>1 DEF KernelInv, ServerTypes
      <3>2. queue[t][i] # h
        BY <1>5, <2>1, <3>1
      <3> QED
        BY <1>3, <1>6, <2>1, <3>1, <3>2 DEF KernelInv
    <2>2. CASE t = s
      <3>0. i \in 1 .. (Len(q) - 1) /\ j \in 1 .. (Len(q) - 1) /\ Len(q) \in Nat
        BY <1>1, <1>4, <2>2
      <3>1. /\ i + 1 \in 1 .. Len(q) /\ j + 1 \in 1 .. Len(q) /\ i + 1 # 1
            /\ queue'[t][i] = q[i + 1] /\ queue'[t][j] = q[j + 1]
        <4>1. i + 1 \in 1 .. Len(q) /\ j + 1 \in 1 .. Len(q) /\ i + 1 # 1
          BY <3>0
        <4>2. queue'[t][i] = q[i + 1] /\ queue'[t][j] = q[j + 1]
          BY <1>4, <2>2, <3>0, Zenon
        <4> QED
          BY <4>1, <4>2
      <3>2. /\ q[i + 1] = q[j + 1] => i + 1 = j + 1
            /\ q[i + 1] = q[1] => i + 1 = 1
        BY <1>1, <3>1, Zenon DEF KernelInv
      <3>3. i = j \/ q[i + 1] # q[j + 1]
        BY <3>2
      <3>4. q[i + 1] \in Conns /\ at[q[i + 1]] = s /\ state[q[i + 1]] = "queued"
        BY <1>1, <3>1 DEF KernelInv
      <3> QED
        BY <1>2, <1>3, <1>6, <2>2, <3>1, <3>2, <3>3, <3>4
    <2> QED
      BY <2>1, <2>2
  <1>8. ASSUME NEW d \in Conns, state'[d] = "queued"
        PROVE  \E i \in 1 .. Len(queue'[at'[d]]) : queue'[at'[d]][i] = d
    <2>1. state[d] = "queued" /\ d # h /\ at'[d] = at[d] /\ at[d] \in Listeners
      BY <1>3, <1>6, <1>8 DEF ServerTypes
    <2>2. PICK i \in 1 .. Len(queue[at[d]]) : queue[at[d]][i] = d
      BY <2>1 DEF KernelInv
    <2>3. CASE at[d] # s
      BY <1>4, <2>1, <2>2, <2>3
    <2>4. CASE at[d] = s
      <3>1. i # 1
        BY <1>2, <2>1, <2>2, <2>4
      <3>2. i - 1 \in 1 .. (Len(q) - 1) /\ (i - 1) + 1 = i
        BY <1>1, <2>2, <2>4, <3>1
      <3>3. queue'[s][i - 1] = d /\ i - 1 \in 1 .. Len(queue'[s])
        BY <1>4, <2>2, <2>4, <3>2
      <3> QED
        BY <2>1, <2>4, <3>3
    <2> QED
      BY <2>3, <2>4
  <1> QED
    BY <1>7, <1>8 DEF KernelInv

\* A server that returns resets what is in its queue.
LEMMA ReturnKeepsQueues ==
    ASSUME ServerTypes, KernelInv, NEW s \in Listeners, Drained(s)
    PROVE  KernelInv'
  <1>1. /\ UNCHANGED at /\ queue[s] \in Seq(Conns)
        /\ queue' = [queue EXCEPT ![s] = << >>]
        /\ state' = [c \in Conns |-> IF c \in Range(queue[s]) THEN "refused" ELSE state[c]]
    BY DEF Drained, Return, ServerGoes, ServerTypes
  <1>2. Len(queue'[s]) = 0 /\ \A t \in Listeners \ {s} : queue'[t] = queue[t]
    BY <1>1 DEF ServerTypes
  <1>3. \A c \in Range(queue[s]) : at[c] = s
    BY <1>1 DEF KernelInv, Range
  <1>4. ASSUME NEW t \in Listeners \ {s}, NEW i \in 1 .. Len(queue[t])
        PROVE  queue[t][i] \in Conns /\ state'[queue[t][i]] = "queued"
    <2>1. queue[t][i] \in Conns /\ at[queue[t][i]] = t /\ state[queue[t][i]] = "queued"
      BY DEF KernelInv, ServerTypes
    <2> QED
      BY <1>1, <1>3, <2>1
  <1>5. ASSUME NEW d \in Conns, state'[d] = "queued"
        PROVE  state[d] = "queued" /\ at[d] # s
    <2>1. state[d] = "queued" /\ d \notin Range(queue[s])
      BY <1>1, <1>5
    <2>2. ASSUME at[d] = s PROVE FALSE
      <3>1. PICK i \in 1 .. Len(queue[s]) : queue[s][i] = d
        BY <2>1, <2>2 DEF KernelInv
      <3> QED
        BY <1>1, <2>1, <3>1 DEF Range
    <2> QED
      BY <2>1, <2>2
  <1>6. ASSUME NEW d \in Conns, state'[d] = "queued"
        PROVE  \E i \in 1 .. Len(queue'[at'[d]]) : queue'[at'[d]][i] = d
    BY <1>1, <1>2, <1>5, <1>6 DEF KernelInv, ServerTypes
  <1>7. ASSUME NEW t \in Listeners, NEW i \in 1 .. Len(queue'[t])
        PROVE  /\ at'[queue'[t][i]] = t /\ state'[queue'[t][i]] = "queued"
               /\ \A j \in 1 .. Len(queue'[t]) : queue'[t][i] = queue'[t][j] => i = j
    <2>1. t # s
      BY <1>2
    <2>2. queue'[t] = queue[t] /\ at[queue[t][i]] = t /\ state'[queue[t][i]] = "queued"
      BY <1>2, <1>4, <2>1 DEF KernelInv
    <2>3. \A j \in 1 .. Len(queue[t]) : queue[t][i] = queue[t][j] => i = j
      BY <2>2, Zenon DEF KernelInv
    <2> QED
      BY <1>1, <2>2, <2>3
  <1> QED
    BY <1>6, <1>7, Zenon DEF KernelInv

----------------------------------------------------------------------------
(* Handshakes *)

\* What is left of the types.
ResolverTypes ==
    /\ cancel \in BOOLEAN
    /\ hello \in [Conns -> [name : Names \union {NoName}, from : 0 .. Len(ServerTls),
                            to : 0 .. Len(ServerTls), cert : Certs]]
    /\ sni \in 0 .. Len(ServerTls)

\* Between the two lookups the name has been missed in a map stored before.
HandshakeInv ==
    /\ \A c \in Conns : state[c] = "star" => hello[c].from <= sni /\ ~Has(hello[c].from, hello[c].name)
    /\ CertMatches

\* A step of a connection that is in no handshake afterwards, or of none.
LEMMA NoHandshake ==
    ASSUME ServerTypes, HandshakeInv, ResolverTypes, ResolverTypes', sni' >= sni,
           \A c \in Conns : state'[c] \in {"star", "shake"} =>
              state'[c] = state[c] /\ hello'[c] = hello[c]
    PROVE  HandshakeInv'
  <1>1. ASSUME NEW c \in Conns, state'[c] = "star"
        PROVE  hello'[c].from <= sni' /\ ~Has(hello'[c].from, hello'[c].name)
    <2>1. /\ state[c] = "star" /\ hello'[c] = hello[c]
          /\ hello[c].from \in 0 .. Len(ServerTls) /\ Len(ServerTls) \in Nat
          /\ sni \in 0 .. Len(ServerTls) /\ sni' \in 0 .. Len(ServerTls)
      BY <1>1, CertConstants DEF ResolverTypes
    <2>2. hello[c].from <= sni /\ ~Has(hello[c].from, hello[c].name)
      BY <2>1 DEF HandshakeInv
    <2> QED
      BY <2>1, <2>2
  <1>2. CertMatches'
    BY DEF HandshakeInv, CertMatches
  <1> QED
    BY <1>1, <1>2 DEF HandshakeInv

\* A step of connection c in its handshake.
LEMMA OneHandshake ==
    ASSUME ServerTypes, HandshakeInv, ResolverTypes, ResolverTypes', sni' = sni, NEW c \in Conns,
           \A d \in Conns \ {c} : state'[d] = state[d] /\ hello'[d] = hello[d],
           state'[c] = "star" => hello'[c].from <= sni' /\ ~Has(hello'[c].from, hello'[c].name),
           state'[c] = "shake" =>
             LET h == hello'[c]
                 lacks(e) == \E k \in h.from .. h.to : ~Has(k, e)
                 from(e) == \E k \in h.from .. h.to : Has(k, e) /\ h.cert = CertOf(k, e)
             IN  \/ from(h.name)
                 \/ lacks(h.name) /\ from(Star[h.name])
                 \/ h.cert = DefaultCert /\ lacks(h.name) /\ lacks(Star[h.name])
    PROVE  HandshakeInv'
  <1>1. \A d \in Conns : state'[d] = "star" =>
           hello'[d].from <= sni' /\ ~Has(hello'[d].from, hello'[d].name)
    BY DEF HandshakeInv
  <1>2. CertMatches'
    BY DEF HandshakeInv, CertMatches
  <1> QED
    BY <1>1, <1>2 DEF HandshakeInv

\* No bundle is for a missing name.
LEMMA NoNameHasNone == ASSUME NEW k \in 0 .. Len(ServerTls) PROVE ~Has(k, NoName)
  BY CertConstants DEF Has, For, Range

\* The answer to a missing handshake is the default.
LEMMA NoHelloTyped ==
    NoHello \in [name : Names \union {NoName}, from : 0 .. Len(ServerTls),
                 to : 0 .. Len(ServerTls), cert : Certs]
  BY CertConstants DEF NoHello, Certs

\* The first lookup.
LEMMA ExactKeeps ==
    ASSUME ServerTypes, ResolverTypes, HandshakeInv, NEW c \in Conns, NEW n \in Names, HelloExact(c, n)
    PROVE  ResolverTypes' /\ HandshakeInv'
  <1> DEFINE found == n \in DOMAIN Map[sni]
             answer == [name |-> n, from |-> sni, to |-> sni,
                        cert |-> IF found THEN Map[sni][n] ELSE DefaultCert]
             to == IF ~found /\ Star[n] # NoName THEN "star" ELSE "shake"
  <1>1. /\ UNCHANGED <<cancel, sni>> /\ hello' = [hello EXCEPT ![c] = answer]
        /\ state' = [state EXCEPT ![c] = to]
    BY DEF HelloExact, ConnGoes
  <1>2. sni \in 0 .. Len(ServerTls) /\ Len(ServerTls) \in Nat
    BY CertConstants DEF ResolverTypes
  <1>3. /\ found <=> Has(sni, n)
        /\ found => answer.cert = CertOf(sni, n) /\ answer.cert \in Certs
        /\ ~found => answer.cert = DefaultCert /\ answer.cert \in Certs
    BY <1>2, MapMatches DEF Certs
  <1>4. /\ hello'[c] = answer /\ state'[c] = to
        /\ \A d \in Conns \ {c} : state'[d] = state[d] /\ hello'[d] = hello[d]
    BY <1>1 DEF ResolverTypes, ServerTypes
  <1>5. /\ hello'[c].name = n /\ hello'[c].from = sni /\ hello'[c].to = sni
        /\ hello'[c].cert = answer.cert
    BY <1>4
  <1> HIDE DEF found
  <1>6. ResolverTypes'
    <2>1. answer \in [name : Names \union {NoName}, from : 0 .. Len(ServerTls),
                      to : 0 .. Len(ServerTls), cert : Certs]
      BY <1>2, <1>3
    <2> HIDE DEF answer
    <2> QED
      BY <1>1, <2>1 DEF ResolverTypes
  <1>7. ~Has(sni, NoName) /\ sni \in sni .. sni
    BY <1>2, NoNameHasNone
  <1>8. ASSUME state'[c] = "star"
        PROVE  hello'[c].from <= sni' /\ ~Has(hello'[c].from, hello'[c].name)
    <2>1. ~found
      BY <1>4, <1>8
    <2>2. ~Has(sni, n) /\ sni <= sni
      BY <1>2, <1>3, <2>1
    <2> QED
      BY <1>1, <1>5, <2>2
  <1>9. ASSUME state'[c] = "shake"
        PROVE  LET h == hello'[c]
                   lacks(e) == \E k \in h.from .. h.to : ~Has(k, e)
                   from(e) == \E k \in h.from .. h.to : Has(k, e) /\ h.cert = CertOf(k, e)
               IN  \/ from(h.name)
                   \/ lacks(h.name) /\ from(Star[h.name])
                   \/ h.cert = DefaultCert /\ lacks(h.name) /\ lacks(Star[h.name])
    <2> HIDE DEF answer
    <2>1. CASE found
      BY <1>3, <1>5, <1>7, <2>1
    <2>2. CASE ~found
      <3>1. Star[n] = NoName
        BY <1>4, <1>9, <2>2
      <3> QED
        BY <1>3, <1>5, <1>7, <2>2, <3>1
    <2> QED
      BY <2>1, <2>2
  <1>10. HandshakeInv'
    <2> HIDE DEF answer, to
    <2> QED
      BY <1>1, <1>4, <1>6, <1>8, <1>9, OneHandshake
  <1> QED
    BY <1>6, <1>10

\* The second one, in a map that may be another.
LEMMA StarKeeps ==
    ASSUME ServerTypes, ResolverTypes, HandshakeInv, NEW c \in Conns, HelloStar(c)
    PROVE  ResolverTypes' /\ HandshakeInv'
  <1> DEFINE n == hello[c].name
             f == hello[c].from
             found == Star[n] \in DOMAIN Map[sni]
             answer == IF found THEN Map[sni][Star[n]] ELSE DefaultCert
  <1>1. /\ UNCHANGED <<cancel, sni>> /\ state[c] = "star"
        /\ state' = [state EXCEPT ![c] = "shake"]
        /\ hello' = [hello EXCEPT ![c].to = sni, ![c].cert = answer]
    BY DEF HelloStar, ConnGoes
  <1>2. /\ sni \in 0 .. Len(ServerTls) /\ Len(ServerTls) \in Nat
        /\ hello[c] \in [name : Names \union {NoName}, from : 0 .. Len(ServerTls),
                         to : 0 .. Len(ServerTls), cert : Certs]
    BY CertConstants DEF ResolverTypes
  <1>3. /\ found <=> Has(sni, Star[n])
        /\ found => answer = CertOf(sni, Star[n]) /\ answer \in Certs
        /\ ~found => answer = DefaultCert /\ answer \in Certs
    <2>1. /\ found <=> Has(sni, Star[n])
          /\ found => Map[sni][Star[n]] = CertOf(sni, Star[n]) /\ CertOf(sni, Star[n]) \in Certs
      BY <1>2, MapMatches, Zenon
    <2>2. DefaultCert \in Certs
      BY DEF Certs
    <2> QED
      BY <2>1, <2>2, Zenon
  <1> HIDE DEF found, answer
  <1>4. /\ hello'[c] = [hello[c] EXCEPT !.to = sni, !.cert = answer] /\ state'[c] = "shake"
        /\ \A d \in Conns \ {c} : state'[d] = state[d] /\ hello'[d] = hello[d]
    BY <1>1 DEF ResolverTypes, ServerTypes
  <1>5. /\ hello'[c].name = n /\ hello'[c].from = f /\ hello'[c].to = sni
        /\ hello'[c].cert = answer
    BY <1>2, <1>4
  <1>6. ResolverTypes'
    <2>1. [hello[c] EXCEPT !.to = sni, !.cert = answer]
             \in [name : Names \union {NoName}, from : 0 .. Len(ServerTls),
                  to : 0 .. Len(ServerTls), cert : Certs]
      BY <1>2, <1>3
    <2>2. hello' = [hello EXCEPT ![c] = [hello[c] EXCEPT !.to = sni, !.cert = answer]]
      BY <1>1
    <2> QED
      BY <1>1, <2>1, <2>2 DEF ResolverTypes
  <1>7. f <= sni /\ ~Has(f, n)
    BY <1>1 DEF HandshakeInv
  <1>8. f \in f .. sni /\ sni \in f .. sni
    BY <1>2, <1>7
  <1>9. LET h == hello'[c]
            lacks(e) == \E k \in h.from .. h.to : ~Has(k, e)
            from(e) == \E k \in h.from .. h.to : Has(k, e) /\ h.cert = CertOf(k, e)
        IN  \/ from(h.name)
            \/ lacks(h.name) /\ from(Star[h.name])
            \/ h.cert = DefaultCert /\ lacks(h.name) /\ lacks(Star[h.name])
    BY <1>3, <1>5, <1>7, <1>8
  <1>10. HandshakeInv'
    BY <1>1, <1>4, <1>6, <1>9, OneHandshake
  <1> QED
    BY <1>6, <1>10

\* Every step keeps the queues, the types and the handshakes.
LEMMA StepKeeps ==
    ASSUME ServerTypes, ServerTypes', KernelInv, ResolverTypes, HandshakeInv, [Next]_vars
    PROVE  KernelInv' /\ ResolverTypes' /\ HandshakeInv'
  <1>0. sni \in 0 .. Len(ServerTls) /\ Len(ServerTls) \in Nat
    BY CertConstants DEF ResolverTypes
  <1>1. ASSUME NEW how, End(how) PROVE KernelInv' /\ ResolverTypes' /\ HandshakeInv'
    <2>1. ResolverTypes'
      <3>1. cancel' \in BOOLEAN /\ hello' = [c \in Conns |-> NoHello] /\ sni' = 0
        BY <1>1, Zenon DEF End
      <3>2. 0 \in 0 .. Len(ServerTls)
        BY CertConstants
      <3> QED
        BY <3>1, <3>2, NoHelloTyped, Zenon DEF ResolverTypes
    <2>2. \A c \in Conns : state'[c] \notin {"star", "shake"}
      BY <1>1 DEF End, ServerTypes, Served
    <2>3. HandshakeInv'
      BY <2>2 DEF HandshakeInv, CertMatches
    <2> QED
      BY <1>1, <2>1, <2>3, EndKeepsQueues
  <1>2. ASSUME UNCHANGED <<queue, state, at, hello>>, cancel' \in BOOLEAN,
               sni' \in 0 .. Len(ServerTls), sni' >= sni
        PROVE  KernelInv' /\ ResolverTypes' /\ HandshakeInv'
    <2>1. KernelInv'
      BY <1>2, SameQueues
    <2>2. ResolverTypes'
      BY <1>2 DEF ResolverTypes
    <2> QED
      BY <1>2, <2>1, <2>2, NoHandshake
  <1>3. CASE StartErr \/ Terminate \/ Exit
    BY <1>1, <1>3 DEF StartErr, Terminate, Exit
  <1>4. CASE Start \/ Cancelled \/ JoinHttp \/ JoinHttps \/ CtrlC \/ ManagerStops
    <2>1. UNCHANGED <<queue, state, at, hello, sni>> /\ cancel' \in BOOLEAN
      BY <1>4 DEF Start, Cancelled, JoinHttp, JoinHttps, CtrlC, ManagerStops, MainGoes, tlsVars,
                  ResolverTypes
    <2> QED
      BY <1>0, <1>2, <2>1
  <1>5. CASE StoreSni
    <2>1. UNCHANGED <<queue, state, at, hello, cancel>>
      BY <1>5 DEF StoreSni
    <2>2. PICK k \in (sni + 1) .. Len(ServerTls) : sni' = k
      BY <1>5 DEF StoreSni
    <2> QED
      BY <1>0, <1>2, <2>1, <2>2 DEF ResolverTypes
  <1>6. ASSUME NEW s \in Listeners, ServerStep(s) PROVE KernelInv' /\ ResolverTypes' /\ HandshakeInv'
    <2>1. UNCHANGED <<hello, sni, cancel>>
      BY <1>6 DEF ServerStep, Bind, BindErr, Accept, AcceptErr, Wake, StopAccepting, JoinNext,
                  Drained, Return, ServerGoes, tlsVars
    <2>2. ResolverTypes' /\ sni' >= sni
      BY <1>0, <2>1 DEF ResolverTypes
    <2>3. CASE Bind(s) \/ BindErr(s) \/ AcceptErr(s) \/ Wake(s) \/ StopAccepting(s)
      <3>1. UNCHANGED <<queue, state, at>>
        BY <2>3 DEF Bind, BindErr, AcceptErr, Wake, StopAccepting, ServerGoes
      <3> QED
        BY <1>0, <1>2, <2>1, <3>1 DEF ResolverTypes
    <2>4. CASE Accept(s)
      <3>1. \A c \in Conns : state'[c] \in {"star", "shake"} => state'[c] = state[c]
        BY <2>4 DEF Accept, ServerTypes
      <3> QED
        BY <2>1, <2>2, <2>4, <3>1, AcceptKeepsQueues, NoHandshake
    <2>5. CASE JoinNext(s)
      <3>1. PICK c \in Conns : state[c] = "ended" /\ state' = [state EXCEPT ![c] = "joined"]
        BY <2>5 DEF JoinNext
      <3>2. UNCHANGED <<queue, at>>
        BY <2>5 DEF JoinNext
      <3>3. \A d \in Conns : state'[d] \in {"star", "shake"} => state'[d] = state[d]
        BY <3>1 DEF ServerTypes
      <3>4. KernelInv'
        BY <3>1, <3>2, OthersKeepQueues
      <3> QED
        BY <2>1, <2>2, <3>3, <3>4, NoHandshake
    <2>6. CASE Drained(s)
      <3>1. \A c \in Conns : state'[c] \in {"star", "shake"} => state'[c] = state[c]
        BY <2>6 DEF Drained, Return, ServerTypes
      <3> QED
        BY <2>1, <2>2, <2>6, <3>1, ReturnKeepsQueues, NoHandshake
    <2> QED
      BY <1>6, <2>3, <2>4, <2>5, <2>6 DEF ServerStep
  <1>7. ASSUME NEW c \in Conns, ConnStep(c) PROVE KernelInv' /\ ResolverTypes' /\ HandshakeInv'
    <2>1. ASSUME NEW s \in Listeners, Connect(c, s) PROVE KernelInv' /\ ResolverTypes' /\ HandshakeInv'
      <3>1. UNCHANGED <<hello, sni, cancel>> /\ state' = [state EXCEPT ![c] = "queued"]
        BY <2>1 DEF Connect, tlsVars
      <3>2. ResolverTypes' /\ sni' >= sni
        BY <1>0, <3>1 DEF ResolverTypes
      <3>3. \A d \in Conns : state'[d] \in {"star", "shake"} => state'[d] = state[d]
        BY <3>1 DEF ServerTypes
      <3> QED
        BY <2>1, <3>1, <3>2, <3>3, ConnectKeepsQueues, NoHandshake
    <2>2. ASSUME ~\E s \in Listeners : Connect(c, s) PROVE KernelInv'
      <3>1. PICK to \in InJoinSet :
              UNCHANGED <<queue, at>> /\ state[c] \in Served /\ state' = [state EXCEPT ![c] = to]
        BY <1>7, <2>2 DEF ConnStep, HelloExact, HelloNameless, HelloStar, TlsDone, Close, ConnGoes,
                          InJoinSet, Served
      <3>2. to # "queued" /\ state[c] # "queued"
        BY <3>1 DEF InJoinSet, Served
      <3> QED
        BY <3>1, <3>2, OthersKeepQueues
    <2>3. ASSUME NEW n \in Names, HelloExact(c, n) PROVE ResolverTypes' /\ HandshakeInv'
      BY <2>3, ExactKeeps
    <2>4. ASSUME HelloStar(c) PROVE ResolverTypes' /\ HandshakeInv'
      BY <2>4, StarKeeps
    <2>5. ASSUME HelloNameless(c) \/ TlsDone(c) \/ Close(c) PROVE ResolverTypes' /\ HandshakeInv'
      <3>1. PICK to \in {"open", "ended"} : state' = [state EXCEPT ![c] = to]
        BY <2>5 DEF HelloNameless, TlsDone, Close, ConnGoes
      <3>2. UNCHANGED <<sni, cancel>> /\ hello' \in {hello, [hello EXCEPT ![c] = NoHello]}
        BY <2>5 DEF HelloNameless, TlsDone, Close, ConnGoes
      <3>3. ResolverTypes' /\ sni' >= sni
        BY <1>0, <3>2, NoHelloTyped DEF ResolverTypes
      <3>4. \A d \in Conns : state'[d] \in {"star", "shake"} =>
               state'[d] = state[d] /\ hello'[d] = hello[d]
        BY <3>1, <3>2 DEF ServerTypes, ResolverTypes
      <3> QED
        BY <3>3, <3>4, NoHandshake
    <2> QED
      BY <1>7, <2>1, <2>2, <2>3, <2>4, <2>5 DEF ConnStep
  <1>8. CASE UNCHANGED vars
    BY <1>0, <1>2, <1>8 DEF vars, ResolverTypes
  <1> QED
    BY <1>3, <1>4, <1>5, <1>6, <1>7, <1>8 DEF Next, MainStep

\* So they hold in every state.
LEMMA ResolverInvariant == Spec => [](ServerTypes /\ KernelInv /\ ResolverTypes /\ HandshakeInv)
  <1> DEFINE Inv == KernelInv /\ ResolverTypes /\ HandshakeInv
  <1>1. Init => Inv
    <2> SUFFICES ASSUME Init PROVE Inv
      OBVIOUS
    <2>1. KernelInv /\ HandshakeInv
      BY DEF Init, KernelInv, HandshakeInv, CertMatches
    <2>2. ResolverTypes
      <3>1. cancel \in BOOLEAN /\ hello = [c \in Conns |-> NoHello] /\ sni = 0
        BY Zenon DEF Init
      <3>2. 0 \in 0 .. Len(ServerTls)
        BY CertConstants
      <3> QED
        BY <3>1, <3>2, NoHelloTyped, Zenon DEF ResolverTypes
    <2> QED
      BY <2>1, <2>2
  <1>2. Inv /\ ServerTypes /\ ServerTypes' /\ [Next]_vars => Inv'
    BY StepKeeps
  <1>3. ShutdownInv => ServerTypes
    BY DEF ShutdownInv
  <1> QED
    BY <1>1, <1>2, <1>3, ShutdownInvariant, PTL DEF Spec

\* Every variable keeps its type, and the kernel's queues hold the connections that wait.
THEOREM ServersTypeCorrect == Spec => []TypeOK
  <1>1. ASSUME ServerTypes, KernelInv, ResolverTypes PROVE TypeOK
    <2>1. ASSUME NEW s \in Listeners
          PROVE  Range(queue[s]) = {c \in Conns : state[c] = "queued" /\ at[c] = s}
      <3>1. queue[s] \in Seq(Conns)
        BY <1>1 DEF ServerTypes
      <3>2. Range(queue[s]) = {queue[s][i] : i \in 1 .. Len(queue[s])}
        BY <3>1 DEF Range
      <3>3. \A i \in 1 .. Len(queue[s]) :
               queue[s][i] \in Conns /\ at[queue[s][i]] = s /\ state[queue[s][i]] = "queued"
        BY <1>1, <3>1 DEF KernelInv
      <3>4. \A c \in Conns : state[c] = "queued" /\ at[c] = s =>
               \E i \in 1 .. Len(queue[s]) : queue[s][i] = c
        BY <1>1 DEF KernelInv
      <3> QED
        BY <3>2, <3>3, <3>4
    <2> QED
      BY <1>1, <2>1 DEF TypeOK, ServerTypes, ResolverTypes
  <1> QED
    BY <1>1, ResolverInvariant, PTL

\* Whatever maps are stored before, between and after the two lookups of resolve, the
\* certificate is that of the last usable bundle for the name, or for its wildcard, in a
\* map that was there, and the default only where both were missing.
THEOREM CertificateMatches == Spec => []CertMatches
  <1>1. HandshakeInv => CertMatches
    BY DEF HandshakeInv
  <1> QED
    BY <1>1, ResolverInvariant, PTL

=============================================================================
