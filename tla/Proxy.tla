------------------------------- MODULE Proxy -------------------------------
(***************************************************************************)
(* The data plane's request path: proxy_handler and what it calls          *)
(* (images/dataplane/src/proxy.rs), the load balancing of a cluster        *)
(* (RouteTable in snapshot.rs), and the gRPC manager replacing the route   *)
(* table while requests are in flight (grpc.rs).                           *)
(*                                                                         *)
(* Every installed table is a generation with a ClusterRule of its own: a  *)
(* new cursor and new counters.  All requests are for one cluster, if they *)
(* match a route at all.  Requests are slots: the slot of a finished       *)
(* request takes the next one.                                             *)
(***************************************************************************)
EXTENDS Integers, FiniteSetsExt

CONSTANTS
    Requests,      \* slots for requests in flight
    MaxInstalls,   \* bound on the number of tables installed
    MaxEndpoints,  \* bound on the endpoints of a cluster
    Configs,       \* the ClusterRules snapshots carry: [n, lb, retries, auth],
                   \* with n >= 1 endpoints (ToSnapshot omits empty clusters)
    MaxPicks       \* bound on a round-robin cursor

Tables == 1 .. MaxInstalls
Indices == 0 .. (MaxEndpoints - 1)
ClusterRules == [n : 1 .. MaxEndpoints, lb : {"RoundRobin", "LeastConn"},
                 retries : Int, auth : BOOLEAN]

ASSUME ProxyConstants ==
    /\ IsFiniteSet(Requests)
    /\ MaxInstalls \in Nat /\ MaxEndpoints \in Nat \ {0} /\ MaxPicks \in Nat
    /\ Configs \subseteq ClusterRules

VARIABLES
    gen,      \* the table in route_table, 0 for RouteTable::default()
    rules,    \* rules[g]: the ClusterRule of table g
    cursor,   \* cursor[g]: its rr_cursor
    active,   \* active[<<g, i>>]: its least_conn_cursor entry for endpoint i
    readers,  \* requests that hold the read guard of route_table
    writer,   \* the gRPC manager: "idle", or "waiting" for the write guard
    pc,       \* pc[r]: control point of proxy_handler
    tab,      \* tab[r]: the table the request was resolved with
    ep,       \* ep[r]: the endpoint selected
    reusable, \* reusable[r]: the body is empty, so the request can be replayed
    skip,     \* skip[r]: the path is under one of auth's skip_paths
    left,     \* left[r]: the counters least_conn has still to look at
    best,     \* best[r]: the least count it has seen
    attempt,  \* attempt[r]: upstream attempts started
    passed,   \* history: passed[r] if the authorization subrequest got a 2xx
    picks     \* history: picks[<<g, i>>] round-robin choices of endpoint i of table g

tableVars == <<gen, rules, cursor, active, picks>>
lockVars == <<readers, writer>>
choiceVars == <<tab, ep>>
inputVars == <<reusable, skip>>
scanVars == <<left, best>>
resultVars == <<attempt, passed>>
reqVars == <<inputVars, scanVars, resultVars>>
vars == <<gen, rules, cursor, active, picks, readers, writer, pc, tab, ep,
          reusable, skip, left, best, attempt, passed>>

Guarded == {"auth", "forward", "await"}
States == {"idle", "lock", "resolve", "scan", "acquire", "stream"} \union Guarded

\* Every variable keeps its type, a request refers to a table that exists once
\* it is past the lookup, and a waiting writer has a table left to install.
TypeOK ==
    /\ gen \in 0 .. MaxInstalls
    /\ rules \in [Tables -> ClusterRules]
    /\ cursor \in [Tables -> Nat]
    /\ active \in [Tables \X Indices -> Int]
    /\ readers \in SUBSET Requests
    /\ writer \in {"idle", "waiting"}
    /\ pc \in [Requests -> States]
    /\ tab \in [Requests -> 0 .. MaxInstalls]
    /\ ep \in [Requests -> Indices]
    /\ reusable \in [Requests -> BOOLEAN] /\ skip \in [Requests -> BOOLEAN]
    /\ left \in [Requests -> SUBSET Indices] /\ best \in [Requests -> Int]
    /\ attempt \in [Requests -> Nat] /\ passed \in [Requests -> BOOLEAN]
    /\ picks \in [Tables \X Indices -> Nat]
    /\ \A r \in Requests :
        pc[r] \in Guarded \union {"scan", "acquire"} => tab[r] \in Tables
    /\ writer = "waiting" => gen < MaxInstalls

\* Requests that hold an ActiveConnGuard on endpoint i of table g.
Holders(g, i) == {r \in Requests : pc[r] \in Guarded /\ tab[r] = g /\ ep[r] = i}

\* main: an empty table, no request.
Init ==
    /\ gen = 0
    /\ rules \in [Tables -> Configs]
    /\ cursor = [g \in Tables |-> 0]
    /\ active = [x \in Tables \X Indices |-> 0]
    /\ readers = {}
    /\ writer = "idle"
    /\ pc = [r \in Requests |-> "idle"]
    /\ tab = [r \in Requests |-> 0]
    /\ ep = [r \in Requests |-> 0]
    /\ reusable = [r \in Requests |-> TRUE] /\ skip = [r \in Requests |-> FALSE]
    /\ left = [r \in Requests |-> {}] /\ best = [r \in Requests |-> 0]
    /\ attempt = [r \in Requests |-> 0] /\ passed = [r \in Requests |-> FALSE]
    /\ picks = [x \in Tables \X Indices |-> 0]

----------------------------------------------------------------------------
(* Table updates *)

\* The manager has built the next table and queues for the write guard.
WaitForWrite ==
    /\ writer = "idle"
    /\ gen < MaxInstalls
    /\ writer' = "waiting"
    /\ UNCHANGED <<tableVars, readers, pc, choiceVars, reqVars>>

\* Mutated swap: the writer asks for the guard once more.
SwapTableAgain ==
    /\ writer = "waiting"
    /\ readers = {}
    /\ gen' = gen + 1
    /\ UNCHANGED <<rules, cursor, active, picks, lockVars, pc, choiceVars, reqVars>>

\* It swaps the table in and drops the guard.
SwapTable ==
    /\ writer = "waiting"
    /\ readers = {}
    /\ gen' = gen + 1
    /\ writer' = "idle"
    /\ UNCHANGED <<rules, cursor, active, picks, readers, pc, choiceVars, reqVars>>

----------------------------------------------------------------------------
(* Under the read guard *)

Goto(r, s) == pc' = [pc EXCEPT ![r] = s]

\* proxy_handler returns or its future is dropped: its variables are gone.
Leave(r, s) ==
    /\ tab' = [tab EXCEPT ![r] = 0] /\ ep' = [ep EXCEPT ![r] = 0]
    /\ reusable' = [reusable EXCEPT ![r] = TRUE] /\ skip' = [skip EXCEPT ![r] = FALSE]
    /\ attempt' = [attempt EXCEPT ![r] = 0] /\ passed' = [passed EXCEPT ![r] = FALSE]
    /\ Goto(r, s)
    /\ UNCHANGED scanVars

\* A connection hands a request to proxy_handler.
Arrive(r) ==
    /\ pc[r] = "idle"
    /\ \E b, s \in BOOLEAN :
        /\ reusable' = [reusable EXCEPT ![r] = b]
        /\ skip' = [skip EXCEPT ![r] = s]
    /\ Goto(r, "lock")
    /\ UNCHANGED <<tableVars, lockVars, choiceVars, scanVars, resultVars>>

\* route_table.read().await: the lock is fair, so readers queue behind a writer.
ReadLock(r) ==
    /\ pc[r] = "lock"
    /\ writer = "idle"
    /\ readers' = readers \union {r}
    /\ tab' = [tab EXCEPT ![r] = gen]
    /\ Goto(r, "resolve")
    /\ UNCHANGED <<tableVars, writer, ep, reqVars>>

\* No usable host (400), or no route or cluster for it (404); the default table
\* has none.  The read guard is dropped with the handler.
Reject(r) ==
    /\ pc[r] = "resolve"
    /\ readers' = readers \ {r}
    /\ Leave(r, "idle")
    /\ UNCHANGED <<tableVars, writer>>

\* Mutated round_robin: the last endpoint is never chosen.
RoundRobinShort(r) ==
    /\ pc[r] = "resolve"
    /\ tab[r] # 0
    /\ rules[tab[r]].lb = "RoundRobin"
    /\ cursor[tab[r]] < MaxPicks
    /\ ep' = [ep EXCEPT ![r] = IF rules[tab[r]].n = 1 THEN 0
                               ELSE cursor[tab[r]] % (rules[tab[r]].n - 1)]
    /\ cursor' = [cursor EXCEPT ![tab[r]] = @ + 1]
    /\ picks' = [picks EXCEPT ![<<tab[r], ep'[r]>>] = @ + 1]
    /\ Goto(r, "acquire")
    /\ UNCHANGED <<gen, rules, active, lockVars, tab, reqVars>>

\* round_robin: the fetch_add and the choice it determines.
RoundRobin(r) ==
    /\ pc[r] = "resolve"
    /\ tab[r] # 0
    /\ rules[tab[r]].lb = "RoundRobin"
    /\ cursor[tab[r]] < MaxPicks
    /\ ep' = [ep EXCEPT ![r] = cursor[tab[r]] % rules[tab[r]].n]
    /\ cursor' = [cursor EXCEPT ![tab[r]] = @ + 1]
    /\ picks' = [picks EXCEPT ![<<tab[r], ep'[r]>>] = @ + 1]
    /\ Goto(r, "acquire")
    /\ UNCHANGED <<gen, rules, active, lockVars, tab, reqVars>>

\* least_conn starts to iterate over the counters ...
LeastConn(r) ==
    /\ pc[r] = "resolve"
    /\ tab[r] # 0
    /\ rules[tab[r]].lb = "LeastConn"
    /\ left' = [left EXCEPT ![r] = 0 .. (rules[tab[r]].n - 1)]
    /\ Goto(r, "scan")
    /\ UNCHANGED <<tableVars, lockVars, choiceVars, inputVars, best, resultVars>>

\* ... loading one after the other, in the map's order, i.e. any order.
\* min_by_key keeps the first of the least ones.
LoadCounter(r, i) ==
    LET first == left[r] = 0 .. (rules[tab[r]].n - 1)
        count == active[<<tab[r], i>>]
        less  == first \/ count < best[r]
    IN  /\ pc[r] = "scan"
        /\ i \in left[r]
        /\ left' = [left EXCEPT ![r] = @ \ {i}]
        /\ best' = [best EXCEPT ![r] = IF left[r] = {i} THEN 0 ELSE IF less THEN count ELSE @]
        /\ ep' = [ep EXCEPT ![r] = IF less THEN i ELSE @]
        /\ Goto(r, IF left[r] = {i} THEN "acquire" ELSE "scan")
        /\ UNCHANGED <<tableVars, lockVars, tab, inputVars, resultVars>>

NextStage(r) == IF rules[tab[r]].auth THEN "auth" ELSE "forward"

\* Mutated Acquire: the read guard lives as long as the handler.
AcquireHoldingGuard(r) ==
    /\ pc[r] = "acquire"
    /\ active' = [active EXCEPT ![<<tab[r], ep[r]>>] = @ + 1]
    /\ Goto(r, NextStage(r))
    /\ UNCHANGED <<gen, rules, cursor, picks, lockVars, choiceVars, reqVars>>

\* ActiveConnGuard::new increments the chosen counter, then the read guard is
\* dropped: nothing below holds the lock while it waits for the network.
Acquire(r) ==
    /\ pc[r] = "acquire"
    /\ active' = [active EXCEPT ![<<tab[r], ep[r]>>] = @ + 1]
    /\ readers' = readers \ {r}
    /\ Goto(r, NextStage(r))
    /\ UNCHANGED <<gen, rules, cursor, picks, writer, choiceVars, reqVars>>

----------------------------------------------------------------------------
(* Without it *)

\* The ActiveConnGuard is dropped.
Release(r) == active' = [active EXCEPT ![<<tab[r], ep[r]>>] = @ - 1]

\* proxy_handler returns a response of its own.
Answer(r) == Release(r) /\ Leave(r, "idle")

\* Mutated AuthPass: an error of the subrequest lets the request pass.
AuthPassOnError(r) ==
    /\ pc[r] = "auth"
    /\ \E ok \in BOOLEAN : passed' = [passed EXCEPT ![r] = ok]
    /\ Goto(r, "forward")
    /\ UNCHANGED <<tableVars, lockVars, choiceVars, inputVars, scanVars, attempt>>

\* The authorization subrequest is answered with a 2xx.
AuthPass(r) ==
    /\ pc[r] = "auth"
    /\ ~skip[r]
    /\ passed' = [passed EXCEPT ![r] = TRUE]
    /\ Goto(r, "forward")
    /\ UNCHANGED <<tableVars, lockVars, choiceVars, inputVars, scanVars, attempt>>

\* The path is not to be authorized.
AuthSkip(r) ==
    /\ pc[r] = "auth"
    /\ skip[r]
    /\ Goto(r, "forward")
    /\ UNCHANGED <<tableVars, lockVars, choiceVars, reqVars>>

\* Redirected to sign in or refused (302, 401); or there is no usable URL, the
\* subrequest failed or had another status (502).
AuthFail(r) ==
    /\ pc[r] = "auth"
    /\ ~skip[r]
    /\ Answer(r)
    /\ UNCHANGED <<gen, rules, cursor, picks, lockVars>>

MaxAttempts(r) == IF rules[tab[r]].retries < 1 THEN 1 ELSE rules[tab[r]].retries

\* Mutated Send: the loop does not count its iterations.
SendUncounted(r) ==
    /\ pc[r] = "forward"
    /\ Goto(r, "await")
    /\ UNCHANGED <<tableVars, lockVars, choiceVars, reqVars>>

\* forward_to_upstream starts an attempt.
Send(r) ==
    /\ pc[r] = "forward"
    /\ attempt' = [attempt EXCEPT ![r] = @ + 1]
    /\ Goto(r, "await")
    /\ UNCHANGED <<tableVars, lockVars, choiceVars, inputVars, scanVars, passed>>

\* The upstream's response head arrives and proxy_handler returns it; hyper
\* goes on to stream the body.
Respond(r) ==
    /\ pc[r] = "await"
    /\ Release(r)
    /\ Leave(r, "stream")
    /\ UNCHANGED <<gen, rules, cursor, picks, lockVars>>

\* The attempt fails or times out.  It is repeated if attempts are left and the
\* request can be replayed; otherwise the answer is 502.
AttemptFail(r) ==
    /\ pc[r] = "await"
    /\ IF attempt[r] < MaxAttempts(r) /\ reusable[r]
       THEN Goto(r, "forward") /\ UNCHANGED <<active, choiceVars, reqVars>>
       ELSE Answer(r)
    /\ UNCHANGED <<gen, rules, cursor, picks, lockVars>>

\* The response has been sent.
BodyDone(r) ==
    /\ pc[r] = "stream"
    /\ Goto(r, "idle")
    /\ UNCHANGED <<tableVars, lockVars, choiceVars, reqVars>>

\* Mutated Cancel: the counter is not decremented.
CancelLeaking(r) ==
    /\ pc[r] \in {"lock", "auth", "await", "stream"}
    /\ Leave(r, "idle")
    /\ UNCHANGED <<tableVars, lockVars>>

\* The client goes away: hyper drops the handler's future where it awaits, and
\* with it the ActiveConnGuard.
Cancel(r) ==
    /\ pc[r] \in {"lock", "auth", "await", "stream"}
    /\ IF pc[r] \in Guarded THEN Release(r) ELSE UNCHANGED active
    /\ Leave(r, "idle")
    /\ UNCHANGED <<gen, rules, cursor, picks, lockVars>>

----------------------------------------------------------------------------

\* Steps that wait for nothing but the lock.
LocalStep(r) ==
    \/ ReadLock(r)
    \/ Reject(r)
    \/ RoundRobin(r)
    \/ LeastConn(r)
    \/ \E i \in Indices : LoadCounter(r, i)
    \/ Acquire(r)
    \/ AuthSkip(r)
    \/ Send(r)

Next ==
    \/ WaitForWrite
    \/ SwapTable
    \/ \E r \in Requests :
        \/ Arrive(r)
        \/ ReadLock(r)
        \/ Reject(r)
        \/ RoundRobin(r)
        \/ LeastConn(r)
        \/ \E i \in Indices : LoadCounter(r, i)
        \/ Acquire(r)
        \/ AuthPass(r)
        \/ AuthSkip(r)
        \/ AuthFail(r)
        \/ Send(r)
        \/ Respond(r)
        \/ AttemptFail(r)
        \/ BodyDone(r)
        \/ Cancel(r)

Spec == Init /\ [][Next]_vars

\* Tokio runs the tasks and the fair lock serves the writer in turn; clients,
\* upstreams and the authorization service owe nothing.
LocalFairness == WF_vars(SwapTable) /\ \A r \in Requests : WF_vars(LocalStep(r))

\* The timeout of an attempt fires.
TimeoutFairness == \A r \in Requests : WF_vars(AttemptFail(r))

FairSpec == Spec /\ LocalFairness /\ TimeoutFairness

----------------------------------------------------------------------------
(* Safety *)

\* A counter is the number of live guards on its endpoint, whatever races,
\* answers, retries, cancellations and table swaps happened: it never drifts
\* and never goes below zero.
CountersExact ==
    \A g \in Tables, i \in Indices : active[<<g, i>>] = Cardinality(Holders(g, i))

\* Nothing is sent to an upstream that asks for authorization before the
\* authorization service has answered the request with a 2xx, unless the path
\* is one to skip; the rule is that of the table the request was resolved with.
AuthorizedFirst ==
    \A r \in Requests :
        attempt[r] > 0 /\ rules[tab[r]].auth => passed[r] \/ skip[r]

\* A request is attempted at most max(1, retries) times, and only once if its
\* body cannot be replayed.
AttemptsBounded ==
    \A r \in Requests :
        attempt[r] > 0 =>
            /\ attempt[r] <= MaxAttempts(r)
            /\ attempt[r] > 1 => reusable[r]

\* Concurrent requests share the endpoints of a table evenly.
RoundRobinEven ==
    \A g \in Tables : \A i, j \in 0 .. (rules[g].n - 1) : picks[<<g, i>>] <= picks[<<g, j>>] + 1

----------------------------------------------------------------------------
(* Liveness *)

\* A table update is never held up by requests: it goes through even if no
\* upstream and no authorization service ever answers.
UpdateGoesThrough == (writer = "waiting") ~> (writer = "idle")

\* A request that needs no authorization is answered even if the upstream is
\* silent.
Answered ==
    \A r \in Requests :
        (pc[r] \in {"lock", "forward"}) ~> (pc[r] \in {"auth", "stream", "idle"})

============================================================================
