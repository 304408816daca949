------------------------------ MODULE Servers ------------------------------
(***************************************************************************)
(* The data-plane process (images/dataplane/src/main.rs): main starts the  *)
(* manager and the two proxy servers, and on cancellation joins HTTP, then *)
(* HTTPS, then shuts the manager down.  A server accepts until it is       *)
(* cancelled and then waits for the connection tasks of its JoinSet.       *)
(* HTTPS connections ask the resolver for a certificate while the manager  *)
(* may replace the map.                                                    *)
(*                                                                         *)
(* A client connects once.  The kernel completes its handshake and queues  *)
(* it as long as the listening socket exists, whatever the task does.  The *)
(* admin listener, which nothing cancels or joins, is left out.            *)
(***************************************************************************)
EXTENDS CertResolver

CONSTANT Conns

Listeners == {"http", "https"}

VARIABLES
    main,    \* where main is
    cancel,  \* the shutdown CancellationToken
    mgr,     \* the GrpcManager
    srv,     \* srv[s]: where the task of listener s is
    queue,   \* queue[s]: external, connections the kernel holds for s
    state,   \* state[c]: where connection c is
    at,      \* at[c]: the listener it came to
    hello,   \* hello[c]: the TLS handshake of c, as far as resolve is
    sni      \* the snapshot the map of certificates was built from

tlsVars == <<hello, sni>>
vars == <<main, cancel, mgr, srv, queue, state, at, hello, sni>>

\* The states of a connection's task.
Served == {"tls", "star", "shake", "open"}
\* Its handle is in the JoinSet, the task running or finished.
InJoinSet == Served \union {"ended"}

NoHello == [name |-> NoName, from |-> 0, to |-> 0, cert |-> DefaultCert]

\* Every variable of the process keeps its type, and a queue holds the
\* connections that wait for that listener.
TypeOK ==
    /\ main \in {"start", "wait", "http", "https", "manager",
                 "failed", "exited", "terminated"}
    /\ cancel \in BOOLEAN
    /\ mgr \in {"running", "stopping", "stopped"}
    /\ srv \in [Listeners -> {"none", "bind", "accept", "sleep", "drain", "done"}]
    /\ state \in [Conns -> {"new", "queued", "joined", "refused", "cut"} \union InJoinSet]
    /\ at \in [Conns -> Listeners]
    /\ hello \in [Conns -> [name : Names \union {NoName}, from : 0 .. Len(ServerTls),
                            to : 0 .. Len(ServerTls), cert : Certs]]
    /\ sni \in 0 .. Len(ServerTls)
    /\ \A s \in Listeners : Range(queue[s]) = {c \in Conns : state[c] = "queued" /\ at[c] = s}

Init ==
    /\ main = "start"
    /\ cancel = FALSE
    /\ mgr = "running"
    /\ srv = [s \in Listeners |-> "none"]
    /\ queue = [s \in Listeners |-> << >>]
    /\ state = [c \in Conns |-> "new"]
    /\ at = [c \in Conns |-> "http"]
    /\ hello = [c \in Conns |-> NoHello]
    /\ sni = 0

Alive == main \in {"start", "wait", "http", "https", "manager"}

----------------------------------------------------------------------------
(* main *)

\* The process is gone and its memory with it: the kernel resets what is open or
\* queued.
End(how) ==
    /\ main' = how
    /\ state' = [c \in Conns |-> CASE state[c] \in Served   -> "cut"
                                   [] state[c] = "queued" -> "refused"
                                   [] OTHER               -> state[c]]
    /\ queue' = [s \in Listeners |-> << >>]
    /\ srv' = [s \in Listeners |-> "none"]
    /\ cancel' = FALSE
    /\ mgr' = "stopped"
    /\ hello' = [c \in Conns |-> NoHello]
    /\ sni' = 0
    /\ UNCHANGED at

\* The admin listener is bound and the servers are spawned.
Start ==
    /\ main = "start"
    /\ main' = "wait"
    /\ srv' = [s \in Listeners |-> "bind"]
    /\ UNCHANGED <<cancel, mgr, queue, state, at, tlsVars>>

\* A port that does not parse, the admin bind or the dummy certificate: the ?
\* ends main, and the runtime with it.
StartErr == main = "start" /\ End("failed")

\* The signal task: ctrl_c().
CtrlC ==
    /\ Alive /\ ~cancel
    /\ cancel' = TRUE
    /\ UNCHANGED <<main, mgr, srv, queue, state, at, tlsVars>>

\* SIGTERM has its default disposition: nothing in the process handles it.  (A
\* process that is PID 1 does not even see it, and is killed after the grace period.)
Terminate == Alive /\ End("terminated")

MainGoes(from, to) ==
    /\ main = from
    /\ main' = to
    /\ UNCHANGED <<cancel, srv, queue, state, at, tlsVars>>

\* Mutated main: the manager is shut down as soon as the shutdown is requested.
CancelledAll == cancel /\ MainGoes("wait", "http") /\ mgr' = "stopping"

\* shutdown_select.cancelled().
Cancelled == cancel /\ MainGoes("wait", "http") /\ UNCHANGED mgr

JoinHttp == srv["http"] = "done" /\ MainGoes("http", "https") /\ UNCHANGED mgr

\* https_handle.await; then manager.shutdown() cancels the manager's tasks.
JoinHttps == srv["https"] = "done" /\ MainGoes("https", "manager") /\ mgr' = "stopping"

\* The manager's tasks end (ShutdownCompletes of GrpcManager).
ManagerStops ==
    /\ Alive /\ mgr = "stopping"
    /\ mgr' = "stopped"
    /\ UNCHANGED <<main, cancel, srv, queue, state, at, tlsVars>>

\* main returns.
Exit == main = "manager" /\ mgr = "stopped" /\ End("exited")

----------------------------------------------------------------------------
(* run_http and run_https *)

ServerGoes(s, from, to) ==
    /\ Alive
    /\ srv[s] = from
    /\ srv' = [srv EXCEPT ![s] = to]
    /\ UNCHANGED <<main, cancel, mgr, at, tlsVars>>

Bind(s) == ServerGoes(s, "bind", "accept") /\ UNCHANGED <<queue, state>>

\* The error goes to the JoinHandle, which nobody reads before the shutdown.
BindErr(s) == ServerGoes(s, "bind", "done") /\ UNCHANGED <<queue, state>>

\* Mutated accept arm: the connection is served and stays queued.
AcceptPeek(s) ==
    /\ Alive
    /\ srv[s] = "accept"
    /\ queue[s] # << >>
    /\ state' = [state EXCEPT ![Head(queue[s])] = IF s = "https" THEN "tls" ELSE "open"]
    /\ UNCHANGED <<main, cancel, mgr, srv, queue, at, tlsVars>>

\* The accept arm.  It may win over a cancellation that is already there:
\* select! polls its arms in random order.
Accept(s) ==
    /\ Alive
    /\ srv[s] = "accept"
    /\ queue[s] # << >>
    /\ state' = [state EXCEPT ![Head(queue[s])] = IF s = "https" THEN "tls" ELSE "open"]
    /\ queue' = [queue EXCEPT ![s] = Tail(@)]
    /\ UNCHANGED <<main, cancel, mgr, srv, at, tlsVars>>

AcceptErr(s) == ServerGoes(s, "accept", "sleep") /\ UNCHANGED <<queue, state>>

\* Mutated error arm: after a failed accept the server only waits for its end.
WakeToStop(s) == cancel /\ ServerGoes(s, "sleep", "accept") /\ UNCHANGED <<queue, state>>

\* After 100 ms.
Wake(s) == ServerGoes(s, "sleep", "accept") /\ UNCHANGED <<queue, state>>

\* The cancelled() arm.  The listener stays bound.
StopAccepting(s) == cancel /\ ServerGoes(s, "accept", "drain") /\ UNCHANGED <<queue, state>>

\* conns.join_next() takes a finished task.
JoinNext(s) ==
    /\ Alive
    /\ srv[s] = "drain"
    /\ \E c \in Conns :
        /\ at[c] = s /\ state[c] = "ended"
        /\ state' = [state EXCEPT ![c] = "joined"]
    /\ UNCHANGED <<main, cancel, mgr, srv, queue, at, tlsVars>>

\* The server's function returns and drops its listener.
Return(s) ==
    /\ ServerGoes(s, "drain", "done")
    /\ queue' = [queue EXCEPT ![s] = << >>]
    /\ state' = [c \in Conns |-> IF c \in Range(queue[s]) THEN "refused" ELSE state[c]]

\* Mutated drain: it ends when no task is finished yet, like try_join_next.
DrainedForNow(s) == (\A c \in Conns : at[c] = s => state[c] # "ended") /\ Return(s)

\* Mutated drain: it also waits for the connections that nobody accepts any more.
DrainedWithQueue(s) ==
    /\ queue[s] = << >>
    /\ \A c \in Conns : at[c] = s => state[c] \notin InJoinSet
    /\ Return(s)

\* join_next() is None: the JoinSet is empty.
Drained(s) == (\A c \in Conns : at[c] = s => state[c] \notin InJoinSet) /\ Return(s)

----------------------------------------------------------------------------
(* Connections *)

\* external: the client's TCP handshake; a closed port refuses it.
Connect(c, s) ==
    /\ Alive
    /\ state[c] = "new" /\ srv[s] \in {"accept", "sleep", "drain"}
    /\ state' = [state EXCEPT ![c] = "queued"]
    /\ at' = [at EXCEPT ![c] = s]
    /\ queue' = [queue EXCEPT ![s] = Append(@, c)]
    /\ UNCHANGED <<main, cancel, mgr, srv, tlsVars>>

ConnGoes(c, from, to) ==
    /\ Alive
    /\ state[c] \in from
    /\ state' = [state EXCEPT ![c] = to]
    /\ UNCHANGED <<main, cancel, mgr, srv, queue, at, sni>>

\* The first lookup of resolve, for the name the client sent.
HelloExact(c, n) ==
    LET found == n \in DOMAIN Map[sni]
    IN  /\ ConnGoes(c, {"tls"}, IF ~found /\ Star[n] # NoName THEN "star" ELSE "shake")
        /\ hello' = [hello EXCEPT ![c] = [name |-> n, from |-> sni, to |-> sni,
                                          cert |-> IF found THEN Map[sni][n] ELSE DefaultCert]]

\* Without a server name there is no certificate, and the handshake fails.
HelloNameless(c) == ConnGoes(c, {"tls"}, "ended") /\ UNCHANGED hello

\* The second lookup, for the wildcard, in a map loaded again.
HelloStar(c) ==
    LET star == Star[hello[c].name]
    IN  /\ ConnGoes(c, {"star"}, "shake")
        /\ hello' = [hello EXCEPT ![c].to = sni,
                                  ![c].cert = IF star \in DOMAIN Map[sni] THEN Map[sni][star]
                                              ELSE DefaultCert]

TlsDone(c) == ConnGoes(c, {"shake"}, "open") /\ hello' = [hello EXCEPT ![c] = NoHello]

\* The client closes, or the connection breaks: serve_connection returns.  The
\* requests in between are Proxy's.
Close(c) ==
    /\ ConnGoes(c, {"tls", "shake", "open"}, "ended")
    /\ hello' = [hello EXCEPT ![c] = NoHello]

\* The manager stores the map of a later snapshot (NeverBackwards of GrpcManager).
StoreSni ==
    /\ Alive /\ mgr = "running"
    /\ \E k \in (sni + 1) .. Len(ServerTls) : sni' = k
    /\ UNCHANGED <<main, cancel, mgr, srv, queue, state, at, hello>>

----------------------------------------------------------------------------

MainStep == Start \/ StartErr \/ Cancelled \/ JoinHttp \/ JoinHttps \/ Exit

ServerStep(s) ==
    \/ Bind(s) \/ BindErr(s)
    \/ Accept(s) \/ AcceptErr(s) \/ Wake(s)
    \/ StopAccepting(s) \/ JoinNext(s) \/ Drained(s)

ConnStep(c) ==
    \/ \E s \in Listeners : Connect(c, s)
    \/ \E n \in Names : HelloExact(c, n)
    \/ HelloNameless(c) \/ HelloStar(c) \/ TlsDone(c) \/ Close(c)

Next ==
    \/ MainStep \/ CtrlC \/ Terminate \/ ManagerStops \/ StoreSni
    \/ \E s \in Listeners : ServerStep(s)
    \/ \E c \in Conns : ConnStep(c)

Spec == Init /\ [][Next]_vars

\* The runtime runs every task that can make progress.
TaskFairness ==
    /\ WF_vars(MainStep) /\ WF_vars(ManagerStops)
    /\ \A s \in Listeners : WF_vars(ServerStep(s))
    /\ \A c \in Conns : WF_vars(HelloStar(c))

\* select! chooses among its ready arms at random, so an arm that is ready time
\* and again is taken; accept does not fail for ever.
SelectFairness ==
    \A s \in Listeners : SF_vars(StopAccepting(s)) /\ SF_vars(Accept(s))

\* Clients hang up some day.  main.rs sets no time limit on a connection.
ClientFairness == \A c \in Conns : WF_vars(Close(c))

FairSpec == Spec /\ TaskFairness /\ SelectFairness /\ ClientFairness

----------------------------------------------------------------------------
(* Properties *)

\* README: "stops accepting, waits active conns, then exits".  When main returns,
\* no connection that a server accepted is cut off, be it accepted after the
\* cancellation or while the other server was draining.
NothingCutOff ==
    main = "exited" => \A c \in Conns : state[c] # "cut"

\* The manager is shut down after the servers: as long as a connection is open, its
\* requests find a configuration that is kept up to date.
ManagerOutlives ==
    (\E c \in Conns : state[c] \in Served) => mgr = "running"

\* resolve answers a name with the certificate that the last usable bundle of a
\* snapshot has for it, by its own entry before the wildcard's, and with the default
\* only if some snapshot stored meanwhile lacks the one and some lacks the other.
CertMatches ==
    \A c \in Conns : state[c] = "shake" =>
        LET h == hello[c]
            during == h.from .. h.to
            lacks(e) == \E k \in during : ~Has(k, e)
            from(e) == \E k \in during : Has(k, e) /\ h.cert = CertOf(k, e)
        IN  \/ from(h.name)
            \/ lacks(h.name) /\ from(Star[h.name])
            \/ h.cert = DefaultCert /\ lacks(h.name) /\ lacks(Star[h.name])

\* A requested shutdown completes: whatever was being accepted, retried, bound or
\* handshaken, the process ends once its clients have hung up.
ShutdownEnds == cancel ~> ~Alive

\* A connection the kernel queued is accepted, or reset when its listener closes: it
\* is not left hanging, even if it came after the server stopped accepting.
QueuedSettles == \A c \in Conns : state[c] = "queued" ~> state[c] # "queued"

\* main.rs: "Ctrl+C / SIGTERM -> cancel".  A process that is told to terminate, by
\* either signal, cuts off no connection it accepted.
SignalsDrain ==
    main \in {"exited", "terminated"} => \A c \in Conns : state[c] # "cut"

=============================================================================
