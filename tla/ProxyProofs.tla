---------------------------- MODULE ProxyProofs ----------------------------
(***************************************************************************)
(* The safety properties of Proxy, for any number of requests, table       *)
(* updates and endpoints and any cluster rules.                            *)
(***************************************************************************)
EXTENDS Proxy, FiniteSetTheorems, TLAPS

\* main's initial state has the right types.
LEMMA InitType == Init => TypeOK
  <1> SUFFICES ASSUME Init PROVE TypeOK
    OBVIOUS
  <1>1. 0 \in Indices /\ 0 \in 0 .. MaxInstalls
    BY ProxyConstants DEF Indices
  <1>2. rules \in [Tables -> ClusterRules]
    BY ProxyConstants DEF Init
  <1> QED
    BY <1>1, <1>2 DEF Init, TypeOK, States, Guarded

\* What dropping an ActiveConnGuard does to the counters.
LEMMA Released ==
    ASSUME active \in [Tables \X Indices -> Int], NEW r \in Requests,
           tab[r] \in Tables, ep[r] \in Indices, Release(r)
    PROVE  /\ active' \in [Tables \X Indices -> Int]
           /\ active'[<<tab[r], ep[r]>>] = active[<<tab[r], ep[r]>>] - 1
           /\ \A g \in Tables, i \in Indices :
                 ~(tab[r] = g /\ ep[r] = i) => active'[<<g, i>>] = active[<<g, i>>]
  BY DEF Release

\* What the end of proxy_handler does to the variables of the request, and that
\* it leaves those of the others alone.
LEMMA LeaveEffect ==
    ASSUME TypeOK, NEW r \in Requests, NEW s \in {"idle", "stream"}, Leave(r, s)
    PROVE  /\ pc' \in [Requests -> States]
           /\ tab' \in [Requests -> 0 .. MaxInstalls] /\ ep' \in [Requests -> Indices]
           /\ reusable' \in [Requests -> BOOLEAN] /\ skip' \in [Requests -> BOOLEAN]
           /\ attempt' \in [Requests -> Nat] /\ passed' \in [Requests -> BOOLEAN]
           /\ UNCHANGED <<left, best>>
           /\ pc'[r] = s /\ attempt'[r] = 0
           /\ \A q \in Requests \ {r} :
                 /\ pc'[q] = pc[q] /\ tab'[q] = tab[q] /\ ep'[q] = ep[q]
                 /\ attempt'[q] = attempt[q] /\ passed'[q] = passed[q]
                 /\ skip'[q] = skip[q] /\ reusable'[q] = reusable[q]
  <1>1. 0 \in Indices /\ 0 \in 0 .. MaxInstalls
    BY ProxyConstants DEF Indices
  <1> QED
    BY <1>1 DEF TypeOK, Leave, Goto, scanVars, States, Guarded

\* A handler that ends keeps the types, given the counters' and the guards'.
LEMMA LeaveType ==
    ASSUME TypeOK, NEW r \in Requests, NEW s \in {"idle", "stream"}, Leave(r, s),
           active' \in [Tables \X Indices -> Int], readers' \in SUBSET Requests,
           UNCHANGED <<gen, rules, cursor, picks, writer>>
    PROVE  TypeOK'
  BY LeaveEffect DEF TypeOK, Guarded

\* Every step of a request and of the table's writer keeps the types.
LEMMA StepType == TypeOK /\ [Next]_vars => TypeOK'
  <1> SUFFICES ASSUME TypeOK, [Next]_vars PROVE TypeOK'
    OBVIOUS
  <1> USE DEF TypeOK, tableVars, lockVars, choiceVars, inputVars, scanVars, resultVars, reqVars, Goto
  <1>1. CASE WaitForWrite
    BY <1>1 DEF WaitForWrite
  <1>2. CASE SwapTable
    BY <1>2, ProxyConstants DEF SwapTable
  <1>3. ASSUME NEW r \in Requests, Arrive(r) PROVE TypeOK'
    BY <1>3 DEF Arrive, States, Guarded
  <1>4. ASSUME NEW r \in Requests, ReadLock(r) PROVE TypeOK'
    BY <1>4 DEF ReadLock, States, Guarded
  <1>5. ASSUME NEW r \in Requests, Reject(r) PROVE TypeOK'
    BY <1>5, LeaveType DEF Reject
  <1>6. ASSUME NEW r \in Requests, RoundRobin(r) PROVE TypeOK'
    <2>1. tab[r] \in Tables
      BY <1>6, ProxyConstants DEF RoundRobin, Tables
    <2>2. cursor[tab[r]] % rules[tab[r]].n \in Indices
      BY <2>1, ProxyConstants DEF Indices, ClusterRules
    <2> QED
      BY <1>6, <2>1, <2>2 DEF RoundRobin, States, Guarded
  <1>7. ASSUME NEW r \in Requests, LeastConn(r) PROVE TypeOK'
    <2>1. tab[r] \in Tables
      BY <1>7, ProxyConstants DEF LeastConn, Tables
    <2>2. 0 .. (rules[tab[r]].n - 1) \in SUBSET Indices
      BY <2>1, ProxyConstants DEF Indices, ClusterRules
    <2> QED
      BY <1>7, <2>1, <2>2 DEF LeastConn, States, Guarded
  <1>8. ASSUME NEW r \in Requests, NEW i \in Indices, LoadCounter(r, i) PROVE TypeOK'
    <2>1. tab[r] \in Tables /\ active[<<tab[r], i>>] \in Int
      BY <1>8 DEF LoadCounter
    <2> QED
      BY <1>8, <2>1 DEF LoadCounter, States, Guarded
  <1>9. ASSUME NEW r \in Requests, Acquire(r) PROVE TypeOK'
    BY <1>9 DEF Acquire, NextStage, States, Guarded
  <1>10. ASSUME NEW r \in Requests, AuthPass(r) \/ AuthSkip(r) PROVE TypeOK'
    BY <1>10 DEF AuthPass, AuthSkip, States, Guarded
  <1>11. ASSUME NEW r \in Requests, AuthFail(r) PROVE TypeOK'
    <2>1. tab[r] \in Tables /\ ep[r] \in Indices /\ Release(r)
      BY <1>11 DEF AuthFail, Answer, Guarded
    <2>2. active' \in [Tables \X Indices -> Int]
      BY <2>1, Released
    <2> QED
      BY <1>11, <2>2, LeaveType DEF AuthFail, Answer
  <1>12. ASSUME NEW r \in Requests, Send(r) PROVE TypeOK'
    BY <1>12 DEF Send, States, Guarded
  <1>13. ASSUME NEW r \in Requests, Respond(r) PROVE TypeOK'
    <2>1. tab[r] \in Tables /\ ep[r] \in Indices /\ Release(r)
      BY <1>13 DEF Respond, Guarded
    <2>2. active' \in [Tables \X Indices -> Int]
      BY <2>1, Released
    <2> QED
      BY <1>13, <2>2, LeaveType DEF Respond
  <1>14. ASSUME NEW r \in Requests, AttemptFail(r) PROVE TypeOK'
    <2>1. CASE Goto(r, "forward") /\ UNCHANGED <<active, choiceVars, reqVars>>
      BY <1>14, <2>1 DEF AttemptFail, States, Guarded
    <2>2. CASE Answer(r)
      <3>1. tab[r] \in Tables /\ ep[r] \in Indices
        BY <1>14 DEF AttemptFail, Guarded
      <3>2. active' \in [Tables \X Indices -> Int]
        BY <3>1, <2>2, Released DEF Answer
      <3> QED
        BY <1>14, <2>2, <3>2, LeaveType DEF AttemptFail, Answer
    <2> QED
      BY <1>14, <2>1, <2>2 DEF AttemptFail
  <1>15. ASSUME NEW r \in Requests, BodyDone(r) PROVE TypeOK'
    BY <1>15 DEF BodyDone, States, Guarded
  <1>16. ASSUME NEW r \in Requests, Cancel(r) PROVE TypeOK'
    <2>1. active' \in [Tables \X Indices -> Int]
      <3>1. UNCHANGED active \/ (tab[r] \in Tables /\ ep[r] \in Indices /\ Release(r))
        BY <1>16 DEF Cancel, Guarded
      <3>2. active \in [Tables \X Indices -> Int]
        OBVIOUS
      <3> HIDE DEF TypeOK
      <3> QED
        BY <3>1, <3>2, Released
    <2> QED
      BY <1>16, <2>1, LeaveType DEF Cancel
  <1>17. CASE UNCHANGED vars
    BY <1>17 DEF vars
  <1> HIDE DEF TypeOK, tableVars, lockVars, choiceVars, inputVars, scanVars, resultVars, reqVars, Goto
  <1> QED
    BY <1>1, <1>2, <1>3, <1>4, <1>5, <1>6, <1>7, <1>8, <1>9, <1>10, <1>11, <1>12, <1>13, <1>14,
       <1>15, <1>16, <1>17 DEF Next

\* Type correctness of the request path.
THEOREM ProxyTypeCorrect == Spec => []TypeOK
  BY InitType, StepType, PTL DEF Spec

----------------------------------------------------------------------------
(* CountersExact: the in-flight counters of least_conn *)

\* Requests that do not take or drop an ActiveConnGuard leave the holders alone.
LEMMA HoldersKept ==
    ASSUME TypeOK, NEW r \in Requests, NEW s \in States, Goto(r, s),
           NEW g \in Tables, NEW i \in Indices,
           \/ pc[r] \in Guarded /\ s \in Guarded /\ tab'[r] = tab[r] /\ ep'[r] = ep[r]
           \/ pc[r] \notin Guarded /\ s \notin Guarded,
           \A q \in Requests \ {r} : tab'[q] = tab[q] /\ ep'[q] = ep[q]
    PROVE  Holders(g, i)' = Holders(g, i)
  <1>1. pc'[r] = s /\ \A q \in Requests \ {r} : pc'[q] = pc[q]
    BY DEF TypeOK, Goto
  <1> QED
    BY <1>1 DEF Holders

\* ActiveConnGuard::new: one counter goes up, and one holder joins its set.
LEMMA GuardTaken ==
    ASSUME TypeOK, CountersExact, NEW r \in Requests, NEW s \in Guarded, Goto(r, s),
           pc[r] \notin Guarded, tab[r] \in Tables, UNCHANGED <<tab, ep>>,
           active' = [active EXCEPT ![<<tab[r], ep[r]>>] = @ + 1]
    PROVE  CountersExact'
  <1> SUFFICES ASSUME NEW g \in Tables, NEW i \in Indices
               PROVE  active'[<<g, i>>] = Cardinality(Holders(g, i)')
    BY DEF CountersExact
  <1>1. pc'[r] = s /\ \A q \in Requests \ {r} : pc'[q] = pc[q]
    BY DEF TypeOK, Goto
  <1>2. IsFiniteSet(Holders(g, i)) /\ Cardinality(Holders(g, i)) \in Nat
    BY ProxyConstants, FS_Subset, FS_CardinalityType DEF Holders
  <1>3. active[<<g, i>>] = Cardinality(Holders(g, i))
    BY DEF CountersExact
  <1>4. CASE tab[r] = g /\ ep[r] = i
    <2>1. Holders(g, i)' = Holders(g, i) \union {r} /\ r \notin Holders(g, i)
      BY <1>1, <1>4 DEF Holders
    <2>2. active'[<<g, i>>] = active[<<g, i>>] + 1
      BY <1>4 DEF TypeOK
    <2> QED
      BY <1>2, <1>3, <2>1, <2>2, FS_AddElement
  <1>5. CASE ~(tab[r] = g /\ ep[r] = i)
    <2>1. Holders(g, i)' = Holders(g, i)
      BY <1>1, <1>5 DEF Holders
    <2>2. active'[<<g, i>>] = active[<<g, i>>]
      BY <1>5 DEF TypeOK
    <2> QED
      BY <1>3, <2>1, <2>2
  <1> QED
    BY <1>4, <1>5

\* Its drop, wherever the handler ends: one counter goes down, and one holder
\* leaves its set.
LEMMA GuardDropped ==
    ASSUME TypeOK, CountersExact, NEW r \in Requests, NEW s \in {"idle", "stream"}, Leave(r, s),
           pc[r] \in Guarded, Release(r)
    PROVE  CountersExact'
  <1> SUFFICES ASSUME NEW g \in Tables, NEW i \in Indices
               PROVE  active'[<<g, i>>] = Cardinality(Holders(g, i)')
    BY DEF CountersExact
  <1>1. /\ pc'[r] = s
        /\ \A q \in Requests \ {r} : pc'[q] = pc[q] /\ tab'[q] = tab[q] /\ ep'[q] = ep[q]
    BY LeaveEffect
  <1>2. IsFiniteSet(Holders(g, i)) /\ Cardinality(Holders(g, i)) \in Nat
    BY ProxyConstants, FS_Subset, FS_CardinalityType DEF Holders
  <1>3. active[<<g, i>>] = Cardinality(Holders(g, i))
    BY DEF CountersExact
  <1>4. CASE tab[r] = g /\ ep[r] = i
    <2>1. Holders(g, i)' = Holders(g, i) \ {r} /\ r \in Holders(g, i)
      BY <1>1, <1>4 DEF Holders, Guarded
    <2>2. active'[<<g, i>>] = active[<<g, i>>] - 1
      <3>1. active \in [Tables \X Indices -> Int]
        BY DEF TypeOK
      <3> QED
        BY <1>4, <3>1, Released
    <2> QED
      <3>1. Cardinality(Holders(g, i) \ {r}) = Cardinality(Holders(g, i)) - 1
        BY <1>2, <2>1, FS_RemoveElement
      <3> QED
        BY <1>3, <2>1, <2>2, <3>1
  <1>5. CASE ~(tab[r] = g /\ ep[r] = i)
    <2>1. Holders(g, i)' = Holders(g, i)
      BY <1>1, <1>5 DEF Holders, Guarded
    <2>2. active'[<<g, i>>] = active[<<g, i>>]
      <3>1. tab[r] \in Tables /\ ep[r] \in Indices
        BY DEF TypeOK
      <3>2. active \in [Tables \X Indices -> Int]
        BY DEF TypeOK
      <3> QED
        BY <1>5, <3>1, <3>2, Released
    <2> QED
      BY <1>3, <2>1, <2>2
  <1> QED
    BY <1>4, <1>5

\* A handler that ends without a guard leaves the holders alone.
LEMMA LeftUnguarded ==
    ASSUME TypeOK, NEW r \in Requests, NEW s \in {"idle", "stream"}, Leave(r, s),
           pc[r] \notin Guarded, NEW g \in Tables, NEW i \in Indices
    PROVE  Holders(g, i)' = Holders(g, i)
  BY LeaveEffect DEF Holders, Guarded

\* Every step keeps the counters exact.
LEMMA StepCounters == TypeOK /\ CountersExact /\ [Next]_vars => CountersExact'
  <1> SUFFICES ASSUME TypeOK, CountersExact, [Next]_vars PROVE CountersExact'
    OBVIOUS
  <1>t. ASSUME NEW r \in Requests, pc[r] \in Guarded \union {"scan", "acquire"}
        PROVE  tab[r] \in Tables
    BY <1>t DEF TypeOK
  <1>k. ASSUME UNCHANGED active, \A g \in Tables, i \in Indices : Holders(g, i)' = Holders(g, i)
        PROVE  CountersExact'
    BY <1>k DEF CountersExact
  <1>e. ASSUME NEW r \in Requests
        PROVE  /\ \A v : tab' = [tab EXCEPT ![r] = v] => \A q \in Requests \ {r} : tab'[q] = tab[q]
               /\ \A v : ep' = [ep EXCEPT ![r] = v] => \A q \in Requests \ {r} : ep'[q] = ep[q]
    BY DEF TypeOK
  <1>1. CASE WaitForWrite \/ SwapTable \/ UNCHANGED vars
    BY <1>1, <1>k DEF WaitForWrite, SwapTable, vars, tableVars, choiceVars, Holders
  <1>2. ASSUME NEW r \in Requests, Arrive(r) PROVE CountersExact'
    BY <1>2, <1>k, HoldersKept DEF Arrive, tableVars, choiceVars, Guarded, States
  <1>3. ASSUME NEW r \in Requests, ReadLock(r) PROVE CountersExact'
    BY <1>3, <1>k, <1>e, HoldersKept DEF ReadLock, tableVars, Guarded, States
  <1>4. ASSUME NEW r \in Requests, Reject(r) PROVE CountersExact'
    BY <1>4, <1>k, LeftUnguarded DEF Reject, tableVars, Guarded
  <1>5. ASSUME NEW r \in Requests, RoundRobin(r) PROVE CountersExact'
    <2>1. Goto(r, "acquire") /\ pc[r] = "resolve" /\ UNCHANGED <<active, tab>>
      BY <1>5 DEF RoundRobin
    <2>2. \A q \in Requests \ {r} : ep'[q] = ep[q]
      BY <1>5, <1>e DEF RoundRobin
    <2> QED
      BY <2>1, <2>2, <1>k, HoldersKept DEF Guarded, States
  <1>6. ASSUME NEW r \in Requests, LeastConn(r) PROVE CountersExact'
    BY <1>6, <1>k, HoldersKept DEF LeastConn, tableVars, choiceVars, Guarded, States
  <1>7. ASSUME NEW r \in Requests, NEW i \in Indices, LoadCounter(r, i) PROVE CountersExact'
    <2>1. /\ Goto(r, IF left[r] = {i} THEN "acquire" ELSE "scan")
          /\ pc[r] = "scan" /\ UNCHANGED <<active, tab>>
      BY <1>7 DEF LoadCounter, tableVars
    <2>2. \A q \in Requests \ {r} : ep'[q] = ep[q]
      BY <1>7, <1>e DEF LoadCounter
    <2> QED
      BY <2>1, <2>2, <1>k, HoldersKept DEF Guarded, States
  <1>8. ASSUME NEW r \in Requests, Acquire(r) PROVE CountersExact'
    BY <1>8, <1>t, GuardTaken DEF Acquire, NextStage, choiceVars, Guarded
  <1>9. ASSUME NEW r \in Requests, AuthPass(r) \/ AuthSkip(r) PROVE CountersExact'
    BY <1>9, <1>k, HoldersKept DEF AuthPass, AuthSkip, tableVars, choiceVars, Guarded, States
  <1>10. ASSUME NEW r \in Requests, AuthFail(r) PROVE CountersExact'
    BY <1>10, GuardDropped DEF AuthFail, Answer, Guarded
  <1>11. ASSUME NEW r \in Requests, Send(r) PROVE CountersExact'
    BY <1>11, <1>k, HoldersKept DEF Send, tableVars, choiceVars, Guarded, States
  <1>12. ASSUME NEW r \in Requests, Respond(r) PROVE CountersExact'
    BY <1>12, GuardDropped DEF Respond, Guarded
  <1>13. ASSUME NEW r \in Requests, AttemptFail(r) PROVE CountersExact'
    <2>1. CASE Goto(r, "forward") /\ UNCHANGED <<active, choiceVars, reqVars>>
      BY <1>13, <2>1, <1>k, HoldersKept DEF AttemptFail, choiceVars, Guarded, States
    <2>2. CASE Answer(r)
      BY <1>13, <2>2, GuardDropped DEF AttemptFail, Answer, Guarded
    <2> QED
      BY <1>13, <2>1, <2>2 DEF AttemptFail
  <1>14. ASSUME NEW r \in Requests, BodyDone(r) PROVE CountersExact'
    BY <1>14, <1>k, HoldersKept DEF BodyDone, tableVars, choiceVars, Guarded, States
  <1>15. ASSUME NEW r \in Requests, Cancel(r) PROVE CountersExact'
    <2>1. CASE pc[r] \in Guarded
      BY <1>15, <2>1, GuardDropped DEF Cancel
    <2>2. CASE pc[r] \notin Guarded
      BY <1>15, <2>2, <1>k, LeftUnguarded DEF Cancel
    <2> QED
      BY <2>1, <2>2
  <1> QED
    BY <1>1, <1>2, <1>3, <1>4, <1>5, <1>6, <1>7, <1>8, <1>9, <1>10, <1>11, <1>12, <1>13, <1>14,
       <1>15 DEF Next

\* The in-flight counters never drift from the number of live guards, for any
\* number of concurrent requests, whatever path each of them takes out of
\* proxy_handler and however many tables are installed meanwhile.
THEOREM CountersNeverDrift == Spec => []CountersExact
  <1>1. Init => CountersExact
    <2> SUFFICES ASSUME Init, NEW g \in Tables, NEW i \in Indices
                 PROVE  active[<<g, i>>] = Cardinality(Holders(g, i))
      BY DEF CountersExact
    <2>1. Holders(g, i) = {}
      BY DEF Init, Holders, Guarded
    <2>2. active[<<g, i>>] = 0
      BY DEF Init
    <2> QED
      BY <2>1, <2>2, FS_EmptySet
  <1> QED
    BY <1>1, InitType, StepType, StepCounters, PTL DEF Spec

----------------------------------------------------------------------------
(* AuthorizedFirst and AttemptsBounded: what is sent to an upstream *)

\* The strengthening.  Nothing is sent outside the loop of attempts; where another
\* attempt is about to be sent, it is authorized, there is one left, and it is
\* the first or the request can be replayed.
ForwardInv ==
    \A r \in Requests :
        /\ pc[r] \notin {"forward", "await"} => attempt[r] = 0
        /\ pc[r] = "await" => attempt[r] > 0
        /\ attempt[r] > 0 => tab[r] \in Tables
        /\ pc[r] = "forward" =>
            /\ rules[tab[r]].auth => passed[r] \/ skip[r]
            /\ attempt[r] < MaxAttempts(r)
            /\ attempt[r] > 0 => reusable[r]

SendInv == ForwardInv /\ AuthorizedFirst /\ AttemptsBounded

\* One request's share of SendInv.
SendInvOf(r) ==
    /\ pc[r] \notin {"forward", "await"} => attempt[r] = 0
    /\ pc[r] = "await" => attempt[r] > 0
    /\ attempt[r] > 0 =>
        /\ tab[r] \in Tables
        /\ rules[tab[r]].auth => passed[r] \/ skip[r]
        /\ attempt[r] <= MaxAttempts(r)
        /\ attempt[r] > 1 => reusable[r]
    /\ pc[r] = "forward" =>
        /\ rules[tab[r]].auth => passed[r] \/ skip[r]
        /\ attempt[r] < MaxAttempts(r)
        /\ attempt[r] > 0 => reusable[r]

\* SendInv speaks of each request by itself.
LEMMA SendInvSplit == SendInv <=> \A r \in Requests : SendInvOf(r)
  BY DEF SendInv, ForwardInv, AuthorizedFirst, AttemptsBounded, SendInvOf

\* A request that has made no attempt and is not at the loop has nothing to show.
LEMMA NothingSent ==
    ASSUME NEW r \in Requests, attempt'[r] = 0, pc'[r] \notin {"await", "forward"}
    PROVE  SendInvOf(r)'
  BY DEF SendInvOf

\* A step of one request keeps the others' share.
LEMMA OthersKeep ==
    ASSUME SendInv, NEW r \in Requests, SendInvOf(r)', UNCHANGED rules,
           \A q \in Requests \ {r} :
               /\ pc'[q] = pc[q] /\ tab'[q] = tab[q] /\ attempt'[q] = attempt[q]
               /\ passed'[q] = passed[q] /\ skip'[q] = skip[q] /\ reusable'[q] = reusable[q]
    PROVE  SendInv'
  <1>1. ASSUME NEW q \in Requests \ {r} PROVE SendInvOf(q)'
    BY <1>1, SendInvSplit DEF SendInvOf, MaxAttempts
  <1>2. \A q \in Requests : SendInvOf(q)'
    BY <1>1
  <1> QED
    BY <1>2 DEF SendInv, ForwardInv, AuthorizedFirst, AttemptsBounded, SendInvOf

\* A handler that ends has nothing to show either.
LEMMA SendLeft ==
    ASSUME TypeOK, SendInv, NEW r \in Requests, NEW s \in {"idle", "stream"}, Leave(r, s),
           UNCHANGED rules
    PROVE  SendInv'
  <1>1. SendInvOf(r)'
    BY LeaveEffect, NothingSent
  <1> QED
    BY <1>1, LeaveEffect, OthersKeep

\* Every step keeps SendInv.
LEMMA StepSend == TypeOK /\ SendInv /\ [Next]_vars => SendInv'
  <1> SUFFICES ASSUME TypeOK, SendInv, [Next]_vars PROVE SendInv'
    OBVIOUS
  <1> USE DEF tableVars, choiceVars, inputVars, scanVars, resultVars, reqVars, Goto
  <1>i. \A r \in Requests : SendInvOf(r)
    BY SendInvSplit
  <1>m. \A r \in Requests : tab[r] \in Tables => MaxAttempts(r) \in Int /\ MaxAttempts(r) >= 1
    BY DEF MaxAttempts, TypeOK, ClusterRules
  <1>1. CASE WaitForWrite \/ SwapTable \/ UNCHANGED vars
    <2>1. \A r \in Requests : SendInvOf(r)'
      BY <1>1, <1>i DEF WaitForWrite, SwapTable, vars, SendInvOf, MaxAttempts
    <2> QED
      BY <2>1 DEF SendInv, ForwardInv, AuthorizedFirst, AttemptsBounded, SendInvOf
  <1>2. ASSUME NEW r \in Requests, Arrive(r) PROVE SendInv'
    <2>1. SendInvOf(r)'
      <3>1. pc[r] = "idle" /\ Goto(r, "lock") /\ UNCHANGED attempt
        BY <1>2 DEF Arrive
      <3>2. pc'[r] \notin {"await", "forward"}
        BY <3>1 DEF TypeOK
      <3>3. attempt[r] = 0
        BY <1>i, <3>1 DEF SendInvOf
      <3> QED
        BY <3>1, <3>2, <3>3, NothingSent
    <2> QED
      BY <1>2, <2>1, OthersKeep DEF Arrive, TypeOK
  <1>3. ASSUME NEW r \in Requests, ReadLock(r) PROVE SendInv'
    <2>1. SendInvOf(r)'
      <3>1. pc[r] = "lock" /\ Goto(r, "resolve") /\ UNCHANGED attempt
        BY <1>3 DEF ReadLock
      <3>2. pc'[r] \notin {"await", "forward"}
        BY <3>1 DEF TypeOK
      <3>3. attempt[r] = 0
        BY <1>i, <3>1 DEF SendInvOf
      <3> QED
        BY <3>1, <3>2, <3>3, NothingSent
    <2> QED
      BY <1>3, <2>1, OthersKeep DEF ReadLock, TypeOK
  <1>4. ASSUME NEW r \in Requests, Reject(r) PROVE SendInv'
    BY <1>4, SendLeft DEF Reject
  <1>5. ASSUME NEW r \in Requests, RoundRobin(r) PROVE SendInv'
    <2>1. SendInvOf(r)'
      <3>1. pc[r] = "resolve" /\ Goto(r, "acquire") /\ UNCHANGED attempt
        BY <1>5 DEF RoundRobin
      <3>2. pc'[r] \notin {"await", "forward"}
        BY <3>1 DEF TypeOK
      <3>3. attempt[r] = 0
        BY <1>i, <3>1 DEF SendInvOf
      <3> QED
        BY <3>1, <3>2, <3>3, NothingSent
    <2> QED
      BY <1>5, <2>1, OthersKeep DEF RoundRobin, TypeOK
  <1>6. ASSUME NEW r \in Requests, LeastConn(r) PROVE SendInv'
    <2>1. SendInvOf(r)'
      <3>1. pc[r] = "resolve" /\ Goto(r, "scan") /\ UNCHANGED attempt
        BY <1>6 DEF LeastConn
      <3>2. pc'[r] \notin {"await", "forward"}
        BY <3>1 DEF TypeOK
      <3>3. attempt[r] = 0
        BY <1>i, <3>1 DEF SendInvOf
      <3> QED
        BY <3>1, <3>2, <3>3, NothingSent
    <2> QED
      BY <1>6, <2>1, OthersKeep DEF LeastConn, TypeOK
  <1>7. ASSUME NEW r \in Requests, NEW i \in Indices, LoadCounter(r, i) PROVE SendInv'
    <2>1. SendInvOf(r)'
      <3>1. pc[r] = "scan" /\ Goto(r, IF left[r] = {i} THEN "acquire" ELSE "scan") /\ UNCHANGED attempt
        BY <1>7 DEF LoadCounter
      <3>2. pc'[r] \notin {"await", "forward"}
        BY <3>1 DEF TypeOK
      <3>3. attempt[r] = 0
        BY <1>i, <3>1 DEF SendInvOf
      <3> QED
        BY <3>1, <3>2, <3>3, NothingSent
    <2> QED
      BY <1>7, <2>1, OthersKeep DEF LoadCounter, TypeOK
  <1>8. ASSUME NEW r \in Requests, Acquire(r) PROVE SendInv'
    <2>1. tab[r] \in Tables /\ attempt[r] = 0
      BY <1>8, <1>i DEF Acquire, SendInvOf, TypeOK
    <2>2. SendInvOf(r)'
      BY <1>8, <1>m, <2>1 DEF Acquire, NextStage, SendInvOf, MaxAttempts, TypeOK
    <2> QED
      BY <1>8, <2>2, OthersKeep DEF Acquire, TypeOK
  <1>9. ASSUME NEW r \in Requests, AuthPass(r) \/ AuthSkip(r) PROVE SendInv'
    <2>1. tab[r] \in Tables /\ attempt[r] = 0
      BY <1>9, <1>i DEF AuthPass, AuthSkip, SendInvOf, TypeOK, Guarded
    <2>2. SendInvOf(r)'
      BY <1>9, <1>m, <2>1 DEF AuthPass, AuthSkip, SendInvOf, MaxAttempts, TypeOK
    <2> QED
      BY <1>9, <2>2, OthersKeep DEF AuthPass, AuthSkip, TypeOK
  <1>10. ASSUME NEW r \in Requests, AuthFail(r) PROVE SendInv'
    BY <1>10, SendLeft DEF AuthFail, Answer
  <1>11. ASSUME NEW r \in Requests, Send(r) PROVE SendInv'
    <2>1. tab[r] \in Tables /\ attempt[r] \in Nat
      BY <1>11 DEF Send, TypeOK, Guarded
    <2>2. SendInvOf(r)'
      <3>1. /\ pc'[r] = "await" /\ attempt'[r] = attempt[r] + 1
            /\ UNCHANGED <<rules, tab, passed, reusable, skip>>
        BY <1>11 DEF Send, TypeOK
      <3>2. /\ rules[tab[r]].auth => passed[r] \/ skip[r]
            /\ attempt[r] < MaxAttempts(r)
            /\ attempt[r] > 0 => reusable[r]
        BY <1>11, <1>i DEF Send, SendInvOf
      <3>3. MaxAttempts(r)' = MaxAttempts(r) /\ MaxAttempts(r) \in Int
        BY <1>m, <2>1, <3>1 DEF MaxAttempts
      <3> QED
        BY <2>1, <3>1, <3>2, <3>3 DEF SendInvOf
    <2> QED
      BY <1>11, <2>2, OthersKeep DEF Send, TypeOK
  <1>12. ASSUME NEW r \in Requests, Respond(r) PROVE SendInv'
    BY <1>12, SendLeft DEF Respond
  <1>13. ASSUME NEW r \in Requests, AttemptFail(r) PROVE SendInv'
    <2>1. CASE Answer(r)
      BY <1>13, <2>1, SendLeft DEF AttemptFail, Answer
    <2>2. CASE /\ Goto(r, "forward") /\ UNCHANGED <<active, choiceVars, reqVars>>
               /\ attempt[r] < MaxAttempts(r) /\ reusable[r]
      <3>1. pc[r] = "await" /\ pc'[r] = "forward" /\ UNCHANGED rules
        BY <1>13, <2>2 DEF AttemptFail, TypeOK
      <3>2. SendInvOf(r)'
        BY <2>2, <3>1, <1>i DEF SendInvOf, MaxAttempts
      <3> QED
        BY <2>2, <3>1, <3>2, OthersKeep DEF TypeOK
    <2> QED
      BY <1>13, <2>1, <2>2 DEF AttemptFail
  <1>14. ASSUME NEW r \in Requests, BodyDone(r) PROVE SendInv'
    <2>1. SendInvOf(r)'
      <3>1. pc[r] = "stream" /\ Goto(r, "idle") /\ UNCHANGED attempt
        BY <1>14 DEF BodyDone
      <3>2. pc'[r] \notin {"await", "forward"}
        BY <3>1 DEF TypeOK
      <3>3. attempt[r] = 0
        BY <1>i, <3>1 DEF SendInvOf
      <3> QED
        BY <3>1, <3>2, <3>3, NothingSent
    <2> QED
      BY <1>14, <2>1, OthersKeep DEF BodyDone, TypeOK
  <1>15. ASSUME NEW r \in Requests, Cancel(r) PROVE SendInv'
    BY <1>15, SendLeft DEF Cancel
  <1> HIDE DEF tableVars, choiceVars, inputVars, scanVars, resultVars, reqVars, Goto
  <1> QED
    BY <1>1, <1>2, <1>3, <1>4, <1>5, <1>6, <1>7, <1>8, <1>9, <1>10, <1>11, <1>12, <1>13, <1>14,
       <1>15 DEF Next

\* SendInv holds of every behaviour.
LEMMA SendInvariant == Spec => []SendInv
  <1>1. Init => SendInv
    BY DEF Init, SendInv, ForwardInv, AuthorizedFirst, AttemptsBounded
  <1> QED
    BY <1>1, InitType, StepType, StepSend, PTL DEF Spec

\* No request reaches an upstream whose rule asks for authorization without a
\* 2xx of the authorization service or a path to skip.
THEOREM NothingSentUnauthorized == Spec => []AuthorizedFirst
  <1>1. SendInv => AuthorizedFirst
    BY DEF SendInv
  <1> QED
    BY <1>1, SendInvariant, PTL

\* A request is attempted at most max(1, retries) times, and once only if its
\* body cannot be replayed.
THEOREM RetriesAreBounded == Spec => []AttemptsBounded
  <1>1. SendInv => AttemptsBounded
    BY DEF SendInv
  <1> QED
    BY <1>1, SendInvariant, PTL

----------------------------------------------------------------------------
(* round_robin: facts about the remainder of a cursor that advances, and   *)
(* how far the endpoints can get apart.                                    *)

\* A larger factor makes a product larger by at least the other factor.
LEMMA ProductGrows ==
    ASSUME NEW n \in Nat, NEW a \in Nat, NEW b \in Nat, a > b
    PROVE  n * a >= n * b + n
  <1>1. PICK d \in Nat : a = b + 1 + d
    <2>1. a - b - 1 \in Nat /\ a = b + 1 + (a - b - 1)
      OBVIOUS
    <2> QED
      BY <2>1
  <1>2. n * a = n * b + n + n * d
    BY <1>1
  <1>3. n * d \in Nat /\ n * b \in Nat
    OBVIOUS
  <1> QED
    BY <1>2, <1>3

\* Quotient and remainder of a cursor.
LEMMA DivisionWithRest ==
    ASSUME NEW c \in Nat, NEW n \in Nat \ {0}
    PROVE  c = n * (c \div n) + (c % n) /\ c % n \in 0 .. (n - 1) /\ c \div n \in Nat
  OBVIOUS

\* They are the only ones.
LEMMA RestIsUnique ==
    ASSUME NEW c \in Nat, NEW n \in Nat \ {0}, NEW q \in Nat, NEW r \in Nat,
           r < n, c = n * q + r
    PROVE  c % n = r
  <1> DEFINE Q == c \div n
             R == c % n
  <1>1. c = n * Q + R /\ R \in 0 .. (n - 1) /\ Q \in Nat
    BY DivisionWithRest
  <1> SUFFICES R = r
    OBVIOUS
  <1> HIDE DEF Q, R
  <1>2. n * q \in Nat /\ n * Q \in Nat
    BY <1>1
  <1>3. ASSUME q > Q PROVE FALSE
    <2>1. n * q >= n * Q + n
      BY <1>1, <1>3, ProductGrows
    <2> QED
      BY <2>1, <1>1, <1>2
  <1>4. ASSUME Q > q PROVE FALSE
    <2>1. n * Q >= n * q + n
      BY <1>1, <1>4, ProductGrows
    <2> QED
      BY <2>1, <1>1, <1>2
  <1>5. q = Q
    BY <1>1, <1>3, <1>4
  <1> QED
    BY <1>1, <1>2, <1>5

\* fetch_add moves the choice to the next endpoint, and from the last one back to
\* the first.
LEMMA NextEndpoint ==
    ASSUME NEW c \in Nat, NEW n \in Nat \ {0}
    PROVE  (c + 1) % n = IF c % n = n - 1 THEN 0 ELSE (c % n) + 1
  <1>1. c = n * (c \div n) + (c % n) /\ c % n \in 0 .. (n - 1) /\ c \div n \in Nat
    BY DivisionWithRest
  <1>2. CASE c % n = n - 1
    <2>1. c + 1 = n * ((c \div n) + 1) + 0
      BY <1>1, <1>2
    <2>2. (c \div n) + 1 \in Nat /\ c + 1 \in Nat
      BY <1>1
    <2>3. (c + 1) % n = 0
      BY <2>1, <2>2, RestIsUnique
    <2> QED
      BY <1>2, <2>3
  <1>3. CASE c % n # n - 1
    <2>1. c + 1 = n * (c \div n) + ((c % n) + 1)
      BY <1>1, <1>3
    <2>2. c + 1 \in Nat /\ (c % n) + 1 \in Nat /\ (c % n) + 1 < n
      BY <1>1, <1>3
    <2>3. (c + 1) % n = (c % n) + 1
      BY <1>1, <2>1, <2>2, RestIsUnique
    <2> QED
      BY <1>3, <2>3
  <1> QED
    BY <1>2, <1>3

----------------------------------------------------------------------------

\* Endpoint i of table g has had its turn in the round the cursor is in.
HadItsTurn(g, i) == i < cursor[g] % rules[g].n

\* The strengthening: endpoints that had their turn in this round are one pick
\* ahead of those that did not, and level with each other.
Level(g, i, j) ==
    picks[<<g, i>>] = picks[<<g, j>>] + (IF HadItsTurn(g, i) THEN 1 ELSE 0)
                                      - (IF HadItsTurn(g, j) THEN 1 ELSE 0)

TurnInv == \A g \in Tables : \A i, j \in 0 .. (rules[g].n - 1) : Level(g, i, j)

\* Steps that do not choose an endpoint keep it.
LEMMA TurnKept == TurnInv /\ UNCHANGED <<rules, cursor, picks>> => TurnInv'
  BY DEF TurnInv, Level, HadItsTurn

\* A choice of round_robin keeps it.
LEMMA TurnTaken ==
    ASSUME TypeOK, TurnInv, NEW r \in Requests, RoundRobin(r)
    PROVE  TurnInv'
  <1>0. PICK t \in Tables : t = tab[r]
    BY ProxyConstants DEF RoundRobin, TypeOK, Tables
  <1>n. PICK n \in Nat \ {0} : n = rules[t].n
    BY ProxyConstants DEF TypeOK, ClusterRules
  <1>m. PICK m \in 0 .. (n - 1) : m = cursor[t] % n
    BY DivisionWithRest DEF TypeOK
  <1>1. n <= MaxEndpoints /\ cursor[t] \in Nat
    BY <1>n, ProxyConstants DEF TypeOK, ClusterRules
  <1>3. m \in Indices
    BY <1>1, ProxyConstants DEF Indices
  <1>4. ep'[r] = m
    BY <1>0, <1>n, <1>m DEF RoundRobin, TypeOK
  <1>5. /\ rules' = rules
        /\ cursor'[t] = cursor[t] + 1
        /\ \A g \in Tables \ {t} : cursor'[g] = cursor[g]
    BY <1>0 DEF RoundRobin, TypeOK
  <1>6. /\ picks'[<<t, m>>] = picks[<<t, m>>] + 1
        /\ \A g \in Tables, i \in Indices : <<g, i>> # <<t, m>> => picks'[<<g, i>>] = picks[<<g, i>>]
    BY <1>0, <1>3, <1>4 DEF RoundRobin, TypeOK
  <1>7. (cursor[t] + 1) % n = IF m = n - 1 THEN 0 ELSE m + 1
    BY <1>1, <1>m, NextEndpoint
  <1>8. \A g \in Tables, i \in Indices : picks[<<g, i>>] \in Nat
    BY DEF TypeOK
  <1>9. ASSUME NEW g \in Tables \ {t}, NEW i \in 0 .. (rules[g].n - 1), NEW j \in 0 .. (rules[g].n - 1)
        PROVE  Level(g, i, j)'
    <2>1. i \in Indices /\ j \in Indices
      BY ProxyConstants DEF TypeOK, ClusterRules, Indices
    <2>2. picks'[<<g, i>>] = picks[<<g, i>>] /\ picks'[<<g, j>>] = picks[<<g, j>>]
      BY <1>6, <2>1
    <2>3. Level(g, i, j)
      BY DEF TurnInv
    <2> QED
      BY <1>5, <2>2, <2>3 DEF Level, HadItsTurn
  <1>10. ASSUME NEW i \in 0 .. (n - 1), NEW j \in 0 .. (n - 1)
         PROVE  Level(t, i, j)'
    <2>1. i \in Indices /\ j \in Indices
      BY <1>1, ProxyConstants DEF Indices
    <2>2. /\ picks'[<<t, i>>] = picks[<<t, i>>] + (IF i = m THEN 1 ELSE 0)
          /\ picks'[<<t, j>>] = picks[<<t, j>>] + (IF j = m THEN 1 ELSE 0)
      <3>1. ASSUME NEW k \in Indices
            PROVE  picks'[<<t, k>>] = picks[<<t, k>>] + (IF k = m THEN 1 ELSE 0)
        <4>1. CASE k = m
          BY <1>6, <4>1
        <4>2. CASE k # m
          <5>1. <<t, k>> # <<t, m>>
            BY <4>2
          <5>2. picks'[<<t, k>>] = picks[<<t, k>>]
            BY <1>6, <5>1, Zenon
          <5>3. picks[<<t, k>>] \in Nat
            BY <1>8
          <5> QED
            BY <4>2, <5>2, <5>3
        <4> QED
          BY <4>1, <4>2
      <3> QED
        BY <2>1, <3>1, Zenon
    <2>3. picks[<<t, i>>] = picks[<<t, j>>] + (IF i < m THEN 1 ELSE 0) - (IF j < m THEN 1 ELSE 0)
      BY <1>n, <1>m DEF TurnInv, Level, HadItsTurn
    <2>4. cursor'[t] % rules'[t].n = IF m = n - 1 THEN 0 ELSE m + 1
      BY <1>5, <1>7, <1>n
    <2>5. picks[<<t, i>>] \in Nat /\ picks[<<t, j>>] \in Nat
      BY <1>8, <2>1
    <2> DEFINE next == IF m = n - 1 THEN 0 ELSE m + 1
    <2>6. picks'[<<t, i>>] = picks'[<<t, j>>] + (IF i < next THEN 1 ELSE 0) - (IF j < next THEN 1 ELSE 0)
      BY <2>2, <2>3, <2>5
    <2> HIDE DEF next
    <2> QED
      BY <2>4, <2>6, Zenon DEF Level, HadItsTurn, next
  <1>11. ASSUME NEW g \in Tables, NEW i \in 0 .. (rules[g].n - 1), NEW j \in 0 .. (rules[g].n - 1)
         PROVE  Level(g, i, j)'
    BY <1>9, <1>10, <1>n
  <1> QED
    BY <1>5, <1>11 DEF TurnInv

\* Every step keeps it.
LEMMA StepTurn == TypeOK /\ TurnInv /\ [Next]_vars => TurnInv'
  <1> SUFFICES ASSUME TypeOK, TurnInv, [Next]_vars PROVE TurnInv'
    OBVIOUS
  <1>1. ASSUME NEW r \in Requests, RoundRobin(r) PROVE TurnInv'
    BY <1>1, TurnTaken
  <1>2. CASE ~\E r \in Requests : RoundRobin(r)
    <2>1. UNCHANGED <<rules, cursor, picks>>
      BY <1>2 DEF Next, vars, tableVars, WaitForWrite, SwapTable, Arrive, ReadLock, Reject,
                  LeastConn, LoadCounter, Acquire, AuthPass, AuthSkip, AuthFail, Send, Respond,
                  AttemptFail, BodyDone, Cancel
    <2> QED
      BY <2>1, TurnKept
  <1> QED
    BY <1>1, <1>2

\* Whatever requests race for the cursor of a table, no endpoint is ever more than
\* one pick ahead of another.
THEOREM RoundRobinIsEven == Spec => []RoundRobinEven
  <1>1. Init => TurnInv
    <2> SUFFICES ASSUME Init, NEW g \in Tables,
                        NEW i \in 0 .. (rules[g].n - 1), NEW j \in 0 .. (rules[g].n - 1)
                 PROVE  Level(g, i, j)
      BY DEF TurnInv
    <2>1. rules[g].n \in Nat \ {0} /\ i \in Indices /\ j \in Indices
      BY InitType, ProxyConstants DEF TypeOK, ClusterRules, Indices
    <2>2. 0 % rules[g].n = 0
      BY <2>1, DivisionWithRest
    <2> QED
      BY <2>1, <2>2 DEF Init, Level, HadItsTurn
  <1>2. TypeOK /\ TurnInv => RoundRobinEven
    <2> SUFFICES ASSUME TypeOK, TurnInv, NEW g \in Tables,
                        NEW i \in 0 .. (rules[g].n - 1), NEW j \in 0 .. (rules[g].n - 1)
                 PROVE  picks[<<g, i>>] <= picks[<<g, j>>] + 1
      BY DEF RoundRobinEven
    <2>1. i \in Indices /\ j \in Indices
      BY ProxyConstants DEF TypeOK, ClusterRules, Indices
    <2>2. picks[<<g, i>>] \in Nat /\ picks[<<g, j>>] \in Nat
      BY <2>1 DEF TypeOK
    <2>3. Level(g, i, j)
      BY DEF TurnInv
    <2> QED
      BY <2>2, <2>3 DEF Level
  <1> QED
    BY <1>1, <1>2, InitType, StepType, StepTurn, PTL DEF Spec

============================================================================
