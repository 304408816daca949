------------------------------ MODULE MCProxy ------------------------------
EXTENDS Proxy

Cluster(lb, n, retries, auth) == [n |-> n, lb |-> lb, retries |-> retries, auth |-> auth]

\* Both policies, with and without authorization, retries unset and above one.
MixedClusters ==
    {Cluster("LeastConn", 2, 2, FALSE), Cluster("RoundRobin", 2, 0, TRUE),
     Cluster("LeastConn", 2, 2, TRUE)}

============================================================================
