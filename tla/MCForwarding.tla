---------------------------- MODULE MCForwarding ----------------------------
EXTENDS Forwarding, TLC

Absent == [kind |-> "absent", n |-> 0]
Garbage == [kind |-> "text", n |-> 0]
Number(i) == [kind |-> "number", n |-> i]

Plain == [protocol |-> "", timeout |-> Absent, retries |-> Absent, lb |-> "", rewrites |-> << >>,
          url |-> "", signin |-> "", resp |-> << >>, skip |-> << >>, cookie |-> ""]

Op(name, mode, value) == [name |-> name, mode |-> mode, value |-> value]

\* Numbers around zero, the bounds of an int32 (5 bits) and of an int (6 bits).
EdgeNumbers == {Absent, Garbage} \union {Number(i) : i \in {-33, -17, -1, 0, 1, 3, 10, 11, 12, 15, 16, 31, 32}}

Numeric == {[Plain EXCEPT !.timeout = t] : t \in EdgeNumbers}
             \union {[Plain EXCEPT !.retries = t, !.protocol = "H2"] : t \in EdgeNumbers}
             \union {[Plain EXCEPT !.lb = l, !.protocol = p] :
                       l \in {"LeastConn", "leastconn"}, p \in {"h2-ssl", "spdy"}}

\* Lists of operations on a hop-by-hop, a forwarded and a plain header.
Operations == {Op("TE", "append", "v"), Op("X-User", "set", "v"), Op("x-user", "append", "w"),
               Op("x-user", "remove", ""), Op("x-forwarded-host", "set", "illegal"),
               Op("no name", "set", "v"), Op("x-user", "replace", "v")}

OnOneHeader == {op \in Operations : op.name \in {"X-User", "x-user"} /\ op.mode # "replace"}

Rewriting == {[Plain EXCEPT !.rewrites = ops, !.retries = Number(2)] :
                ops \in [1 .. 1 -> Operations] \union [1 .. 2 -> Operations]
                          \union [1 .. 3 -> OnOneHeader]}

Authorized == {[Plain EXCEPT !.url = u, !.signin = s, !.cookie = c, !.resp = r, !.skip = p] :
                 u \in {"", "invalid", "url"}, s \in {"", "signin"}, c \in {"", "cookie"},
                 r \in {<< >>, <<"">>, <<"X-User", "x-user", "te">>},
                 p \in {<< >>, <<"/a", "">>, <<"/A">>, <<"/A", "/a", "/ab">>, <<"/ab", "/a">>}}

Values == {"v", "w", "u", "host", "http", "https"}
Names == {"te", "host", "x-forwarded-proto", "x-forwarded-host", "x-user"}

Folding ==
    [s \in Names \union Protocols \union {"", "/a", "/ab", "no name", "leastconn"} |-> s]
      @@ ("/A" :> "/a" @@ "X-User" :> "x-user" @@ "TE" :> "te" @@ "H2" :> "h2" @@ "spdy" :> "spdy"
          @@ "LeastConn" :> "leastconn")

\* /ab starts with /a.
PathPrefixes == [p \in {"", "/b"} |-> {}] @@ [p \in {"/a", "/A"} |-> {p}] @@ ("/ab" :> {"/a", "/ab"})

Heads == {NoHeaders,
          [NoHeaders EXCEPT !["te"] = <<"v">>, !["host"] = <<"v">>, !["x-user"] = <<"u", "w">>,
                            !["x-forwarded-host"] = <<"v">>, !["x-forwarded-proto"] = <<"v">>]}

AllAnnotations == Numeric \union Rewriting \union Authorized

\* Values that docs/settings.md allows or says how to read, one for each setting.
DocumentedValues == {[Plain EXCEPT !.protocol = "H2", !.lb = "leastconn", !.timeout = Number(13),
                             !.retries = Number(32), !.skip = <<"/A", "/a">>]}

Request(p, t, c, h, b) == [path |-> p, tls |-> t, cookie |-> c, headers |-> h, body |-> b]

\* All combinations of what authorization looks at, and of what is sent on.
SomeRequests ==
    {Request(p, TRUE, c, CHOOSE h \in Heads : h # NoHeaders, FALSE) :
        p \in {"/a", "/A", "/ab", "/b"}, c \in {"absent", "other", "has", "opaque"}}
    \union {Request("/b", FALSE, "has", h, b) : h \in Heads, b \in BOOLEAN}

=============================================================================
