----------------------------- MODULE Forwarding -----------------------------
(***************************************************************************)
(* What proxy_handler (images/dataplane/src/proxy.rs) does to a request    *)
(* from the choice of its endpoint on: authorization, the headers for the  *)
(* backend, the rewrites of the Ingress, the attempts and the response.    *)
(* Proxy models the same code by its locks, counters and cancellations;    *)
(* here one request runs at a time, and its contents matter.               *)
(*                                                                         *)
(* A HeaderMap maps a name to the sequence of its values, << >> if absent. *)
(***************************************************************************)
EXTENDS Settings

CONSTANTS
    HopHeaders,      \* HOP_HEADERS_REF
    Annotations,     \* annotations of the Ingresses
    Requests,        \* [path, tls, cookie, headers, body]
    Prefixes,        \* Prefixes[p]: the listed paths that the path p starts with
    ResponseHeaders, \* header maps of upstream responses
    MaxTimeout       \* 120000, the longest timeout the documentation allows

ASSUME DocumentedRange == MaxTimeout \in 1 .. 2 ^ (Int32Bits - 1) - 1

ASSUME RequestBodies == \A q \in Requests : q.body \in BOOLEAN

HeaderMaps == [HeaderNames -> Seq(HeaderValues)]
NoHeaders == [h \in HeaderNames |-> << >>]

\* The headers the proxy sets itself are not hop-by-hop; numbers are integers
\* and lists sequences.
ASSUME HeaderConstants ==
    /\ HopHeaders \subseteq HeaderNames
    /\ {"host", "x-forwarded-proto", "x-forwarded-host"} \subseteq HeaderNames \ HopHeaders
    /\ {"host", "http", "https"} \subseteq HeaderValues
    /\ \A q \in Requests : q.headers \in HeaderMaps
    /\ ResponseHeaders \subseteq HeaderMaps
    /\ \A a \in Annotations : {a.timeout.n, a.retries.n} \subseteq Int
    /\ \A a \in Annotations : \A list \in {a.rewrites, a.resp, a.skip} : list \in Seq(Range(list))

\* What the authorization service answers: a class of status codes, "401" for 401
\* and 403, or that the subrequest failed.
AuthAnswers == {"2xx", "401", "5xx", "error"}

VARIABLES
    pc,        \* where the handler is
    ann,       \* the annotations the cluster was made from
    rule,      \* its ClusterRule
    req,       \* the request as the client sent it
    hdrs,      \* its headers by now
    asked,     \* what the authorization service answered
    captured,  \* the RequestSnapshot
    sent,      \* the requests sent upstream
    answer,    \* the status for the client
    back       \* the headers of the response

vars == <<pc, ann, rule, req, hdrs, asked, captured, sent, answer, back>>
confVars == <<ann, rule>>

NoRequest == [path |-> "", tls |-> FALSE, cookie |-> "absent", headers |-> NoHeaders, body |-> FALSE]
NotAsked == [status |-> "none", headers |-> NoHeaders]
NoOutgoing == [protocol |-> "h1", headers |-> NoHeaders, body |-> FALSE]

Reset ==
    /\ req' = NoRequest
    /\ hdrs' = NoHeaders
    /\ asked' = NotAsked
    /\ captured' = NoOutgoing
    /\ sent' = << >>
    /\ answer' = "none"
    /\ back' = NoHeaders

Init ==
    /\ pc = "config"
    /\ ann \in Annotations
    /\ rule = << >>
    /\ req = NoRequest
    /\ hdrs = NoHeaders
    /\ asked = NotAsked
    /\ captured = NoOutgoing
    /\ sent = << >>
    /\ answer = "none"
    /\ back = NoHeaders

\* The cluster of the Ingress enters the table, unless its policy is unknown; rule
\* is a sequence of at most one.
Configure ==
    /\ pc = "config"
    /\ LET te == ParseAnnotations(ann)
       IN  rule' = IF LbParsed(te.lb) THEN << ClusterRule(te) >> ELSE << >>
    /\ pc' = "ready"
    /\ UNCHANGED <<ann, req, hdrs, asked, captured, sent, answer, back>>

\* A request is routed to the cluster.
Receive(q) ==
    /\ pc = "ready" /\ rule # << >>
    /\ req' = q
    /\ hdrs' = q.headers
    /\ pc' = "auth"
    /\ UNCHANGED <<confVars, asked, captured, sent, answer, back>>

----------------------------------------------------------------------------
(* perform_auth_if_needed *)

auth == rule[1].auth

\* path.starts_with(p), for one of the skip_paths.
Skipped == \E i \in DOMAIN auth.skip : auth.skip[i] \in Prefixes[req.path]

\* The Cookie header is absent, or readable and without the configured name.
RedirectedFirst == auth.cookie # "" /\ auth.signin # "" /\ req.cookie \in {"absent", "other"}

\* text: an answer of the proxy itself.
Text(status) ==
    /\ pc' = "answered"
    /\ answer' = status
    /\ UNCHANGED <<confVars, req, hdrs, captured, sent, back>>

\* redirect, to build_signin_location: a URL, made of the template in auth.signin.
Redirect == Text("302")

AuthSpared ==
    /\ pc = "auth"
    /\ ~auth.set \/ Skipped
    /\ pc' = "prepare"
    /\ UNCHANGED <<confVars, req, hdrs, asked, captured, sent, answer, back>>

AuthRedirectFirst ==
    /\ pc = "auth"
    /\ auth.set /\ ~Skipped /\ RedirectedFirst
    /\ Redirect
    /\ UNCHANGED asked

\* No URL, or one that Uri::from_str does not take.
AuthUnusable ==
    /\ pc = "auth"
    /\ auth.set /\ ~Skipped /\ ~RedirectedFirst
    /\ auth.url \in {"", "invalid"}
    /\ Text("502")
    /\ UNCHANGED asked

Asks ==
    /\ pc = "auth"
    /\ auth.set /\ ~Skipped /\ ~RedirectedFirst
    /\ auth.url \notin {"", "invalid"}

\* headers.insert for the names of auth-response-headers that the answer has.
CopyAuthHeaders(h) ==
    [n \in HeaderNames |->
        IF h[n] # << >> /\ \E i \in DOMAIN auth.resp : Folded[auth.resp[i]] = n
        THEN << Head(h[n]) >> ELSE hdrs[n]]

AuthGranted(h) ==
    /\ Asks
    /\ asked' = [status |-> "2xx", headers |-> h]
    /\ hdrs' = CopyAuthHeaders(h)
    /\ pc' = "prepare"
    /\ UNCHANGED <<confVars, req, captured, sent, answer, back>>

AuthDenied(a) ==
    /\ Asks
    /\ asked' = [NotAsked EXCEPT !.status = a]
    /\ IF a = "401" /\ auth.signin # "" THEN Redirect ELSE Text(IF a = "401" THEN "401" ELSE "502")

----------------------------------------------------------------------------
(* The request for the backend *)

Insert(h, n, v) == [h EXCEPT ![n] = << v >>]

RemoveHopHeaders(h) == [n \in HeaderNames |-> IF n \in HopHeaders THEN << >> ELSE h[n]]

AddForwardHeaders(h, tls) ==
    LET p == Insert(h, "x-forwarded-proto", IF tls THEN "https" ELSE "http")
    IN  IF p["x-forwarded-host"] = << >> THEN Insert(p, "x-forwarded-host", "host") ELSE p

\* handle_req_upstream, as far as headers go: the Host is the routed one.
HandleReqUpstream(h, tls) == AddForwardHeaders(Insert(RemoveHopHeaders(h), "host", "host"), tls)

\* One rewrite.
Rewrite(h, op) ==
    CASE op.mode = "remove" -> [h EXCEPT ![op.name] = << >>]
      [] op.mode = "set"    -> IF op.value \in HeaderValues THEN Insert(h, op.name, op.value) ELSE h
      [] op.mode = "append" -> IF op.value \in HeaderValues
                               THEN [h EXCEPT ![op.name] = Append(@, op.value)] ELSE h

\* Mutated apply_header_rewrites: the rules are applied from the last to the first.
ApplyHeaderRewritesBackwards(h, ops) ==
    LET out[i \in 1 .. Len(ops) + 1] == IF i = Len(ops) + 1 THEN h ELSE Rewrite(out[i + 1], ops[i])
    IN  out[1]

ApplyHeaderRewrites(h, ops) ==
    LET out[i \in 0 .. Len(ops)] == IF i = 0 THEN h ELSE Rewrite(out[i - 1], ops[i])
    IN  out[Len(ops)]

Outgoing(h) == [protocol |-> rule[1].protocol, headers |-> h, body |-> req.body]

\* Mutated handler: the snapshot is captured before the rewrites.
PrepareCapturedEarly ==
    /\ pc = "prepare"
    /\ LET h == HandleReqUpstream(hdrs, req.tls)
       IN  /\ hdrs' = ApplyHeaderRewrites(h, rule[1].rewrites)
           /\ captured' = Outgoing(h)
    /\ pc' = "send"
    /\ UNCHANGED <<confVars, req, asked, sent, answer, back>>

\* handle_req_upstream, apply_header_rewrites, RequestSnapshot::capture.
Prepare ==
    /\ pc = "prepare"
    /\ hdrs' = ApplyHeaderRewrites(HandleReqUpstream(hdrs, req.tls), rule[1].rewrites)
    /\ captured' = Outgoing(hdrs')
    /\ pc' = "send"
    /\ UNCHANGED <<confVars, req, asked, sent, answer, back>>

\* An attempt: the request itself, then build_retry_request, with an empty body.
Send ==
    /\ pc = "send"
    /\ sent' = Append(sent, IF sent = << >> THEN Outgoing(hdrs) ELSE [captured EXCEPT !.body = FALSE])
    /\ pc' = "wait"
    /\ UNCHANGED <<confVars, req, hdrs, asked, captured, answer, back>>

\* There is an attempt left, and body_is_reusable.
MayRetry == Len(sent) < Attempts(rule[1]) /\ ~captured.body

\* A connector error or a timeout.
AttemptFails ==
    /\ pc = "wait"
    /\ \/ MayRetry /\ pc' = "send" /\ UNCHANGED <<confVars, req, hdrs, captured, sent, answer, back>>
       \/ ~MayRetry /\ Text("502")
    /\ UNCHANGED asked

\* Mutated handler: the response is passed on as it came.
RespondRaw(h) ==
    /\ pc = "wait"
    /\ back' = h
    /\ answer' = "upstream"
    /\ pc' = "answered"
    /\ UNCHANGED <<confVars, req, hdrs, asked, captured, sent>>

Respond(h) ==
    /\ pc = "wait"
    /\ back' = RemoveHopHeaders(h)
    /\ answer' = "upstream"
    /\ pc' = "answered"
    /\ UNCHANGED <<confVars, req, hdrs, asked, captured, sent>>

\* The handler has returned.
Return == pc = "answered" /\ pc' = "ready" /\ Reset /\ UNCHANGED confVars

Next ==
    \/ Configure
    \/ \E q \in Requests : Receive(q)
    \/ AuthSpared \/ AuthRedirectFirst \/ AuthUnusable
    \/ \E h \in ResponseHeaders : AuthGranted(h)
    \/ \E a \in AuthAnswers \ {"2xx"} : AuthDenied(a)
    \/ Prepare \/ Send \/ AttemptFails
    \/ \E h \in ResponseHeaders : Respond(h)
    \/ Return

Spec == Init /\ [][Next]_vars

----------------------------------------------------------------------------
(* Properties, stated on the annotations *)

\* Every variable keeps its type; a rule's numbers are i32s.
TypeOK ==
    /\ pc \in {"config", "ready", "auth", "prepare", "send", "wait", "answered"}
    /\ ann \in Annotations
    /\ rule = << >> \/ rule[1].timeout \in -(2 ^ (Int32Bits - 1)) .. 2 ^ (Int32Bits - 1) - 1
    /\ req \in Requests \union {NoRequest}
    /\ hdrs \in HeaderMaps /\ captured.headers \in HeaderMaps /\ back \in HeaderMaps
    /\ asked.status \in AuthAnswers \union {"none"}
    /\ answer \in {"none", "302", "401", "502", "upstream"}

\* Whatever was rewritten, copied or dropped on the way, a retry sends what the first
\* attempt sent, its body included (capture, build_retry_request).
SameEveryTime == \A i \in DOMAIN sent : sent[i] = sent[1]

\* The number of attempts the annotation asks for: clamped to 1..10, 1 if it is no
\* number (docs: "values outside the range are clamped to the nearest bound").
AskedRetries ==
    IF ann.retries.kind = "number" THEN Min({10, Max({1, ann.retries.n})}) ELSE 1

\* A request is tried no more often than the annotation says, and not less often
\* when all attempts fail, unless the number is too large for an int; one with a
\* body is tried once (docs: "retried until the limit is reached", "only issued
\* when the proxy can safely replay the request").
RetriedAsSet ==
    /\ Len(sent) <= (IF req.body THEN 1 ELSE AskedRetries)
    /\ answer = "502" /\ sent # << >> /\ ~req.body /\ ann.retries.n <= MaxInt =>
          Len(sent) = AskedRetries

\* The values of header n when the rewrites begin.
BaseOf(n) ==
    LET copied == /\ asked.status = "2xx" /\ asked.headers[n] # << >>
                  /\ \E i \in DOMAIN ann.resp : ann.resp[i] # "" /\ Folded[ann.resp[i]] = n
        own == IF copied THEN << Head(asked.headers[n]) >> ELSE req.headers[n]
    IN  CASE n \in HopHeaders         -> << >>
          [] n = "host"               -> << "host" >>
          [] n = "x-forwarded-proto"  -> << IF req.tls THEN "https" ELSE "http" >>
          [] n = "x-forwarded-host"   -> IF own = << >> THEN << "host" >> ELSE own
          [] OTHER                    -> own

\* The operations of the annotation on header n: none if one of the list has an
\* unknown mode.
PushOn(n, out, op) ==
    IF Folded[op.name] = n /\ (op.mode = "remove" \/ op.value \in HeaderValues)
    THEN Append(out, op) ELSE out

OperationsOn(n, ops) ==
    LET out[i \in 0 .. Len(ops)] == IF i = 0 THEN << >> ELSE PushOn(n, out[i - 1], ops[i])
    IN  out[Len(ops)]

KnownModes == \A i \in DOMAIN ann.rewrites : ann.rewrites[i].mode \in {"set", "append", "remove"}

OpsOn(n) == OperationsOn(n, IF KnownModes THEN ann.rewrites ELSE << >>)

\* What they make of its values: the last "set" or "remove" decides what it starts
\* from, and the "append"s after it add to that, in their order.
Outcome(ops, base) ==
    LET last == Max({0} \union {i \in DOMAIN ops : ops[i].mode # "append"})
        start == IF last = 0 THEN base
                 ELSE IF ops[last].mode = "set" THEN << ops[last].value >> ELSE << >>
    IN  start \o [j \in 1 .. Len(ops) - last |-> ops[last + j].value]

\* A backend gets every header as the annotation says; those it does not name are the
\* client's, the authorization service's or the proxy's own.
HeadersAsConfigured ==
    \A i \in DOMAIN sent, n \in HeaderNames : sent[i].headers[n] = Outcome(OpsOn(n), BaseOf(n))

\* Hop-by-hop headers stay on their connection: the client sees none of the
\* upstream's, and the upstream one only if a rewrite adds it.
HopByHop ==
    \A n \in HopHeaders :
        /\ back[n] = << >>
        /\ \A i \in DOMAIN sent : sent[i].headers[n] # << >> => OpsOn(n) # << >>

Listed(list) == {list[i] : i \in DOMAIN list} \ {""}

\* The i-th entry of a list is not blank, and none before it differs from it in case
\* only.
Leads(list, i) ==
    /\ list[i] # ""
    /\ \A j \in 1 .. i - 1 : Folded[list[j]] = Folded[list[i]] => list[j] = list[i]

\* An Ingress with authorization forwards a request only if its path starts with a
\* listed one or the service said 2xx.  A path that starts with a listed one is let
\* through without a question, if that one leads its list; redirects go to a signin
\* there is, and before any question if the cookie is missing.
AuthHonoured ==
    LET wanted == \/ ann.url # "" \/ ann.signin # "" \/ ann.cookie # ""
                  \/ Listed(ann.skip) \union Listed(ann.resp) # {}
    IN  /\ sent # << >> =>
              ~wanted \/ Listed(ann.skip) \intersect Prefixes[req.path] # {} \/ asked.status = "2xx"
        /\ \A i \in DOMAIN ann.skip : Leads(ann.skip, i) /\ ann.skip[i] \in Prefixes[req.path] =>
              asked = NotAsked /\ answer \notin {"302", "401"}
        /\ answer = "302" => ann.signin # ""
        /\ asked # NotAsked /\ ann.cookie # "" /\ ann.signin # "" => req.cookie \notin {"absent", "other"}

\* Every Ingress gets a cluster, whatever its annotations say; a timeout in the
\* documented range is the one the data plane waits for, and the default without
\* one; a protocol by its name is the one it speaks, and h1 for what is no
\* protocol's name in any case.
SettingsKept ==
    pc # "config" =>
        /\ rule # << >>
        /\ ann.timeout.kind = "absent" => Timeout(rule[1]) = DefaultTimeout
        /\ ann.timeout.kind = "number" /\ ann.timeout.n \in 1 .. MaxTimeout =>
              Timeout(rule[1]) = ann.timeout.n
        /\ ann.protocol \in Protocols => rule[1].protocol = ann.protocol
        /\ Folded[ann.protocol] \notin Protocols => rule[1].protocol = "h1"

\* What docs/settings.md says of the remaining values.  A protocol and an algorithm
\* are taken in any case (lines 12 and 57); timeouts are 1 to 120000 ms, "values
\* outside are clamped or rejected" (37); retries are clamped to the nearest bound
\* (48); any listed prefix is skipped (113).
SettingsAsDocumented ==
    pc # "config" =>
        /\ Folded[ann.protocol] \in Protocols => rule[1].protocol = Folded[ann.protocol]
        /\ Folded[ann.lb] = "leastconn" => rule[1].lb = "LeastConn"
        /\ Timeout(rule[1]) \in 1 .. MaxTimeout
        /\ Attempts(rule[1]) = AskedRetries
        /\ Listed(ann.skip) \subseteq Range(auth.skip)

=============================================================================
