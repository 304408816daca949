------------------------------ MODULE Settings ------------------------------
(***************************************************************************)
(* What the annotations of an Ingress become: parseAnnotations on the      *)
(* control plane (internal/controller/utils.go) and the ClusterRule that   *)
(* RouteTable::new makes of the cluster (dataplane/src/snapshot.rs).       *)
(*                                                                         *)
(* An annotation with a number is [kind, n], kind "absent", "text" or      *)
(* "number"; one with a list is the sequence of its entries, "" for a      *)
(* blank one and << >> for none; any other is "" when it is absent or      *)
(* blank.  Integers wrap at IntBits and Int32Bits.                         *)
(***************************************************************************)
EXTENDS Integers, Sequences, FiniteSetsExt, Functions

CONSTANTS
    IntBits,         \* width of Go's int and Rust's u64
    Int32Bits,       \* width of an int32
    DefaultTimeout,  \* 3000
    HeaderNames,     \* what HeaderName::from_bytes accepts
    HeaderValues,    \* what HeaderValue::from_str accepts
    Folded           \* Folded[s]: the text s, trimmed and in lower case

\* An int32 holds the default timeout and the largest number of retries.
ASSUME Widths ==
    /\ IntBits \in Nat /\ Int32Bits \in 1 .. IntBits
    /\ DefaultTimeout \in 0 .. 2 ^ (Int32Bits - 1) - 1
    /\ 10 < 2 ^ (Int32Bits - 1)

\* Arithmetic that holds for all widths, said here because provers do not know ^.
ASSUME PowersOfTwo ==
    /\ \A w \in {Int32Bits, IntBits} : 2 ^ (w - 1) \in Nat /\ 2 ^ w = 2 * 2 ^ (w - 1)
    /\ 2 ^ (Int32Bits - 1) <= 2 ^ (IntBits - 1)

Protocols == {"h1", "h2", "h1-ssl", "h2-ssl"}

\* Header names and protocols are in lower case.
ASSUME LowerCase == \A s \in HeaderNames \union Protocols : Folded[s] = s

MaxInt == 2 ^ (IntBits - 1) - 1
Ints == (-MaxInt - 1) .. MaxInt

\* A conversion to w bits, two's complement.
Signed(v, w) == ((v + 2 ^ (w - 1)) % 2 ^ w) - 2 ^ (w - 1)

----------------------------------------------------------------------------
(* Control plane *)

\* strconv.Atoi: 0 for text, the nearest int for a number out of range; both are
\* errors.
AtoiOk(raw) == raw.kind = "number" /\ raw.n \in Ints
Atoi(raw) ==
    IF raw.kind # "number" THEN 0
    ELSE CASE raw.n > MaxInt      -> MaxInt
           [] raw.n < -MaxInt - 1 -> -MaxInt - 1
           [] OTHER               -> raw.n

\* Mutated parse: the timeout stays an int.
TimeoutMsWide(raw) == IF raw.kind = "absent" THEN DefaultTimeout ELSE Atoi(raw)

\* The error of Atoi is dropped, and no range is checked.
TimeoutMs(raw) == Signed(IF raw.kind = "absent" THEN DefaultTimeout ELSE Atoi(raw), Int32Bits)

Retries(raw) == Signed(Min({10, Max({1, IF AtoiOk(raw) THEN raw.n ELSE 1})}), Int32Bits)

\* Mutated parse: the algorithm is taken as it is written.
LbAlgorithmRaw(raw) == IF raw = "" THEN "RoundRobin" ELSE raw

LbAlgorithm(raw) == IF raw = "LeastConn" THEN "LeastConn" ELSE "RoundRobin"

\* getRequestHeaders: one unknown mode, and there are no rewrites at all.
GetRequestHeaders(ops) ==
    IF \E i \in DOMAIN ops : ops[i].mode \notin {"set", "append", "remove"} THEN << >> ELSE ops

\* parseCSVList: a loop that leaves out blank entries and those seen before.
PushNew(out, v) == IF v = "" \/ v \in Range(out) THEN out ELSE Append(out, v)

ParseCSVList(list) ==
    LET out[i \in 0 .. Len(list)] == IF i = 0 THEN << >> ELSE PushNew(out[i - 1], list[i])
    IN  out[Len(list)]

AuthOf(a) ==
    [set |-> a.url # "" \/ a.signin # "" \/ a.resp # << >> \/ a.skip # << >> \/ a.cookie # "",
     url |-> a.url, signin |-> a.signin, cookie |-> a.cookie,
     resp |-> ParseCSVList(a.resp), skip |-> ParseCSVList(a.skip)]

ParseAnnotations(a) ==
    [protocol |-> IF a.protocol = "" THEN "h1" ELSE a.protocol,
     timeout  |-> TimeoutMs(a.timeout),
     retries  |-> Retries(a.retries),
     lb       |-> LbAlgorithm(a.lb),
     rewrites |-> GetRequestHeaders(a.rewrites),
     auth     |-> AuthOf(a)]

----------------------------------------------------------------------------
(* Data plane *)

\* Mutated normalize_list: the entries themselves are folded.
PushFolded(out, v) == IF v = "" \/ Folded[v] \in Range(out) THEN out ELSE Append(out, Folded[v])

\* normalize_list: entries that differ in case only are one.
PushDistinct(out, v) ==
    IF v = "" \/ \E x \in Range(out) : Folded[x] = Folded[v] THEN out ELSE Append(out, v)

NormalizeList(list) ==
    LET out[i \in 0 .. Len(list)] == IF i = 0 THEN << >> ELSE PushDistinct(out[i - 1], list[i])
    IN  out[Len(list)]

\* build_auth_runtime and from_pb.
BuildAuthRuntime(auth) ==
    [auth EXCEPT !.set = /\ auth.set
                         /\ \/ auth.url # "" \/ auth.signin # "" \/ auth.cookie # ""
                            \/ auth.resp # << >> \/ auth.skip # << >>,
                 !.resp = NormalizeList(auth.resp),
                 !.skip = NormalizeList(auth.skip)]

\* build_header_rewrites: names are trimmed and folded, and what has no valid one
\* is skipped.  (The modes are the control plane's.)
HeaderRewriteRule(op) == [name |-> Folded[op.name], mode |-> op.mode, value |-> op.value]

PushNamed(out, op) ==
    IF Folded[op.name] \in HeaderNames THEN Append(out, HeaderRewriteRule(op)) ELSE out

BuildHeaderRewrites(ops) ==
    LET out[i \in 0 .. Len(ops)] == IF i = 0 THEN << >> ELSE PushNamed(out[i - 1], ops[i])
    IN  out[Len(ops)]

\* LBPolicy::parse is Some: else the cluster is left out of the table.
LbParsed(lb) == lb \in {"RoundRobin", "LeastConn"}

\* BackendProtocol::parse, or H1.
ParseProtocol(p) == IF p \in Protocols THEN p ELSE "h1"

\* The ClusterRule RouteTable::new enters for a cluster.
ClusterRule(te) ==
    [te EXCEPT !.protocol = ParseProtocol(te.protocol),
               !.rewrites = BuildHeaderRewrites(te.rewrites),
               !.auth     = BuildAuthRuntime(te.auth)]

\* proxy_handler: timeout_ms as u64; retries.max(1).
Timeout(rule) == rule.timeout % 2 ^ IntBits

\* Mutated handler: the first try is not counted.
AttemptsOnTop(rule) == Max({rule.retries, 1}) + 1

Attempts(rule) == Max({rule.retries, 1})

=============================================================================
