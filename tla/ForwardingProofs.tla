-------------------------- MODULE ForwardingProofs --------------------------
(***************************************************************************)
(* The properties of Forwarding, for any annotations, requests, headers    *)
(* and widths.                                                             *)
(*                                                                         *)
(* The first half is about the operators: what the numbers, the lists and  *)
(* the rewrites of an annotation become.  Every list is read by a loop, a  *)
(* recursive function; LoopRuns shows that such a function exists, Induct  *)
(* proves what holds round by round.  The second half is about the steps   *)
(* of the handler: FlowInv types them, AttemptInv and RetryInv count the   *)
(* attempts, HeaderInv follows the headers and AuthInv the decision.       *)
(***************************************************************************)
EXTENDS Forwarding, WellFoundedInduction, TLAPS

----------------------------------------------------------------------------
(* Loops *)

\* Induction up to n: what holds of 0 and is kept by every round holds of n.
LEMMA Induct ==
    ASSUME NEW n \in Nat, NEW T, 0 \in T, \A i \in 1 .. n : i - 1 \in T => i \in T
    PROVE  \A i \in 0 .. n : i \in T
  <1> DEFINE U == {i \in 0 .. n : i \notin T}
  <1>1. SUFFICES ASSUME U # {} PROVE FALSE
    OBVIOUS
  <1>2. U \subseteq Nat
    OBVIOUS
  <1>3. \E x \in U : \A y \in U : <<y, x>> \notin OpToRel(<, Nat)
    <2> HIDE DEF U
    <2> QED
      BY <1>1, <1>2, WFMin, NatLessThanWellFounded
  <1>4. OpToRel(<, Nat) = {p \in Nat \X Nat : p[1] < p[2]}
    BY Zenon DEF OpToRel
  <1>5. PICK x \in U : \A y \in U : <<y, x>> \notin {p \in Nat \X Nat : p[1] < p[2]}
    BY <1>3, <1>4, Zenon
  <1>6. x \in 0 .. n /\ x \notin T
    BY <1>5
  <1>7. x # 0 /\ x \in 1 .. n /\ x - 1 \in 0 .. n
    BY <1>6
  <1>8. x - 1 \in U /\ x - 1 < x
    BY <1>6, <1>7
  <1>9. <<x - 1, x>> \in Nat \X Nat
    BY <1>7
  <1>10. ~(<<x - 1, x>>[1] < <<x - 1, x>>[2])
    <2>1. <<x - 1, x>> \notin {p \in Nat \X Nat : p[1] < p[2]}
      BY <1>5, <1>8, Zenon
    <2> QED
      BY <1>9, <2>1, Zenon
  <1> QED
    BY <1>8, <1>10

\* The runs of a loop of n rounds over A, from a; round i is F[i].
Runs(n, A, a, F) == {g \in [0 .. n -> A] : g[0] = a /\ \A i \in 1 .. n : g[i] = F[i][g[i - 1]]}

\* A loop whose rounds stay in A has a run.
LEMMA LoopRuns ==
    ASSUME NEW n \in Nat, NEW A, NEW a \in A, NEW F \in [1 .. n -> [A -> A]]
    PROVE  \E g : g \in Runs(n, A, a, F)
  <1> DEFINE Run(g, m) == g[0] = a /\ \A i \in 1 .. m : g[i] = F[i][g[i - 1]]
             T == {m \in 0 .. n : \E g \in [0 .. m -> A] : Run(g, m)}
  <1>1. 0 \in T
    <2>1. [i \in 0 .. 0 |-> a] \in [0 .. 0 -> A] /\ Run([i \in 0 .. 0 |-> a], 0)
      OBVIOUS
    <2>2. \E g \in [0 .. 0 -> A] : Run(g, 0)
      BY <2>1, Zenon
    <2> HIDE DEF Run
    <2> QED
      BY <2>2
  <1>2. ASSUME NEW m \in 1 .. n, m - 1 \in T PROVE m \in T
    <2>1. PICK g \in [0 .. m - 1 -> A] : Run(g, m - 1)
      BY <1>2
    <2> DEFINE h == [i \in 0 .. m |-> IF i = m THEN F[m][g[m - 1]] ELSE g[i]]
    <2>2. \A i \in 0 .. m : i # m => i \in 0 .. m - 1
      OBVIOUS
    <2>3. g[m - 1] \in A /\ F[m] \in [A -> A] /\ F[m][g[m - 1]] \in A
      BY <1>2
    <2>4. h \in [0 .. m -> A]
      BY <2>2, <2>3
    <2>5. h[0] = a
      BY <2>1
    <2>6. ASSUME NEW i \in 1 .. m PROVE h[i] = F[i][h[i - 1]]
      <3>1. i - 1 \in 0 .. m /\ i - 1 # m /\ h[i - 1] = g[i - 1] /\ i \in 0 .. m
        OBVIOUS
      <3>2. CASE i = m
        BY <3>1, <3>2
      <3>3. CASE i # m
        <4>1. i \in 1 .. m - 1 /\ h[i] = g[i]
          BY <3>3
        <4> QED
          BY <2>1, <3>1, <4>1
      <3> QED
        BY <3>2, <3>3
    <2>7. Run(h, m)
      BY <2>5, <2>6, Zenon
    <2>8. \E f \in [0 .. m -> A] : Run(f, m)
      BY <2>4, <2>7, Zenon
    <2> HIDE DEF Run
    <2> QED
      BY <2>8
  <1>3. n \in T
    <2>1. n \in 0 .. n
      OBVIOUS
    <2> HIDE DEF T
    <2> QED
      BY <1>1, <1>2, <2>1, Induct, Zenon
  <1>4. PICK g \in [0 .. n -> A] : Run(g, n)
    BY <1>3
  <1> QED
    BY <1>4 DEF Runs

\* The rounds of a loop stay where they start.
LEMMA RunTyped ==
    ASSUME NEW n \in Nat, NEW A, NEW out, out[0] \in A,
           \A i \in 1 .. n : out[i - 1] \in A => out[i] \in A
    PROVE  \A i \in 0 .. n : out[i] \in A
  <1> DEFINE T == {i \in 0 .. n : out[i] \in A}
  <1>1. 0 \in T /\ \A i \in 1 .. n : i - 1 \in T => i \in T
    OBVIOUS
  <1>2. \A i \in 0 .. n : i \in T
    <2> HIDE DEF T
    <2> QED
      BY <1>1, Induct, Zenon
  <1> QED
    BY <1>2

\* The loop of parseCSVList.
LEMMA CsvRuns ==
    ASSUME NEW S, NEW list \in Seq(S)
    PROVE  \E out \in [0 .. Len(list) -> Seq(S)] :
             /\ out[0] = << >>
             /\ \A i \in 1 .. Len(list) : out[i] = PushNew(out[i - 1], list[i])
             /\ ParseCSVList(list) = out[Len(list)]
  <1> DEFINE n == Len(list)
             F == [i \in 1 .. n |-> [x \in Seq(S) |-> PushNew(x, list[i])]]
             P(g) == g = [i \in 0 .. n |-> IF i = 0 THEN << >> ELSE PushNew(g[i - 1], list[i])]
             it == CHOOSE g : P(g)
  <1>1. n \in Nat /\ << >> \in Seq(S)
    OBVIOUS
  <1>2. ASSUME NEW x \in Seq(S), NEW i \in 1 .. n PROVE PushNew(x, list[i]) \in Seq(S)
    <2>1. list[i] \in S
      OBVIOUS
    <2>2. Append(x, list[i]) \in Seq(S)
      BY <2>1
    <2> QED
      BY <2>2 DEF PushNew
  <1>3. F \in [1 .. n -> [Seq(S) -> Seq(S)]]
    <2>1. ASSUME NEW i \in 1 .. n PROVE F[i] \in [Seq(S) -> Seq(S)]
      BY <1>2
    <2> QED
      BY <2>1
  <1>4. PICK g : g \in Runs(n, Seq(S), << >>, F)
    <2> HIDE DEF F, n
    <2> QED
      BY <1>1, <1>3, LoopRuns, Zenon
  <1>5. ASSUME NEW i \in 0 .. n, i # 0 PROVE g[i] = PushNew(g[i - 1], list[i])
    <2>1. i \in 1 .. n /\ i - 1 \in 0 .. n
      BY <1>1, <1>5
    <2>2. g \in [0 .. n -> Seq(S)] /\ g[i] = F[i][g[i - 1]]
      BY <1>4, <2>1 DEF Runs
    <2>3. g[i - 1] \in Seq(S)
      BY <2>1, <2>2
    <2> QED
      BY <2>1, <2>2, <2>3
  <1>6. P(g)
    BY <1>4, <1>5 DEF Runs
  <1>7. P(it)
    <2> HIDE DEF P
    <2> QED
      BY <1>6, Zenon
  <1>8. ParseCSVList(list) = it[n]
    BY DEF ParseCSVList
  <1> HIDE DEF it
  <1>9. it[0] = << >> /\ \A i \in 1 .. n : it[i] = PushNew(it[i - 1], list[i])
    BY <1>1, <1>7
  <1>10. \A i \in 0 .. n : it[i] \in Seq(S)
    BY <1>1, <1>2, <1>9, RunTyped
  <1>11. it \in [0 .. n -> Seq(S)]
    BY <1>7, <1>10
  <1> QED
    BY <1>8, <1>9, <1>11

\* The loop of normalize_list.
LEMMA NormalizeRuns ==
    ASSUME NEW S, NEW list \in Seq(S)
    PROVE  \E out \in [0 .. Len(list) -> Seq(S)] :
             /\ out[0] = << >>
             /\ \A i \in 1 .. Len(list) : out[i] = PushDistinct(out[i - 1], list[i])
             /\ NormalizeList(list) = out[Len(list)]
  <1> DEFINE n == Len(list)
             F == [i \in 1 .. n |-> [x \in Seq(S) |-> PushDistinct(x, list[i])]]
             P(g) == g = [i \in 0 .. n |-> IF i = 0 THEN << >> ELSE PushDistinct(g[i - 1], list[i])]
             it == CHOOSE g : P(g)
  <1>1. n \in Nat /\ << >> \in Seq(S)
    OBVIOUS
  <1>2. ASSUME NEW x \in Seq(S), NEW i \in 1 .. n PROVE PushDistinct(x, list[i]) \in Seq(S)
    <2>1. list[i] \in S
      OBVIOUS
    <2>2. Append(x, list[i]) \in Seq(S)
      BY <2>1
    <2> QED
      BY <2>2 DEF PushDistinct
  <1>3. F \in [1 .. n -> [Seq(S) -> Seq(S)]]
    <2>1. ASSUME NEW i \in 1 .. n PROVE F[i] \in [Seq(S) -> Seq(S)]
      BY <1>2
    <2> QED
      BY <2>1
  <1>4. PICK g : g \in Runs(n, Seq(S), << >>, F)
    <2> HIDE DEF F, n
    <2> QED
      BY <1>1, <1>3, LoopRuns, Zenon
  <1>5. ASSUME NEW i \in 0 .. n, i # 0 PROVE g[i] = PushDistinct(g[i - 1], list[i])
    <2>1. i \in 1 .. n /\ i - 1 \in 0 .. n
      BY <1>1, <1>5
    <2>2. g \in [0 .. n -> Seq(S)] /\ g[i] = F[i][g[i - 1]]
      BY <1>4, <2>1 DEF Runs
    <2>3. g[i - 1] \in Seq(S)
      BY <2>1, <2>2
    <2> QED
      BY <2>1, <2>2, <2>3
  <1>6. P(g)
    BY <1>4, <1>5 DEF Runs
  <1>7. P(it)
    <2> HIDE DEF P
    <2> QED
      BY <1>6, Zenon
  <1>8. NormalizeList(list) = it[n]
    BY DEF NormalizeList
  <1> HIDE DEF it
  <1>9. it[0] = << >> /\ \A i \in 1 .. n : it[i] = PushDistinct(it[i - 1], list[i])
    BY <1>1, <1>7
  <1>10. \A i \in 0 .. n : it[i] \in Seq(S)
    BY <1>1, <1>2, <1>9, RunTyped
  <1>11. it \in [0 .. n -> Seq(S)]
    BY <1>7, <1>10
  <1> QED
    BY <1>8, <1>9, <1>11

\* The loop of build_header_rewrites.
LEMMA BuildRuns ==
    ASSUME NEW S, NEW list \in Seq(S), NEW R,
           \A op \in S : Folded[op.name] \in HeaderNames => HeaderRewriteRule(op) \in R
    PROVE  \E out \in [0 .. Len(list) -> Seq(R)] :
             /\ out[0] = << >>
             /\ \A i \in 1 .. Len(list) : out[i] = PushNamed(out[i - 1], list[i])
             /\ BuildHeaderRewrites(list) = out[Len(list)]
  <1> DEFINE n == Len(list)
             F == [i \in 1 .. n |-> [x \in Seq(R) |-> PushNamed(x, list[i])]]
             P(g) == g = [i \in 0 .. n |-> IF i = 0 THEN << >> ELSE PushNamed(g[i - 1], list[i])]
             it == CHOOSE g : P(g)
  <1>1. n \in Nat /\ << >> \in Seq(R)
    OBVIOUS
  <1>2. ASSUME NEW x \in Seq(R), NEW i \in 1 .. n PROVE PushNamed(x, list[i]) \in Seq(R)
    <2>1. list[i] \in S
      OBVIOUS
    <2>2. ASSUME Folded[list[i].name] \in HeaderNames
          PROVE  Append(x, HeaderRewriteRule(list[i])) \in Seq(R)
      BY <2>1, <2>2
    <2> QED
      BY <2>2 DEF PushNamed
  <1>3. F \in [1 .. n -> [Seq(R) -> Seq(R)]]
    <2>1. ASSUME NEW i \in 1 .. n PROVE F[i] \in [Seq(R) -> Seq(R)]
      BY <1>2
    <2> QED
      BY <2>1
  <1>4. PICK g : g \in Runs(n, Seq(R), << >>, F)
    <2> HIDE DEF F, n
    <2> QED
      BY <1>1, <1>3, LoopRuns, Zenon
  <1>5. ASSUME NEW i \in 0 .. n, i # 0 PROVE g[i] = PushNamed(g[i - 1], list[i])
    <2>1. i \in 1 .. n /\ i - 1 \in 0 .. n
      BY <1>1, <1>5
    <2>2. g \in [0 .. n -> Seq(R)] /\ g[i] = F[i][g[i - 1]]
      BY <1>4, <2>1 DEF Runs
    <2>3. g[i - 1] \in Seq(R)
      BY <2>1, <2>2
    <2> QED
      BY <2>1, <2>2, <2>3
  <1>6. P(g)
    BY <1>4, <1>5 DEF Runs
  <1>7. P(it)
    <2> HIDE DEF P
    <2> QED
      BY <1>6, Zenon
  <1>8. BuildHeaderRewrites(list) = it[n]
    BY DEF BuildHeaderRewrites
  <1> HIDE DEF it
  <1>9. it[0] = << >> /\ \A i \in 1 .. n : it[i] = PushNamed(it[i - 1], list[i])
    BY <1>1, <1>7
  <1>10. \A i \in 0 .. n : it[i] \in Seq(R)
    BY <1>1, <1>2, <1>9, RunTyped
  <1>11. it \in [0 .. n -> Seq(R)]
    BY <1>7, <1>10
  <1> QED
    BY <1>8, <1>9, <1>11

\* The operations on one header are collected one by one.
LEMMA OnRuns ==
    ASSUME NEW n, NEW S, NEW list \in Seq(S)
    PROVE  \E out \in [0 .. Len(list) -> Seq(S)] :
             /\ out[0] = << >>
             /\ \A i \in 1 .. Len(list) : out[i] = PushOn(n, out[i - 1], list[i])
             /\ OperationsOn(n, list) = out[Len(list)]
  <1> DEFINE len == Len(list)
             F == [i \in 1 .. len |-> [x \in Seq(S) |-> PushOn(n, x, list[i])]]
             P(g) == g = [i \in 0 .. len |-> IF i = 0 THEN << >> ELSE PushOn(n, g[i - 1], list[i])]
             it == CHOOSE g : P(g)
  <1>1. len \in Nat /\ << >> \in Seq(S)
    OBVIOUS
  <1>2. ASSUME NEW x \in Seq(S), NEW i \in 1 .. len PROVE PushOn(n, x, list[i]) \in Seq(S)
    <2>1. list[i] \in S
      OBVIOUS
    <2>2. Append(x, list[i]) \in Seq(S)
      BY <2>1
    <2> QED
      BY <2>2 DEF PushOn
  <1>3. F \in [1 .. len -> [Seq(S) -> Seq(S)]]
    <2>1. ASSUME NEW i \in 1 .. len PROVE F[i] \in [Seq(S) -> Seq(S)]
      BY <1>2
    <2> QED
      BY <2>1
  <1>4. PICK g : g \in Runs(len, Seq(S), << >>, F)
    <2> HIDE DEF F, len
    <2> QED
      BY <1>1, <1>3, LoopRuns, Zenon
  <1>5. ASSUME NEW i \in 0 .. len, i # 0 PROVE g[i] = PushOn(n, g[i - 1], list[i])
    <2>1. i \in 1 .. len /\ i - 1 \in 0 .. len
      BY <1>1, <1>5
    <2>2. g \in [0 .. len -> Seq(S)] /\ g[i] = F[i][g[i - 1]]
      BY <1>4, <2>1 DEF Runs
    <2>3. g[i - 1] \in Seq(S)
      BY <2>1, <2>2
    <2> QED
      BY <2>1, <2>2, <2>3
  <1>6. P(g)
    BY <1>4, <1>5 DEF Runs
  <1>7. P(it)
    <2> HIDE DEF P
    <2> QED
      BY <1>6, Zenon
  <1>8. OperationsOn(n, list) = it[len]
    BY DEF OperationsOn
  <1> HIDE DEF it
  <1>9. it[0] = << >> /\ \A i \in 1 .. len : it[i] = PushOn(n, it[i - 1], list[i])
    BY <1>1, <1>7
  <1>10. \A i \in 0 .. len : it[i] \in Seq(S)
    BY <1>1, <1>2, <1>9, RunTyped
  <1>11. it \in [0 .. len -> Seq(S)]
    BY <1>7, <1>10
  <1> QED
    BY <1>8, <1>9, <1>11

\* A rewrite makes a header map of one.
LEMMA RewriteTyped ==
    ASSUME NEW h \in HeaderMaps, NEW op, op.name \in HeaderNames, op.mode \in {"set", "append", "remove"}
    PROVE  Rewrite(h, op) \in HeaderMaps
  <1>1. h[op.name] \in Seq(HeaderValues) /\ << >> \in Seq(HeaderValues)
    BY DEF HeaderMaps
  <1>2. ASSUME NEW s \in Seq(HeaderValues) PROVE [h EXCEPT ![op.name] = s] \in HeaderMaps
    BY DEF HeaderMaps
  <1>3. CASE op.mode = "remove"
    <2>1. [h EXCEPT ![op.name] = << >>] \in HeaderMaps
      BY <1>1 DEF HeaderMaps
    <2> QED
      BY <1>3, <2>1 DEF Rewrite
  <1>4. CASE op.mode # "remove" /\ op.value \notin HeaderValues
    BY <1>4 DEF Rewrite
  <1>5. CASE op.mode = "set" /\ op.value \in HeaderValues
    <2>1. << op.value >> \in Seq(HeaderValues)
      BY <1>5
    <2> QED
      BY <1>2, <1>5, <2>1 DEF Rewrite, Insert
  <1>6. CASE op.mode = "append" /\ op.value \in HeaderValues
    <2>1. Append(h[op.name], op.value) \in Seq(HeaderValues)
      BY <1>1, <1>6
    <2> QED
      BY <1>2, <1>6, <2>1 DEF Rewrite
  <1> QED
    BY <1>3, <1>4, <1>5, <1>6

\* The loop of apply_header_rewrites.
LEMMA ApplyRuns ==
    ASSUME NEW S, NEW list \in Seq(S), NEW h \in HeaderMaps,
           \A op \in S : op.name \in HeaderNames /\ op.mode \in {"set", "append", "remove"}
    PROVE  \E out \in [0 .. Len(list) -> HeaderMaps] :
             /\ out[0] = h
             /\ \A i \in 1 .. Len(list) : out[i] = Rewrite(out[i - 1], list[i])
             /\ ApplyHeaderRewrites(h, list) = out[Len(list)]
  <1> DEFINE n == Len(list)
             F == [i \in 1 .. n |-> [x \in HeaderMaps |-> Rewrite(x, list[i])]]
             P(g) == g = [i \in 0 .. n |-> IF i = 0 THEN h ELSE Rewrite(g[i - 1], list[i])]
             it == CHOOSE g : P(g)
  <1>1. n \in Nat /\ h \in HeaderMaps
    OBVIOUS
  <1>2. ASSUME NEW x \in HeaderMaps, NEW i \in 1 .. n PROVE Rewrite(x, list[i]) \in HeaderMaps
    <2>1. list[i] \in S
      OBVIOUS
    <2> QED
      BY <2>1, RewriteTyped
  <1>3. F \in [1 .. n -> [HeaderMaps -> HeaderMaps]]
    <2>1. ASSUME NEW i \in 1 .. n PROVE F[i] \in [HeaderMaps -> HeaderMaps]
      BY <1>2
    <2> QED
      BY <2>1
  <1>4. PICK g : g \in Runs(n, HeaderMaps, h, F)
    <2> HIDE DEF F, n
    <2> QED
      BY <1>1, <1>3, LoopRuns, Zenon
  <1>5. ASSUME NEW i \in 0 .. n, i # 0 PROVE g[i] = Rewrite(g[i - 1], list[i])
    <2>1. i \in 1 .. n /\ i - 1 \in 0 .. n
      BY <1>1, <1>5
    <2>2. g \in [0 .. n -> HeaderMaps] /\ g[i] = F[i][g[i - 1]]
      BY <1>4, <2>1 DEF Runs
    <2>3. g[i - 1] \in HeaderMaps
      BY <2>1, <2>2
    <2> QED
      BY <2>1, <2>2, <2>3
  <1>6. P(g)
    BY <1>4, <1>5 DEF Runs
  <1>7. P(it)
    <2> HIDE DEF P
    <2> QED
      BY <1>6, Zenon
  <1>8. ApplyHeaderRewrites(h, list) = it[n]
    BY DEF ApplyHeaderRewrites
  <1> HIDE DEF it
  <1>9. it[0] = h /\ \A i \in 1 .. n : it[i] = Rewrite(it[i - 1], list[i])
    BY <1>1, <1>7
  <1>10. \A i \in 0 .. n : it[i] \in HeaderMaps
    BY <1>1, <1>2, <1>9, RunTyped
  <1>11. it \in [0 .. n -> HeaderMaps]
    BY <1>7, <1>10
  <1> QED
    BY <1>8, <1>9, <1>11

----------------------------------------------------------------------------
(* Numbers *)

\* The larger of two numbers.
LEMMA MaxOfTwo == ASSUME NEW x \in Int, NEW y \in Int PROVE Max({x, y}) = IF x >= y THEN x ELSE y
  <1> DEFINE m == IF x >= y THEN x ELSE y
  <1>1. m \in {x, y} /\ \A w \in {x, y} : m >= w
    OBVIOUS
  <1>2. Max({x, y}) \in {x, y} /\ \A w \in {x, y} : Max({x, y}) >= w
    BY <1>1, Zenon DEF Max
  <1> QED
    BY <1>2

\* The smaller of two numbers.
LEMMA MinOfTwo == ASSUME NEW x \in Int, NEW y \in Int PROVE Min({x, y}) = IF x <= y THEN x ELSE y
  <1> DEFINE m == IF x <= y THEN x ELSE y
  <1>1. m \in {x, y} /\ \A w \in {x, y} : m <= w
    OBVIOUS
  <1>2. Min({x, y}) \in {x, y} /\ \A w \in {x, y} : Min({x, y}) <= w
    BY <1>1, Zenon DEF Min
  <1> QED
    BY <1>2

\* An int32 holds small numbers as they are, and any number somehow.
LEMMA Int32Holds ==
    ASSUME NEW v \in Int
    PROVE  /\ Signed(v, Int32Bits) \in -(2 ^ (Int32Bits - 1)) .. 2 ^ (Int32Bits - 1) - 1
           /\ v \in 0 .. 2 ^ (Int32Bits - 1) - 1 => Signed(v, Int32Bits) = v
  <1>1. PICK H \in Nat : H > 0 /\ 2 ^ (Int32Bits - 1) = H /\ 2 ^ Int32Bits = 2 * H
    BY Widths, PowersOfTwo
  <1>2. (v + H) % (2 * H) \in 0 .. 2 * H - 1
    BY <1>1
  <1>3. v \in 0 .. H - 1 => (v + H) % (2 * H) = v + H
    BY <1>1
  <1> QED
    BY <1>1, <1>2, <1>3 DEF Signed

\* Atoi gives an int, and the number itself if an int32 holds it.
LEMMA AtoiGives ==
    ASSUME NEW raw, raw.n \in Int
    PROVE  /\ Atoi(raw) \in Int
           /\ raw.kind = "number" /\ raw.n \in 0 .. 2 ^ (Int32Bits - 1) - 1 => Atoi(raw) = raw.n
  <1>1. PICK H \in Nat, I \in Nat : 2 ^ (Int32Bits - 1) = H /\ 2 ^ (IntBits - 1) = I /\ H <= I
    BY PowersOfTwo
  <1>2. MaxInt = I - 1
    BY <1>1 DEF MaxInt
  <1> QED
    BY <1>1, <1>2 DEF Atoi

\* The fields of a rule, from the annotations.
LEMMA RuleFields ==
    ASSUME NEW a
    PROVE  LET r == ClusterRule(ParseAnnotations(a))
           IN  /\ r.protocol = ParseProtocol(IF a.protocol = "" THEN "h1" ELSE a.protocol)
               /\ r.timeout = TimeoutMs(a.timeout)
               /\ r.retries = Retries(a.retries)
               /\ r.rewrites = BuildHeaderRewrites(GetRequestHeaders(a.rewrites))
               /\ r.auth = BuildAuthRuntime(AuthOf(a))
  BY DEF ClusterRule, ParseAnnotations

\* The rule of the cluster.
TheRule == ClusterRule(ParseAnnotations(ann))

\* The handler makes as many attempts as the annotation asks for, and fewer only for
\* a number that is too large for an int.
LEMMA AttemptsAsked ==
    ASSUME ann \in Annotations
    PROVE  /\ Attempts(TheRule) \in 1 .. AskedRetries
           /\ AskedRetries \in 1 .. 10
           /\ ann.retries.n <= MaxInt => Attempts(TheRule) = AskedRetries
  <1> DEFINE n == IF AtoiOk(ann.retries) THEN ann.retries.n ELSE 1
             m == Max({1, n})
             k == Min({10, m})
             q == IF ann.retries.kind = "number" THEN ann.retries.n ELSE 1
             a == Max({1, q})
             b == Min({10, a})
  <1>1. n \in Int /\ q \in Int /\ ann.retries.n \in Int
    BY HeaderConstants
  <1>2. /\ AtoiOk(ann.retries) => n = q
        /\ ~AtoiOk(ann.retries) => n = 1
        /\ ann.retries.n <= MaxInt => n = q \/ (n = 1 /\ q < 1)
    <2>1. PICK I \in Nat : I > 10 /\ MaxInt = I - 1
      BY Widths, PowersOfTwo DEF MaxInt
    <2> QED
      BY <1>1, <2>1 DEF AtoiOk, Ints
  <1> HIDE DEF n, q
  <1>3. m = (IF 1 >= n THEN 1 ELSE n) /\ a = (IF 1 >= q THEN 1 ELSE q)
    BY <1>1, MaxOfTwo
  <1> HIDE DEF m, a
  <1>4. k = (IF 10 <= m THEN 10 ELSE m) /\ b = (IF 10 <= a THEN 10 ELSE a)
    BY <1>1, <1>3, MinOfTwo
  <1>5. AskedRetries = b
    <2>1. CASE ann.retries.kind = "number"
      BY <2>1 DEF AskedRetries, a, q
    <2>2. CASE ann.retries.kind # "number"
      <3>1. q = 1
        BY <2>2 DEF q
      <3> QED
        BY <1>3, <1>4, <2>2, <3>1 DEF AskedRetries
    <2> QED
      BY <2>1, <2>2
  <1> HIDE DEF k, b
  <1>6. k \in 1 .. b /\ b \in 1 .. 10 /\ (ann.retries.n <= MaxInt => k = b)
    BY <1>1, <1>2, <1>3, <1>4
  <1>7. k \in 0 .. 2 ^ (Int32Bits - 1) - 1 /\ k \in Int
    BY <1>6, Widths, PowersOfTwo
  <1>8. Retries(ann.retries) = k
    BY <1>7, Int32Holds DEF Retries, k, m, n
  <1>9. Max({k, 1}) = k
    BY <1>6, <1>7, MaxOfTwo
  <1>10. Attempts(TheRule) = k
    BY <1>8, <1>9, RuleFields DEF Attempts, TheRule
  <1> QED
    BY <1>5, <1>6, <1>10

\* The annotations become a rule as SettingsKept says.
LEMMA RuleKeepsSettings ==
    ASSUME ann \in Annotations
    PROVE  LET r == ClusterRule(ParseAnnotations(ann))
           IN  /\ r.timeout \in -(2 ^ (Int32Bits - 1)) .. 2 ^ (Int32Bits - 1) - 1
               /\ ann.timeout.kind = "absent" => Timeout(r) = DefaultTimeout
               /\ ann.timeout.kind = "number" /\ ann.timeout.n \in 1 .. MaxTimeout =>
                     Timeout(r) = ann.timeout.n
               /\ ann.protocol \in Protocols => r.protocol = ann.protocol
               /\ Folded[ann.protocol] \notin Protocols => r.protocol = "h1"
  <1> DEFINE r == ClusterRule(ParseAnnotations(ann))
             raw == IF ann.timeout.kind = "absent" THEN DefaultTimeout ELSE Atoi(ann.timeout)
  <1>1. PICK H \in Nat, W \in Nat : 2 ^ (Int32Bits - 1) = H /\ 2 ^ IntBits = W /\ H <= W
    BY PowersOfTwo
  <1>2. raw \in Int /\ r.timeout = Signed(raw, Int32Bits)
    <2>1. ann.timeout.n \in Int /\ DefaultTimeout \in Int
      BY HeaderConstants, Widths
    <2>2. raw \in Int
      BY <2>1, AtoiGives
    <2> QED
      BY <2>2, RuleFields DEF TimeoutMs
  <1>3. /\ ann.timeout.kind = "absent" => raw = DefaultTimeout
        /\ ann.timeout.kind = "number" /\ ann.timeout.n \in 1 .. H - 1 => raw = ann.timeout.n
    <2>1. ann.timeout.n \in Int
      BY HeaderConstants
    <2>2. ann.timeout.kind = "number" /\ ann.timeout.n \in 0 .. H - 1 => Atoi(ann.timeout) = ann.timeout.n
      BY <1>1, <2>1, AtoiGives
    <2>3. ann.timeout.n \in 1 .. H - 1 => ann.timeout.n \in 0 .. H - 1
      BY <1>1, <2>1
    <2> QED
      BY <2>2, <2>3
  <1> HIDE DEF raw
  <1>4. raw \in 0 .. H - 1 => r.timeout = raw
    BY <1>1, <1>2, Int32Holds
  <1>5. raw \in 0 .. H - 1 => Timeout(r) = raw
    <2> SUFFICES ASSUME raw \in 0 .. H - 1 PROVE raw % W = raw
      BY <1>1, <1>4 DEF Timeout
    <2>1. raw \in Nat /\ raw < W
      BY <1>1
    <2> QED
      BY <2>1
  <1>6. DefaultTimeout \in 0 .. H - 1 /\ 1 .. H - 1 \subseteq 0 .. H - 1
    BY <1>1, Widths
  <1>7. r.timeout \in -(2 ^ (Int32Bits - 1)) .. 2 ^ (Int32Bits - 1) - 1
    BY <1>2, Int32Holds
  <1>8. /\ ann.protocol \in Protocols => r.protocol = ann.protocol
        /\ Folded[ann.protocol] \notin Protocols => r.protocol = "h1"
    <2>1. r.protocol = ParseProtocol(IF ann.protocol = "" THEN "h1" ELSE ann.protocol)
      BY RuleFields
    <2>2. "" \notin Protocols /\ (Folded[ann.protocol] \notin Protocols => ann.protocol \notin Protocols)
      BY LowerCase DEF Protocols
    <2> QED
      BY <2>1, <2>2 DEF ParseProtocol
  <1> HIDE DEF r
  <1>9. ann.timeout.kind = "absent" => Timeout(r) = DefaultTimeout
    BY <1>3, <1>5, <1>6
  <1>10. ann.timeout.kind = "number" /\ ann.timeout.n \in 1 .. MaxTimeout =>
            Timeout(r) = ann.timeout.n
    <2>1. 1 .. MaxTimeout \subseteq 1 .. H - 1
      BY <1>1, DocumentedRange
    <2> QED
      BY <1>3, <1>5, <1>6, <2>1
  <1> QED
    BY <1>7, <1>8, <1>9, <1>10 DEF r

----------------------------------------------------------------------------
(* Lists *)

\* The entries of a list with one more.
LEMMA RangeAppend ==
    ASSUME NEW S, NEW s \in Seq(S), NEW v
    PROVE  Range(Append(s, v)) = Range(s) \union {v}
  <1>1. /\ DOMAIN Append(s, v) = 1 .. Len(s) + 1
        /\ \A i \in 1 .. Len(s) : Append(s, v)[i] = s[i]
        /\ Append(s, v)[Len(s) + 1] = v
    OBVIOUS
  <1>2. DOMAIN s = 1 .. Len(s) /\ Len(s) \in Nat
    OBVIOUS
  <1>3. \A i : i \in 1 .. Len(s) + 1 <=> i \in 1 .. Len(s) \/ i = Len(s) + 1
    BY <1>2
  <1> QED
    BY <1>1, <1>2, <1>3 DEF Range

\* parseCSVList keeps every entry that is not blank.
LEMMA CsvKeeps ==
    ASSUME NEW S, NEW list \in Seq(S)
    PROVE  ParseCSVList(list) \in Seq(S) /\ Range(ParseCSVList(list)) = Listed(list)
  <1>1. PICK out \in [0 .. Len(list) -> Seq(S)] :
             /\ out[0] = << >>
             /\ \A i \in 1 .. Len(list) : out[i] = PushNew(out[i - 1], list[i])
             /\ ParseCSVList(list) = out[Len(list)]
    BY CsvRuns
  <1> DEFINE n == Len(list)
             upto(i) == {list[j] : j \in 1 .. i} \ {""}
             T == {i \in 0 .. n : Range(out[i]) = upto(i)}
  <1>2. n \in Nat /\ DOMAIN list = 1 .. n
    OBVIOUS
  <1>3. 0 \in T
    <2>1. Range(<< >>) = {} /\ upto(0) = {}
      BY DEF Range
    <2>2. 0 \in 0 .. n
      BY <1>2
    <2>3. Range(out[0]) = {}
      BY <1>1, <2>1
    <2> HIDE DEF upto, n
    <2> QED
      BY <2>1, <2>2, <2>3
  <1>4. ASSUME NEW i \in 1 .. n, i - 1 \in T PROVE i \in T
    <2>1. upto(i) = upto(i - 1) \union ({list[i]} \ {""})
      <3>1. \A j : j \in 1 .. i <=> j \in 1 .. i - 1 \/ j = i
        BY <1>2
      <3> QED
        BY <3>1
    <2>2. out[i - 1] \in Seq(S)
      <3>1. i - 1 \in 0 .. Len(list)
        BY <1>2
      <3> QED
        BY <1>1, <3>1
    <2>3. Range(Append(out[i - 1], list[i])) = Range(out[i - 1]) \union {list[i]}
      BY <2>2, RangeAppend
    <2>4. Range(out[i - 1]) = upto(i - 1)
      BY <1>4
    <2> HIDE DEF upto
    <2>5. Range(PushNew(out[i - 1], list[i])) = upto(i)
      BY <2>1, <2>3, <2>4 DEF PushNew
    <2> QED
      BY <1>1, <1>2, <2>5
  <1>5. n \in T
    <2>1. n \in 0 .. n
      BY <1>2
    <2> HIDE DEF T, n
    <2> QED
      BY <1>2, <1>3, <1>4, <2>1, Induct, Zenon
  <1>6. Range(out[n]) = upto(n)
    BY <1>5
  <1>7. upto(n) = Listed(list)
    BY <1>2 DEF Listed
  <1>8. out[n] \in Seq(S)
    BY <1>1, <1>2
  <1> HIDE DEF upto
  <1> QED
    BY <1>1, <1>6, <1>7, <1>8

\* normalize_list drops an entry only for one that differs from it in case.
LEMMA NormalizeKeeps ==
    ASSUME NEW S, NEW list \in Seq(S)
    PROVE  /\ NormalizeList(list) \in Seq(S)
           /\ Range(NormalizeList(list)) \subseteq Listed(list)
           /\ \A p \in Listed(list) : \E x \in Range(NormalizeList(list)) : Folded[x] = Folded[p]
  <1>1. PICK out \in [0 .. Len(list) -> Seq(S)] :
             /\ out[0] = << >>
             /\ \A i \in 1 .. Len(list) : out[i] = PushDistinct(out[i - 1], list[i])
             /\ NormalizeList(list) = out[Len(list)]
    BY NormalizeRuns
  <1> DEFINE n == Len(list)
             upto(i) == {list[j] : j \in 1 .. i} \ {""}
             Good(s, i) == /\ Range(s) \subseteq upto(i)
                           /\ \A p \in upto(i) : \E x \in Range(s) : Folded[x] = Folded[p]
             T == {i \in 0 .. n : Good(out[i], i)}
  <1>2. n \in Nat /\ DOMAIN list = 1 .. n
    OBVIOUS
  <1>3. 0 \in T
    <2>1. Range(<< >>) = {} /\ upto(0) = {}
      BY DEF Range
    <2>2. 0 \in 0 .. n
      BY <1>2
    <2>3. Range(out[0]) = {}
      BY <1>1, <2>1
    <2> HIDE DEF upto, n
    <2> QED
      BY <2>1, <2>2, <2>3
  <1>4. ASSUME NEW i \in 1 .. n, i - 1 \in T PROVE i \in T
    <2>1. upto(i) = upto(i - 1) \union ({list[i]} \ {""})
      <3>1. \A j : j \in 1 .. i <=> j \in 1 .. i - 1 \/ j = i
        BY <1>2
      <3> QED
        BY <3>1
    <2>2. out[i - 1] \in Seq(S)
      <3>1. i - 1 \in 0 .. Len(list)
        BY <1>2
      <3> QED
        BY <1>1, <3>1
    <2>3. Range(Append(out[i - 1], list[i])) = Range(out[i - 1]) \union {list[i]}
      BY <2>2, RangeAppend
    <2>4. Good(out[i - 1], i - 1)
      BY <1>4
    <2> HIDE DEF upto
    <2>5. CASE list[i] = ""
      <3>1. PushDistinct(out[i - 1], list[i]) = out[i - 1] /\ upto(i) = upto(i - 1)
        BY <2>1, <2>5 DEF PushDistinct
      <3>2. Good(out[i], i)
        BY <1>1, <2>4, <3>1
      <3> QED
        BY <3>2
    <2>6. CASE list[i] # "" /\ \E x \in Range(out[i - 1]) : Folded[x] = Folded[list[i]]
      <3>1. PushDistinct(out[i - 1], list[i]) = out[i - 1] /\ upto(i) = upto(i - 1) \union {list[i]}
        BY <2>1, <2>6 DEF PushDistinct
      <3>2. Good(out[i], i)
        BY <1>1, <2>4, <2>6, <3>1
      <3> QED
        BY <3>2
    <2>7. CASE list[i] # "" /\ ~ \E x \in Range(out[i - 1]) : Folded[x] = Folded[list[i]]
      <3>1. /\ PushDistinct(out[i - 1], list[i]) = Append(out[i - 1], list[i])
            /\ upto(i) = upto(i - 1) \union {list[i]}
        BY <2>1, <2>7 DEF PushDistinct
      <3>2. Good(out[i], i)
        BY <1>1, <2>3, <2>4, <3>1
      <3> QED
        BY <3>2
    <2> QED
      BY <2>5, <2>6, <2>7
  <1>5. n \in T
    <2>1. n \in 0 .. n
      BY <1>2
    <2> HIDE DEF T, n
    <2> QED
      BY <1>2, <1>3, <1>4, <2>1, Induct, Zenon
  <1>6. Good(out[n], n)
    BY <1>5
  <1>7. upto(n) = Listed(list)
    BY <1>2 DEF Listed
  <1>8. out[n] \in Seq(S)
    BY <1>1, <1>2
  <1> HIDE DEF upto
  <1> QED
    BY <1>1, <1>6, <1>7, <1>8

Blank(v) == v = ""

\* No entry of s differs from p in case only.
Alone(s, p) == \A x \in Range(s) : Folded[x] = Folded[p] => x = p

\* p leads the list s.
LeadsIn(s, p) == \E m \in DOMAIN s : s[m] = p /\ Leads(s, m)

\* A longer list has the same leaders, and perhaps more.
LEMMA LeadsAppend ==
    ASSUME NEW S, NEW s \in Seq(S), NEW v, NEW p, LeadsIn(s, p)
    PROVE  LeadsIn(Append(s, v), p)
  <1>1. PICK m \in DOMAIN s : s[m] = p /\ Leads(s, m)
    BY DEF LeadsIn
  <1>2. m \in 1 .. Len(s) /\ Len(s) \in Nat
    BY <1>1
  <1>3. \A j \in 1 .. m : Append(s, v)[j] = s[j]
    BY <1>2
  <1>4. m \in DOMAIN Append(s, v)
    BY <1>2
  <1>5. Append(s, v)[m] = p /\ \A j \in 1 .. m - 1 : Append(s, v)[j] = s[j]
    BY <1>1, <1>2, <1>3
  <1>6. Leads(Append(s, v), m)
    BY <1>1, <1>5 DEF Leads
  <1> QED
    BY <1>4, <1>5, <1>6 DEF LeadsIn

\* An entry without a twin leads.
LEMMA LeadsAlone ==
    ASSUME NEW S, NEW s \in Seq(S), NEW p, ~Blank(p), p \in Range(s), Alone(s, p)
    PROVE  LeadsIn(s, p)
  <1>1. PICK m \in DOMAIN s : s[m] = p
    BY DEF Range
  <1>2. \A j \in 1 .. m - 1 : s[j] \in Range(s)
    <2>1. m \in 1 .. Len(s) /\ Len(s) \in Nat /\ DOMAIN s = 1 .. Len(s)
      BY <1>1
    <2>2. \A j \in 1 .. m - 1 : j \in DOMAIN s
      BY <2>1
    <2> QED
      BY <2>2 DEF Range
  <1>3. Leads(s, m)
    BY <1>1, <1>2 DEF Leads, Alone, Blank
  <1> QED
    BY <1>1, <1>3 DEF LeadsIn

\* A loop that copies entries, and an entry with no twin so far for sure, keeps the
\* leaders of its list.
LEMMA LeadersKept ==
    ASSUME NEW S, NEW list \in Seq(S), NEW out \in [0 .. Len(list) -> Seq(S)], out[0] = << >>,
           \A i \in 1 .. Len(list) : out[i] \in {out[i - 1], Append(out[i - 1], list[i])},
           \A i \in 1 .. Len(list) :
              ~Blank(list[i]) /\ Alone(out[i - 1], list[i]) => list[i] \in Range(out[i]),
           NEW p, LeadsIn(list, p)
    PROVE  LeadsIn(out[Len(list)], p)
  <1>1. PICK k \in DOMAIN list : list[k] = p /\ Leads(list, k)
    BY DEF LeadsIn
  <1> DEFINE n == Len(list)
             T == {i \in 0 .. n : (i < k => Alone(out[i], p)) /\ (i >= k => LeadsIn(out[i], p))}
  <1>2. n \in Nat /\ k \in 1 .. n
    BY <1>1
  <1>b. ~Blank(p) /\ \A j \in 1 .. k - 1 : Folded[list[j]] = Folded[p] => list[j] = p
    BY <1>1 DEF Leads, Blank
  <1>3. 0 \in T
    <2>1. Alone(<< >>, p)
      BY DEF Alone, Range
    <2> QED
      BY <1>2, <2>1
  <1>4. ASSUME NEW i \in 1 .. n, i - 1 \in T PROVE i \in T
    <2>1. i \in 0 .. n /\ out[i - 1] \in Seq(S) /\ out[i] \in Seq(S)
      <3>1. i \in 0 .. n /\ i - 1 \in 0 .. n
        BY <1>2
      <3> QED
        BY <3>1
    <2>2. out[i] = out[i - 1] \/ out[i] = Append(out[i - 1], list[i])
      OBVIOUS
    <2>3. Range(Append(out[i - 1], list[i])) = Range(out[i - 1]) \union {list[i]}
      BY <2>1, RangeAppend
    <2>4. ASSUME i <= k PROVE Alone(out[i], p)
      <3>1. Alone(out[i - 1], p)
        BY <1>2, <1>4, <2>4
      <3>2. Folded[list[i]] = Folded[p] => list[i] = p
        <4>1. i = k \/ i \in 1 .. k - 1
          BY <1>2, <2>4
        <4> QED
          BY <1>1, <1>b, <4>1, Zenon
      <3> QED
        BY <2>2, <2>3, <3>1, <3>2 DEF Alone
    <2>5. CASE i < k
      <3>1. ~(i >= k)
        BY <1>2, <2>5
      <3> QED
        BY <2>1, <2>4, <2>5, <3>1
    <2>6. CASE i = k
      <3>1. Alone(out[i - 1], list[i])
        BY <1>1, <1>2, <1>4, <2>6
      <3>2. p \in Range(out[i])
        BY <1>1, <1>2, <1>b, <2>6, <3>1
      <3>3. LeadsIn(out[i], p)
        BY <1>2, <1>b, <2>1, <2>4, <2>6, <3>2, LeadsAlone
      <3> QED
        BY <1>2, <2>1, <2>6, <3>3
    <2>7. CASE i > k
      <3>1. LeadsIn(out[i - 1], p)
        BY <1>2, <1>4, <2>7
      <3>2. LeadsIn(Append(out[i - 1], list[i]), p)
        BY <2>1, <3>1, LeadsAppend
      <3>3. LeadsIn(out[i], p)
        BY <2>2, <3>1, <3>2, Zenon
      <3>4. ~(i < k)
        BY <1>2, <2>7
      <3> QED
        BY <2>1, <3>3, <3>4
    <2> QED
      BY <1>2, <2>5, <2>6, <2>7
  <1>5. n \in T
    <2>1. n \in 0 .. n
      BY <1>2
    <2> HIDE DEF T, n
    <2> QED
      BY <1>2, <1>3, <1>4, <2>1, Induct, Zenon
  <1> QED
    BY <1>2, <1>5

\* parseCSVList keeps the leaders.
LEMMA CsvLeads ==
    ASSUME NEW S, NEW list \in Seq(S), NEW p, LeadsIn(list, p)
    PROVE  LeadsIn(ParseCSVList(list), p)
  <1>1. PICK out \in [0 .. Len(list) -> Seq(S)] :
             /\ out[0] = << >>
             /\ \A i \in 1 .. Len(list) : out[i] = PushNew(out[i - 1], list[i])
             /\ ParseCSVList(list) = out[Len(list)]
    BY CsvRuns
  <1>2. ASSUME NEW i \in 1 .. Len(list)
        PROVE  /\ out[i] \in {out[i - 1], Append(out[i - 1], list[i])}
               /\ ~Blank(list[i]) => list[i] \in Range(out[i])
    <2>1. i - 1 \in 0 .. Len(list) /\ out[i - 1] \in Seq(S)
      BY <1>1
    <2>2. list[i] \in Range(Append(out[i - 1], list[i]))
      BY <2>1, RangeAppend
    <2> QED
      BY <1>1, <2>2 DEF PushNew, Blank
  <1> QED
    BY <1>1, <1>2, LeadersKept

\* normalize_list keeps the leaders.
LEMMA NormalizeLeads ==
    ASSUME NEW S, NEW list \in Seq(S), NEW p, LeadsIn(list, p)
    PROVE  LeadsIn(NormalizeList(list), p)
  <1>1. PICK out \in [0 .. Len(list) -> Seq(S)] :
             /\ out[0] = << >>
             /\ \A i \in 1 .. Len(list) : out[i] = PushDistinct(out[i - 1], list[i])
             /\ NormalizeList(list) = out[Len(list)]
    BY NormalizeRuns
  <1>2. ASSUME NEW i \in 1 .. Len(list)
        PROVE  /\ out[i] \in {out[i - 1], Append(out[i - 1], list[i])}
               /\ ~Blank(list[i]) /\ Alone(out[i - 1], list[i]) => list[i] \in Range(out[i])
    <2>1. i - 1 \in 0 .. Len(list) /\ out[i - 1] \in Seq(S)
      BY <1>1
    <2>2. list[i] \in Range(Append(out[i - 1], list[i]))
      BY <2>1, RangeAppend
    <2> QED
      BY <1>1, <2>2 DEF PushDistinct, Alone, Blank
  <1> QED
    BY <1>1, <1>2, LeadersKept

\* A list of an annotation, as the rule has it: nothing new, and of every entry
\* that is not blank it or its twin, the one that leads.
LEMMA ListKept ==
    ASSUME NEW list, list \in Seq(Range(list))
    PROVE  LET kept == NormalizeList(ParseCSVList(list))
           IN  /\ Range(kept) \subseteq Listed(list)
               /\ \A p \in Listed(list) : \E x \in Range(kept) : Folded[x] = Folded[p]
               /\ \A k \in DOMAIN list : Leads(list, k) => list[k] \in Range(kept)
               /\ ParseCSVList(list) # << >> <=> Listed(list) # {}
  <1> DEFINE csv == ParseCSVList(list)
  <1>1. csv \in Seq(Range(list)) /\ Range(csv) = Listed(list)
    BY CsvKeeps
  <1> HIDE DEF csv
  <1>2. Listed(csv) = Listed(list)
    <2>1. Listed(csv) = Range(csv) \ {""}
      BY DEF Listed, Range
    <2> QED
      BY <1>1, <2>1 DEF Listed
  <1>3. csv # << >> <=> Range(csv) # {}
    <2>1. csv = << >> => Range(csv) = {}
      BY DEF Range
    <2>2. ASSUME csv # << >> PROVE Range(csv) # {}
      <3>1. 1 \in DOMAIN csv
        BY <1>1, <2>2
      <3>2. csv[1] \in Range(csv)
        BY <3>1 DEF Range
      <3> QED
        BY <3>2
    <2> QED
      BY <2>1, <2>2
  <1>4. /\ Range(NormalizeList(csv)) \subseteq Listed(csv)
        /\ \A p \in Listed(csv) : \E x \in Range(NormalizeList(csv)) : Folded[x] = Folded[p]
    BY <1>1, NormalizeKeeps
  <1>5. ASSUME NEW k \in DOMAIN list, Leads(list, k) PROVE list[k] \in Range(NormalizeList(csv))
    <2>1. LeadsIn(list, list[k])
      BY <1>5 DEF LeadsIn
    <2>2. LeadsIn(csv, list[k])
      BY <2>1, CsvLeads DEF csv
    <2>3. LeadsIn(NormalizeList(csv), list[k])
      BY <1>1, <2>2, NormalizeLeads
    <2> QED
      BY <2>3 DEF LeadsIn, Range
  <1> QED
    BY <1>1, <1>2, <1>3, <1>4, <1>5 DEF csv

----------------------------------------------------------------------------
(* Rewrites *)

\* Where the last "set" or "remove" of a list can be.
Deciding(ops) == {0} \union {i \in DOMAIN ops : ops[i].mode # "append"}

\* There is a last one.
LEMMA LastDecides ==
    ASSUME NEW S, NEW ops \in Seq(S)
    PROVE  Max(Deciding(ops)) \in Deciding(ops) /\ \A i \in Deciding(ops) : Max(Deciding(ops)) >= i
  <1> DEFINE n == Len(ops)
             D(k) == {0} \union {i \in 1 .. k : ops[i].mode # "append"}
             T == {k \in 0 .. n : \E m \in D(k) : \A i \in D(k) : m >= i}
  <1>1. n \in Nat /\ Deciding(ops) = D(n)
    BY DEF Deciding
  <1>2. 0 \in T
    <2>1. D(0) = {0} /\ 0 \in 0 .. n
      BY <1>1
    <2>2. \E m \in D(0) : \A i \in D(0) : m >= i
      BY <2>1
    <2> HIDE DEF D
    <2> QED
      BY <2>1, <2>2
  <1>3. ASSUME NEW k \in 1 .. n, k - 1 \in T PROVE k \in T
    <2>1. PICK m \in D(k - 1) : \A i \in D(k - 1) : m >= i
      BY <1>3
    <2>2. \A i : i \in D(k) <=> i \in D(k - 1) \/ (i = k /\ ops[k].mode # "append")
      BY <1>1
    <2>3. D(k - 1) \subseteq 0 .. k - 1
      BY <1>1
    <2> HIDE DEF D
    <2>4. CASE ops[k].mode = "append"
      <3>1. m \in D(k) /\ \A i \in D(k) : m >= i
        BY <2>1, <2>2, <2>4
      <3> QED
        BY <1>1, <3>1
    <2>5. CASE ops[k].mode # "append"
      <3>1. k \in D(k)
        BY <2>2, <2>5
      <3>2. ASSUME NEW i \in D(k) PROVE k >= i
        BY <1>1, <2>2, <2>3
      <3> QED
        BY <1>1, <3>1, <3>2
    <2> QED
      BY <2>4, <2>5
  <1>4. n \in T
    <2>1. n \in 0 .. n
      BY <1>1
    <2> HIDE DEF T, n
    <2> QED
      BY <1>1, <1>2, <1>3, <2>1, Induct, Zenon
  <1>5. \E m \in D(n) : \A i \in D(n) : m >= i
    BY <1>4
  <1> HIDE DEF D
  <1>6. \E m \in Deciding(ops) : \A i \in Deciding(ops) : m >= i
    BY <1>1, <1>5, Zenon
  <1> QED
    BY <1>6, Zenon DEF Max

\* It is the one that no later one follows.
LEMMA LastUnique ==
    ASSUME NEW S, NEW ops \in Seq(S), NEW m \in Deciding(ops), \A i \in Deciding(ops) : m >= i
    PROVE  Max(Deciding(ops)) = m
  <1>1. Deciding(ops) \subseteq Int
    BY DEF Deciding
  <1> QED
    BY <1>1, LastDecides

\* What it leaves, and what the "append"s after it add.
Left(ops, last, base) ==
    IF last = 0 THEN base ELSE IF ops[last].mode = "set" THEN << ops[last].value >> ELSE << >>
Added(ops, last) == [j \in 1 .. Len(ops) - last |-> ops[last + j].value]

\* Outcome in these terms.
LEMMA OutcomeIs ==
    ASSUME NEW ops, NEW base
    PROVE  Outcome(ops, base) = Left(ops, Max(Deciding(ops)), base) \o Added(ops, Max(Deciding(ops)))
  BY DEF Outcome, Deciding, Left, Added

\* No operations leave a header as it is.
LEMMA OutcomeEmpty ==
    ASSUME NEW V, NEW base \in Seq(V)
    PROVE  Outcome(<< >>, base) = base
  <1>1. 0 \in Deciding(<< >>) /\ \A i \in Deciding(<< >>) : 0 >= i
    BY DEF Deciding
  <1>2. Max(Deciding(<< >>)) = 0
    <2>1. << >> \in Seq({})
      OBVIOUS
    <2> QED
      BY <1>1, <2>1, LastUnique
  <1>3. Added(<< >>, 0) = << >>
    BY DEF Added
  <1>4. Left(<< >>, 0, base) = base
    BY DEF Left
  <1>5. base \o << >> = base
    OBVIOUS
  <1>6. Outcome(<< >>, base) = base \o << >>
    BY <1>2, <1>3, <1>4, OutcomeIs
  <1> QED
    BY <1>5, <1>6

\* A "set" or "remove" forgets what was.
LEMMA OutcomeDecided ==
    ASSUME NEW S, NEW ops \in Seq(S), NEW op \in S, NEW base, op.mode # "append"
    PROVE  /\ op.mode = "set" => Outcome(Append(ops, op), base) = << op.value >>
           /\ op.mode # "set" => Outcome(Append(ops, op), base) = << >>
  <1> DEFINE all == Append(ops, op)
             n == Len(ops) + 1
  <1>1. all \in Seq(S) /\ Len(all) = n /\ all[n] = op /\ n \in Nat /\ n # 0 /\ DOMAIN all = 1 .. n
    OBVIOUS
  <1> HIDE DEF all, n
  <1>2. n \in Deciding(all) /\ \A i \in Deciding(all) : n >= i
    BY <1>1 DEF Deciding
  <1>3. Max(Deciding(all)) = n
    BY <1>1, <1>2, LastUnique
  <1>4. Added(all, n) = << >>
    BY <1>1 DEF Added
  <1>5. << op.value >> \o << >> = << op.value >> /\ << >> \o << >> = << >>
    OBVIOUS
  <1>6. Outcome(all, base) = (IF op.mode = "set" THEN << op.value >> ELSE << >>) \o << >>
    <2>1. Left(all, n, base) = IF op.mode = "set" THEN << op.value >> ELSE << >>
      BY <1>1 DEF Left
    <2> QED
      BY <1>3, <1>4, <2>1, OutcomeIs
  <1> QED
    BY <1>5, <1>6 DEF all

\* Joining and appending.
LEMMA ConcatAppend ==
    ASSUME NEW V, NEW s \in Seq(V), NEW t \in Seq(V), NEW v \in V
    PROVE  s \o Append(t, v) = Append(s \o t, v)
  OBVIOUS

\* An "append" adds its value at the end.
LEMMA OutcomeAppended ==
    ASSUME NEW S, NEW ops \in Seq(S), NEW op \in S, NEW V, NEW base \in Seq(V), op.mode = "append",
           \A x \in S : x.value \in V
    PROVE  Outcome(Append(ops, op), base) = Append(Outcome(ops, base), op.value)
  <1> DEFINE all == Append(ops, op)
             n == Len(ops)
             last == Max(Deciding(ops))
  <1>1. all \in Seq(S) /\ Len(all) = n + 1 /\ all[n + 1] = op /\ n \in Nat /\ DOMAIN all = 1 .. n + 1
    OBVIOUS
  <1>2. DOMAIN ops = 1 .. n /\ \A i \in 1 .. n : all[i] = ops[i]
    OBVIOUS
  <1>3. last \in Deciding(ops) /\ \A i \in Deciding(ops) : last >= i
    BY LastDecides
  <1> HIDE DEF all, last
  <1>4. \A i : i \in Deciding(all) <=> i \in Deciding(ops)
    <2>1. \A i : i \in 1 .. n + 1 <=> i \in 1 .. n \/ i = n + 1
      BY <1>1
    <2> QED
      BY <1>1, <1>2, <2>1 DEF Deciding
  <1>5. Max(Deciding(all)) = last
    BY <1>1, <1>3, <1>4, LastUnique
  <1>6. last \in 0 .. n
    BY <1>1, <1>2, <1>3 DEF Deciding
  <1>7. Left(all, last, base) = Left(ops, last, base) /\ Left(ops, last, base) \in Seq(V)
    <2>1. CASE last = 0
      BY <2>1 DEF Left
    <2>2. CASE last # 0
      <3>1. last \in 1 .. n /\ ops[last] \in S /\ all[last] = ops[last]
        BY <1>2, <1>6, <2>2
      <3> QED
        BY <2>2, <3>1 DEF Left
    <2> QED
      BY <2>1, <2>2
  <1>8. ASSUME NEW j \in 1 .. n - last
        PROVE  ops[last + j].value \in V /\ all[last + j] = ops[last + j]
    <2>1. last + j \in 1 .. n
      BY <1>1, <1>6
    <2> QED
      BY <1>2, <2>1
  <1>9. Added(ops, last) \in Seq(V) /\ Len(Added(ops, last)) = n - last
    BY <1>1, <1>6, <1>8 DEF Added
  <1>10. Added(all, last) = Append(Added(ops, last), op.value)
    <2> DEFINE k == n - last
               t == Added(ops, last)
    <2>1. k \in Nat /\ Len(all) - last = k + 1 /\ last + (k + 1) = n + 1
      BY <1>1, <1>6
    <2>2. \A j \in 1 .. k : t[j] = ops[last + j].value
      BY DEF Added
    <2>3. t \in Seq(V) /\ Len(t) = k
      BY <1>9
    <2> HIDE DEF k, t
    <2>4. /\ DOMAIN Append(t, op.value) = 1 .. k + 1
          /\ \A j \in 1 .. k : Append(t, op.value)[j] = t[j]
          /\ Append(t, op.value)[k + 1] = op.value
      BY <2>1, <2>3
    <2>5. ASSUME NEW j \in 1 .. k + 1 PROVE all[last + j].value = Append(t, op.value)[j]
      <3>1. CASE j = k + 1
        BY <1>1, <2>1, <2>4, <3>1
      <3>2. CASE j # k + 1
        <4>1. j \in 1 .. k
          BY <2>1, <3>2
        <4> QED
          BY <1>8, <2>2, <2>4, <4>1 DEF k
      <3> QED
        BY <3>1, <3>2
    <2>6. Added(all, last) = [j \in 1 .. k + 1 |-> all[last + j].value]
      BY <2>1 DEF Added
    <2>7. Append(t, op.value) = [j \in 1 .. k + 1 |-> Append(t, op.value)[j]]
      BY <2>1, <2>3, <2>4
    <2> QED
      BY <2>5, <2>6, <2>7 DEF t
  <1>11. op.value \in V
    OBVIOUS
  <1>12. Outcome(all, base) = Left(ops, last, base) \o Append(Added(ops, last), op.value)
    BY <1>5, <1>7, <1>10, OutcomeIs
  <1>13. Outcome(ops, base) = Left(ops, last, base) \o Added(ops, last)
    BY OutcomeIs DEF last
  <1> QED
    BY <1>7, <1>9, <1>11, <1>12, <1>13, ConcatAppend DEF all

\* What build_header_rewrites accepts of the control plane's operations.
Valid(op) == op.name \in HeaderNames /\ op.mode \in {"set", "append", "remove"}

\* The last rewrite is applied to what the others made.
LEMMA ApplyAppend ==
    ASSUME NEW S, NEW list \in Seq(S), NEW op \in S, NEW h \in HeaderMaps, \A x \in S : Valid(x)
    PROVE  /\ ApplyHeaderRewrites(h, list) \in HeaderMaps
           /\ ApplyHeaderRewrites(h, Append(list, op)) = Rewrite(ApplyHeaderRewrites(h, list), op)
  <1> DEFINE n == Len(list)
             all == Append(list, op)
  <1>1. n \in Nat /\ all \in Seq(S) /\ Len(all) = n + 1 /\ all[n + 1] = op /\ \A i \in 1 .. n : all[i] = list[i]
    OBVIOUS
  <1>2. PICK g \in [0 .. n -> HeaderMaps] :
            /\ g[0] = h
            /\ \A i \in 1 .. n : g[i] = Rewrite(g[i - 1], list[i])
            /\ ApplyHeaderRewrites(h, list) = g[n]
    BY ApplyRuns DEF Valid
  <1> HIDE DEF all
  <1>3. PICK f \in [0 .. Len(all) -> HeaderMaps] :
            /\ f[0] = h
            /\ \A i \in 1 .. Len(all) : f[i] = Rewrite(f[i - 1], all[i])
            /\ ApplyHeaderRewrites(h, all) = f[Len(all)]
    BY <1>1, ApplyRuns DEF Valid
  <1> DEFINE T == {i \in 0 .. n : f[i] = g[i]}
  <1>4. 0 \in T
    BY <1>1, <1>2, <1>3
  <1>5. ASSUME NEW i \in 1 .. n, i - 1 \in T PROVE i \in T
    <2>1. i \in 1 .. Len(all) /\ i \in 0 .. n
      BY <1>1
    <2>2. f[i] = Rewrite(f[i - 1], list[i])
      BY <1>1, <1>3, <2>1
    <2> QED
      BY <1>2, <1>5, <2>1, <2>2
  <1>6. n \in T
    <2>1. n \in 0 .. n
      BY <1>1
    <2> HIDE DEF T, n
    <2> QED
      BY <1>1, <1>4, <1>5, <2>1, Induct, Zenon
  <1>7. f[n + 1] = Rewrite(f[n], op)
    <2>1. n + 1 \in 1 .. Len(all) /\ (n + 1) - 1 = n
      BY <1>1
    <2> QED
      BY <1>1, <1>3, <2>1
  <1>8. g[n] \in HeaderMaps /\ f[n] = g[n]
    BY <1>1, <1>2, <1>6
  <1> QED
    BY <1>1, <1>2, <1>3, <1>7, <1>8 DEF all

\* No rewrites leave the headers as they are.
LEMMA ApplyNone == ASSUME NEW h \in HeaderMaps PROVE ApplyHeaderRewrites(h, << >>) = h
  <1>1. << >> \in Seq({}) /\ Len(<< >>) = 0
    OBVIOUS
  <1>2. \A op \in {} : op.name \in HeaderNames /\ op.mode \in {"set", "append", "remove"}
    OBVIOUS
  <1> DEFINE none == << >>
  <1> HIDE DEF none
  <1>3. PICK f \in [0 .. Len(none) -> HeaderMaps] :
            /\ f[0] = h
            /\ \A i \in 1 .. Len(none) : f[i] = Rewrite(f[i - 1], none[i])
            /\ ApplyHeaderRewrites(h, none) = f[Len(none)]
    <2>1. none \in Seq({})
      BY <1>1 DEF none
    <2> QED
      BY <1>2, <2>1, ApplyRuns
  <1> QED
    BY <1>1, <1>3 DEF none

\* What a rewrite makes of the values of header n.
RewrittenTo(new, old, op, n) ==
    /\ op.name # n \/ (op.mode # "remove" /\ op.value \notin HeaderValues) => new = old
    /\ op.name = n /\ op.mode = "remove" => new = << >>
    /\ op.name = n /\ op.mode = "set" /\ op.value \in HeaderValues => new = << op.value >>
    /\ op.name = n /\ op.mode = "append" /\ op.value \in HeaderValues => new = Append(old, op.value)

\* One rewrite, header by header.
LEMMA RewriteOn ==
    ASSUME NEW h \in HeaderMaps, NEW op, Valid(op), NEW n \in HeaderNames
    PROVE  RewrittenTo(Rewrite(h, op)[n], h[n], op, n)
  <1>1. CASE op.mode = "remove"
    BY <1>1 DEF RewrittenTo, Rewrite, HeaderMaps, Valid
  <1>2. CASE op.mode = "set"
    BY <1>2 DEF RewrittenTo, Rewrite, HeaderMaps, Valid, Insert
  <1>3. CASE op.mode = "append"
    BY <1>3 DEF RewrittenTo, Rewrite, HeaderMaps, Valid
  <1> QED
    BY <1>1, <1>2, <1>3 DEF Valid

\* The rewrites of the rule make of a header what the operations of the annotation
\* on that header say.
LEMMA RewritesOnHeader ==
    ASSUME NEW S, NEW list \in Seq(S), \A op \in S : op.mode \in {"set", "append", "remove"},
           NEW h \in HeaderMaps, NEW n \in HeaderNames
    PROVE  /\ ApplyHeaderRewrites(h, BuildHeaderRewrites(list)) \in HeaderMaps
           /\ ApplyHeaderRewrites(h, BuildHeaderRewrites(list))[n] = Outcome(OperationsOn(n, list), h[n])
  <1> DEFINE Named == {HeaderRewriteRule(op) : op \in {x \in S : Folded[x.name] \in HeaderNames}}
  <1>1. PICK b \in [0 .. Len(list) -> Seq(Named)] :
            /\ b[0] = << >>
            /\ \A i \in 1 .. Len(list) : b[i] = PushNamed(b[i - 1], list[i])
            /\ BuildHeaderRewrites(list) = b[Len(list)]
    <2>1. \A op \in S : Folded[op.name] \in HeaderNames => HeaderRewriteRule(op) \in Named
      OBVIOUS
    <2> HIDE DEF Named
    <2> QED
      BY <2>1, BuildRuns
  <1>2. PICK o \in [0 .. Len(list) -> Seq(S)] :
            /\ o[0] = << >>
            /\ \A i \in 1 .. Len(list) : o[i] = PushOn(n, o[i - 1], list[i])
            /\ OperationsOn(n, list) = o[Len(list)]
    BY OnRuns
  <1> DEFINE N == Len(list)
             V == {op.value : op \in S} \union HeaderValues
             made(i) == ApplyHeaderRewrites(h, b[i])
             T == {i \in 0 .. N : made(i) \in HeaderMaps /\ made(i)[n] = Outcome(o[i], h[n])}
  <1>3. N \in Nat /\ h[n] \in Seq(HeaderValues) /\ h[n] \in Seq(V) /\ \A op \in S : op.value \in V
    BY DEF HeaderMaps
  <1>4. \A op \in Named : Valid(op)
    BY DEF Valid, HeaderRewriteRule
  <1> HIDE DEF Named
  <1>5. 0 \in T
    <2>1. made(0) = h
      BY <1>1, ApplyNone
    <2>2. Outcome(o[0], h[n]) = h[n]
      BY <1>2, <1>3, OutcomeEmpty
    <2>3. 0 \in 0 .. N
      BY <1>3
    <2> HIDE DEF made
    <2> QED
      BY <2>1, <2>2, <2>3
  <1>6. ASSUME NEW i \in 1 .. N, i - 1 \in T PROVE i \in T
    <2> DEFINE op == list[i]
               rw == HeaderRewriteRule(op)
               m == made(i - 1)
    <2>1. op \in S /\ op.mode \in {"set", "append", "remove"} /\ op.value \in V
      BY <1>3
    <2>2. /\ b[i - 1] \in Seq(Named) /\ m \in HeaderMaps /\ m[n] = Outcome(o[i - 1], h[n])
          /\ o[i - 1] \in Seq(S) /\ i \in 0 .. N
      <3>1. i \in 0 .. N /\ i - 1 \in 0 .. N
        BY <1>3
      <3> HIDE DEF made, m
      <3> QED
        BY <1>1, <1>2, <1>6, <3>1 DEF m
    <2>3. b[i] = PushNamed(b[i - 1], op) /\ o[i] = PushOn(n, o[i - 1], op)
      BY <1>1, <1>2
    <2> HIDE DEF T, V
    <2>4. CASE Folded[op.name] \notin HeaderNames
      <3>1. b[i] = b[i - 1] /\ o[i] = o[i - 1]
        BY <2>3, <2>4 DEF PushNamed, PushOn
      <3> QED
        BY <2>2, <3>1 DEF T
    <2>5. CASE Folded[op.name] \in HeaderNames
      <3>1. rw \in Named /\ Valid(rw)
        BY <1>4, <2>1, <2>5 DEF Named
      <3>2. b[i] = Append(b[i - 1], rw)
        BY <2>3, <2>5 DEF PushNamed
      <3>3. rw.name = Folded[op.name] /\ rw.mode = op.mode /\ rw.value = op.value
        BY DEF HeaderRewriteRule
      <3>4. made(i) = Rewrite(m, rw)
        <4> HIDE DEF rw
        <4> QED
          BY <1>4, <2>2, <3>1, <3>2, ApplyAppend
      <3> HIDE DEF made, m, rw, op
      <3>5. made(i) \in HeaderMaps
        BY <2>2, <3>1, <3>4, RewriteTyped DEF Valid
      <3>6. made(i)[n] = Outcome(o[i], h[n])
        <4>0. RewrittenTo(Rewrite(m, rw)[n], m[n], rw, n)
          BY <2>2, <3>1, RewriteOn, Zenon
        <4>1. CASE Folded[op.name] # n \/ (op.mode # "remove" /\ op.value \notin HeaderValues)
          <5>1. o[i] = o[i - 1]
            BY <2>3, <4>1 DEF PushOn
          <5>2. Rewrite(m, rw)[n] = m[n]
            BY <3>3, <4>0, <4>1 DEF RewrittenTo
          <5> QED
            BY <2>2, <3>4, <5>1, <5>2
        <4>2. CASE Folded[op.name] = n /\ op.mode = "remove"
          <5>1. o[i] = Append(o[i - 1], op)
            BY <2>3, <4>2 DEF PushOn
          <5>2. Rewrite(m, rw)[n] = << >>
            BY <3>3, <4>0, <4>2 DEF RewrittenTo
          <5>3. Outcome(o[i], h[n]) = << >>
            <6>1. op.mode # "append" /\ op.mode # "set"
              BY <4>2
            <6>2. Outcome(Append(o[i - 1], op), h[n]) = << >>
              BY <2>1, <2>2, <6>1, OutcomeDecided, SMT
            <6> QED
              BY <5>1, <6>2
          <5> QED
            BY <3>4, <5>2, <5>3
        <4>3. CASE Folded[op.name] = n /\ op.mode = "set" /\ op.value \in HeaderValues
          <5>1. o[i] = Append(o[i - 1], op)
            BY <2>3, <4>3 DEF PushOn
          <5>2. Rewrite(m, rw)[n] = << op.value >>
            BY <3>3, <4>0, <4>3 DEF RewrittenTo
          <5>3. Outcome(o[i], h[n]) = << op.value >>
            <6>1. op.mode # "append"
              BY <4>3
            <6>2. Outcome(Append(o[i - 1], op), h[n]) = << op.value >>
              BY <2>1, <2>2, <4>3, <6>1, OutcomeDecided, Zenon
            <6> QED
              BY <5>1, <6>2
          <5> QED
            BY <3>4, <5>2, <5>3
        <4>4. CASE Folded[op.name] = n /\ op.mode = "append" /\ op.value \in HeaderValues
          <5>1. o[i] = Append(o[i - 1], op)
            BY <2>3, <4>4 DEF PushOn
          <5>2. Rewrite(m, rw)[n] = Append(m[n], op.value)
            BY <3>3, <4>0, <4>4 DEF RewrittenTo
          <5>3. Outcome(o[i], h[n]) = Append(Outcome(o[i - 1], h[n]), op.value)
            BY <1>3, <2>1, <2>2, <4>4, <5>1, OutcomeAppended
          <5> QED
            BY <2>2, <3>4, <5>2, <5>3
        <4> QED
          BY <2>1, <4>1, <4>2, <4>3, <4>4
      <3> QED
        BY <2>2, <3>5, <3>6 DEF T
    <2> QED
      BY <2>4, <2>5
  <1>7. N \in T
    <2>1. N \in 0 .. N
      BY <1>3
    <2> HIDE DEF T, N
    <2> QED
      BY <1>3, <1>5, <1>6, <2>1, Induct, Zenon
  <1> QED
    BY <1>1, <1>2, <1>7

\* The rewrites of the rule, header by header.
LEMMA RewritesAsConfigured ==
    ASSUME ann \in Annotations, NEW h \in HeaderMaps
    PROVE  /\ ApplyHeaderRewrites(h, TheRule.rewrites) \in HeaderMaps
           /\ \A n \in HeaderNames :
                 ApplyHeaderRewrites(h, TheRule.rewrites)[n] = Outcome(OpsOn(n), h[n])
  <1> DEFINE list == IF KnownModes THEN ann.rewrites ELSE << >>
             S == Range(list)
  <1>1. TheRule.rewrites = BuildHeaderRewrites(list)
    <2>1. GetRequestHeaders(ann.rewrites) = list
      BY DEF GetRequestHeaders, KnownModes
    <2> QED
      BY <2>1, RuleFields DEF TheRule
  <1>2. list \in Seq(S) /\ \A op \in S : op.mode \in {"set", "append", "remove"}
    <2>1. CASE KnownModes
      <3>1. ann.rewrites \in Seq(Range(ann.rewrites))
        BY HeaderConstants
      <3> QED
        BY <2>1, <3>1 DEF KnownModes, Range
    <2>2. CASE ~KnownModes
      <3>1. << >> \in Seq(Range(<< >>)) /\ Range(<< >>) = {}
        BY DEF Range
      <3> QED
        BY <2>2, <3>1
    <2> QED
      BY <2>1, <2>2
  <1>3. \A n \in HeaderNames : OpsOn(n) = OperationsOn(n, list)
    BY DEF OpsOn
  <1> HIDE DEF list, S
  <1>4. ASSUME NEW n \in HeaderNames
        PROVE  /\ ApplyHeaderRewrites(h, BuildHeaderRewrites(list)) \in HeaderMaps
               /\ ApplyHeaderRewrites(h, BuildHeaderRewrites(list))[n] = Outcome(OperationsOn(n, list), h[n])
    BY <1>2, RewritesOnHeader
  <1>5. "host" \in HeaderNames
    BY HeaderConstants
  <1> QED
    BY <1>1, <1>3, <1>4, <1>5

\* Header n of a request whose headers, by authorization, have own there.
Base(n, own, tls) ==
    CASE n \in HopHeaders         -> << >>
      [] n = "host"               -> << "host" >>
      [] n = "x-forwarded-proto"  -> << IF tls THEN "https" ELSE "http" >>
      [] n = "x-forwarded-host"   -> IF own = << >> THEN << "host" >> ELSE own
      [] OTHER                    -> own

\* The headers new are old with n set to v.
SetTo(new, old, n, v) ==
    /\ new \in HeaderMaps /\ new[n] = << v >>
    /\ \A m \in HeaderNames : m # n => new[m] = old[m]

\* Setting a header.
LEMMA InsertSets ==
    ASSUME NEW h \in HeaderMaps, NEW n \in HeaderNames, NEW v \in HeaderValues
    PROVE  SetTo(Insert(h, n, v), h, n, v)
  <1>1. << v >> \in Seq(HeaderValues)
    OBVIOUS
  <1> QED
    BY <1>1 DEF Insert, HeaderMaps, SetTo

\* Dropping the hop-by-hop headers.
LEMMA HopsRemoved ==
    ASSUME NEW h \in HeaderMaps
    PROVE  /\ RemoveHopHeaders(h) \in HeaderMaps
           /\ \A n \in HeaderNames : RemoveHopHeaders(h)[n] = IF n \in HopHeaders THEN << >> ELSE h[n]
  <1>1. << >> \in Seq(HeaderValues)
    OBVIOUS
  <1> QED
    BY <1>1 DEF RemoveHopHeaders, HeaderMaps

\* What the proxy makes of the headers, one by one.
LEMMA HandledHeaders ==
    ASSUME NEW h \in HeaderMaps, NEW tls
    PROVE  /\ HandleReqUpstream(h, tls) \in HeaderMaps
           /\ \A n \in HeaderNames : HandleReqUpstream(h, tls)[n] = Base(n, h[n], tls)
  <1> DEFINE a == RemoveHopHeaders(h)
             b == Insert(a, "host", "host")
             v == IF tls THEN "https" ELSE "http"
             p == Insert(b, "x-forwarded-proto", v)
             z == IF p["x-forwarded-host"] = << >> THEN Insert(p, "x-forwarded-host", "host") ELSE p
  <1>1. /\ {"host", "x-forwarded-proto", "x-forwarded-host"} \subseteq HeaderNames \ HopHeaders
        /\ "host" \in HeaderValues /\ v \in HeaderValues
    BY HeaderConstants
  <1>2. HandleReqUpstream(h, tls) = z
    BY DEF HandleReqUpstream, AddForwardHeaders
  <1>3. a \in HeaderMaps /\ \A n \in HeaderNames : a[n] = IF n \in HopHeaders THEN << >> ELSE h[n]
    BY HopsRemoved
  <1> HIDE DEF a
  <1>4. SetTo(b, a, "host", "host")
    <2>1. "host" \in HeaderNames
      BY <1>1
    <2> QED
      BY <1>1, <1>3, <2>1, InsertSets, Zenon
  <1> HIDE DEF b, v
  <1>5. SetTo(p, b, "x-forwarded-proto", v)
    <2>1. "x-forwarded-proto" \in HeaderNames /\ b \in HeaderMaps
      BY <1>1, <1>4 DEF SetTo
    <2> QED
      BY <1>1, <2>1, InsertSets, Zenon
  <1> HIDE DEF p
  <1>6. /\ z \in HeaderMaps
        /\ \A n \in HeaderNames : n # "x-forwarded-host" => z[n] = p[n]
        /\ z["x-forwarded-host"] = IF p["x-forwarded-host"] = << >> THEN << "host" >> ELSE p["x-forwarded-host"]
    <2>1. p \in HeaderMaps /\ "x-forwarded-host" \in HeaderNames
      BY <1>1, <1>5 DEF SetTo
    <2>2. SetTo(Insert(p, "x-forwarded-host", "host"), p, "x-forwarded-host", "host")
      BY <1>1, <2>1, InsertSets, Zenon
    <2>3. CASE p["x-forwarded-host"] = << >>
      BY <2>2, <2>3 DEF SetTo
    <2>4. CASE p["x-forwarded-host"] # << >>
      BY <2>1, <2>4
    <2> QED
      BY <2>3, <2>4
  <1> HIDE DEF z
  <1>7. ASSUME NEW n \in HeaderNames PROVE z[n] = Base(n, h[n], tls)
    <2>1. CASE n \in HopHeaders
      <3>1. z[n] = << >>
        BY <1>1, <1>3, <1>4, <1>5, <1>6, <2>1 DEF SetTo
      <3>2. n # "host" /\ n # "x-forwarded-proto" /\ n # "x-forwarded-host"
        BY <1>1, <2>1
      <3> QED
        BY <2>1, <3>1, <3>2 DEF Base
    <2>2. CASE n = "host"
      BY <1>1, <1>4, <1>5, <1>6, <2>2 DEF Base, SetTo
    <2>3. CASE n = "x-forwarded-proto"
      BY <1>1, <1>5, <1>6, <2>3 DEF Base, v, SetTo
    <2>4. CASE n = "x-forwarded-host"
      <3>1. p[n] = h[n]
        BY <1>1, <1>3, <1>4, <1>5, <2>4 DEF SetTo
      <3> QED
        BY <1>1, <1>6, <2>4, <3>1 DEF Base
    <2>5. CASE n \notin HopHeaders /\ n # "host" /\ n # "x-forwarded-proto" /\ n # "x-forwarded-host"
      <3>1. z[n] = h[n]
        BY <1>3, <1>4, <1>5, <1>6, <2>5 DEF SetTo
      <3> QED
        BY <2>5, <3>1 DEF Base
    <2> QED
      BY <2>1, <2>2, <2>3, <2>4, <2>5
  <1> QED
    BY <1>2, <1>6, <1>7

\* What the rule says of authorization, in terms of the annotations.
LEMMA AuthFields ==
    ASSUME ann \in Annotations
    PROVE  LET a == TheRule.auth
           IN  /\ a.url = ann.url /\ a.signin = ann.signin /\ a.cookie = ann.cookie
               /\ Range(a.skip) \subseteq Listed(ann.skip)
               /\ \A i \in DOMAIN ann.skip : Leads(ann.skip, i) => ann.skip[i] \in Range(a.skip)
               /\ Range(a.resp) \subseteq Listed(ann.resp)
               /\ \A p \in Listed(ann.resp) : \E x \in Range(a.resp) : Folded[x] = Folded[p]
               /\ a.set <=> \/ ann.url # "" \/ ann.signin # "" \/ ann.cookie # ""
                            \/ Listed(ann.skip) \union Listed(ann.resp) # {}
  <1>1. TheRule.auth = BuildAuthRuntime(AuthOf(ann))
    BY RuleFields DEF TheRule
  <1>2. ann.resp \in Seq(Range(ann.resp)) /\ ann.skip \in Seq(Range(ann.skip))
    BY HeaderConstants
  <1>3. /\ TheRule.auth.url = ann.url /\ TheRule.auth.signin = ann.signin
        /\ TheRule.auth.cookie = ann.cookie
        /\ TheRule.auth.resp = NormalizeList(ParseCSVList(ann.resp))
        /\ TheRule.auth.skip = NormalizeList(ParseCSVList(ann.skip))
    BY <1>1 DEF BuildAuthRuntime, AuthOf
  <1>4. /\ Range(TheRule.auth.skip) \subseteq Listed(ann.skip)
        /\ \A i \in DOMAIN ann.skip : Leads(ann.skip, i) => ann.skip[i] \in Range(TheRule.auth.skip)
        /\ ParseCSVList(ann.skip) # << >> <=> Listed(ann.skip) # {}
    BY <1>2, <1>3, ListKept
  <1>5. /\ Range(TheRule.auth.resp) \subseteq Listed(ann.resp)
        /\ \A p \in Listed(ann.resp) : \E x \in Range(TheRule.auth.resp) : Folded[x] = Folded[p]
        /\ ParseCSVList(ann.resp) # << >> <=> Listed(ann.resp) # {}
    BY <1>2, <1>3, ListKept
  <1>6. ASSUME NEW list, Listed(list) # {} PROVE list # << >>
    <2>1. Listed(<< >>) = {}
      BY DEF Listed
    <2> QED
      BY <1>6, <2>1
  <1>7. TheRule.auth.set <=>
          /\ \/ ann.url # "" \/ ann.signin # "" \/ ann.resp # << >> \/ ann.skip # << >> \/ ann.cookie # ""
          /\ \/ ann.url # "" \/ ann.signin # "" \/ ann.cookie # ""
             \/ ParseCSVList(ann.resp) # << >> \/ ParseCSVList(ann.skip) # << >>
    <2> DEFINE a == AuthOf(ann)
               some == \/ a.url # "" \/ a.signin # "" \/ a.cookie # ""
                       \/ a.resp # << >> \/ a.skip # << >>
    <2>1. /\ a.url = ann.url /\ a.signin = ann.signin /\ a.cookie = ann.cookie
          /\ a.resp = ParseCSVList(ann.resp) /\ a.skip = ParseCSVList(ann.skip)
      BY DEF AuthOf
    <2>2. a.set = (ann.url # "" \/ ann.signin # "" \/ ann.resp # << >> \/ ann.skip # << >> \/ ann.cookie # "")
      BY Zenon DEF AuthOf
    <2>3. BuildAuthRuntime(a).set = (a.set /\ some)
      <3>1. /\ DOMAIN a = {"set", "url", "signin", "cookie", "resp", "skip"}
        BY DEF AuthOf
      <3> QED
        BY <3>1, Zenon DEF BuildAuthRuntime
    <2> HIDE DEF a
    <2> QED
      BY <1>1, <2>1, <2>2, <2>3, Zenon DEF a
  <1>8. TheRule.auth.set <=> \/ ann.url # "" \/ ann.signin # "" \/ ann.cookie # ""
                             \/ Listed(ann.skip) \union Listed(ann.resp) # {}
    BY <1>4, <1>5, <1>6, <1>7
  <1> QED
    BY <1>3, <1>4, <1>5, <1>8

----------------------------------------------------------------------------
(* The attempts send the same *)

Sending == {"send", "wait"}

\* The snapshot is what the first attempt sends, and stands for every attempt made;
\* a second one is only made if it has no body to lose.
AttemptInv ==
    /\ req \in Requests \union {NoRequest}
    /\ pc \in Sending => captured = Outgoing(hdrs)
    /\ sent \in Seq({captured})
    /\ pc \in {"config", "ready", "auth", "prepare"} => sent = << >>
    /\ pc = "send" /\ sent # << >> => captured.body = FALSE

\* Before the first request nothing was sent.
LEMMA InitAttempt == Init => AttemptInv
  BY DEF Init, AttemptInv, Sending

\* A request's body is there or not.
LEMMA BodyKnown == ASSUME AttemptInv PROVE req.body \in BOOLEAN
  <1>1. CASE req \in Requests
    BY <1>1, RequestBodies
  <1>2. CASE req = NoRequest
    <2>1. NoRequest.body = FALSE
      BY DEF NoRequest
    <2> QED
      BY <1>2, <2>1
  <1> QED
    BY <1>1, <1>2 DEF AttemptInv

\* Steps that are not attempts keep it.
LEMMA OthersKeep ==
    ASSUME AttemptInv,
           \/ Configure
           \/ \E q \in Requests : Receive(q)
           \/ AuthSpared \/ AuthRedirectFirst \/ AuthUnusable
           \/ \E h \in ResponseHeaders : AuthGranted(h)
           \/ \E a \in AuthAnswers \ {"2xx"} : AuthDenied(a)
           \/ \E h \in ResponseHeaders : Respond(h)
           \/ Return
           \/ UNCHANGED vars
    PROVE  AttemptInv'
  <1>1. CASE Return
    BY <1>1 DEF Return, Reset, AttemptInv, Sending
  <1>2. ASSUME NEW q \in Requests, Receive(q) PROVE AttemptInv'
    BY <1>2 DEF Receive, AttemptInv, Sending
  <1>3. CASE Configure
    BY <1>3 DEF Configure, AttemptInv, Sending
  <1>4. CASE AuthSpared \/ \E h \in ResponseHeaders : AuthGranted(h)
    BY <1>4 DEF AuthSpared, AuthGranted, Asks, confVars, AttemptInv, Sending
  <1>5. CASE \/ AuthRedirectFirst \/ AuthUnusable
             \/ \E a \in AuthAnswers \ {"2xx"} : AuthDenied(a)
    BY <1>5 DEF AuthRedirectFirst, AuthUnusable, AuthDenied, Asks, Redirect, Text, AttemptInv, Sending
  <1>6. CASE \E h \in ResponseHeaders : Respond(h)
    BY <1>6 DEF Respond, AttemptInv, Sending
  <1>7. CASE UNCHANGED vars
    BY <1>7 DEF vars, AttemptInv, Outgoing
  <1> QED
    BY <1>1, <1>2, <1>3, <1>4, <1>5, <1>6, <1>7

\* The snapshot is captured when the request is as it will be sent.
LEMMA PrepareKeeps == AttemptInv /\ Prepare => AttemptInv'
  BY DEF Prepare, AttemptInv, Sending, Outgoing, confVars

\* An attempt sends the snapshot, the first one and every later one.
LEMMA SendKeeps ==
    ASSUME AttemptInv, Send
    PROVE  AttemptInv'
  <1>1. captured = Outgoing(hdrs)
    BY DEF Send, AttemptInv, Sending
  <1>2. ASSUME sent # << >> PROVE [captured EXCEPT !.body = FALSE] = captured
    BY <1>1, <1>2 DEF Send, AttemptInv, Outgoing
  <1>3. sent' = Append(sent, captured)
    BY <1>1, <1>2 DEF Send
  <1>4. sent' \in Seq({captured'})
    BY <1>3 DEF Send, AttemptInv
  <1> QED
    BY <1>1, <1>4 DEF Send, AttemptInv, Sending, Outgoing, confVars

\* After a failure there is another attempt only if the body is empty.
LEMMA FailureKeeps ==
    ASSUME AttemptInv, AttemptFails
    PROVE  AttemptInv'
  <1>1. CASE MayRetry /\ pc' = "send" /\ UNCHANGED <<confVars, req, hdrs, captured, sent, answer, back>>
    <2>1. captured = Outgoing(hdrs)
      BY DEF AttemptFails, AttemptInv, Sending
    <2>2. captured.body = FALSE
      BY <1>1, <2>1, BodyKnown DEF MayRetry, Outgoing
    <2> QED
      BY <1>1, <2>1, <2>2 DEF AttemptInv, Sending, Outgoing, confVars
  <1>2. CASE ~MayRetry /\ Text("502")
    BY <1>2 DEF Text, AttemptInv, Sending
  <1> QED
    BY <1>1, <1>2 DEF AttemptFails

\* AttemptInv is invariant.
LEMMA AttemptInvariant == Spec => []AttemptInv
  <1>1. AttemptInv /\ [Next]_vars => AttemptInv'
    BY OthersKeep, PrepareKeeps, SendKeeps, FailureKeeps DEF Next
  <1> QED
    BY <1>1, InitAttempt, PTL DEF Spec

\* Whatever happened to a request before it was first sent, a retry sends the same.
THEOREM RetriesSendTheSame == Spec => []SameEveryTime
  <1>1. AttemptInv => SameEveryTime
    BY DEF AttemptInv, SameEveryTime
  <1> QED
    BY <1>1, AttemptInvariant, PTL

----------------------------------------------------------------------------
(* Types and settings *)

\* The handler's variables at every point of it; the rule is made from the
\* annotations, whatever they are.
FlowInv ==
    /\ pc \in {"config", "ready", "auth", "prepare", "send", "wait", "answered"}
    /\ ann \in Annotations
    /\ rule = IF pc = "config" THEN << >> ELSE << TheRule >>
    /\ req \in Requests \union {NoRequest}
    /\ hdrs \in HeaderMaps /\ captured.headers \in HeaderMaps /\ back \in HeaderMaps
    /\ asked.status \in AuthAnswers \union {"none"} /\ asked.headers \in HeaderMaps
    /\ answer \in {"none", "302", "401", "502", "upstream"}
    /\ pc # "answered" => answer = "none"
    /\ pc \in {"config", "ready", "auth"} => asked = NotAsked

\* The empty headers.
LEMMA NoHeadersTyped ==
    /\ NoHeaders \in HeaderMaps
    /\ NotAsked.status = "none" /\ NotAsked.headers \in HeaderMaps
    /\ NoOutgoing.headers \in HeaderMaps
    /\ NoRequest.headers \in HeaderMaps /\ NoRequest.body = FALSE
  <1>1. << >> \in Seq(HeaderValues)
    OBVIOUS
  <1>2. NoHeaders \in HeaderMaps
    BY <1>1 DEF NoHeaders, HeaderMaps
  <1> QED
    BY <1>2 DEF NotAsked, NoOutgoing, NoRequest

\* The policy of a cluster is one the data plane knows.
LEMMA RuleEntered == LbParsed(ParseAnnotations(ann).lb)
  BY DEF LbParsed, ParseAnnotations, LbAlgorithm

\* An authorization answer makes headers of headers.
LEMMA CopyTyped ==
    ASSUME hdrs \in HeaderMaps, NEW h \in HeaderMaps
    PROVE  CopyAuthHeaders(h) \in HeaderMaps
  <1>1. ASSUME NEW n \in HeaderNames, h[n] # << >> PROVE << Head(h[n]) >> \in Seq(HeaderValues)
    <2>1. h[n] \in Seq(HeaderValues)
      BY DEF HeaderMaps
    <2>2. Head(h[n]) \in HeaderValues
      BY <1>1, <2>1
    <2> QED
      BY <2>2
  <1>2. \A n \in HeaderNames : hdrs[n] \in Seq(HeaderValues)
    BY DEF HeaderMaps
  <1> QED
    BY <1>1, <1>2 DEF CopyAuthHeaders, HeaderMaps

\* It holds before the cluster is configured.
LEMMA FlowInit == Init => FlowInv
  BY NoHeadersTyped DEF Init, FlowInv

\* Steps of authorization.
LEMMA FlowAuth ==
    ASSUME FlowInv,
           \/ AuthSpared \/ AuthRedirectFirst \/ AuthUnusable
           \/ \E h \in ResponseHeaders : AuthGranted(h)
           \/ \E a \in AuthAnswers \ {"2xx"} : AuthDenied(a)
    PROVE  FlowInv'
  <1>1. ann' = ann => TheRule' = TheRule
    BY DEF TheRule
  <1>2. CASE AuthSpared
    BY <1>1, <1>2 DEF AuthSpared, confVars, FlowInv
  <1>3. CASE AuthRedirectFirst \/ AuthUnusable
    BY <1>1, <1>3 DEF AuthRedirectFirst, AuthUnusable, Redirect, Text, confVars, FlowInv
  <1>4. ASSUME NEW h \in ResponseHeaders, AuthGranted(h) PROVE FlowInv'
    <2>1. h \in HeaderMaps
      BY HeaderConstants
    <2>2. hdrs' \in HeaderMaps
      BY <1>4, <2>1, CopyTyped DEF AuthGranted, FlowInv
    <2>3. asked'.status = "2xx" /\ asked'.headers = h /\ "2xx" \in AuthAnswers
      BY <1>4 DEF AuthGranted, AuthAnswers
    <2> QED
      BY <1>1, <1>4, <2>1, <2>2, <2>3 DEF AuthGranted, Asks, confVars, FlowInv
  <1>5. ASSUME NEW a \in AuthAnswers \ {"2xx"}, AuthDenied(a) PROVE FlowInv'
    <2>1. asked'.status = a /\ asked'.headers \in HeaderMaps
      BY <1>5, NoHeadersTyped DEF AuthDenied, NotAsked
    <2>2. /\ pc = "auth" /\ pc' = "answered" /\ answer' \in {"302", "401", "502"}
          /\ ann' = ann /\ rule' = rule /\ req' = req /\ hdrs' = hdrs /\ captured' = captured
          /\ sent' = sent /\ back' = back
      BY <1>5 DEF AuthDenied, Asks, Redirect, Text, confVars
    <2> QED
      BY <1>1, <2>1, <2>2 DEF FlowInv
  <1> QED
    BY <1>2, <1>3, <1>4, <1>5

\* The other steps.
LEMMA FlowOther ==
    ASSUME FlowInv,
           \/ Configure \/ \E q \in Requests : Receive(q)
           \/ Prepare \/ Send \/ AttemptFails
           \/ \E h \in ResponseHeaders : Respond(h)
           \/ Return
           \/ UNCHANGED vars
    PROVE  FlowInv'
  <1>1. ann' = ann => TheRule' = TheRule
    BY DEF TheRule
  <1>2. CASE Configure
    <2>1. ann' = ann /\ rule' = << TheRule >>
      BY <1>2, RuleEntered DEF Configure, TheRule
    <2> QED
      BY <1>1, <1>2, <2>1 DEF Configure, FlowInv
  <1>3. ASSUME NEW q \in Requests, Receive(q) PROVE FlowInv'
    <2>1. q.headers \in HeaderMaps
      BY HeaderConstants
    <2> QED
      BY <1>1, <1>3, <2>1 DEF Receive, confVars, FlowInv
  <1>4. CASE Prepare
    <2>1. HandleReqUpstream(hdrs, req.tls) \in HeaderMaps
      BY HandledHeaders DEF FlowInv
    <2>2. rule[1] = TheRule
      BY <1>4 DEF Prepare, FlowInv
    <2>3. hdrs' \in HeaderMaps
      BY <1>4, <2>1, <2>2, RewritesAsConfigured DEF Prepare, FlowInv
    <2>4. captured'.headers = hdrs'
      BY <1>4 DEF Prepare, Outgoing
    <2> QED
      BY <1>1, <1>4, <2>3, <2>4 DEF Prepare, confVars, FlowInv
  <1>5. CASE Send
    BY <1>1, <1>5 DEF Send, confVars, FlowInv
  <1>6. CASE AttemptFails
    BY <1>1, <1>6 DEF AttemptFails, Text, confVars, FlowInv
  <1>7. ASSUME NEW h \in ResponseHeaders, Respond(h) PROVE FlowInv'
    <2>1. RemoveHopHeaders(h) \in HeaderMaps
      BY HopsRemoved, HeaderConstants
    <2> QED
      BY <1>1, <1>7, <2>1 DEF Respond, confVars, FlowInv
  <1>8. CASE Return
    BY <1>1, <1>8, NoHeadersTyped DEF Return, Reset, confVars, FlowInv
  <1>9. CASE UNCHANGED vars
    BY <1>1, <1>9 DEF vars, FlowInv
  <1> QED
    BY <1>2, <1>3, <1>4, <1>5, <1>6, <1>7, <1>8, <1>9

\* FlowInv is invariant.
LEMMA FlowInvariant == Spec => []FlowInv
  <1>1. FlowInv /\ [Next]_vars => FlowInv'
    BY FlowAuth, FlowOther DEF Next
  <1> QED
    BY <1>1, FlowInit, PTL DEF Spec

\* Whatever the annotations are, the handler's variables keep their types.
THEOREM ForwardingTypeCorrect == Spec => []TypeOK
  <1>1. FlowInv => TypeOK
    BY RuleKeepsSettings DEF FlowInv, TypeOK, TheRule
  <1> QED
    BY <1>1, FlowInvariant, PTL

\* Every Ingress gets a cluster, with the timeout its annotations name if it is in
\* the documented range, and the protocol if it is spelled in lower case.
THEOREM SettingsSurvive == Spec => []SettingsKept
  <1>1. FlowInv => SettingsKept
    BY RuleKeepsSettings DEF FlowInv, SettingsKept, TheRule
  <1> QED
    BY <1>1, FlowInvariant, PTL

----------------------------------------------------------------------------
(* The number of attempts *)

\* How far the attempts have come.
RetryInv ==
    /\ pc = "send" => Len(sent) < Attempts(TheRule) /\ (req.body => sent = << >>)
    /\ pc = "wait" => sent # << >>
    /\ req.body => Len(sent) <= 1
    /\ Len(sent) <= Attempts(TheRule)
    /\ answer = "502" /\ sent # << >> /\ ~req.body => Len(sent) >= Attempts(TheRule)

\* Before anything is sent there is nothing to count.
LEMMA NothingSent ==
    ASSUME ann \in Annotations, sent = << >>, pc # "wait"
    PROVE  RetryInv
  BY AttemptsAsked DEF RetryInv

\* A request is attempted at least once and at most ten times.
LEMMA AttemptsBounded ==
    ASSUME FlowInv
    PROVE  Attempts(TheRule) \in 1 .. 10
  <1>1. ann \in Annotations
    BY DEF FlowInv
  <1>2. PICK a, b : a = Attempts(TheRule) /\ b = AskedRetries /\ a \in 1 .. b /\ b \in 1 .. 10
    BY <1>1, AttemptsAsked
  <1> QED
    BY <1>2

\* A step up to the first attempt, or the handler's return.
LEMMA RetryEarly ==
    ASSUME FlowInv, AttemptInv, FlowInv', AttemptInv',
           \/ Configure \/ \E q \in Requests : Receive(q)
           \/ AuthSpared \/ AuthRedirectFirst \/ AuthUnusable
           \/ \E h \in ResponseHeaders : AuthGranted(h)
           \/ \E a \in AuthAnswers \ {"2xx"} : AuthDenied(a)
           \/ Prepare \/ Return
    PROVE  RetryInv'
  <1>1. ann' \in Annotations
    BY DEF FlowInv
  <1>2. sent' = << >> /\ pc' # "wait"
    <2>1. CASE Return
      BY <2>1 DEF Return, Reset
    <2>2. CASE Configure \/ (\E q \in Requests : Receive(q)) \/ AuthSpared \/ Prepare
      BY <2>2 DEF Configure, Receive, AuthSpared, Prepare, AttemptInv
    <2>3. CASE AuthRedirectFirst \/ AuthUnusable
      BY <2>3 DEF AuthRedirectFirst, AuthUnusable, Asks, Redirect, Text, AttemptInv
    <2>4. CASE \E h \in ResponseHeaders : AuthGranted(h)
      BY <2>4 DEF AuthGranted, Asks, AttemptInv
    <2>5. CASE \E a \in AuthAnswers \ {"2xx"} : AuthDenied(a)
      BY <2>5 DEF AuthDenied, Asks, Redirect, Text, AttemptInv
    <2> QED
      BY <2>1, <2>2, <2>3, <2>4, <2>5
  <1>3. Attempts(TheRule)' = Attempts(TheRule) /\ Attempts(TheRule) \in 1 .. 10
    <2>1. ann' = ann
      <3>1. CASE Configure \/ (\E q \in Requests : Receive(q)) \/ AuthSpared \/ Prepare \/ Return
        BY <3>1 DEF Configure, Receive, AuthSpared, Prepare, Return, confVars
      <3>2. CASE AuthRedirectFirst \/ AuthUnusable \/ \E h \in ResponseHeaders : AuthGranted(h)
        BY <3>2 DEF AuthRedirectFirst, AuthUnusable, AuthGranted, Redirect, Text, confVars
      <3>3. CASE \E a \in AuthAnswers \ {"2xx"} : AuthDenied(a)
        BY <3>3 DEF AuthDenied, Redirect, Text, confVars
      <3> QED
        BY <3>1, <3>2, <3>3
    <2>2. TheRule' = TheRule
      BY <2>1 DEF TheRule
    <2>3. Attempts(TheRule) \in 1 .. 10
      BY AttemptsBounded
    <2> QED
      BY <2>2, <2>3
  <1> QED
    BY <1>2, <1>3 DEF RetryInv

\* An attempt, and what may follow it.
LEMMA RetryAttempt ==
    ASSUME FlowInv, AttemptInv, RetryInv,
           Send \/ AttemptFails \/ (\E h \in ResponseHeaders : Respond(h)) \/ UNCHANGED vars
    PROVE  RetryInv'
  <1>1. ann' = ann /\ req' = req
    BY DEF Send, AttemptFails, Text, Respond, vars, confVars
  <1>2. Attempts(TheRule)' = Attempts(TheRule) /\ Attempts(TheRule) \in 1 .. 10
    <2>1. TheRule' = TheRule
      BY <1>1 DEF TheRule
    <2>2. Attempts(TheRule) \in 1 .. 10
      BY AttemptsBounded
    <2> QED
      BY <2>1, <2>2
  <1>3. Len(sent) \in Nat /\ sent \in Seq({captured}) /\ (Len(sent) = 0 <=> sent = << >>)
    BY DEF AttemptInv
  <1>4. CASE Send
    <2>1. Len(sent') = Len(sent) + 1
      BY <1>3, <1>4 DEF Send
    <2>2. sent' # << >>
      BY <1>3, <1>4 DEF Send
    <2>3. pc = "send" /\ pc' = "wait" /\ answer' = answer /\ answer = "none"
      BY <1>4 DEF Send, FlowInv
    <2> QED
      BY <1>1, <1>2, <1>3, <2>1, <2>2, <2>3 DEF RetryInv
  <1>5. CASE AttemptFails
    <2>1. pc = "wait" /\ sent' = sent /\ sent # << >> /\ rule[1] = TheRule
      BY <1>5 DEF AttemptFails, Text, FlowInv, RetryInv
    <2>2. captured.body = req.body /\ req.body \in BOOLEAN
      BY <2>1, BodyKnown DEF AttemptInv, Sending, Outgoing
    <2>3. MayRetry <=> Len(sent) < Attempts(TheRule) /\ ~req.body
      BY <2>1, <2>2 DEF MayRetry
    <2>5. CASE MayRetry /\ pc' = "send" /\ answer' = answer
      BY <1>1, <1>2, <1>3, <2>1, <2>2, <2>3, <2>5 DEF RetryInv, FlowInv
    <2>6. CASE ~MayRetry /\ pc' = "answered"
      BY <1>1, <1>2, <1>3, <2>1, <2>2, <2>3, <2>6 DEF RetryInv
    <2> QED
      BY <1>5, <2>5, <2>6 DEF AttemptFails, Text
  <1>6. ASSUME NEW h \in ResponseHeaders, Respond(h) PROVE RetryInv'
    BY <1>1, <1>2, <1>6 DEF Respond, RetryInv
  <1>7. CASE UNCHANGED vars
    BY <1>2, <1>7 DEF vars, RetryInv
  <1> QED
    BY <1>4, <1>5, <1>6, <1>7

\* RetryInv is invariant.
LEMMA RetryInvariant == Spec => []RetryInv
  <1>1. Init => RetryInv
    BY NothingSent DEF Init
  <1>2. FlowInv /\ AttemptInv /\ RetryInv /\ FlowInv' /\ AttemptInv' /\ [Next]_vars => RetryInv'
    BY RetryEarly, RetryAttempt DEF Next
  <1> QED
    BY <1>1, <1>2, FlowInvariant, AttemptInvariant, PTL DEF Spec

\* A request is tried no more often than its annotation says, and as often when all
\* attempts fail, for any number an int holds; with a body, once.
THEOREM RetriesAsConfigured == Spec => []RetriedAsSet
  <1>1. FlowInv /\ AttemptInv /\ RetryInv => RetriedAsSet
    <2> SUFFICES ASSUME FlowInv, AttemptInv, RetryInv PROVE RetriedAsSet
      OBVIOUS
    <2>1. req.body \in BOOLEAN
      BY BodyKnown
    <2>2. /\ Attempts(TheRule) \in 1 .. AskedRetries /\ AskedRetries \in 1 .. 10
          /\ ann.retries.n <= MaxInt => Attempts(TheRule) = AskedRetries
      BY AttemptsAsked DEF FlowInv
    <2>3. Len(sent) \in Nat
      BY DEF AttemptInv
    <2> QED
      BY <2>1, <2>2, <2>3 DEF RetryInv, RetriedAsSet
  <1> QED
    BY <1>1, FlowInvariant, AttemptInvariant, RetryInvariant, PTL

----------------------------------------------------------------------------
(* The headers *)

\* Header n after authorization.
OwnOf(n) ==
    IF /\ asked.status = "2xx" /\ asked.headers[n] # << >>
       /\ \E i \in DOMAIN ann.resp : ann.resp[i] # "" /\ Folded[ann.resp[i]] = n
    THEN << Head(asked.headers[n]) >> ELSE req.headers[n]

\* The headers at every point: the client's, those authorization leaves, and the
\* captured ones, which are the annotation's.
HeaderInv ==
    /\ pc = "auth" => hdrs = req.headers
    /\ pc = "prepare" => \A n \in HeaderNames : hdrs[n] = OwnOf(n)
    /\ pc \in Sending \/ sent # << >> =>
          \A n \in HeaderNames : captured.headers[n] = Outcome(OpsOn(n), BaseOf(n))
    /\ \A n \in HopHeaders : back[n] = << >>

\* BaseOf is what the proxy makes of OwnOf.
LEMMA BaseOfOwn == \A n : BaseOf(n) = Base(n, OwnOf(n), req.tls)
  BY DEF BaseOf, Base, OwnOf

\* Copying the answer's headers.
LEMMA CopyOn ==
    ASSUME FlowInv, pc = "auth", hdrs = req.headers, NEW h \in HeaderMaps, NEW n \in HeaderNames
    PROVE  CopyAuthHeaders(h)[n] =
             IF h[n] # << >> /\ \E i \in DOMAIN ann.resp : ann.resp[i] # "" /\ Folded[ann.resp[i]] = n
             THEN << Head(h[n]) >> ELSE req.headers[n]
  <1> DEFINE resp == TheRule.auth.resp
  <1>1. auth.resp = resp
    BY DEF auth, FlowInv
  <1>2. /\ Range(resp) \subseteq Listed(ann.resp)
        /\ \A p \in Listed(ann.resp) : \E x \in Range(resp) : Folded[x] = Folded[p]
    BY AuthFields DEF FlowInv
  <1> HIDE DEF resp
  <1>3. (\E i \in DOMAIN resp : Folded[resp[i]] = n) <=> \E x \in Range(resp) : Folded[x] = n
    BY Zenon DEF Range
  <1>4. (\E i \in DOMAIN ann.resp : ann.resp[i] # "" /\ Folded[ann.resp[i]] = n)
          <=> \E p \in Listed(ann.resp) : Folded[p] = n
    BY DEF Listed
  <1>5. (\E x \in Range(resp) : Folded[x] = n) <=> \E p \in Listed(ann.resp) : Folded[p] = n
    BY <1>2
  <1> QED
    BY <1>1, <1>3, <1>4, <1>5 DEF CopyAuthHeaders

\* Before the first request no headers came back.
LEMMA HeaderInit == Init => HeaderInv
  <1>1. \A n \in HopHeaders : NoHeaders[n] = << >>
    BY HeaderConstants DEF NoHeaders
  <1> QED
    BY <1>1 DEF Init, HeaderInv, Sending

\* Authorization leaves the headers as OwnOf says.
LEMMA HeaderAuth ==
    ASSUME FlowInv, AttemptInv, HeaderInv,
           \/ AuthSpared \/ AuthRedirectFirst \/ AuthUnusable
           \/ \E h \in ResponseHeaders : AuthGranted(h)
           \/ \E a \in AuthAnswers \ {"2xx"} : AuthDenied(a)
    PROVE  HeaderInv'
  <1>1. /\ pc = "auth" /\ sent = << >> /\ sent' = sent /\ back' = back /\ req' = req /\ ann' = ann
        /\ hdrs = req.headers
    BY DEF AuthSpared, AuthRedirectFirst, AuthUnusable, AuthGranted, AuthDenied, Asks,
           Redirect, Text, AttemptInv, confVars, HeaderInv
  <1>2. CASE AuthSpared
    <2>1. asked' = NotAsked /\ hdrs' = hdrs /\ pc' = "prepare"
      BY <1>2 DEF AuthSpared, FlowInv
    <2>2. asked'.status # "2xx"
      BY <2>1 DEF NotAsked
    <2> QED
      BY <1>1, <2>1, <2>2 DEF HeaderInv, OwnOf, Sending
  <1>3. CASE AuthRedirectFirst \/ AuthUnusable \/ \E a \in AuthAnswers \ {"2xx"} : AuthDenied(a)
    <2>1. pc' = "answered"
      BY <1>3 DEF AuthRedirectFirst, AuthUnusable, AuthDenied, Redirect, Text
    <2> QED
      BY <1>1, <2>1 DEF HeaderInv, Sending
  <1>4. ASSUME NEW h \in ResponseHeaders, AuthGranted(h) PROVE HeaderInv'
    <2>1. h \in HeaderMaps
      BY HeaderConstants
    <2>2. asked'.status = "2xx" /\ asked'.headers = h /\ hdrs' = CopyAuthHeaders(h) /\ pc' = "prepare"
      BY <1>4 DEF AuthGranted
    <2>3. \A n \in HeaderNames : hdrs'[n] = OwnOf(n)'
      BY <1>1, <2>1, <2>2, CopyOn DEF OwnOf
    <2> QED
      BY <1>1, <2>2, <2>3 DEF HeaderInv, Sending
  <1> QED
    BY <1>2, <1>3, <1>4

\* The snapshot has the headers the annotation asks for.
LEMMA HeaderPrepare ==
    ASSUME FlowInv, AttemptInv, HeaderInv, Prepare
    PROVE  HeaderInv'
  <1> DEFINE h == HandleReqUpstream(hdrs, req.tls)
  <1>1. /\ pc = "prepare" /\ pc' = "send" /\ sent' = sent /\ back' = back /\ req' = req /\ ann' = ann
        /\ asked' = asked /\ rule[1] = TheRule
    BY DEF Prepare, confVars, FlowInv
  <1>2. h \in HeaderMaps /\ \A n \in HeaderNames : h[n] = Base(n, hdrs[n], req.tls)
    BY HandledHeaders DEF FlowInv
  <1>3. captured'.headers = ApplyHeaderRewrites(h, TheRule.rewrites)
    BY <1>1 DEF Prepare, Outgoing
  <1> HIDE DEF h
  <1>4. ASSUME NEW n \in HeaderNames PROVE captured'.headers[n] = Outcome(OpsOn(n), BaseOf(n))
    <2>1. ApplyHeaderRewrites(h, TheRule.rewrites)[n] = Outcome(OpsOn(n), h[n])
      BY <1>2, RewritesAsConfigured DEF FlowInv
    <2>2. h[n] = BaseOf(n)
      BY <1>1, <1>2, BaseOfOwn DEF HeaderInv
    <2> QED
      BY <1>3, <2>1, <2>2
  <1>5. \A n : OpsOn(n)' = OpsOn(n) /\ BaseOf(n)' = BaseOf(n)
    BY <1>1 DEF OpsOn, KnownModes, BaseOf
  <1> QED
    BY <1>1, <1>4, <1>5 DEF HeaderInv

\* The other steps leave the snapshot, and what it is compared with, alone.
LEMMA HeaderOther ==
    ASSUME FlowInv, AttemptInv, HeaderInv, RetryInv,
           \/ Configure \/ \E q \in Requests : Receive(q)
           \/ Send \/ AttemptFails
           \/ \E h \in ResponseHeaders : Respond(h)
           \/ Return
           \/ UNCHANGED vars
    PROVE  HeaderInv'
  <1>1. CASE Configure \/ \E q \in Requests : Receive(q)
    <2>1. sent' = << >> /\ back' = back /\ pc' \in {"ready", "auth"} /\ (pc' = "auth" => hdrs' = req'.headers)
      BY <1>1 DEF Configure, Receive, AttemptInv
    <2> QED
      BY <2>1 DEF HeaderInv, Sending
  <1>2. CASE Return
    <2>1. \A n \in HopHeaders : NoHeaders[n] = << >>
      BY HeaderConstants DEF NoHeaders
    <2> QED
      BY <1>2, <2>1 DEF Return, Reset, HeaderInv, Sending
  <1>3. ASSUME ann' = ann, req' = req, asked' = asked
        PROVE  \A n : OpsOn(n)' = OpsOn(n) /\ BaseOf(n)' = BaseOf(n) /\ OwnOf(n)' = OwnOf(n)
    BY <1>3 DEF OpsOn, KnownModes, BaseOf, OwnOf
  <1>4. CASE Send \/ AttemptFails
    <2>1. /\ ann' = ann /\ req' = req /\ asked' = asked /\ captured' = captured /\ back' = back
          /\ pc \in Sending /\ pc' \in {"send", "wait", "answered"}
      BY <1>4 DEF Send, AttemptFails, Text, confVars, Sending
    <2> QED
      BY <1>3, <2>1 DEF HeaderInv
  <1>5. ASSUME NEW h \in ResponseHeaders, Respond(h) PROVE HeaderInv'
    <2>1. /\ ann' = ann /\ req' = req /\ asked' = asked /\ captured' = captured
          /\ pc \in Sending /\ pc' = "answered" /\ back' = RemoveHopHeaders(h)
      BY <1>5 DEF Respond, confVars, Sending
    <2>2. \A n \in HopHeaders : back'[n] = << >>
      BY <2>1, HopsRemoved, HeaderConstants
    <2> QED
      BY <1>3, <2>1, <2>2 DEF HeaderInv
  <1>6. CASE UNCHANGED vars
    <2>1. /\ ann' = ann /\ req' = req /\ asked' = asked /\ captured' = captured /\ back' = back
          /\ pc' = pc /\ sent' = sent /\ hdrs' = hdrs
      BY <1>6 DEF vars
    <2> QED
      BY <1>3, <2>1 DEF HeaderInv
  <1> QED
    BY <1>1, <1>2, <1>4, <1>5, <1>6

\* HeaderInv is invariant.
LEMMA HeaderInvariant == Spec => []HeaderInv
  <1>1. FlowInv /\ AttemptInv /\ RetryInv /\ HeaderInv /\ [Next]_vars => HeaderInv'
    BY HeaderAuth, HeaderPrepare, HeaderOther DEF Next
  <1> QED
    BY <1>1, HeaderInit, FlowInvariant, AttemptInvariant, RetryInvariant, PTL DEF Spec

\* What was sent has the headers of the snapshot.
LEMMA SentIsCaptured ==
    ASSUME AttemptInv, NEW i \in DOMAIN sent
    PROVE  sent[i] = captured /\ sent # << >>
  BY DEF AttemptInv

\* Whatever the rewrites, the request and the authorization answer are, a backend
\* gets every header as the annotation says.
THEOREM HeadersFollowAnnotations == Spec => []HeadersAsConfigured
  <1>1. AttemptInv /\ HeaderInv => HeadersAsConfigured
    BY SentIsCaptured DEF HeaderInv, HeadersAsConfigured
  <1> QED
    BY <1>1, AttemptInvariant, HeaderInvariant, PTL

\* Hop-by-hop headers stay on their connection, unless a rewrite adds one.
THEOREM HopHeadersStay == Spec => []HopByHop
  <1>1. AttemptInv /\ HeaderInv => HopByHop
    <2> SUFFICES ASSUME AttemptInv, HeaderInv PROVE HopByHop
      OBVIOUS
    <2>1. ASSUME NEW n \in HopHeaders, NEW i \in DOMAIN sent, OpsOn(n) = << >>
          PROVE  sent[i].headers[n] = << >>
      <3>1. n \in HeaderNames
        BY HeaderConstants
      <3>2. sent[i].headers[n] = Outcome(OpsOn(n), BaseOf(n))
        BY <3>1, SentIsCaptured DEF HeaderInv
      <3>3. BaseOf(n) = << >>
        <4>1. n # "host" /\ n # "x-forwarded-proto" /\ n # "x-forwarded-host"
          BY HeaderConstants
        <4> QED
          BY <4>1 DEF BaseOf
      <3>4. << >> \in Seq({})
        OBVIOUS
      <3>5. Outcome(<< >>, << >>) = << >>
        BY <3>4, OutcomeEmpty
      <3> QED
        BY <2>1, <3>2, <3>3, <3>5
    <2> QED
      BY <2>1 DEF HeaderInv, HopByHop
  <1> QED
    BY <1>1, AttemptInvariant, HeaderInvariant, PTL

----------------------------------------------------------------------------
(* Authorization *)

\* The path is one the rule lets pass.
SkipsPath == \E p \in Range(TheRule.auth.skip) : p \in Prefixes[req.path]

\* What authorization has decided.
AuthInv ==
    /\ pc \in {"prepare", "send", "wait"} \/ sent # << >> =>
          ~TheRule.auth.set \/ SkipsPath \/ asked.status = "2xx"
    /\ asked # NotAsked \/ answer \in {"302", "401"} => ~SkipsPath
    /\ answer = "302" => ann.signin # ""
    /\ asked # NotAsked => ~(ann.cookie # "" /\ ann.signin # "" /\ req.cookie \in {"absent", "other"})

\* The guards of the handler, in terms of the annotations.
LEMMA AuthGuards ==
    ASSUME FlowInv, pc = "auth"
    PROVE  /\ auth = TheRule.auth
           /\ Skipped <=> SkipsPath
           /\ RedirectedFirst <=> (ann.cookie # "" /\ ann.signin # "" /\ req.cookie \in {"absent", "other"})
           /\ auth.signin = ann.signin
  <1>1. auth = TheRule.auth
    BY DEF auth, FlowInv
  <1>2. TheRule.auth.signin = ann.signin /\ TheRule.auth.cookie = ann.cookie
    BY AuthFields DEF FlowInv
  <1>3. Skipped <=> SkipsPath
    BY <1>1, Zenon DEF Skipped, SkipsPath, Range
  <1> QED
    BY <1>1, <1>2, <1>3 DEF RedirectedFirst

\* A step of authorization.
LEMMA AuthSteps ==
    ASSUME FlowInv, AttemptInv, AuthInv,
           \/ AuthSpared \/ AuthRedirectFirst \/ AuthUnusable
           \/ \E h \in ResponseHeaders : AuthGranted(h)
           \/ \E a \in AuthAnswers \ {"2xx"} : AuthDenied(a)
    PROVE  AuthInv'
  <1>1. /\ pc = "auth" /\ sent = << >> /\ sent' = sent /\ req' = req /\ ann' = ann
        /\ asked = NotAsked /\ answer = "none"
    BY DEF AuthSpared, AuthRedirectFirst, AuthUnusable, AuthGranted, AuthDenied, Asks,
           Redirect, Text, AttemptInv, confVars, FlowInv
  <1>2. TheRule' = TheRule /\ SkipsPath' = SkipsPath
    BY <1>1 DEF TheRule, SkipsPath
  <1>3. CASE AuthSpared
    <2>1. asked' = asked /\ answer' = answer /\ (~TheRule.auth.set \/ SkipsPath)
      BY <1>1, <1>3, AuthGuards DEF AuthSpared
    <2> QED
      BY <1>1, <1>2, <2>1 DEF AuthInv
  <1>4. CASE AuthRedirectFirst
    <2>1. asked' = asked /\ answer' = "302" /\ ~SkipsPath /\ ann.signin # "" /\ pc' = "answered"
      BY <1>1, <1>4, AuthGuards DEF AuthRedirectFirst, Redirect, Text
    <2> QED
      BY <1>1, <1>2, <2>1 DEF AuthInv
  <1>5. CASE AuthUnusable
    <2>1. asked' = asked /\ answer' = "502" /\ pc' = "answered"
      BY <1>5 DEF AuthUnusable, Text
    <2> QED
      BY <1>1, <1>2, <2>1 DEF AuthInv
  <1>6. ASSUME NEW h \in ResponseHeaders, AuthGranted(h) PROVE AuthInv'
    <2>1. /\ asked'.status = "2xx" /\ answer' = answer /\ ~SkipsPath
          /\ ~(ann.cookie # "" /\ ann.signin # "" /\ req.cookie \in {"absent", "other"})
      BY <1>1, <1>6, AuthGuards DEF AuthGranted, Asks
    <2> QED
      BY <1>1, <1>2, <2>1 DEF AuthInv
  <1>7. ASSUME NEW a \in AuthAnswers \ {"2xx"}, AuthDenied(a) PROVE AuthInv'
    <2>1. /\ pc' = "answered" /\ ~SkipsPath /\ (answer' = "302" => ann.signin # "")
          /\ ~(ann.cookie # "" /\ ann.signin # "" /\ req.cookie \in {"absent", "other"})
      BY <1>1, <1>7, AuthGuards DEF AuthDenied, Asks, Redirect, Text
    <2> QED
      BY <1>1, <1>2, <2>1 DEF AuthInv
  <1> QED
    BY <1>3, <1>4, <1>5, <1>6, <1>7

\* The other steps.
LEMMA AuthOther ==
    ASSUME FlowInv, AttemptInv, AuthInv,
           \/ Configure \/ \E q \in Requests : Receive(q)
           \/ Prepare \/ Send \/ AttemptFails
           \/ \E h \in ResponseHeaders : Respond(h)
           \/ Return
           \/ UNCHANGED vars
    PROVE  AuthInv'
  <1>1. CASE Configure \/ \E q \in Requests : Receive(q)
    <2>1. sent' = << >> /\ pc' \in {"ready", "auth"} /\ asked' = NotAsked /\ answer' = "none"
      BY <1>1 DEF Configure, Receive, AttemptInv, FlowInv
    <2> QED
      BY <2>1 DEF AuthInv
  <1>2. CASE Return
    BY <1>2 DEF Return, Reset, AuthInv
  <1>3. CASE Prepare \/ Send \/ AttemptFails \/ (\E h \in ResponseHeaders : Respond(h)) \/ UNCHANGED vars
    <2>1. ann' = ann /\ req' = req /\ asked' = asked
      BY <1>3 DEF Prepare, Send, AttemptFails, Respond, Text, confVars, vars
    <2>2. TheRule' = TheRule /\ SkipsPath' = SkipsPath
      BY <2>1 DEF TheRule, SkipsPath
    <2>3. answer' = answer \/ answer' \in {"502", "upstream"}
      BY <1>3 DEF Prepare, Send, AttemptFails, Respond, Text, vars
    <2>4. pc \in {"prepare", "send", "wait"} \/ (pc' = pc /\ sent' = sent)
      BY <1>3 DEF Prepare, Send, AttemptFails, Respond, vars
    <2> QED
      BY <2>1, <2>2, <2>3, <2>4 DEF AuthInv
  <1> QED
    BY <1>1, <1>2, <1>3

\* AuthInv is invariant.
LEMMA AuthInvariant == Spec => []AuthInv
  <1>1. Init => AuthInv
    BY DEF Init, AuthInv
  <1>2. FlowInv /\ AttemptInv /\ AuthInv /\ [Next]_vars => AuthInv'
    BY AuthSteps, AuthOther DEF Next
  <1> QED
    BY <1>1, <1>2, FlowInvariant, AttemptInvariant, PTL DEF Spec

\* Authorization is honoured whatever lists, URLs and cookies the annotations have; of
\* listed paths that differ in case only, the first is the one that is skipped.
THEOREM AuthorizationHonoured == Spec => []AuthHonoured
  <1>1. FlowInv /\ AuthInv => AuthHonoured
    <2> SUFFICES ASSUME FlowInv, AuthInv PROVE AuthHonoured
      OBVIOUS
    <2> DEFINE skip == Range(TheRule.auth.skip)
               wanted == \/ ann.url # "" \/ ann.signin # "" \/ ann.cookie # ""
                         \/ Listed(ann.skip) \union Listed(ann.resp) # {}
    <2>1. /\ skip \subseteq Listed(ann.skip)
          /\ \A i \in DOMAIN ann.skip : Leads(ann.skip, i) => ann.skip[i] \in skip
          /\ TheRule.auth.set <=> wanted
      BY AuthFields DEF FlowInv
    <2>2. SkipsPath => Listed(ann.skip) \intersect Prefixes[req.path] # {}
      BY <2>1 DEF SkipsPath
    <2>3. ASSUME NEW i \in DOMAIN ann.skip, Leads(ann.skip, i), ann.skip[i] \in Prefixes[req.path]
          PROVE  SkipsPath
      BY <2>1, <2>3 DEF SkipsPath
    <2> HIDE DEF skip
    <2> QED
      BY <2>1, <2>2, <2>3 DEF AuthInv, AuthHonoured
  <1> QED
    BY <1>1, FlowInvariant, AuthInvariant, PTL

=============================================================================
