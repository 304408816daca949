----------------------------- MODULE MCServers -----------------------------
EXTENDS Servers, TLC

Bundle(names, cert, key) == [sni |-> names, cert |-> cert, chain |-> TRUE, key |-> key]

\* "a.x" has a bundle of its own in the second snapshot only, "*.x" in both; the
\* bundles name hosts twice, and an unusable one comes last.
TwoSnapshots ==
    << << Bundle({"*.x"}, "star1", TRUE), Bundle({"*.x"}, "star2", TRUE) >>,
       << Bundle({"a.x"}, "a1", TRUE), Bundle({"a.x"}, "a2", TRUE),
          Bundle({"a.x"}, "broken", FALSE) >> >>

Parents == "a.x" :> "*.x" @@ "x" :> "none"

=============================================================================
