----------------------------- MODULE MCRouting -----------------------------
EXTENDS Routing, TLC

\* "" and "h"
MCHosts == {<<>>, <<104>>}
\* "/", "/a", "/A" and "/ab"
MCPaths == {<<47>>, <<47, 97>>, <<47, 65>>, <<47, 97, 98>>}
\* "h", "H." and "x"
MCRequestHosts == {<<104>>, <<72, 46>>, <<120>>}
\* those, and "/b"
MCRequestPaths == MCPaths \union {<<47, 98>>}

\* Backends are only passed on.
Symmetry == Permutations(Backends)

============================================================================
