-------------------------- MODULE MCAdministration --------------------------
(* A hub, a device behind it, and a device at another port *)
EXTENDS Administration

CONSTANTS hub, leaf, port, none

MCPaths == {hub, leaf, port}
MCParent == [p \in Paths |-> IF p = leaf THEN hub ELSE NoPath]
MCRank == [p \in Paths |-> IF p = leaf THEN 3 ELSE IF p = port THEN 2 ELSE 1]
MCBoot == {{hub, port}, {hub, leaf, port}}
MCNoPaths == {}
MCAllowBlock == {"allow", "block"}
MCAllRules == {"allow", "block", "reject"}
MCQueries == {"match", "block", "reject"}
=============================================================================
