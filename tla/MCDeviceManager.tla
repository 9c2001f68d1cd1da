-------------------------- MODULE MCDeviceManager --------------------------
(* A hub and a device behind it *)
EXTENDS DeviceManager

CONSTANTS hub, leaf, none

MCPaths == {hub, leaf}
MCParent == [p \in Paths |-> IF p = leaf THEN hub ELSE NoPath]
MCRank == [p \in Paths |-> IF p = leaf THEN 2 ELSE 1]
MCBoot == {{}, {hub}, {hub, leaf}}
MCHubOrBothAtBoot == {{hub}, {hub, leaf}}
MCHubAtBoot == {{hub}}
MCNoPaths == {}
MCHub == {hub}
MCAllow == {"allow"}
MCAllowBlock == {"allow", "block"}
MCAllRules == {"allow", "block", "reject"}
MCNoTargets == {}
=============================================================================
