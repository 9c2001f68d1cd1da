------------------------------ MODULE MCPolicy ------------------------------
(* Instances of Policy for TLC. *)
EXTENDS PolicyRefinement

CONSTANTS d1, d2, p1, p2, h1

MCDevices == {d1, d2}
MCPorts == {p1, p2}
MCParents == {h1}

B(devs, ports, cond, target) ==
  [devs |-> devs, ports |-> ports, parents |-> MCParents, cond |-> cond,
   target |-> target]

\* A rule for every device, a rule for one device at one port, and a rule for
\* one device with a condition
AnyDevice == B(MCDevices, MCPorts, FALSE, "block")
OneDevice == B({d1}, {p1}, FALSE, "allow")
Conditional == B({d1}, MCPorts, TRUE, "reject")

MCBodies == {Conditional}

MCInitialFiles == {<< <<OneDevice>>, <<AnyDevice>> >>,
                   << <<Conditional>>, <<OneDevice>> >>}

At(d, p) == [dev |-> d, port |-> p, parent |-> h1]

MCDecisions == {<<At(d1, p1), "allow">>, <<At(d1, p2), "block">>,
                <<At(d2, p1), "allow">>}

MCImplicitTargets == {"allow"}
=============================================================================
