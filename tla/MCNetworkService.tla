-------------------------- MODULE MCNetworkService --------------------------
(* NetworkService with two VM nodes and a HW node.                         *)
EXTENDS NetworkService

CONSTANTS n1, n2, h1

\* No node asks for an address.
MCNoTargets == [n \in VmNode |-> NoIp]
=============================================================================
