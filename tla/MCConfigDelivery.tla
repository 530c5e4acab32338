-------------------------- MODULE MCConfigDelivery --------------------------
(* Instances of ConfigDelivery for TLC.                                     *)
EXTENDS ConfigDelivery, TLC

CONSTANTS n1, n2, n3, p

\* Configs of one file: 1 and 2 meet on node n1, which is also in the set
\* that 2 describes; 3 has a node of its own.
MCPathOf == [c \in Config |-> p]
MCTargetOf == 1 :> "vm" @@ 2 :> "set" @@ 3 :> "other vm"
MCNodesOf == "vm" :> {n1} @@ "set" :> {n1, n2} @@ "other vm" :> {n3}

\* Two configs of the same file on the same node, one after the other.
OneTarget == [c \in Config |-> "vm"]
OneNode == "vm" :> {n1}
=============================================================================
