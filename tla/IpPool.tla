------------------------------- MODULE IpPool -------------------------------
(***************************************************************************)
(* What the IPAM of a subnet promises (network/ipam.py, class Ipam): every *)
(* address is free or in use, an address is handed out only while it is    *)
(* free, and an address that comes back is free again.  How the free       *)
(* addresses are stored is left to Ipam.                                   *)
(***************************************************************************)
EXTENDS Integers

CONSTANT Addresses        \* the addresses the subnet may hand out

VARIABLES free,           \* addresses that may be handed out
          held            \* addresses some port of the subnet uses

vars == <<free, held>>

Init == free = Addresses /\ held = {}

(* A port that already exists, or that names its address, takes it whether *)
(* or not the pool offers it.                                              *)
Take(a) == /\ free' = free \ {a}
           /\ held' = held \union {a}

(* The pool chooses: always the smallest free address.                     *)
Offer == \E a \in free : /\ \A b \in free : a <= b
                         /\ Take(a)

Release(a) == /\ a \in held
              /\ free' = free \union {a}
              /\ held' = held \ {a}

Next == \/ Offer
        \/ \E a \in held' : Take(a)
        \/ \E a \in held : Release(a)

Spec == Init /\ [][Next]_vars

(* No address is on offer while a port uses it.                            *)
FreeNotHeld == free \intersect held = {}
=============================================================================
