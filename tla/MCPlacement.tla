---------------------------- MODULE MCPlacement ----------------------------
(* Instances of Placement for TLC.                                          *)
EXTENDS Placement, TLC

CONSTANTS p1, p2

Large == [cores |-> 4, store |-> 2]
\* Hypervisors with room for everything, and hypervisors that run out of
\* cores and, one of them, of space.
MCCaps == {p1 :> Large @@ p2 :> Large,
           p1 :> [cores |-> 2, store |-> 1] @@ p2 :> [cores |-> 3, store |-> 2]}
\* Room for one large node each.
TightCaps == {p1 :> [cores |-> 2, store |-> 2] @@ p2 :> [cores |-> 2, store |-> 2]}
RoomyCaps == {p1 :> Large @@ p2 :> Large}
=============================================================================
